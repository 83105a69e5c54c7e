--------------------------- MODULE InventoryAdmin ---------------------------
(***************************************************************************)
(* What InventoryService does to the stores: get_inventory, which fills    *)
(* the Redis counter from PostgreSQL when it is missing, and               *)
(* set_inventory, with which a vendor sets the inventory and which cancels *)
(* orders when it is lowered below what is sold.  Each await is a step.    *)
(*                                                                         *)
(* This module only has the steps of these tasks: alone they have nothing  *)
(* to disagree with.  OrderSystem composes them with orders and defines    *)
(* the specification and the properties.                                   *)
(*                                                                         *)
(* A get_inventory that finds the counter is a read and is not modelled.   *)
(* A menu whose inventory was never set is one offered with no units: every*)
(* statement that looks for its row finds either none or one it cannot     *)
(* change.                                                                 *)
(***************************************************************************)
EXTENDS Stores

CONSTANTS
    Admins,     \* the tasks
    Capacity,   \* bound: the largest inventory a vendor sets
    Crashes     \* whether a task may die between two awaits

VARIABLES
    pc,     \* pc[a]:   the next await of task a
    task    \* task[a]: the local variables of task a

Steps == {"new", "query", "warm", "read", "list", "cancel", "restore",
          "increment", "cache_status", "reread", "upsert", "overwrite",
          "done", "refused", "dead", "half_set"}

Listed == [order : Orders, quantity : Quantities]

NoOrder == [order |-> "none", quantity |-> 0]

(***************************************************************************)
(*   want    the quantity set_inventory was called with                    *)
(*   seen    what was read last: sold_quantity, or by get_inventory        *)
(*           remaining_quantity                                            *)
(*   short   units that still have to be cancelled                         *)
(*   next    the listed orders still to come, now the one being cancelled, *)
(*           as they were read; units of now still to be restored          *)
(***************************************************************************)
Locals ==
    [want : 0..Capacity, seen : Int, short : Int,
     next : SUBSET Listed, now : Listed \cup {NoOrder}, units : 0..MaxQty]

Fresh == [want |-> 0, seen |-> 0, short |-> 0,
          next |-> {}, now |-> NoOrder, units |-> 0]

TypeOK ==
    /\ StoresTypeOK
    /\ pc \in [Admins -> Steps]
    /\ task \in [Admins -> Locals]

Idle ==
    /\ pc = [a \in Admins |-> "new"]
    /\ task = [a \in Admins |-> Fresh]

Active(a) == pc[a] \notin {"new", "done", "refused", "dead", "half_set"}

Goto(a, step) == pc' = [pc EXCEPT ![a] = step]

\* The task has answered; its local variables are gone.
Answer(a, step) == Goto(a, step) /\ task' = [task EXCEPT ![a] = Fresh]

-----------------------------------------------------------------------------
(***************************************************************************)
(* get_inventory.                                                          *)
(***************************************************************************)
CacheMiss(a) ==
    /\ pc[a] = "new"
    /\ stock = NoKey
    /\ Goto(a, "query")
    /\ UNCHANGED <<stores, task>>

QueryRemaining(a) ==
    /\ pc[a] = "query"
    /\ task' = [task EXCEPT ![a].seen = inv.remaining]
    /\ Goto(a, "warm")
    /\ UNCHANGED stores

\* Plausible bug: the counter is warmed with the whole inventory.
WarmWithMax(a) ==
    /\ pc[a] = "warm"
    /\ stock' = inv.max
    /\ Answer(a, "done")
    /\ UNCHANGED <<cache, row, inv>>

WarmCache(a) ==
    /\ pc[a] = "warm"
    /\ stock' = task[a].seen
    /\ Answer(a, "done")
    /\ UNCHANGED <<cache, row, inv>>

-----------------------------------------------------------------------------
(***************************************************************************)
(* set_inventory, _cancel_overflow_orders and _cancel_order_force.         *)
(***************************************************************************)
SetInventory(a, qty) ==
    /\ pc[a] = "new"
    /\ task' = [task EXCEPT ![a].want = qty]
    /\ Goto(a, "read")
    /\ UNCHANGED stores

ReadSold(a) ==
    LET overflow == inv.sold - task[a].want
    IN  /\ pc[a] = "read"
        /\ task' = [task EXCEPT ![a].seen = inv.sold, ![a].short = overflow]
        /\ Goto(a, IF overflow > 0 THEN "list" ELSE "upsert")
        /\ UNCHANGED stores

ConfirmedOrders ==
    {[order |-> o, quantity |-> row[o].quantity] :
        o \in {p \in Orders : row[p].status = "confirmed"}}

ListConfirmed(a) ==
    /\ pc[a] = "list"
    /\ task' = [task EXCEPT ![a].next = ConfirmedOrders]
    /\ Goto(a, IF ConfirmedOrders = {} THEN "reread" ELSE "cancel")
    /\ UNCHANGED stores

Begin(a, j) ==
    /\ task' = [task EXCEPT ![a].now = j, ![a].next = @ \ {j},
                            ![a].units = j.quantity]
    /\ Goto(a, "restore")

\* Plausible bug: the units are given back before the row is cancelled, and
\* an error in between leaves the order confirmed.
KeepsConfirmed(a) ==
    /\ pc[a] = "cancel"
    /\ \E j \in task[a].next : Begin(a, j)
    /\ UNCHANGED stores

\* The code takes the latest order first; the properties do not tell orders
\* apart, so any listed order may be next.
ForceCancel(a) ==
    /\ pc[a] = "cancel"
    /\ \E j \in task[a].next :
          /\ row' = [row EXCEPT ![j.order].status = "cancelled"]
          /\ Begin(a, j)
    /\ UNCHANGED <<stock, cache, inv>>

\* Plausible bug: the loop runs once too often.
RestoreOneTooMany(a) ==
    /\ pc[a] = "restore"
    /\ stock' = AfterIncr
    /\ task' = [task EXCEPT ![a].units = @ - 1]
    /\ Goto(a, IF task[a].units = 0 THEN "increment" ELSE "restore")
    /\ UNCHANGED <<cache, row, inv>>

RestoreUnit(a) ==
    /\ pc[a] = "restore"
    /\ stock' = AfterIncr
    /\ task' = [task EXCEPT ![a].units = @ - 1]
    /\ Goto(a, IF task[a].units = 1 THEN "increment" ELSE "restore")
    /\ UNCHANGED <<cache, row, inv>>

Increment(a) ==
    /\ pc[a] = "increment"
    /\ inv' = AfterIncrement(task[a].now.quantity)
    /\ Goto(a, "cache_status")
    /\ UNCHANGED <<stock, cache, row, task>>

\* Plausible bug: the cached status is left behind.
CancelledNotCached(a) ==
    LET left == task[a].short - task[a].now.quantity
    IN  /\ pc[a] = "cache_status"
        /\ task' = [task EXCEPT ![a].short = left, ![a].now = NoOrder]
        /\ Goto(a, IF left > 0 /\ task[a].next # {} THEN "cancel" ELSE "reread")
        /\ UNCHANGED stores

\* The event and the notification follow, then the next order if the
\* cancelled ones do not cover the overflow yet.
CacheCancelled(a) ==
    LET left == task[a].short - task[a].now.quantity
    IN  /\ pc[a] = "cache_status"
        /\ cache' = [cache EXCEPT ![task[a].now.order] = "cancelled"]
        /\ task' = [task EXCEPT ![a].short = left, ![a].now = NoOrder]
        /\ Goto(a, IF left > 0 /\ task[a].next # {} THEN "cancel" ELSE "reread")
        /\ UNCHANGED <<stock, row, inv>>

\* Plausible bug: the sold quantity is not compared again.
NeverRefused(a) ==
    /\ pc[a] = "reread"
    /\ task' = [task EXCEPT ![a].seen = inv.sold]
    /\ Goto(a, "upsert")
    /\ UNCHANGED stores

ReadAgain(a) ==
    /\ pc[a] = "reread"
    /\ task[a].want >= inv.sold
    /\ task' = [task EXCEPT ![a].seen = inv.sold]
    /\ Goto(a, "upsert")
    /\ UNCHANGED stores

\* "Cannot reduce inventory below sold quantity": what was cancelled on the
\* way stays cancelled.
ReductionRefused(a) ==
    /\ pc[a] = "reread"
    /\ task[a].want < inv.sold
    /\ Answer(a, "refused")
    /\ UNCHANGED stores

AfterUpsert(qty) ==
    [max |-> qty, sold |-> inv.sold, remaining |-> Greatest(qty - inv.sold, 0)]

Upsert(a) ==
    /\ pc[a] = "upsert"
    /\ inv' = AfterUpsert(task[a].want)
    /\ Goto(a, "overwrite")
    /\ UNCHANGED <<stock, cache, row, task>>

Overwrite(a) ==
    /\ pc[a] = "overwrite"
    /\ stock' = task[a].want - task[a].seen
    /\ Answer(a, "done")
    /\ UNCHANGED <<cache, row, inv>>

-----------------------------------------------------------------------------
\* A crash, or an error of a store, the broker or a notification, which
\* set_inventory does not catch: what is cancelled stays cancelled.  Between
\* the upsert and the overwrite the inventory is left half set.
Dies(a) ==
    /\ Crashes
    /\ Active(a)
    /\ Goto(a, IF pc[a] = "overwrite" THEN "half_set" ELSE "dead")
    /\ UNCHANGED <<stores, task>>

Start(a) == CacheMiss(a) \/ \E qty \in 0..Capacity : SetInventory(a, qty)

TaskStep(a) ==
    \/ QueryRemaining(a) \/ WarmCache(a)
    \/ ReadSold(a) \/ ListConfirmed(a)
    \/ ForceCancel(a) \/ RestoreUnit(a) \/ Increment(a) \/ CacheCancelled(a)
    \/ ReadAgain(a) \/ ReductionRefused(a)
    \/ Upsert(a) \/ Overwrite(a)

=============================================================================
