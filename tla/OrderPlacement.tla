--------------------------- MODULE OrderPlacement ---------------------------
(***************************************************************************)
(* How an order comes into being: OrderService.create_order, one task per  *)
(* request, reserves stock in Redis, caches the live status and publishes  *)
(* order.created; OrderWorker.handle_created consumes that message, writes *)
(* the order row, decrements daily_inventory and confirms the live status. *)
(* Each await of either is a step of its own, so tasks and handlers        *)
(* interleave at every await.                                              *)
(*                                                                         *)
(* The deadline and lookup checks of create_order change nothing when they *)
(* fail; a request they refuse is one that goes to "failed", or is never   *)
(* sent.                                                                   *)
(***************************************************************************)
EXTENDS Stores

CONSTANTS
    Capacity,   \* bound: the largest inventory a vendor sets
    Prefetch,   \* unacknowledged deliveries the worker's channel may hold
    Faults      \* which failures may happen, a subset of FaultKinds

FaultKinds ==
    { "task_dies",     \* a request task ends early: crash, or an error that
                       \* create_order does not compensate
      "ambiguous",     \* publish raises after the broker took the message
      "handler_raises",\* PostgreSQL or Redis raises in a handler
      "handler_dies",  \* a handler ends with its process or connection
      "notify_raises", \* notify_order_created raises
      "key_lost" }     \* the stock key expires or is evicted

ASSUME CapacityAssumption == Capacity \in Nat
ASSUME PrefetchAssumption == Prefetch \in Nat \ {0}
ASSUME FaultsAssumption   == Faults \subseteq FaultKinds

VARIABLES
    pc,     \* pc[o]:   the next await of the request task that creates o
    qty,    \* qty[o]:  the quantity o asks for, 0 before the request
    held,   \* held[o]: units of Redis stock taken for o and not given back
    msg,    \* msg[o]:  the order.created message of o in the quorum queue
    hpc     \* hpc[o]:  the next await of the handler that processes msg[o]

vars == <<stock, cache, row, inv, pc, qty, held, msg, hpc>>

TaskSteps == {"new", "reserve", "cache", "publish", "accepted",
              "restore", "forget", "failed", "dead"}

MsgStates == {"none", "ready", "returned", "unacked", "acked"}

HandlerSteps == {"idle", "insert", "decrement", "status", "notify"}

TypeOK ==
    /\ StoresTypeOK
    /\ pc \in [Orders -> TaskSteps]
    /\ qty \in [Orders -> 0..MaxQty]
    /\ held \in [Orders -> 0..MaxQty]
    /\ msg \in [Orders -> MsgStates]
    /\ hpc \in [Orders -> HandlerSteps]

Init ==
    /\ \E m \in 0..Capacity : inv = Offered(m) /\ stock = m
    /\ cache = [o \in Orders |-> "none"]
    /\ row = [o \in Orders |-> NoRow]
    /\ pc = [o \in Orders |-> "new"]
    /\ qty = [o \in Orders |-> 0]
    /\ held = [o \in Orders |-> 0]
    /\ msg = [o \in Orders |-> "none"]
    /\ hpc = [o \in Orders |-> "idle"]

Goto(o, step) == pc' = [pc EXCEPT ![o] = step]

-----------------------------------------------------------------------------
(***************************************************************************)
(* The request task: OrderService.create_order.                            *)
(***************************************************************************)

\* A request for q units passes the deadline check and asks the menu service.
PlaceOrder(o, q) ==
    /\ pc[o] = "new"
    /\ qty' = [qty EXCEPT ![o] = q]
    /\ Goto(o, "reserve")
    /\ UNCHANGED <<stock, cache, row, inv, held, msg, hpc>>

\* The menu or vendor lookup fails and the request with it.
LookupFails(o) ==
    /\ pc[o] = "reserve"
    /\ Goto(o, "failed")
    /\ UNCHANGED <<stock, cache, row, inv, qty, held, msg, hpc>>

\* RESERVE_INVENTORY_SCRIPT takes all the units at once ...
Reserve(o) ==
    /\ pc[o] = "reserve"
    /\ CanReserve(qty[o])
    /\ stock' = AfterReserve(qty[o])
    /\ held' = [held EXCEPT ![o] = qty[o]]
    /\ Goto(o, "cache")
    /\ UNCHANGED <<cache, row, inv, qty, msg, hpc>>

\* ... or none: 404 when the key is missing, 409 when it holds too little.
ReserveRefused(o) ==
    /\ pc[o] = "reserve"
    /\ ~CanReserve(qty[o])
    /\ Goto(o, "failed")
    /\ UNCHANGED <<stock, cache, row, inv, qty, held, msg, hpc>>

\* Plausible bug: the live status is cached after publishing.
CachePendingLate(o) ==
    /\ pc[o] \in {"cache", "accepted"}
    /\ cache' = [cache EXCEPT ![o] = "pending"]
    /\ Goto(o, "publish")
    /\ UNCHANGED <<stock, row, inv, qty, held, msg, hpc>>

CachePending(o) ==
    /\ pc[o] = "cache"
    /\ cache' = [cache EXCEPT ![o] = "pending"]
    /\ Goto(o, "publish")
    /\ UNCHANGED <<stock, row, inv, qty, held, msg, hpc>>

\* The broker confirms the message and the request is answered.
Publish(o) ==
    /\ pc[o] = "publish"
    /\ msg' = [msg EXCEPT ![o] = "ready"]
    /\ Goto(o, "accepted")
    /\ UNCHANGED <<stock, cache, row, inv, qty, held, hpc>>

\* Plausible bug: more code moves into the try block, and what raises there
\* after the broker confirmed is compensated like a failed publish.
CompensatesPublished(o) ==
    /\ pc[o] = "publish"
    /\ msg' = [msg EXCEPT ![o] = "ready"]
    /\ Goto(o, "restore")
    /\ UNCHANGED <<stock, cache, row, inv, qty, held, hpc>>

\* publish raises: the broker never took the message or, when the fault is
\* allowed, took it and the confirmation was lost.
PublishRaises(o) ==
    /\ pc[o] = "publish"
    /\ \/ UNCHANGED msg
       \/ /\ "ambiguous" \in Faults
          /\ msg' = [msg EXCEPT ![o] = "ready"]
    /\ Goto(o, "restore")
    /\ UNCHANGED <<stock, cache, row, inv, qty, held, hpc>>

\* Plausible bug: the compensation loop runs once too often.
RestoreOneTooMany(o) ==
    /\ pc[o] = "restore"
    /\ stock' = AfterIncr
    /\ held' = [held EXCEPT ![o] = @ - 1]
    /\ Goto(o, IF held[o] = 0 THEN "forget" ELSE "restore")
    /\ UNCHANGED <<cache, row, inv, qty, msg, hpc>>

\* Plausible bug: the compensation loop stops one unit short.
RestoreOneTooFew(o) ==
    /\ pc[o] = "restore"
    /\ held[o] > 1
    /\ stock' = AfterIncr
    /\ held' = [held EXCEPT ![o] = @ - 1]
    /\ Goto(o, IF held[o] = 2 THEN "forget" ELSE "restore")
    /\ UNCHANGED <<cache, row, inv, qty, msg, hpc>>

\* Compensation: one INCR_INVENTORY_SCRIPT per reserved unit ...
RestoreUnit(o) ==
    /\ pc[o] = "restore"
    /\ held[o] > 0
    /\ stock' = AfterIncr
    /\ held' = [held EXCEPT ![o] = @ - 1]
    /\ Goto(o, IF held[o] = 1 THEN "forget" ELSE "restore")
    /\ UNCHANGED <<cache, row, inv, qty, msg, hpc>>

\* ... then the live status is deleted and the request answered with 500.
ForgetStatus(o) ==
    /\ pc[o] = "forget"
    /\ cache' = [cache EXCEPT ![o] = "none"]
    /\ Goto(o, "failed")
    /\ UNCHANGED <<stock, row, inv, qty, held, msg, hpc>>

\* The task ends with units reserved.  There is no compensation outside the
\* except clause around publish, so a Redis error in CachePending is one too.
TaskDies(o) ==
    /\ "task_dies" \in Faults
    /\ pc[o] \in {"cache", "publish", "restore", "forget"}
    /\ Goto(o, "dead")
    /\ UNCHANGED <<stock, cache, row, inv, qty, held, msg, hpc>>

-----------------------------------------------------------------------------
(***************************************************************************)
(* The queue and the worker: OrderWorker.handle_created, run by            *)
(* rabbitmq.consume inside message.process(requeue=True).                  *)
(***************************************************************************)

\* The broker has a free slot; the messages of a lost consumer go before all
\* others.  The order of the others is left open: the queue is first in, first
\* out, and a rejected message goes to its back, so each has its turn
\* (Fairness).
Deliver(o) ==
    /\ msg[o] \in {"ready", "returned"}
    /\ Cardinality({p \in Orders : msg[p] = "unacked"}) < Prefetch
    /\ msg[o] = "ready" => \A p \in Orders : msg[p] # "returned"
    /\ msg' = [msg EXCEPT ![o] = "unacked"]
    /\ hpc' = [hpc EXCEPT ![o] = "insert"]
    /\ UNCHANGED <<stock, cache, row, inv, pc, qty, held>>

\* Plausible bug: process() without requeue drops the message.
Discard(o) ==
    /\ msg' = [msg EXCEPT ![o] = "acked"]
    /\ hpc' = [hpc EXCEPT ![o] = "idle"]

\* Any exception leaves process(requeue=True) with a reject, and a quorum queue
\* without a delivery limit puts a rejected message behind all others.
Requeue(o) ==
    /\ msg' = [msg EXCEPT ![o] = "ready"]
    /\ hpc' = [hpc EXCEPT ![o] = "idle"]

InsertRow(o) ==
    /\ hpc[o] = "insert"
    /\ row[o] = NoRow
    /\ row' = [row EXCEPT ![o] = [status |-> "confirmed", quantity |-> qty[o]]]
    /\ hpc' = [hpc EXCEPT ![o] = "decrement"]
    /\ UNCHANGED <<stock, cache, inv, pc, qty, held, msg>>

\* Plausible bug: ON CONFLICT DO NOTHING makes the INSERT idempotent, and the
\* decrement that follows is not.
InsertIgnoresConflict(o) ==
    /\ hpc[o] = "insert"
    /\ row[o] # NoRow
    /\ hpc' = [hpc EXCEPT ![o] = "decrement"]
    /\ UNCHANGED <<stock, cache, row, inv, pc, qty, held, msg>>

\* Plausible bug: the INSERT becomes an upsert and writes the row anew.
InsertOverwrites(o) ==
    /\ hpc[o] = "insert"
    /\ row[o] # NoRow
    /\ row' = [row EXCEPT ![o] = [status |-> "confirmed", quantity |-> qty[o]]]
    /\ hpc' = [hpc EXCEPT ![o] = "decrement"]
    /\ UNCHANGED <<stock, cache, inv, pc, qty, held, msg>>

\* The primary key of orders refuses a second row: INSERT raises.
InsertDuplicate(o) ==
    /\ hpc[o] = "insert"
    /\ row[o] # NoRow
    /\ Requeue(o)
    /\ UNCHANGED <<stock, cache, row, inv, pc, qty, held>>

\* Plausible bug: the worker relies on the default quantity of decrement, 1.
DecrementOne(o) ==
    /\ hpc[o] = "decrement"
    /\ CanDecrement(1)
    /\ inv' = AfterDecrement(1)
    /\ hpc' = [hpc EXCEPT ![o] = "status"]
    /\ UNCHANGED <<stock, cache, row, pc, qty, held, msg>>

DecrementStock(o) ==
    /\ hpc[o] = "decrement"
    /\ CanDecrement(qty[o])
    /\ inv' = AfterDecrement(qty[o])
    /\ hpc' = [hpc EXCEPT ![o] = "status"]
    /\ UNCHANGED <<stock, cache, row, pc, qty, held, msg>>

\* Plausible bug: the result of the UPDATE is not looked at.
RefusalIgnored(o) ==
    /\ hpc[o] = "decrement"
    /\ ~CanDecrement(qty[o])
    /\ hpc' = [hpc EXCEPT ![o] = "status"]
    /\ UNCHANGED <<stock, cache, row, inv, pc, qty, held, msg>>

\* No row of daily_inventory was updated: "Inventory decrement failed".
DecrementRefused(o) ==
    /\ hpc[o] = "decrement"
    /\ ~CanDecrement(qty[o])
    /\ Requeue(o)
    /\ UNCHANGED <<stock, cache, row, inv, pc, qty, held>>

CacheConfirmed(o) ==
    /\ hpc[o] = "status"
    /\ cache' = [cache EXCEPT ![o] = "confirmed"]
    /\ hpc' = [hpc EXCEPT ![o] = "notify"]
    /\ UNCHANGED <<stock, row, inv, pc, qty, held, msg>>

\* notify_order_created returns and process() acknowledges the message.
Notified(o) ==
    /\ hpc[o] = "notify"
    /\ msg' = [msg EXCEPT ![o] = "acked"]
    /\ hpc' = [hpc EXCEPT ![o] = "idle"]
    /\ UNCHANGED <<stock, cache, row, inv, pc, qty, held>>

\* It raises: _send_notification lets a read timeout or a dropped connection
\* through, and handle_created re-raises.
NotifyRaises(o) ==
    /\ "notify_raises" \in Faults
    /\ hpc[o] = "notify"
    /\ Requeue(o)
    /\ UNCHANGED <<stock, cache, row, inv, pc, qty, held>>

\* PostgreSQL or Redis raises at any await, and handle_created re-raises.
HandlerRaises(o) ==
    /\ "handler_raises" \in Faults
    /\ hpc[o] # "idle"
    /\ Requeue(o)
    /\ UNCHANGED <<stock, cache, row, inv, pc, qty, held>>

\* The process or its connection is lost at any await, nothing is rejected, and
\* the broker puts what the consumer had back to the head of the queue.
HandlerDies(o) ==
    /\ "handler_dies" \in Faults
    /\ hpc[o] # "idle"
    /\ msg' = [msg EXCEPT ![o] = "returned"]
    /\ hpc' = [hpc EXCEPT ![o] = "idle"]
    /\ UNCHANGED <<stock, cache, row, inv, pc, qty, held>>

-----------------------------------------------------------------------------
(***************************************************************************)
(* What Redis does on its own.                                             *)
(***************************************************************************)

\* The 24 hour TTL of a live status runs out.
ExpireStatus(o) ==
    /\ cache[o] # "none"
    /\ cache' = [cache EXCEPT ![o] = "none"]
    /\ UNCHANGED <<stock, row, inv, pc, qty, held, msg, hpc>>

\* The TTL of the stock key runs out.
LoseKey ==
    /\ "key_lost" \in Faults
    /\ stock # NoKey
    /\ stock' = NoKey
    /\ UNCHANGED <<cache, row, inv, pc, qty, held, msg, hpc>>

-----------------------------------------------------------------------------
TaskStep(o) ==
    \/ Reserve(o) \/ ReserveRefused(o)
    \/ CachePending(o)
    \/ Publish(o) \/ PublishRaises(o)
    \/ RestoreUnit(o) \/ ForgetStatus(o)

HandlerStep(o) ==
    \/ InsertRow(o) \/ InsertDuplicate(o)
    \/ DecrementStock(o) \/ DecrementRefused(o)
    \/ CacheConfirmed(o)
    \/ Notified(o)

OrderStep(o) ==
    \/ \E q \in Quantities : PlaceOrder(o, q)
    \/ LookupFails(o)
    \/ TaskStep(o)
    \/ TaskDies(o)
    \/ Deliver(o)
    \/ HandlerStep(o)
    \/ NotifyRaises(o)
    \/ HandlerRaises(o)
    \/ HandlerDies(o)
    \/ ExpireStatus(o)

Next ==
    \/ \E o \in Orders : OrderStep(o)
    \/ LoseKey

Spec == Init /\ [][Next]_vars

(***************************************************************************)
(* The event loop runs every task and handler that can go on (WF).  The    *)
(* broker delivers what has come to the head to every free slot it has (SF *)
(* on Deliver: a slot may be taken and freed again and again).  SF on the  *)
(* INSERT: the database and the process do not fail at that very await on  *)
(* every redelivery, so that it writes the row or is refused.              *)
(* Nothing is assumed of requests, of failures or of the expiry of keys.   *)
(***************************************************************************)
Fairness ==
    \A o \in Orders :
        /\ WF_vars(TaskStep(o))
        /\ WF_vars(HandlerStep(o))
        /\ SF_vars(Deliver(o))
        /\ SF_vars(InsertRow(o) \/ InsertDuplicate(o))

FairSpec == Spec /\ Fairness

-----------------------------------------------------------------------------
(***************************************************************************)
(* Properties.                                                             *)
(***************************************************************************)
RowQuantity == [o \in Orders |-> row[o].quantity]

AcceptedQuantity == [o \in Orders |-> IF pc[o] = "accepted" THEN qty[o] ELSE 0]

QuantityIf(who) == [o \in Orders |-> IF o \in who THEN qty[o] ELSE 0]

Decrementing == {o \in Orders : hpc[o] = "decrement"}

ShownConfirmed == {o \in Orders : Shown(o) = "confirmed"}

\* The row is there, its live status has expired or was deleted by a request
\* that took its publish for failed, and the worker has not come past the
\* decrement, if it ever will: readers fall back to the row, which says
\* "confirmed" from the INSERT on (order_worker.py:49).
Unannounced(o) ==
    cache[o] = "none" /\ msg[o] # "acked" /\ hpc[o] \notin {"status", "notify"}

\* Every unit of the inventory the vendor set is either in the Redis counter
\* or held by exactly one order, at every await of every interleaving of
\* reservations and unit-by-unit compensations, however the publish ended;
\* when the key is lost the orders still never hold more than was set.
StockConserved ==
    /\ stock # NoKey => stock >= 0 /\ stock + Total(held) = inv.max
    /\ Total(held) <= inv.max

\* The orders answered "order queued" never ask for more than the inventory,
\* whatever fails: create_order does not oversell (order_service.py:57).
AcceptedFit == Total(AcceptedQuantity) <= inv.max

\* An accepted order is never lost: until its row exists its message is in
\* the durable queue or with a handler, through crashes and redeliveries.
AcceptedNotLost ==
    \A o \in Orders :
        pc[o] = "accepted" => \/ msg[o] \in {"ready", "returned", "unacked"}
                              \/ row[o].status = "confirmed"

\* However often a message is redelivered, its order is sold at most once:
\* what is sold, with the decrements still to come, never exceeds the rows.
SoldAtMostOnce ==
    inv.sold + Total(QuantityIf(Decrementing)) <= Total(RowQuantity)

\* Whatever fails, an order that readers are shown as "confirmed", by its live
\* status or by its row, has units counted in sold_quantity, unless it is
\* unannounced: the worker writes the live status, and acknowledges the
\* message, only after the decrement went through.
ConfirmedIsSold ==
    Total(QuantityIf({o \in ShownConfirmed : ~Unannounced(o)})) <= inv.sold

\* As long as no publish is ambiguous, an order that readers are shown as
\* "confirmed", sold already or only inserted, has its units reserved in Redis:
\* neither its own request gave them back nor does anybody else hold them.
ConfirmedHasUnits == \A o \in ShownConfirmed : held[o] = qty[o]

\* As long as no publish is ambiguous, the database never refuses the
\* decrement of a message, whatever crashes and redeliveries happen: Redis
\* has reserved the units first ("Redis already decremented atomically",
\* order_worker.py:57).
WorkerNeverRefused == \A o \in Decrementing : CanDecrement(qty[o])

\* The live status never goes back to "pending" once it was confirmed:
\* create_order caches "pending" before it publishes.
LiveStatusForward ==
    [][\A o \in Orders : cache[o] = "confirmed" => cache'[o] # "pending"]_vars

\* Every accepted order gets its row in PostgreSQL ("Consumes order.created
\* events from RabbitMQ and writes to PostgreSQL", order_worker.py:15).
AcceptedPersisted ==
    \A o \in Orders : pc[o] = "accepted" ~> row[o].status = "confirmed"

\* The "pending" live status of an accepted order does not stay, short of its
\* expiry a day later ("Update live status in Redis: pending -> confirmed",
\* order_worker.py:62).
PendingResolves ==
    \A o \in Orders :
        pc[o] = "accepted" /\ cache[o] = "pending" ~> cache[o] # "pending"

\* The notification of a new order does not break the main flow when it fails
\* (notification_service.py:167): once the worker has only the notification
\* left to do, the message is acknowledged.
NotificationHarmless ==
    \A o \in Orders : hpc[o] = "notify" ~> msg[o] = "acked"

-----------------------------------------------------------------------------
(***************************************************************************)
(* The inductive invariant the proofs of OrderPlacementProofs use: what    *)
(* each program counter says about the order it belongs to.                *)
(***************************************************************************)
TaskLink ==
    \A o \in Orders :
        /\ pc[o] = "new" <=> qty[o] = 0
        /\ pc[o] \in {"new", "reserve", "forget", "failed"} => held[o] = 0
        /\ pc[o] = "restore" => held[o] > 0
        /\ pc[o] \in {"cache", "publish", "accepted"} => held[o] = qty[o]
        /\ pc[o] \in {"new", "reserve", "cache", "publish"} => msg[o] = "none"
        /\ pc[o] = "accepted" => msg[o] # "none"

HandlerLink ==
    \A o \in Orders :
        /\ hpc[o] # "idle" <=> msg[o] = "unacked"
        /\ hpc[o] \in {"decrement", "status", "notify"} => row[o] # NoRow
        /\ msg[o] = "acked" => row[o] # NoRow

RowLink ==
    \A o \in Orders :
        row[o] # NoRow =>
            /\ row[o] = [status |-> "confirmed", quantity |-> qty[o]]
            /\ msg[o] # "none"

CacheLink == \A o \in Orders : cache[o] = "confirmed" => row[o] # NoRow

\* Past its decrement an order is sold, and stays so when its message is
\* acknowledged or its live status confirmed.
Decremented ==
    {o \in Orders : \/ hpc[o] \in {"status", "notify"}
                    \/ msg[o] = "acked"
                    \/ cache[o] = "confirmed"}

SoldLink == Total(QuantityIf(Decremented)) <= inv.sold

\* Without an ambiguous publish, only accepted orders have a message.
CleanLink ==
    "ambiguous" \notin Faults =>
        \A o \in Orders : msg[o] # "none" => pc[o] = "accepted"

IInv ==
    /\ TypeOK
    /\ TaskLink
    /\ HandlerLink
    /\ RowLink
    /\ CacheLink
    /\ CleanLink
    /\ StockConserved
    /\ DbBooksBalance
    /\ SoldAtMostOnce
    /\ SoldLink

-----------------------------------------------------------------------------
(***************************************************************************)
(* Placement implements Ledger.  A task stands for its order from its      *)
(* reservation on; an order whose publish raised leaves; a task that died  *)
(* with units reserved is stuck, since nothing but that task returns them. *)
(***************************************************************************)
PhaseOf(step, units) ==
    CASE step \in {"new", "reserve"} -> "new"
      [] step \in {"cache", "publish", "accepted"} -> "standing"
      [] step = "restore" -> "leaving"
      [] step \in {"forget", "failed"} -> "gone"
      [] step = "dead" -> IF units = 0 THEN "gone" ELSE "stuck"

LedgerPhase == [o \in Orders |-> PhaseOf(pc[o], held[o])]

Book == INSTANCE Ledger WITH max <- inv.max, owns <- held, phase <- LedgerPhase

\* Reservations and compensations, taken one await at a time and in any
\* interleaving, look like the ledger's steps: admitted with all units or with
\* none, never beyond what is free, returned unit by unit after a publish that
\* raised and never owned again, even when the Redis key has gone.
ImplementsLedger == Book!Spec

\* With the scheduling of FairSpec, and no task dying, what an order that
\* leaves owns is returned to the last unit.
ImplementsFairLedger == Book!FairSpec

=============================================================================
