---------------------------- MODULE OrderChanges ----------------------------
(***************************************************************************)
(* How an order changes once its row exists: cancellation by the employee, *)
(* the vendor or an admin (cancel_order, cancel_vendor_order and           *)
(* _cancel_loaded_order have the same steps), the change of its quantity,  *)
(* its completion, and the status an admin writes with update_order (which *)
(* no router offers).  A request loads the row once and decides on that    *)
(* snapshot; every await after it is a step of its own.                    *)
(*                                                                         *)
(* A request refused by its guards (404, 403, 422, the deadline, an        *)
(* unchanged quantity) writes nothing and is not modelled.  Publishing     *)
(* order.cancelled (no one in this service consumes it) and the            *)
(* notifications come after every write and touch none of the stores.      *)
(***************************************************************************)
EXTENDS Stores

CONSTANTS
    Requests,   \* the request tasks
    Ops,        \* what they may be asked to do, a subset of AllOps
    Capacity,   \* bound: the largest inventory a vendor sets
    Overlap,    \* whether requests for one order may run at the same time
    Crashes     \* whether a task may die between two awaits

AllOps == {"cancel", "complete", "quantity", "write"}

ASSUME CapacityAssumption == Capacity \in Nat
ASSUME OpsAssumption      == Ops \subseteq AllOps
ASSUME BooleanAssumption  == Overlap \in BOOLEAN /\ Crashes \in BOOLEAN

VARIABLES
    pc,     \* pc[r]:    the next await of request task r
    job,    \* job[r]:   what r was asked to do, and the row it loaded
    units   \* units[r]: the counter of the loop r is in

vars == <<stock, cache, row, inv, pc, job, units>>

Steps == {"new", "set_cancelled", "set_status", "restore", "increment",
          "cache_status", "take", "decrement", "rollback", "write",
          "done", "dead"}

(***************************************************************************)
(*   seen    the quantity in the row that was loaded                       *)
(*   to      the quantity asked for, seen unless it is to be changed       *)
(*   status  the status to be written, unless it is the quantity           *)
(***************************************************************************)
Jobs == [op : AllOps, order : Orders, seen : Quantities, to : Quantities,
         status : Statuses]

NoJob == [op |-> "none"]

TypeOK ==
    /\ StoresTypeOK
    /\ pc \in [Requests -> Steps]
    /\ job \in [Requests -> Jobs \cup {NoJob}]
    /\ units \in [Requests -> 0..MaxQty]

Confirmed(q) == [status |-> "confirmed", quantity |-> q]

\* No request has been made.
Idle ==
    /\ pc = [r \in Requests |-> "new"]
    /\ job = [r \in Requests |-> NoJob]
    /\ units = [r \in Requests |-> 0]

\* Orders were placed and confirmed by the worker before the first request.
Init ==
    /\ \E m \in 0..Capacity, f \in [Orders -> 0..MaxQty] :
          /\ Total(f) <= m
          /\ row = [o \in Orders |-> IF f[o] = 0 THEN NoRow ELSE Confirmed(f[o])]
          /\ inv = [max |-> m, sold |-> Total(f), remaining |-> m - Total(f)]
          /\ stock = m - Total(f)
          /\ cache = [o \in Orders |-> IF f[o] = 0 THEN "none" ELSE "confirmed"]
    /\ Idle

Active(r) == pc[r] \notin {"new", "done", "dead"}

ActiveOn(r, o) == Active(r) /\ job[r].order = o

\* The units a request gives back or takes.
Difference(j) == IF j.to > j.seen THEN j.to - j.seen ELSE j.seen - j.to

Amount(j) == IF j.op = "cancel" THEN j.seen ELSE Difference(j)

Goto(r, step) == pc' = [pc EXCEPT ![r] = step]

Count(r, n) == units' = [units EXCEPT ![r] = n]

-----------------------------------------------------------------------------
(***************************************************************************)
(* The load and the guards on what it returned.                            *)
(***************************************************************************)
\* Plausible bug: completion is only refused a second time.
CompletesCancelled(op, status) ==
    CASE op \in {"cancel", "quantity"} -> status # "cancelled"
      [] op = "complete"               -> status # "completed"
      [] op = "write"                  -> TRUE

Allowed(op, status) ==
    CASE op \in {"cancel", "quantity"} -> status # "cancelled"
      [] op = "complete"               -> status \notin {"cancelled", "completed"}
      [] op = "write"                  -> TRUE

FirstStep(j) ==
    CASE j.op = "cancel"               -> "set_cancelled"
      [] j.op \in {"complete", "write"} -> "set_status"
      [] j.op = "quantity"             -> IF j.to > j.seen THEN "take" ELSE "restore"

\* What a request can ask of an order whose row is loaded.
JobsOn(o) ==
    {j \in Jobs :
        /\ j.op \in Ops /\ j.order = o
        /\ j.seen = row[o].quantity
        /\ j.op = "quantity" <=> j.to # j.seen
        /\ CASE j.op = "cancel"   -> j.status = "cancelled"
             [] j.op = "complete" -> j.status = "completed"
             [] j.op = "write"    -> j.status # "cancelled"
             [] j.op = "quantity" -> j.status = row[o].status}

Load(r, o) ==
    /\ pc[r] = "new"
    /\ row[o] # NoRow
    /\ Overlap \/ \A s \in Requests : ~ActiveOn(s, o)
    /\ \E j \in JobsOn(o) :
          /\ Allowed(j.op, row[o].status)
          /\ job' = [job EXCEPT ![r] = j]
          /\ Goto(r, FirstStep(j))
          /\ Count(r, IF FirstStep(j) = "restore" THEN Difference(j) ELSE 0)
    /\ UNCHANGED stores

-----------------------------------------------------------------------------
(***************************************************************************)
(* Cancellation, completion and the admin's update_order.                  *)
(***************************************************************************)
\* Plausible bug: the row is left as it was while its units are given back.
CancelForgotten(r) ==
    /\ pc[r] = "set_cancelled"
    /\ Count(r, job[r].seen)
    /\ Goto(r, "restore")
    /\ UNCHANGED <<stock, cache, row, inv, job>>

SetCancelled(r) ==
    /\ pc[r] = "set_cancelled"
    /\ row' = [row EXCEPT ![job[r].order].status = "cancelled"]
    /\ Count(r, job[r].seen)
    /\ Goto(r, "restore")
    /\ UNCHANGED <<stock, cache, inv, job>>

\* Plausible bug: the cached status is left behind.
StatusNotCached(r) ==
    /\ pc[r] = "set_status"
    /\ row' = [row EXCEPT ![job[r].order].status = job[r].status]
    /\ Goto(r, "done")
    /\ UNCHANGED <<stock, cache, inv, job, units>>

SetStatus(r) ==
    /\ pc[r] = "set_status"
    /\ row' = [row EXCEPT ![job[r].order].status = job[r].status]
    /\ Goto(r, "cache_status")
    /\ UNCHANGED <<stock, cache, inv, job, units>>

\* One INCR_INVENTORY_SCRIPT per unit given back.
RestoreUnit(r) ==
    /\ pc[r] = "restore"
    /\ units[r] > 0
    /\ stock' = AfterIncr
    /\ Count(r, units[r] - 1)
    /\ Goto(r, IF units[r] = 1 THEN "increment" ELSE "restore")
    /\ UNCHANGED <<cache, row, inv, job>>

\* InventoryRepository.increment, after the loop on Redis.
Increment(r) ==
    /\ pc[r] = "increment"
    /\ inv' = AfterIncrement(Amount(job[r]))
    /\ Goto(r, IF job[r].op = "cancel" THEN "cache_status" ELSE "write")
    /\ UNCHANGED <<stock, cache, row, job, units>>

CacheStatus(r) ==
    /\ pc[r] = "cache_status"
    /\ cache' = [cache EXCEPT ![job[r].order] = job[r].status]
    /\ Goto(r, "done")
    /\ UNCHANGED <<stock, row, inv, job, units>>

-----------------------------------------------------------------------------
(***************************************************************************)
(* Quantity changes: _update_order_quantity.                               *)
(***************************************************************************)
TakeUnit(r) ==
    /\ pc[r] = "take"
    /\ DecrReply >= 0
    /\ stock' = DecrReply
    /\ Count(r, units[r] + 1)
    /\ Goto(r, IF units[r] + 1 = Amount(job[r]) THEN "decrement" ELSE "take")
    /\ UNCHANGED <<cache, row, inv, job>>

\* Plausible bug: an increase that fails half way keeps what it took.
KeepsTaken(r) ==
    /\ pc[r] = "take"
    /\ DecrReply < 0
    /\ Goto(r, "done")
    /\ UNCHANGED <<stock, cache, row, inv, job, units>>

\* 404 or 409: the units taken so far are given back.
TakeRefused(r) ==
    /\ pc[r] = "take"
    /\ DecrReply < 0
    /\ Goto(r, IF units[r] = 0 THEN "done" ELSE "rollback")
    /\ UNCHANGED <<stock, cache, row, inv, job, units>>

Decrement(r) ==
    /\ pc[r] = "decrement"
    /\ CanDecrement(Amount(job[r]))
    /\ inv' = AfterDecrement(Amount(job[r]))
    /\ Goto(r, "write")
    /\ UNCHANGED <<stock, cache, row, job, units>>

\* Plausible bug: only a refusal of Redis is rolled back.
KeepsReserved(r) ==
    /\ pc[r] = "decrement"
    /\ ~CanDecrement(Amount(job[r]))
    /\ Goto(r, "done")
    /\ UNCHANGED <<stock, cache, row, inv, job, units>>

\* "Inventory update failed": the same rollback.
DecrementRefused(r) ==
    /\ pc[r] = "decrement"
    /\ ~CanDecrement(Amount(job[r]))
    /\ Goto(r, "rollback")
    /\ UNCHANGED <<stock, cache, row, inv, job, units>>

\* Plausible bug: the rollback loop runs once too often.
RollbackTooMany(r) ==
    /\ pc[r] = "rollback"
    /\ stock' = AfterIncr
    /\ Count(r, units[r] - 1)
    /\ Goto(r, IF units[r] = 0 THEN "done" ELSE "rollback")
    /\ UNCHANGED <<cache, row, inv, job>>

RollbackUnit(r) ==
    /\ pc[r] = "rollback"
    /\ units[r] > 0
    /\ stock' = AfterIncr
    /\ Count(r, units[r] - 1)
    /\ Goto(r, IF units[r] = 1 THEN "done" ELSE "rollback")
    /\ UNCHANGED <<cache, row, inv, job>>

WriteQuantity(r) ==
    /\ pc[r] = "write"
    /\ row' = [row EXCEPT ![job[r].order].quantity = job[r].to]
    /\ Goto(r, "done")
    /\ UNCHANGED <<stock, cache, inv, job, units>>

-----------------------------------------------------------------------------
\* A crash of the process, or an error of PostgreSQL or Redis at an await:
\* nothing outside the rollback of an increase undoes what was written.
Dies(r) ==
    /\ Crashes
    /\ Active(r)
    /\ Goto(r, "dead")
    /\ UNCHANGED <<stock, cache, row, inv, job, units>>

ExpireStatus(o) ==
    /\ cache[o] # "none"
    /\ cache' = [cache EXCEPT ![o] = "none"]
    /\ UNCHANGED <<stock, row, inv, pc, job, units>>

RequestStep(r) ==
    \/ SetCancelled(r) \/ SetStatus(r)
    \/ RestoreUnit(r) \/ Increment(r) \/ CacheStatus(r)
    \/ TakeUnit(r) \/ TakeRefused(r)
    \/ Decrement(r) \/ DecrementRefused(r) \/ RollbackUnit(r)
    \/ WriteQuantity(r)

Next ==
    \/ \E r \in Requests :
          \/ \E o \in Orders : Load(r, o)
          \/ RequestStep(r)
          \/ Dies(r)
    \/ \E o \in Orders : ExpireStatus(o)

Spec == Init /\ [][Next]_vars

-----------------------------------------------------------------------------
(***************************************************************************)
(* Properties.                                                             *)
(***************************************************************************)
LiveQuantity ==
    [o \in Orders |-> IF row[o].status = "cancelled" THEN 0 ELSE row[o].quantity]

AtRest == \A r \in Requests : ~Active(r)

NoneDied == \A r \in Requests : pc[r] # "dead"

\* An admin's update_order writes any status over any other and moves no unit.
NoneWrote == \A r \in Requests : job[r].op # "write"

\* What a request in flight has made of the units of its order so far, in
\* Redis and in daily_inventory.
RedisHolds(r) ==
    LET j == job[r]
    IN  CASE pc[r] \in {"take", "decrement", "rollback"} -> j.seen + units[r]
          [] pc[r] = "restore" ->
                 (IF j.op = "cancel" THEN 0 ELSE j.to) + units[r]
          [] pc[r] \in {"increment", "cache_status"} /\ j.op = "cancel" -> 0
          [] pc[r] \in {"increment", "write"} /\ j.op = "quantity" -> j.to
          [] OTHER -> j.seen

DbHolds(r) ==
    CASE pc[r] = "write" -> job[r].to
      [] pc[r] = "cache_status" /\ job[r].op = "cancel" -> 0
      [] OTHER -> job[r].seen

\* f[o] comes from the request in flight for o, if there is one.
Held(Holds(_)) ==
    [o \in Orders |->
        IF \E r \in Requests : ActiveOn(r, o)
        THEN Holds(CHOOSE r \in Requests : ActiveOn(r, o))
        ELSE LiveQuantity[o]]

RedisOwns == Held(RedisHolds)

DbOwns == Held(DbHolds)

\* When requests for one order do not overlap and none dies, Redis, the
\* inventory row and the order rows tell the same story whenever no request
\* is in flight: every refused increase was rolled back to the unit.
BooksAgreeAtRest ==
    AtRest /\ NoneDied /\ NoneWrote =>
        /\ stock = inv.remaining
        /\ inv.sold = Total(LiveQuantity)

\* And in flight: each store differs from the rows by exactly what the
\* requests have done to it so far, at every await.
InFlightLedger ==
    NoneDied /\ NoneWrote =>
        /\ stock + Total(RedisOwns) = inv.max
        /\ inv.sold = Total(DbOwns)

DiedReducing(r) ==
    pc[r] = "dead" /\ job[r].op = "quantity" /\ job[r].to < job[r].seen

\* A task that dies leaks units but never lets the menu be oversold, as long
\* as it was not reducing a quantity: a cancellation marks the row before it
\* gives units back, an increase takes them before it writes the row.  A
\* reduction does it the other way round (order_service.py:467-475), so the
\* property excludes one that died.
CrashNeverOversells ==
    AtRest /\ NoneWrote /\ (\A r \in Requests : ~DiedReducing(r)) =>
        /\ stock + Total(LiveQuantity) <= inv.max
        /\ Total(LiveQuantity) <= inv.sold

\* A cancelled order stays cancelled ("Cannot complete cancelled order",
\* order_service.py:245) unless an admin writes its status, if requests for it
\* do not overlap.
CancelledStays ==
    [][\A o \in Orders :
          row[o].status = "cancelled" =>
              \/ row'[o].status = "cancelled"
              \/ \E r \in Requests : ActiveOn(r, o) /\ job[r].op = "write"]_vars

\* With no request in flight or dead, whoever reads an order is shown the
\* status in PostgreSQL, whether or not the key in Redis has expired.
LiveStatusAgrees ==
    AtRest /\ NoneDied =>
        \A o \in Orders : row[o] # NoRow => Shown(o) = row[o].status

\* Only one cancellation of an order goes through; the next is refused with
\* "Already cancelled" (test_order_service.py:781).
SecondCancelRefused ==
    \A r, s \in Requests :
        ~ /\ r # s
          /\ pc[r] = "done" /\ job[r].op = "cancel"
          /\ pc[s] = "done" /\ job[s].op = "cancel"
          /\ job[r].order = job[s].order

-----------------------------------------------------------------------------
(***************************************************************************)
(* The inductive invariant the proofs of OrderChangesProofs use.  JobLink  *)
(* holds however requests overlap; the other parts need that those for one *)
(* order do not, since they say what a request still knows of its row.     *)
(***************************************************************************)
Raises(j) == j.op = "quantity" /\ j.to > j.seen

Lowers(j) == j.op = "quantity" /\ j.to < j.seen

\* What each await says about the job and the loop counter of its request.
LinkOf(step, j, n) ==
    /\ j.op = "cancel" => j.status = "cancelled"
    /\ j.op = "complete" => j.status = "completed"
    /\ step = "set_cancelled" => j.op = "cancel"
    /\ step = "set_status" => j.op \in {"complete", "write"}
    /\ step = "cache_status" => j.op # "quantity"
    /\ step \in {"restore", "increment"} => j.op = "cancel" \/ Lowers(j)
    /\ step \in {"take", "decrement", "rollback"} => Raises(j)
    /\ step = "write" => Raises(j) \/ Lowers(j)
    /\ step \in {"restore", "rollback"} => n \in 1..Amount(j)
    /\ step = "take" => n < Amount(j)
    /\ step = "decrement" => n = Amount(j)

JobLink ==
    \A r \in Requests :
        /\ pc[r] = "new" => job[r] = NoJob
        /\ pc[r] # "new" => job[r] \in Jobs /\ LinkOf(pc[r], job[r], units[r])

\* The stock key does not expire here, and no script takes what is not there.
StockSet == stock \in Nat

OneAtATime ==
    \A r, s \in Requests :
        Active(r) /\ Active(s) /\ job[r].order = job[s].order => r = s

\* What the row d still has in common with what the request loaded.
SeenOf(step, j, d) ==
    /\ d.status # "absent"
    /\ d.quantity = j.seen
    /\ j.op = "cancel" => (d.status = "cancelled" <=> step # "set_cancelled")
    /\ j.op \in {"complete", "quantity"} => d.status # "cancelled"
    /\ step = "cache_status" => d.status = j.status

RowLink ==
    /\ \A o \in Orders : row[o].status = "absent" => row[o] = NoRow
    /\ \A r \in Requests :
          Active(r) => SeenOf(pc[r], job[r], row[job[r].order])

\* A live status that differs from its row is about to be written.
Rewriting(o) ==
    \E r \in Requests :
        ActiveOn(r, o) /\ pc[r] \in {"restore", "increment", "cache_status"}
                      /\ job[r].op # "quantity"

CacheLink ==
    NoneDied =>
        \A o \in Orders : Shown(o) = row[o].status \/ Rewriting(o)

\* A death in the middle leaves an order with no more units, in Redis and in
\* daily_inventory, than were taken for it.
NeverTooMany ==
    NoneWrote /\ (\A r \in Requests : ~DiedReducing(r)) =>
        /\ stock + Total(RedisOwns) <= inv.max
        /\ Total(DbOwns) <= inv.sold

SerialInv ==
    /\ OneAtATime
    /\ RowLink
    /\ CacheLink
    /\ InFlightLedger
    /\ NeverTooMany

=============================================================================
