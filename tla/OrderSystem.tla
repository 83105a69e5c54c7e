----------------------------- MODULE OrderSystem -----------------------------
(***************************************************************************)
(* The whole service around one menu on one date: orders being placed and  *)
(* confirmed (OrderPlacement), requests that change the orders whose rows  *)
(* exist (OrderChanges), and the tasks of InventoryService                 *)
(* (InventoryAdmin).  All run in one event loop and share nothing but the  *)
(* stores: whatever one reads before an await may be stale after it.       *)
(*                                                                         *)
(* The code takes no lock across awaits.  Two constants restrict which     *)
(* requests meet, to say what the service gets right when they do not:     *)
(* Settled and Exclusive describe the users, not the code.                 *)
(*                                                                         *)
(* The module extends OrderChanges, so that what is proved about a request *)
(* there is at hand here, and instantiates the other two.                  *)
(***************************************************************************)
EXTENDS OrderChanges

CONSTANTS
    Prefetch,       \* unacknowledged deliveries the worker's channel may hold
    Faults,         \* which failures may happen to the placement of an order
    Admins,         \* the tasks of InventoryService
    AdminCrashes,   \* whether they may die half way
    Settled,        \* requests only change orders the worker is done with
    Exclusive       \* InventoryService works only while nothing else does

ASSUME AdminCrashAssumption == AdminCrashes \in BOOLEAN
ASSUME UsersAssumption      == Settled \in BOOLEAN /\ Exclusive \in BOOLEAN

VARIABLES
    tpc, qty, held, msg, hpc,   \* of OrderPlacement, tpc being its pc
    apc, task                   \* of InventoryAdmin, apc being its pc

placement == <<tpc, qty, held, msg, hpc>>
changes   == <<pc, job, units>>
admin     == <<apc, task>>

systemVars == <<stores, placement, changes, admin>>

Placement == INSTANCE OrderPlacement WITH pc <- tpc

Admin == INSTANCE InventoryAdmin WITH pc <- apc, Crashes <- AdminCrashes

SystemTypeOK == Placement!TypeOK /\ TypeOK /\ Admin!TypeOK

SystemInit == Placement!Init /\ Idle /\ Admin!Idle

-----------------------------------------------------------------------------
AdminIdle == \A a \in Admins : ~Admin!Active(a)

\* Every order is with nobody: no task, message, handler or request has it.
OrdersQuiet ==
    /\ \A o \in Orders :
          /\ tpc[o] \in {"new", "reserve", "accepted", "failed", "dead"}
          /\ msg[o] \in {"none", "acked"}
    /\ AtRest

OrderTurn == Exclusive => AdminIdle

AdminTurn == Exclusive => OrdersQuiet /\ AdminIdle

Place(o) ==
    /\ OrderTurn
    /\ Placement!OrderStep(o)
    /\ UNCHANGED <<changes, admin>>

\* A request finds an order through its row, which exists as soon as the
\* worker has inserted it.
ChangeOrder(r, o) ==
    /\ OrderTurn
    /\ Settled => msg[o] = "acked"
    /\ Load(r, o)
    /\ UNCHANGED <<placement, admin>>

GoOn(r) ==
    /\ OrderTurn
    /\ RequestStep(r) \/ Dies(r)
    /\ UNCHANGED <<placement, admin>>

AskInventory(a) ==
    /\ AdminTurn
    /\ Admin!Start(a)
    /\ UNCHANGED <<placement, changes>>

AdminGoesOn(a) ==
    /\ Admin!TaskStep(a) \/ Admin!Dies(a)
    /\ UNCHANGED <<placement, changes>>

LoseKey == Placement!LoseKey /\ UNCHANGED <<changes, admin>>

SystemNext ==
    \/ \E o \in Orders : Place(o)
    \/ \E r \in Requests :
          \/ \E o \in Orders : ChangeOrder(r, o)
          \/ GoOn(r)
    \/ \E a \in Admins : AskInventory(a) \/ AdminGoesOn(a)
    \/ LoseKey

SystemSpec == SystemInit /\ [][SystemNext]_systemVars

-----------------------------------------------------------------------------
(***************************************************************************)
(* The system implements Ledger: the placement task or its message owns    *)
(* the units of an order until the row exists; from then on the row, as    *)
(* far as a request in flight has not undone it, does.                     *)
(***************************************************************************)
Owns ==
    LET changed == RedisOwns
    IN  [o \in Orders |-> IF row[o] = NoRow THEN held[o] ELSE changed[o]]

LedgerPhase ==
    LET placing == Placement!LedgerPhase
        owns    == Owns
    IN  [o \in Orders |->
            CASE row[o] = NoRow -> placing[o]
              [] row[o].status = "cancelled" ->
                     IF owns[o] = 0 THEN "gone" ELSE "leaving"
              [] OTHER -> "standing"]

Book == INSTANCE Ledger WITH max <- inv.max, owns <- Owns, phase <- LedgerPhase

\* From the request that places an order, over the message and the row, to
\* the cancellation or the change of quantity, with the worker crashing and
\* messages coming again at any await, no unit is owned twice or given back
\* twice, and an order that left never owns one again.
ImplementsLedger == Book!Spec

-----------------------------------------------------------------------------
(***************************************************************************)
(* Properties.                                                             *)
(***************************************************************************)
\* The Redis counter and the orders share out the inventory to the unit while
\* placements, worker and changes interleave, however the worker fails.
UnitsConserved == stock + Total(Owns) = inv.max

\* The row is there, and neither its handler, its message nor its live status
\* shows that the worker has come past the decrement.
Outstanding ==
    {o \in Orders : /\ row[o] # NoRow
                    /\ msg[o] # "acked"
                    /\ hpc[o] \notin {"status", "notify"}
                    /\ cache[o] # "confirmed"}

\* PostgreSQL may offer units that live orders own, since a row is inserted
\* before its decrement, a handler can stop between the two for good (see
\* redelivery_stuck), and a cancellation can overtake the decrement and be
\* clamped by GREATEST (inventory_repository.py:38) or lower what another order
\* counts.  But never more of them than the outstanding messages ask for, and
\* none when every message is acknowledged, wherever the worker fails.
OffersOnlyOutstanding ==
    inv.remaining + Total(DbOwns)
        <= inv.max + Total(Placement!QuantityIf(Outstanding))

\* A message that comes again never brings a cancelled or completed order
\* back: the row it would write is there.
NotResurrected ==
    [][\A o \in Orders :
          row[o].status \in {"cancelled", "completed"}
              => row'[o].status # "confirmed"]_systemVars

Quiet == OrdersQuiet /\ AdminIdle

NobodyDied == NoneDied /\ \A a \in Admins : apc[a] \notin {"dead", "half_set"}

\* A set_inventory wrote its row and died before it set the counter, and the
\* inventory has not been set to another quantity since.
DiedBeforeOverwrite(a) == apc[a] = "half_set" /\ task[a].want = inv.max

\* Lowering the inventory cancels orders, warming reads it back: with nobody
\* else about, afterwards sold_quantity counts the live orders and the counter
\* is what PostgreSQL has left or is missing, the vendor's reduction answered
\* or refused, over any number of expired keys.
BooksAgreeWhenQuiet ==
    Quiet /\ NobodyDied =>
        /\ inv.sold = Total(LiveQuantity)
        /\ stock \in {NoKey, inv.remaining}

\* When all is done, a reader is shown the status in PostgreSQL: also by the
\* orders a vendor's reduction cancelled, which their customers never touched.
LiveStatusWhenQuiet ==
    Quiet /\ NobodyDied =>
        \A o \in Orders : row[o] # NoRow => Shown(o) = row[o].status

\* Requests that die half way, and a set_inventory that dies while it cancels
\* orders, leave fewer units on offer than there are, never more, and no later
\* cancellation, warm-up or setting turns what they left into more.  Only a
\* reduction of a quantity (order_service.py:467-475) and a set_inventory
\* between its row and its counter (inventory_service.py:53-63) are otherwise.
CrashLeavesFewer ==
    /\ Quiet
    /\ stock # NoKey
    /\ \A r \in Requests : ~DiedReducing(r)
    /\ \A a \in Admins : ~DiedBeforeOverwrite(a)
    => stock + Total(LiveQuantity) <= inv.max

GivingBack(r) == pc[r] \in {"restore", "increment"}

\* Once the worker is done with an order before it changes, the only way a
\* later order can be refused by PostgreSQL after Redis let it in is a request
\* that has given units back to one and not yet to the other.
RefusedOnlyDuringGiveBack ==
    NobodyDied =>
        \A o \in Placement!Decrementing :
            CanDecrement(qty[o]) \/ \E r \in Requests : GivingBack(r)

\* The units of the orders that were accepted and not cancelled, their rows
\* written or not.
Promised ==
    [o \in Orders |-> IF row[o] = NoRow
                      THEN Placement!AcceptedQuantity[o]
                      ELSE LiveQuantity[o]]

\* The service never promises more units than a vendor ever set ("Atomically
\* reserve inventory", order_service.py:57).
NotOversold == Total(Promised) <= Capacity

\* The worker's decrement is never refused, since "Redis already decremented
\* atomically" (order_worker.py:57).
WorkerNeverRefused == Placement!WorkerNeverRefused

-----------------------------------------------------------------------------
(***************************************************************************)
(* The inductive invariants the proofs of OrderSystemProofs use.           *)
(* SystemLinks holds whatever the constants are.                           *)
(***************************************************************************)
\* A row that was written is never taken away, so whoever remembers an order
\* finds it.
KnownRows ==
    /\ \A o \in Orders :
          row[o] # NoRow => row[o].status # "absent" /\ row[o].quantity > 0
    /\ \A r \in Requests :
          pc[r] # "new" => job[r].op \in Ops /\ row[job[r].order] # NoRow
    /\ \A a \in Admins : \A j \in task[a].next : row[j.order] # NoRow

\* An order that is being cancelled was listed, and has units to give back
\* as long as the loop goes on.
AdminLink ==
    \A a \in Admins :
        /\ apc[a] \in {"restore", "increment", "cache_status"}
               => task[a].now \in Admin!Listed
        /\ apc[a] = "restore" => task[a].units > 0

SystemLinks ==
    /\ JobLink
    /\ Placement!TaskLink
    /\ Placement!HandlerLink
    /\ KnownRows
    /\ AdminLink

\* Where tasks of InventoryService run alone, there is one of them, and what
\* it has compared with the inventory it was asked for is still sold.
AdminAlone ==
    /\ \A a, b \in Admins : Admin!Active(a) /\ Admin!Active(b) => a = b
    /\ \A a \in Admins : apc[a] = "upsert" => inv.sold <= task[a].want

\* Unless a publish is ambiguous, a row is that of an accepted order.
WrittenLink == \A o \in Orders : row[o] # NoRow => tpc[o] = "accepted"

\* Without InventoryService, ambiguous publishes, expiring counters, dying
\* requests and overlaps, as in the instance of system_serial.
SerialSystemInv ==
    /\ StockSet
    /\ OneAtATime
    /\ RowLink
    /\ Placement!CleanLink
    /\ WrittenLink
    /\ UnitsConserved

=============================================================================
