# Order & Inventory Service: TLA+ models, checks and proofs

This directory specifies the order and inventory service of this repository
(FastAPI, PostgreSQL, Redis, RabbitMQ): how units of a daily menu move between
the stores when orders are placed, consumed by the worker, changed and
cancelled. TLC checks the models on small instances; TLAPS proves every safety
property of the passing runs for any number of orders, requests, units and
tasks: placement, changes, the whole system with `InventoryService` resting or
working alone, and the refinement of one abstract ledger by placement and by
the system.

Paths below are relative to `app/` unless they say otherwise.

## 1. The system

### Stores

| store | content | written by |
| --- | --- | --- |
| Redis `inventory:<menu>:<date>` | units that can still be ordered (TTL) | the Lua scripts of `db/redis.py`, `InventoryService` |
| Redis `order:today:<order>` | live status, shown instead of the database's (TTL 24 h) | `OrderService`, `OrderWorker`, `InventoryService` |
| PostgreSQL `orders` | one row per order, inserted by the worker only | `OrderRepository` |
| PostgreSQL `daily_inventory` | `max_quantity`, `sold_quantity`, `remaining_quantity` | `InventoryRepository` |
| RabbitMQ `order.created` | quorum queue, prefetch 10, requeue on failure | `create_order`; consumed by `OrderWorker` |
| RabbitMQ `order.cancelled` | quorum queue | every cancellation; no consumer in this service |

One Lua script and one SQL statement are atomic. Nothing else is: there is no
transaction that spans two statements, no lock, and no version check. Request
tasks and message handlers are asyncio tasks that interleave at every `await`,
in as many processes as are deployed.

### Components

| component | code | operations | what makes it correct |
| --- | --- | --- | --- |
| Stock counter | `db/redis.py` | reserve q, take 1, give back 1 | never below 0; counter + units held = inventory |
| Order placement | `services/order_service.py:44` | look up, reserve, cache "pending", publish; compensate | accepted orders fit and are never lost; a failed publish returns all units |
| Queue client | `db/rabbitmq.py` | publish with confirms, consume with requeue | at-least-once delivery, without starving other messages |
| Worker | `worker/order_worker.py` | insert row, decrement, confirm, notify | an order is sold at most once however often it is delivered; every accepted order gets a row |
| Order changes | `services/order_service.py:114,219,233,337,490` | cancel (employee, vendor, admin), change quantity, complete | Redis, `daily_inventory` and `orders` agree; a cancelled order stays cancelled and its units come back once |
| Inventory administration | `services/inventory_service.py` | read with cache warm-up; set the inventory, cancelling what overflows | pending reservations survive a warm-up; sold never exceeds max |
| Generic update | `services/order_service.py:181` | employee/vendor/admin status change; no router calls it | as order changes |
| Repositories, schema | `repositories/`, `migrations/001_init.sql` | single SQL statements | 0 <= sold <= max, remaining = max - sold |
| Notifications, menu client | `services/notification_service.py`, `services/vendor_menu_service.py` | HTTP calls | a failing call does not undo or repeat business steps |
| Routers, auth, config, lifespan | `api/`, `core/`, `main.py` | dispatch, role checks, start-up | stateless; a refused request writes nothing |

`PROJECT.json` lists them all with their status, and under `hazards` each place
where the code is hard to test.

### Where it is hard

* **Two sources of truth.** Redis is decremented when an order is accepted,
  `daily_inventory` when the worker processes it, and both are given back, one
  after the other, when it is cancelled. Between any two of these awaits
  another task sees them disagree.
* **Snapshots.** A change loads the row, decides, and writes several awaits
  later without looking again.
* **At-least-once delivery.** A handler that dies anywhere is run again from
  its first step; none of its steps is idempotent.
* **Ambiguous publish.** An exception from `publish` does not mean the broker
  did not take the message.
* **Unit-by-unit compensation**, interruptible after every unit.
* **Expiry.** The stock counter and the live status can disappear at any time.

## 2. Modules

```
             UnitCount                       units counted over orders
            /         \
        Ledger        Stores                 the abstract ledger | the four stores
           .      /     |       \
           . OrderPlacement  OrderChanges  InventoryAdmin    the tasks
           .      \     |       /
           ....... OrderSystem               all of them over the same stores
```

Solid lines are `EXTENDS`, except that `OrderSystem` extends `OrderChanges` (so
that what is proved about a request is at hand there) and instantiates the
other two as `Placement` and `Admin`; dots are `Book == INSTANCE Ledger WITH
...`, once in `OrderPlacement` and once in `OrderSystem`. `MCOrderPlacement`,
`MCOrderChanges` and `MCOrderSystem` hold the instances for TLC. The proofs:

```
StoresProofs                        lemmas on counting units
  OrderPlacementProofs              placement
    PlacementRefinement             ... implements Ledger
  OrderChangesProofs                requests that change orders
    OrderSystemProofs               the whole system
      SystemRefinement              ... implements Ledger
      InventoryProofs               ... with InventoryService at work
```

### Ledger

What the service promises without a store, a task or a message: every unit is
free or owned by one order; an order is admitted with all its units or refused;
it changes by a unit at a time and, when it leaves, returns its units one by
one and never owns one again. `FairSpec` adds that it returns them all. An
order whose acting task died is `"stuck"` and keeps what it owns.

### UnitCount and Stores

One menu on one pickup date: every key and row carries that pair and no
operation touches two pairs, so pairs do not interact. Variables `stock`
(`NoKey` when the Redis key is missing), `cache`, `row`, `inv`. The operators
are the Lua scripts (`CanReserve`/`AfterReserve`, `DecrReply`, `AfterIncr`) and
the guarded `UPDATE`s (`CanDecrement`/`AfterDecrement`, `AfterIncrement`),
including their clamps. `Shown(o)` is the overlay of the live status that every
read of an order applies (`order_service.py:396`). `Total(f)` is the sum of `f[o]` over the orders, as the
cardinality of the set of their units: it needs no recursion, so it can be
reasoned about in proofs.

The order row keeps status and quantity. Names, prices, tags and vendor ids
decide nothing in the modelled steps.

### OrderPlacement

| action | code |
| --- | --- |
| `PlaceOrder`, `LookupFails` | `create_order` up to the menu and vendor lookups |
| `Reserve`, `ReserveRefused` | `_reserve_inventory`, 404/409 |
| `CachePending` | `order_service.py:83` |
| `Publish`, `PublishRaises` | `order_service.py:103`; the latter with the broker having, or not having, the message |
| `RestoreUnit`, `ForgetStatus` | the `except` clause, one INCR per step |
| `TaskDies` | crash, or an error outside the `try` (for example of Redis at line 83), after stock was reserved |
| `Deliver` | prefetch; the messages of a lost consumer go before all others |
| `InsertRow`, `InsertDuplicate` | `order_repo.create`, refused by the primary key |
| `DecrementStock`, `DecrementRefused` | `inventory_repo.decrement` and the `RuntimeError` |
| `CacheConfirmed` | `order_worker.py:64` |
| `Notified`, `NotifyRaises` | `notify_order_created` returns or raises; the end of `message.process(requeue=True)` |
| `HandlerRaises` | an error of PostgreSQL or Redis at any await: rejected with requeue, to the back of the queue |
| `HandlerDies` | the process or its connection is lost at any await: back to the head of the queue |
| `ExpireStatus`, `LoseKey` | TTLs |

`pc[o]` is the next await of the task creating `o`; `hpc[o]` the next await of
the handler of its message; `held[o]` (a history of what the task reserved and
gave back) and `msg[o]` (where its message is) complete the state. The constant
`Faults` selects which failures can happen, so a property can be checked
exactly under the failures it survives.

An order is *unannounced* (`Unannounced`) when its row is there, readers fall
back to it because the live status has expired or was deleted, and the worker
has not come past the decrement. The row says "confirmed" from the `INSERT` on,
so such an order is shown as confirmed and may not be sold, now or ever (its
handler may have stopped). `ConfirmedIsSold` is about all others shown as
confirmed, `ConfirmedHasUnits` about these too: their units are reserved in
Redis, as long as no publish is ambiguous.

### OrderChanges

`cancel_order`, `cancel_vendor_order` and `_cancel_loaded_order` differ in who
may call them and share all their writes, so they are one operation: `Load`,
`SetCancelled`, `RestoreUnit`*, `Increment`, `CacheStatus`.
`_update_order_quantity` is `Load` followed by `TakeUnit`*/`TakeRefused`,
`Decrement`/`DecrementRefused`, `RollbackUnit`*, `WriteQuantity` upwards, or
`RestoreUnit`*, `Increment`, `WriteQuantity` downwards. `complete_order` is
`Load`, `SetStatus`, `CacheStatus`. `update_order`, which no router offers, is
one of these for employees and vendors; its admin branch (the op `"write"`) has
the steps of a completion with any status and no guard. `job[r]` is the snapshot the request
decided on, `units[r]` the counter of its loop.

Two constants separate three different questions: `Overlap` (may two requests
for one order run at once?) and `Crashes` (may a task die between awaits?).
Requests on *different* orders always interleave, since they share the
counters. The stock key does not expire in this module; it does in
`OrderSystem`.

Cancelling a completed order and changing its quantity are allowed, as in the
code: only "cancelled" is refused there.

### InventoryAdmin

| action | code |
| --- | --- |
| `CacheMiss`, `QueryRemaining`, `WarmCache` | `get_inventory` past a miss; a hit is a read |
| `SetInventory`, `ReadSold` | `set_inventory` up to the comparison with `sold_quantity` |
| `ListConfirmed` | `list_confirmed_by_menu_and_date` |
| `ForceCancel`, `RestoreUnit`*, `Increment`, `CacheCancelled` | `_cancel_order_force` for one listed order, as it was when listed, until the overflow is covered |
| `ReadAgain`, `ReductionRefused` | the second read; 409 |
| `Upsert`, `Overwrite` | the upsert, then the counter from the `sold_quantity` read earlier |
| `Dies` | a crash, or an error of a store, the broker or a notification, which nothing catches; `"half_set"` when between `Upsert` and `Overwrite` |

`task[a]` holds the locals that survive an await. The code cancels the latest
order first; the model takes any, since no property tells orders apart. The
module has steps only: alone it has nothing to disagree with.

### OrderSystem

`SystemInit` and `SystemNext` combine the three task modules over one set of
stores. `tpc` and `apc` are the program counters of placement and of
`InventoryService`, `pc` that of the requests; `Crashes` and `AdminCrashes` say
whether requests and tasks of `InventoryService` may die.
`Place`, `ChangeOrder`/`GoOn`, `AskInventory`/`AdminGoesOn` are a step of each
with the others' variables unchanged. A request can find an order from the
worker's `INSERT` on, before its decrement and its "confirmed".

The code has no lock, so every interleaving is possible, and several of them
break what the docs say. Two constants restrict the *users*, so that what does
hold can be stated: with `Settled` requests only change orders the worker is
done with; with `Exclusive` a task of `InventoryService` starts when nothing
else is going on and is left alone until it has answered or died.

**The refinement.** `Owns[o]` is what the placement task holds until the row
exists and from then on what the row says, as far as a request in flight has
not given it back or taken more. `LedgerPhase[o]` is the phase of placement
until the row exists; then `"standing"`, `"leaving"` while a cancelled order's
units go back one by one, `"gone"`. The `INSERT`, the decrement, the
redeliveries and the notifications are stuttering steps.

## 3. What TLC checks

`CHECK_DEADLOCK FALSE` everywhere: when every request is answered and every
message acknowledged the modelled system rightly has nothing left to do.

| run | instance | states | shows |
| --- | --- | --- | --- |
| `placement_faults` | 2 orders of 1..2 units, inventories 0..3, all faults | 271 k | `StockConserved`, `AcceptedFit`, `AcceptedNotLost`, `DbBooksBalance`, `SoldAtMostOnce`, `ConfirmedIsSold`, `LiveStatusForward`, `ImplementsLedger` hold whatever fails |
| `placement_clean` | 3 orders, no ambiguous publish | 131 k | `WorkerNeverRefused`: the database never refuses what Redis reserved; `ConfirmedHasUnits` |
| `placement_delivery` | 2 orders, prefetch 1, ambiguous publishes, raising and dying handlers, failing notifications, fairness | 65 k | `AcceptedPersisted`, `ImplementsFairLedger` |
| `changes_serial` | 3 requests on 2 orders of 1..3 units, inventories 0..4, crashes, no overlap on one order | 1.7 M | `BooksAgreeAtRest`, `InFlightLedger`, `CrashNeverOversells`, `CancelledStays`, `LiveStatusAgrees`, `DbBooksBalance` |
| `system_serial` | 2 orders of 1..2 units placed and changed by 2 requests, inventories 0..2, tasks and handlers dying, no overlap on one order | 243 k | `UnitsConserved`, `OffersOnlyOutstanding`, `NotResurrected`, `ImplementsLedger` |
| `admin_exclusive` | 2 orders, 1 request, 2 tasks of `InventoryService`, inventories 0..2, expiring counter, requests and tasks dying, `Settled`, `Exclusive` | 1.7 M | `BooksAgreeWhenQuiet`, `LiveStatusWhenQuiet`, `CrashLeavesFewer`, `RefusedOnlyDuringGiveBack`, `DbBooksBalance` |
| `redelivery_stuck` | handlers may die | violated | `PendingResolves` |
| `notify_breaks_flow` | notifications may raise | violated | `NotificationHarmless` |
| `double_cancel` | 2 overlapping cancellations | violated | `SecondCancelRefused` |
| `giveback_race` | 2 orders, 1 cancellation, no fault | violated | `WorkerNeverRefused` |
| `set_forgets_pending` | 2 orders, 1 `set_inventory`, no fault | violated | `NotOversold` |
| `set_below_sold` | 2 orders, 1 `set_inventory`, no fault | violated | `DbBooksBalance` |

`ImplementsLedger` is the strongest of them: admission and compensation at
placement, and in `OrderSystem` also every cancellation and change of quantity,
look to an observer of units like the steps of `Ledger`, at every await of every
interleaving. `ImplementsFairLedger` adds that a compensation ends with all
units returned; `system_serial` checks safety only.

### What the violations show

* **redelivery_stuck.** The row is inserted, then the handler dies. The
  redelivered message is refused by the primary key for ever. The order stays
  "pending" for its customer, and `sold_quantity` never counts it.
* **notify_breaks_flow.** The order is written, sold and confirmed; then the
  answer of the notification service is not read in time. `_send_notification`
  catches only `HTTPError` and `URLError`, the exception leaves
  `handle_created`, and the message is requeued and from then on refused by the
  primary key for ever, although the notification was to be sent "without
  breaking main business flow on failure" (`notification_service.py:167`).
* **double_cancel.** Both cancellations load "confirmed", both update, both
  give the units back.
* **giveback_race.** Order 1 is confirmed and cancelled. Its unit is back in
  Redis but not yet in `daily_inventory`; order 2 takes it, is accepted, and its
  handler inserts the row and is refused by the `UPDATE`. The redelivered
  message is then refused by the primary key for ever, as in `redelivery_stuck`.
  `RefusedOnlyDuringGiveBack` says this window is the only one when `Settled`
  and `Exclusive` hold.
* **set_forgets_pending.** An order is accepted and still in the queue. A
  vendor sets the inventory to what it already was: `sold_quantity` is 0, the
  counter is overwritten with the full quantity and the unit is sold again. The
  warm-up of `get_inventory` after an expired counter loses the same orders.
* **set_below_sold.** `set_inventory(0)` reads that nothing is sold, the worker
  sells a unit, and the upsert makes `max_quantity` 0 with `sold_quantity` 1.

`StockConserved` and `WorkerNeverRefused` separate two things. The first is
about units *held* and survives an ambiguous publish, which gives them up; the
second is the agreement between the queue and Redis, and is checked and proved
without ambiguous publishes, because the compensation then sells units again
whose message is in the queue (`order_service.py:104`).

### Bounds, and why they are enough

Quantities up to 2 (placement) and 3 (changes) make every loop run zero, one
and several times and be interrupted in the middle. Inventories run from 0 up to
less than the total that can be asked for, so refusals and exact fits happen.
Two orders compete for the last unit; three let one be refused while another is
being compensated. Three requests on two orders let two interleave
on the shared counters while a third follows on an order already changed. A prefetch
of 1 is the worst case for delivery, since one message that can never succeed
holds the whole window: `placement_delivery` shows that the other order still
gets its turn. With a prefetch of 2 the safety runs let two handlers
interleave. One prefetch window is modelled; several processes have one each.
In `system_serial` two orders and two requests let one order be placed while
the other is cancelled and a third task changes the first. In `admin_exclusive`
the second task of `InventoryService` meets what the first, dead or refused,
left behind, and the counter can expire between any two steps. The violation
runs of `OrderSystem` need one unit, two orders and one other task. Symmetry in
orders, requests and admins is used in safety runs only.

### Fairness

`FairSpec` assumes weak fairness of every step of a task or handler that has
started (the event loop runs ready tasks), strong fairness of `Deliver` (the
queue is first in, first out and a rejected message goes to its back, so a
message whose turn comes again and again is delivered) and strong fairness of
the `INSERT`, made or refused (process and database do not fail at this same
await on every redelivery). Nothing is assumed of clients, failures or TTLs. A task that dies takes no further step,
so `ImplementsFairLedger` is checked with task deaths excluded.

### Mutants

Each property of a passing run has a plausible bug of the code that violates
it, defined next to the operator it replaces and introduced by "Plausible bug":
a Lua script that ignores the quantity, `process()` without requeue, an
idempotent `INSERT` without an idempotent decrement, a compensation loop off by
one, a missing rollback, and so on.

## 4. What is proved

Everything here holds for every finite set of orders, every set of requests and
tasks, every bound and every prefetch. The assumptions on the constants are
finitely many orders, positive `MaxQty` and `Prefetch`, natural `Capacity`,
Boolean switches, and `NoKey` not an integer. What a theorem assumes beyond
these is in its row. The strengthened invariants were checked by TLC on the
instances of section 3 before they were proved.

### Placement

`OrderPlacementProofs` and, for the last theorem, `PlacementRefinement`:

| theorem | statement |
| --- | --- |
| `Invariance` | `Spec => []IInv` |
| `TypeCorrect`, `StockIsConserved`, `NoOversell`, `NoOrderLost`, `BooksBalance`, `NoDoubleSale`, `ConfirmedMeansSold` | the invariants of `placement_faults` |
| `LiveStatusNeverBack` | `Spec => LiveStatusForward` |
| `WorkerIsNeverRefused`, `ConfirmedHoldUnits` | `[]WorkerNeverRefused`, `[]ConfirmedHasUnits`, assuming `"ambiguous"` is not in `Faults` |
| `PlacementImplementsLedger` | `Spec => ImplementsLedger`, the refinement of `Ledger` by `OrderPlacement` |

None of these properties is inductive alone. `IInv` adds what each program
counter implies:

* `TaskLink` ties `pc`, `qty`, `held` and `msg` together (a task past its
  reservation holds exactly what it asked for; there is no message before
  `Publish`);
* `HandlerLink` ties `hpc` to `msg` and `row` (exactly the unacknowledged
  messages have a handler; past the `INSERT` there is a row);
* `RowLink`, `CacheLink` say rows and "confirmed" come from the worker;
* `CleanLink`: without an ambiguous publish only accepted orders have messages.

`StockConserved` then follows because every action changes `stock` and
`Total(held)` by opposite amounts. `SoldAtMostOnce` counts what is sold plus
what handlers are about to decrement: an `INSERT` adds its quantity to both
sides, and the primary key makes that happen once. `ConfirmedIsSold` follows
from `SoldLink`: the orders past their decrement (`Decremented`: the handler is
past it, the message is acknowledged, or the live status is "confirmed") are
covered by `sold`, and only `DecrementStock` adds one; an order shown as
confirmed that is not among them is unannounced. `ConfirmedHasUnits` follows
from the links: a row is that of an accepted order (`RowLink`, `CleanLink`),
which holds its units (`TaskLink`). `WorkerNeverRefused` combines
them: what is sold or about to be is at most the rows, the rows belong to
accepted orders (`RowLink`, `CleanLink`), which hold their units (`TaskLink`),
which fit in the inventory (`StockConserved`).

The refinement needs no further invariant. An order's phase is a function of
its `pc` and `held`, so a step of one task changes one phase (`PhaseAfter`) and
every other step none (`StutterStep`). `Reserve` is `Admit`: the units it takes
are free in the ledger because `StockConserved` makes what Redis holds at most
`Free`. `TaskDies` is `Abandon`, or a stutter when the last unit is back already
(`TaskLink` says which).

### Order changes

`OrderChangesProofs`:

| theorem | statement | assuming |
| --- | --- | --- |
| `ChangesTypeCorrect` | `Spec => []TypeOK` | |
| `ChangesBooksBalance` | `Spec => []DbBooksBalance` | |
| `SerialInvariance` | `Spec => []SerialInv` | `~Overlap` |
| `LedgerInFlight`, `BooksAgree`, `CrashesNeverOversell`, `LiveStatusIsRow` | `[]InFlightLedger`, `[]BooksAgreeAtRest`, `[]CrashNeverOversells`, `[]LiveStatusAgrees` | `~Overlap` |
| `CancelledForGood` | `Spec => CancelledStays` | `~Overlap` |

The first two hold however requests overlap and die; `double_cancel` shows what
the others lose without `~Overlap`. `Crashes` may be either: the statements say
themselves when no one may have died.

* `JobLink` says for each await what the job is and how far its loop has come
  (a task in `restore` has 1 to `Amount` units to go). It makes the types
  inductive: no loop counter leaves `0..MaxQty`.
* `OneAtATime` and `RowLink`: the one request active for an order still knows
  its row, whose status and quantity are what it loaded, except for what it has
  written itself. `CancelledForGood` follows: only a request that loaded the
  order writes its status, and it did not load "cancelled".
* `InFlightLedger` is the exact equation, `NeverTooMany` the inequality that
  survives deaths. A step moves units between `stock` and what its request
  holds, and nothing else (`MovesUnits`), so the equation is kept by
  `TotalChange`; a death replaces what the request held by what the row says,
  which is no more, except in a reduction.
* `CacheLink`: a live status that differs from its row belongs to an order whose
  request is about to rewrite it.

At rest `RedisOwns` and `DbOwns` are the live quantities (`RestFacts`), and the
statements about rest follow.

### The system

`OrderSystemProofs` and, for the last theorem, `SystemRefinement`:

| theorem | statement | assuming |
| --- | --- | --- |
| `SystemTypeCorrect` | `SystemSpec => []SystemTypeOK` | |
| `OrdersStayDown` | `SystemSpec => NotResurrected` | no admin's `"write"` in `Ops` |
| `SystemBooksBalance` | `SystemSpec => []DbBooksBalance` | `Separate`: `Exclusive`, or no task of `InventoryService` |
| `SystemConservesUnits` | `SystemSpec => []UnitsConserved` | `Undisturbed` |
| `OffersOutstandingOnly` | `SystemSpec => []OffersOnlyOutstanding` | `Undisturbed` |
| `SystemImplementsLedger` | `SystemSpec => ImplementsLedger` | `Undisturbed` |

`Undisturbed` is the setting of `system_serial`: requests for one order do not
overlap and do not die, no admin writes statuses, no publish is ambiguous, the
counter does not expire, and no inventory is set; tasks of placements may die,
handlers raise or die, and messages come again, at any await. Each part is needed.
With overlaps units come back twice (`double_cancel`), a dead request keeps
some, an admin's write brings a cancelled order back without its units, an
ambiguous publish leaves a message whose units were returned, and a set or
expired counter forgets pending orders (`set_forgets_pending`). `Separate` is
needed because of `set_below_sold`.

* `SystemLinks` holds whatever the constants are: the links of placement and of
  the requests, `KnownRows` (a row once written stays, so every snapshot is of
  a row that is there) and `AdminLink` (an order being cancelled by
  `set_inventory` was listed, with as many units). With it the types are
  inductive, and `OrdersStayDown` follows: the worker only writes a row where
  there is none.
* `AdminAlone` says that what a `set_inventory` compared is still sold when it
  writes: its upsert cannot lower `max_quantity` below `sold_quantity`.
* `SerialSystemInv` adds the placement's `CleanLink`, `WrittenLink` (a row is
  that of an accepted order) and `UnitsConserved` itself. Each step moves units
  between the counter and one order: `PlacementOwns` for a placement, whose
  `INSERT` hands the units over from the task to the row, `RequestOwns` for a
  request, from the `MovesUnits` of its own module, `LoadOwns` for a snapshot.
* `OffersOnlyOutstanding` bounds what PostgreSQL offers too much: an `INSERT`
  makes a live order before its decrement, a handler can stop between the two
  for good, and a cancellation that overtakes the decrement lowers what another
  order counts, or is clamped. `Ahead` are the units of the outstanding
  messages; `OfferInv` is `sold + Ahead >= what live orders own`. An order is
  outstanding from its `INSERT` at most until its decrement (`AheadAfter`):
  the `INSERT` adds its units to both sides, the decrement moves them from
  `Ahead` to `sold`, an `Increment` takes off `sold` no more than its request
  takes off what is owned, and the clamp only helps. A message that is never
  acknowledged stays outstanding, so nothing needs to be excluded; when all
  are acknowledged the bound is 0.
* In the refinement every step is a `LedgerMove` of one order, and each such
  move is a step of `Ledger` or a stutter (`MoveRefines`). An admission, or an
  increase, takes what is free because `UnitsConserved` makes `stock` the
  ledger's `Free`. A request gives back only what its order owns, because
  `JobLink` bounds its loop and `RowLink` says its row is still the one it
  loaded; a cancellation marks the row first, so its order is leaving already.

### The system with InventoryService at work

`InventoryProofs`, all under `Guarded`:

| theorem | statement |
| --- | --- |
| `VendorsBooksAgree` | `SystemSpec => []BooksAgreeWhenQuiet` |
| `CrashesLeaveFewer` | `SystemSpec => []CrashLeavesFewer` |
| `RefusalsNeedGiveBack` | `SystemSpec => []RefusedOnlyDuringGiveBack` |
| `ReadersAreShownTheRow` | `SystemSpec => []LiveStatusWhenQuiet` |

`Guarded` is the setting of `admin_exclusive`, for any numbers: `Settled`,
`Exclusive`, no overlap on one order, no admin's write, and neither the worker
nor a placement fails. The counter may expire at any await; requests and tasks
of `InventoryService` may die at any await, and orders are placed, changed and
cancelled by vendors afterwards. Outside it the statements are false, or say
nothing: without `Settled` a cancellation can overtake the decrement and
`sold_quantity` is clamped, without `Exclusive` there are `set_forgets_pending`
and `set_below_sold`, a placement task that dies keeps units no row has, and an
order whose handler died is never acknowledged (`redelivery_stuck`), so that the
system is never quiet again.

The invariant has three layers.

* `Calm` says what the parts know of each other: `SerialSystem` (the links above
  without the equation on units, with a counter that may be missing),
  `SettledLink` (a row whose message is not acknowledged is as the worker wrote
  it, and no request is on it), `AdminView` (while a task of `InventoryService`
  is active every order is quiet, and what the task has read, `seen`, `want`
  and the listed rows, is still so). From it `TaskMoves` reduces the twelve
  steps of `InventoryService` to seven kinds with what each does to the stores:
  it looks, cancels an order as listed, gives back a unit, increments, shows
  the cancellation, fills the counter with what `daily_inventory` has left, or
  sets an inventory that what is sold fits in.
* `AdminLedger` and `AdminFewer` count. `Counted` are the units of the orders
  whose decrement was made. As long as nobody died, `sold_quantity` is
  `Total(Counted)` plus the order being cancelled until its `Increment`, and a
  counter that is set, with `Owns` and the units still to be restored, is the
  inventory, except between `Upsert` and `Overwrite`; `Owns` fits in the
  inventory also while the counter is missing, which is what a warm-up relies
  on. After deaths the equations become inequalities. A placement or request
  only trades units between the stores and its order (`Traded`, which rests on
  `PlacementTrades` and `RequestTrades`); a task, alone with quiet orders, for
  which `Owns` and `Counted` are both the live quantities (`QuietCounts`), moves
  those of the order it cancels.
* `SettledCache`: once the worker has announced an order, a live status that
  differs from the row is about to be rewritten by a request or by the task
  that cancelled the order.

`RefusalsNeedGiveBack` compares the two books order by order: a request that is
not giving back has taken no more from `daily_inventory` than from Redis
(`RedisFirst`), and the order about to be decremented owns its units in Redis
and counts none yet, so `sold_quantity` plus its units is at most what is owned.

### Counting

`StoresProofs` holds the lemmas on `Total`: it is a natural number
(`TotalType`), depends on the values only (`TotalSame`), is monotone
(`TotalMonotone`), changes by exactly the change at one order (`TotalChange`,
from `TotalSplit`), and is at least each value (`TotalAtLeast`). Each is a fact
about finite sets of pairs and is proved without induction over the orders.

**Model-checked only.** `AcceptedPersisted` and `ImplementsFairLedger`, since
liveness under fairness is outside what these provers do. Every invariant and
action property of the passing runs, and each safety refinement, is a theorem.
What the violation runs show are counterexamples, which TLC finds.

## 5. What is not modelled

* Deadlines, ownership and role checks, list queries: they refuse or filter and
  change no store. A request they refuse is one that is never sent.
* `order.cancelled` events: published after all writes, consumed elsewhere.
* Prices, names, recipients, texts, metrics and logs; the retry loop of
  `init_rabbitmq`.
* A Redis restart from its snapshot (`docker-compose.yml`, `--save 60 1`),
  which rolls the counter back: no code notices or repairs it, so there is no
  behaviour of the program to specify.
* A menu whose inventory was never set: like one with an inventory of 0, every
  statement finds nothing it may change.
* Requests that overlap on one order, beyond `double_cancel`: all the races the
  hazards list follow from the same stale snapshot.
* RabbitMQ is modelled from how `db/rabbitmq.py` uses it: durable quorum queue,
  publisher confirms, redelivery of unacknowledged messages. With the
  `rabbitmq:3.13` of `src/docker-compose.yml:94` and no delivery limit on the
  queue (`db/rabbitmq.py:43-48`), a rejected message goes to the back and only
  the messages of a lost consumer return to the head; both are modelled.

## 6. Plan

1. `UnitCount`, `Stores`, `OrderPlacement`, `OrderChanges`, `Ledger`,
   `InventoryAdmin`, `OrderSystem`: done, with the proofs of section 4.
2. `InventoryProofs`, the system with `InventoryService` at work: done. Its
   invariants `Calm`, `AdminLedger`, `AdminFewer` and `SettledCache` were tried
   with TLC on the instance of `admin_exclusive` and hold there; they are not
   part of a run.
3. Open: `CrashLeavesFewer` when placements and handlers die as well. The dead
   tasks' units would have to be counted apart from those of the live orders,
   and a decrement that was made before a handler died would need a history
   variable.
