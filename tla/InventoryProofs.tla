--------------------------- MODULE InventoryProofs ---------------------------
(***************************************************************************)
(* Proofs about the system with InventoryService at work: a vendor lowers  *)
(* the inventory and orders are cancelled for it, the counter expires and  *)
(* is filled again, requests and tasks die half way.  What is assumed is   *)
(* about the users (Guarded); the numbers of orders, units, requests and   *)
(* tasks are not bounded.                                                  *)
(*                                                                         *)
(* The invariants are in three layers: Calm says what each part knows of   *)
(* the others, AdminLedger and AdminFewer count the units, SettledCache    *)
(* follows the live statuses.                                              *)
(***************************************************************************)
EXTENDS OrderSystemProofs

\* Requests for one order come one after the other, once the worker is done
\* with it, no admin writes a status, and InventoryService works only while
\* nothing else does.  The counter may expire at any time, requests and tasks
\* of InventoryService may die.
Guarded ==
    /\ ~Overlap /\ "write" \notin Ops
    /\ Faults \subseteq {"key_lost"}
    /\ Settled /\ Exclusive

-----------------------------------------------------------------------------
(***************************************************************************)
(* What the parts know of each other.                                      *)
(***************************************************************************)
\* What a task of InventoryService has read is still so.
ViewOf(step, t) ==
    /\ step = "warm" => t.seen = inv.remaining
    /\ step \in {"upsert", "overwrite"} => t.seen = inv.sold
    /\ step = "overwrite" => t.want = inv.max
    /\ step \in {"cancel", "restore", "increment", "cache_status"} =>
          \A j \in t.next : row[j.order] = Confirmed(j.quantity)
    /\ step \in {"restore", "increment", "cache_status"} =>
          row[t.now.order].status = "cancelled"

AdminView ==
    \A a \in Admins :
        Admin!Active(a) => OrdersQuiet /\ ViewOf(apc[a], task[a])

\* A request only changes an order the worker is done with; until then its
\* row is as the worker wrote it.
SettledLink ==
    /\ \A r \in Requests : Active(r) => msg[job[r].order] = "acked"
    /\ \A o \in Orders :
          /\ row[o] # NoRow /\ msg[o] # "acked" => row[o] = Confirmed(qty[o])
          /\ tpc[o] # "dead"

Calm ==
    /\ SerialSystem
    /\ DbBooksBalance /\ AdminAlone
    /\ AdminView
    /\ SettledLink

LEMMA CalmFacts ==
    ASSUME Calm
    PROVE  /\ SerialSystem /\ SystemTypeOK /\ SystemLinks
           /\ Placement!TypeOK /\ TypeOK /\ Admin!TypeOK
           /\ Placement!TaskLink /\ Placement!HandlerLink
           /\ JobLink /\ KnownRows /\ AdminLink
           /\ StockCounts /\ OneAtATime /\ RowLink
           /\ Placement!CleanLink /\ WrittenLink
           /\ DbBooksBalance /\ AdminAlone /\ AdminView /\ SettledLink
BY DEF Calm, SerialSystem, SystemTypeOK, SystemLinks

\* The stores' and the local variables' types, as the steps below need them.
LEMMA CalmTypes ==
    ASSUME Calm
    PROVE  /\ row \in [Orders -> [status   : Statuses \cup {"absent"},
                                  quantity : 0..MaxQty]]
           /\ cache \in [Orders -> Statuses \cup {"none"}]
           /\ inv.max \in Nat /\ inv.sold \in Nat /\ inv.remaining \in Int
           /\ stock \in Nat \/ stock = NoKey
           /\ apc \in [Admins -> Admin!Steps]
           /\ task \in [Admins -> Admin!Locals]
           /\ tpc \in [Orders -> Placement!TaskSteps]
           /\ qty \in [Orders -> 0..MaxQty] /\ held \in [Orders -> 0..MaxQty]
           /\ msg \in [Orders -> Placement!MsgStates]
           /\ hpc \in [Orders -> Placement!HandlerSteps]
           /\ MaxQty \in Nat
BY CalmFacts, MaxQtyAssumption
   DEF TypeOK, StoresTypeOK, Admin!TypeOK, Placement!TypeOK, StockCounts

\* When all is quiet every row is that of an order the worker is done with.
LEMMA QuietRows ==
    ASSUME Calm, OrdersQuiet
    PROVE  /\ AtRest
           /\ \A o \in Orders :
                 /\ row[o] # NoRow => msg[o] = "acked"
                 /\ row[o] = NoRow => msg[o] # "acked" /\ held[o] = 0
                 /\ hpc[o] = "idle"
<1> SUFFICES ASSUME NEW o \in Orders
             PROVE  /\ row[o] # NoRow => msg[o] = "acked"
                    /\ row[o] = NoRow => msg[o] # "acked" /\ held[o] = 0
                    /\ hpc[o] = "idle"
    BY DEF OrdersQuiet
<1>1. /\ tpc[o] \in {"new", "reserve", "accepted", "failed", "dead"}
      /\ msg[o] \in {"none", "acked"} /\ tpc[o] # "dead"
    BY CalmFacts DEF OrdersQuiet, SettledLink
<1>2. hpc[o] = "idle"
    BY <1>1, CalmFacts DEF Placement!HandlerLink
<1>3. row[o] # NoRow => msg[o] = "acked"
    BY <1>1, CalmFacts DEF WrittenLink, Placement!TaskLink
<1>4. row[o] = NoRow => msg[o] # "acked"
    BY CalmFacts DEF Placement!HandlerLink, Placement!NoRow, NoRow
<1>5. row[o] = NoRow => tpc[o] # "accepted"
    BY <1>1, <1>4, CalmFacts DEF Placement!TaskLink
<1>6. row[o] = NoRow => held[o] = 0
    BY <1>1, <1>5, CalmFacts DEF Placement!TaskLink
<1> QED
    BY <1>2, <1>3, <1>4, <1>6

LEMMA CalmInit == SystemInit => Calm
<1> SUFFICES ASSUME SystemInit PROVE Calm
    OBVIOUS
<1>1. SystemTypeOK /\ SystemLinks
    BY SystemTypesInit
<1>2. DbBooksBalance /\ AdminAlone
    BY BooksSystemInit
<1>3. StockCounts /\ OneAtATime /\ RowLink /\ Placement!CleanLink /\ WrittenLink
    BY SystemInvInit DEF SerialSystemInv, StockCounts, StockSet
<1>4. AdminView
    BY DEF SystemInit, Admin!Idle, Admin!Active, AdminView
<1>5. SettledLink
    BY DEF SystemInit, Placement!Init, Placement!NoRow, NoRow, Idle, Active,
           SettledLink
<1> QED
    BY <1>1, <1>2, <1>3, <1>4, <1>5 DEF Calm, SerialSystem

-----------------------------------------------------------------------------
(***************************************************************************)
(* They go on knowing it, at every step.                                   *)
(***************************************************************************)
\* The worker does not fail and no task of a placement dies.
LEMMA PlacementGoesWell ==
    ASSUME Guarded, NEW o \in Orders, Placement!OrderStep(o)
    PROVE  \/ \E q \in Placement!Quantities : Placement!PlaceOrder(o, q)
           \/ Placement!LookupFails(o) \/ Placement!ReserveRefused(o)
           \/ Placement!Reserve(o) \/ Placement!CachePending(o)
           \/ Placement!Publish(o) \/ Placement!PublishRaises(o)
           \/ Placement!RestoreUnit(o) \/ Placement!ForgetStatus(o)
           \/ Placement!Deliver(o)
           \/ Placement!InsertRow(o) \/ Placement!InsertDuplicate(o)
           \/ Placement!DecrementStock(o) \/ Placement!DecrementRefused(o)
           \/ Placement!CacheConfirmed(o) \/ Placement!Notified(o)
           \/ Placement!ExpireStatus(o)
<1>1. /\ "task_dies" \notin Faults /\ "handler_dies" \notin Faults
      /\ "handler_raises" \notin Faults /\ "notify_raises" \notin Faults
    BY DEF Guarded
<1> QED
    BY <1>1 DEF Placement!OrderStep, Placement!TaskStep, Placement!HandlerStep,
                Placement!TaskDies, Placement!HandlerDies,
                Placement!HandlerRaises, Placement!NotifyRaises

\* What a step of placement leaves of a message: an acknowledged one stays,
\* and an order changes its quantity only before it has a row.
LEMMA SettledPlacement ==
    ASSUME Guarded, Calm, NEW o \in Orders, Place(o)
    PROVE  SettledLink'
<1>1. Placement!OrderStep(o) /\ UNCHANGED <<pc, job, units>>
    BY DEF Place, changes
<1>2. /\ Placement!TypeOK /\ Placement!TaskLink /\ Placement!HandlerLink
      /\ JobLink /\ WrittenLink /\ SettledLink
    BY CalmFacts
<1>3. "ambiguous" \notin Faults
    BY DEF Guarded
<1>4. /\ msg \in [Orders -> Placement!MsgStates]
      /\ hpc \in [Orders -> Placement!HandlerSteps]
      /\ tpc \in [Orders -> Placement!TaskSteps]
      /\ qty \in [Orders -> 0..MaxQty]
    BY CalmTypes
<1>5. \A p \in Orders : msg[p] = "acked" => msg'[p] = "acked"
    <2>1. CASE msg' = msg
        BY <2>1
    <2>2. CASE Placement!Publish(o) \/ Placement!PublishRaises(o)
        BY <1>2, <1>3, <1>4, <2>2
           DEF Placement!Publish, Placement!PublishRaises, Placement!TaskLink
    <2>3. CASE Placement!Deliver(o) \/ Placement!Notified(o)
        BY <1>4, <2>3 DEF Placement!Deliver, Placement!Notified
    <2>4. CASE Placement!InsertDuplicate(o) \/ Placement!DecrementRefused(o)
        BY <1>2, <1>4, <2>4
           DEF Placement!InsertDuplicate, Placement!DecrementRefused,
               Placement!Requeue, Placement!HandlerLink
    <2> QED
        BY <1>1, <2>1, <2>2, <2>3, <2>4, PlacementGoesWell
           DEF Placement!PlaceOrder, Placement!LookupFails, Placement!Reserve,
               Placement!ReserveRefused, Placement!CachePending,
               Placement!RestoreUnit, Placement!ForgetStatus,
               Placement!InsertRow, Placement!DecrementStock,
               Placement!CacheConfirmed, Placement!ExpireStatus
<1>6. \A p \in Orders : qty'[p] = qty[p] \/ tpc[p] = "new"
    <2>1. CASE qty' = qty
        BY <2>1
    <2>2. CASE \E q \in Placement!Quantities : Placement!PlaceOrder(o, q)
        BY <1>4, <2>2 DEF Placement!PlaceOrder
    <2> QED
        BY <1>1, <2>1, <2>2, PlacementGoesWell
           DEF Placement!LookupFails, Placement!Reserve,
               Placement!ReserveRefused, Placement!CachePending,
               Placement!Publish, Placement!PublishRaises,
               Placement!RestoreUnit, Placement!ForgetStatus,
               Placement!Deliver, Placement!InsertRow,
               Placement!InsertDuplicate, Placement!DecrementStock,
               Placement!DecrementRefused, Placement!CacheConfirmed,
               Placement!Notified, Placement!ExpireStatus
<1>7. \A p \in Orders : tpc'[p] # "dead"
    <2>1. \/ tpc' = tpc
          \/ \E step : step # "dead" /\ tpc' = [tpc EXCEPT ![o] = step]
        BY <1>1, PlacementGoesWell
           DEF Placement!PlaceOrder, Placement!LookupFails, Placement!Reserve,
               Placement!ReserveRefused, Placement!CachePending,
               Placement!Publish, Placement!PublishRaises,
               Placement!RestoreUnit, Placement!ForgetStatus,
               Placement!Deliver, Placement!InsertRow,
               Placement!InsertDuplicate, Placement!DecrementStock,
               Placement!DecrementRefused, Placement!CacheConfirmed,
               Placement!Notified, Placement!ExpireStatus, Placement!Goto
    <2> QED
        BY <1>2, <1>4, <2>1 DEF SettledLink
<1>8. \/ row' = row
      \/ /\ Placement!InsertRow(o) /\ row'[o] = Confirmed(qty[o])
         /\ \A p \in Orders \ {o} : row'[p] = row[p]
    BY <1>1, <1>2, PlacementRows
<1>9. ASSUME NEW p \in Orders, row'[p] # NoRow, msg'[p] # "acked"
      PROVE  row'[p] = Confirmed(qty'[p])
    <2>1. CASE row'[p] = row[p]
        <3>1. row[p] = Confirmed(qty[p]) /\ tpc[p] = "accepted"
            BY <1>2, <1>5, <1>9, <2>1 DEF SettledLink, WrittenLink
        <3> QED
            BY <1>6, <2>1, <3>1
    <2>2. CASE row'[p] # row[p]
        <3>1. p = o /\ Placement!InsertRow(o) /\ row'[o] = Confirmed(qty[o])
            BY <1>8, <2>2
        <3> QED
            BY <3>1 DEF Placement!InsertRow
    <2> QED
        BY <2>1, <2>2
<1>10. \A r \in Requests : Active(r)' => msg'[job'[r].order] = "acked"
    BY <1>1, <1>2, <1>5 DEF SettledLink, Active, JobLink, Jobs
<1> QED
    BY <1>7, <1>9, <1>10 DEF SettledLink

\* A request starts on, and changes, orders the worker is done with.
LEMMA SettledRequest ==
    ASSUME Guarded, Calm, UNCHANGED placement, NEW r \in Requests,
           (\E o \in Orders : ChangeOrder(r, o)) \/ RequestStep(r) \/ Dies(r)
    PROVE  SettledLink'
<1>1. TypeOK /\ JobLink /\ KnownRows /\ SettledLink
    BY CalmFacts
<1>2. CASE RequestStep(r) \/ Dies(r)
    <2>1. /\ Active(r) /\ job' = job
          /\ \A p \in Orders \ {job[r].order} : row'[p] = row[p]
        BY <1>1, <1>2, RequestMoves DEF Dies
    <2>2. \A s \in Requests : Active(s)' => Active(s)
        BY <1>1, <1>2, <2>1, RequestMoves DEF Active, Dies, Goto, TypeOK
    <2>3. msg[job[r].order] = "acked"
        BY <1>1, <2>1 DEF SettledLink
    <2> QED
        BY <1>1, <2>1, <2>2, <2>3 DEF SettledLink, placement
<1>3. ASSUME NEW o \in Orders, ChangeOrder(r, o) PROVE SettledLink'
    <2>1. /\ row' = row /\ msg[o] = "acked" /\ Load(r, o)
          /\ UNCHANGED <<tpc, qty, held, msg, hpc>>
        BY <1>3 DEF ChangeOrder, Load, stores, Guarded, placement
    <2>2. /\ job'[r].order = o
          /\ \A s \in Requests \ {r} : pc'[s] = pc[s] /\ job'[s] = job[s]
        BY <1>1, <2>1 DEF Load, JobsOn, Goto, TypeOK
    <2> QED
        BY <1>1, <2>1, <2>2 DEF SettledLink, Active
<1> QED
    BY <1>2, <1>3

\* All stays quiet while only tasks of InventoryService move.
LEMMA QuietStays ==
    ASSUME UNCHANGED placement, UNCHANGED changes
    PROVE  OrdersQuiet' <=> OrdersQuiet
BY DEF placement, changes, OrdersQuiet, AtRest, Active

\* A task of InventoryService at work is alone with quiet orders, and what it
\* has read is still so.
LEMMA TaskAlone ==
    ASSUME Calm, NEW a \in Admins, Admin!TaskStep(a) \/ Admin!Dies(a)
    PROVE  /\ Admin!Active(a) /\ OrdersQuiet /\ ViewOf(apc[a], task[a])
           /\ \A b \in Admins \ {a} :
                 ~Admin!Active(b) /\ apc'[b] = apc[b] /\ task'[b] = task[b]
<1>1. Admin!Active(a)
    BY DEF Admin!TaskStep, Admin!QueryRemaining, Admin!WarmCache,
           Admin!ReadSold, Admin!ListConfirmed, Admin!ForceCancel,
           Admin!RestoreUnit, Admin!Increment, Admin!CacheCancelled,
           Admin!ReadAgain, Admin!ReductionRefused, Admin!Upsert,
           Admin!Overwrite, Admin!Dies, Admin!Active
<1>2. OrdersQuiet /\ ViewOf(apc[a], task[a])
    BY <1>1, CalmFacts DEF AdminView
<1>3. \A b \in Admins \ {a} : ~Admin!Active(b)
    BY <1>1, CalmFacts DEF AdminAlone
<1>4. \E step : apc' = [apc EXCEPT ![a] = step]
    BY DEF Admin!TaskStep, Admin!QueryRemaining, Admin!WarmCache,
           Admin!ReadSold, Admin!ListConfirmed, Admin!ForceCancel,
           Admin!RestoreUnit, Admin!Increment, Admin!CacheCancelled,
           Admin!ReadAgain, Admin!ReductionRefused, Admin!Upsert,
           Admin!Overwrite, Admin!Dies, Admin!Goto, Admin!Answer, Admin!Begin
<1>5. \A b \in Admins \ {a} : task'[b] = task[b]
    <2>1. CASE Admin!ForceCancel(a)
        <3>1. PICK j \in task[a].next : Admin!Begin(a, j)
            BY <2>1 DEF Admin!ForceCancel
        <3> QED
            BY <3>1, CalmTypes DEF Admin!Begin
    <2>2. task' = task \/ \E u : task' = [task EXCEPT ![a] = u]
              \/ Admin!ForceCancel(a)
        BY DEF Admin!TaskStep, Admin!QueryRemaining, Admin!WarmCache,
               Admin!ReadSold, Admin!ListConfirmed, Admin!RestoreUnit,
               Admin!Increment, Admin!CacheCancelled, Admin!ReadAgain,
               Admin!ReductionRefused, Admin!Upsert, Admin!Overwrite,
               Admin!Dies, Admin!Answer
    <2> QED
        BY <2>1, <2>2, CalmTypes
<1> QED
    BY <1>1, <1>2, <1>3, <1>4, <1>5, CalmTypes

-----------------------------------------------------------------------------
(***************************************************************************)
(* What a task of InventoryService does, knowing what it has read.         *)
(***************************************************************************)
\* It reads, and goes on to read, to write or to an answer ...
Looks(a) ==
    /\ apc[a] \in {"query", "read", "list", "reread"}
    /\ apc'[a] \notin {"restore", "increment", "cache_status", "overwrite"}
    /\ UNCHANGED stores

\* ... it cancels an order, which is confirmed and as it was listed ...
Cancels(a, j) ==
    /\ apc[a] = "cancel" /\ apc'[a] = "restore"
    /\ j.order \in Orders /\ j.quantity \in 1..MaxQty
    /\ row[j.order] = Confirmed(j.quantity)
    /\ row'[j.order] = [status |-> "cancelled", quantity |-> j.quantity]
    /\ \A p \in Orders \ {j.order} : row'[p] = row[p]
    /\ task'[a].now = j /\ task'[a].units = j.quantity
    /\ UNCHANGED <<stock, cache, inv>>

\* ... it gives the order's units back to the counter ...
Restores(a) ==
    /\ apc[a] = "restore" /\ task[a].units \in 1..MaxQty
    /\ task[a].now.quantity \in 1..MaxQty
    /\ stock' = IF stock = NoKey THEN NoKey ELSE stock + 1
    /\ task'[a].now = task[a].now /\ task'[a].units = task[a].units - 1
    /\ apc'[a] = IF task[a].units = 1 THEN "increment" ELSE "restore"
    /\ UNCHANGED <<cache, row, inv>>

\* ... and to daily_inventory, and shows the cancellation ...
Increments(a) ==
    /\ apc[a] = "increment" /\ apc'[a] = "cache_status"
    /\ task[a].now.quantity \in 1..MaxQty
    /\ task'[a].now = task[a].now
    /\ inv'.max = inv.max
    /\ inv'.sold = Greatest(inv.sold - task[a].now.quantity, 0)
    /\ UNCHANGED <<stock, cache, row>>

Caches(a) ==
    /\ apc[a] = "cache_status" /\ apc'[a] \in {"cancel", "reread"}
    /\ task[a].now.order \in Orders
    /\ row[task[a].now.order].status = "cancelled"
    /\ cache' = [cache EXCEPT ![task[a].now.order] = "cancelled"]
    /\ UNCHANGED <<stock, row, inv>>

\* ... it fills the counter with what daily_inventory has left ...
Fills(a) ==
    /\ apc[a] \in {"warm", "overwrite"} /\ apc'[a] = "done"
    /\ stock' = inv.max - inv.sold /\ stock' \in Nat
    /\ UNCHANGED <<cache, row, inv>>

\* ... or sets an inventory that what is sold fits in.
Sets(a) ==
    /\ apc[a] = "upsert" /\ apc'[a] = "overwrite"
    /\ inv'.max = task[a].want /\ inv'.sold = inv.sold /\ inv.sold <= inv'.max
    /\ inv'.max \in Nat
    /\ UNCHANGED <<stock, cache, row>>

TaskMove(a) ==
    \/ Looks(a) \/ (\E j \in Admin!Listed : Cancels(a, j)) \/ Restores(a)
    \/ Increments(a) \/ Caches(a) \/ Fills(a) \/ Sets(a)

LEMMA TaskMoves ==
    ASSUME Calm, NEW a \in Admins, Admin!TaskStep(a)
    PROVE  /\ TaskMove(a)
           /\ Admin!Active(a)' => ViewOf(apc[a], task[a])'
<1> DEFINE t == task[a]
           Moves == TaskMove(a) /\ (Admin!Active(a)' => ViewOf(apc[a], task[a])')
<1> SUFFICES Moves
    OBVIOUS
<1>1. /\ row \in [Orders -> [status   : Statuses \cup {"absent"},
                             quantity : 0..MaxQty]]
      /\ apc \in [Admins -> Admin!Steps] /\ task \in [Admins -> Admin!Locals]
      /\ inv.max \in Nat /\ inv.sold \in Nat /\ inv.remaining \in Int
      /\ MaxQty \in Nat
    BY CalmTypes
<1>2. /\ t.want \in 0..Capacity /\ t.seen \in Int /\ t.short \in Int
      /\ t.next \in SUBSET Admin!Listed
      /\ t.now \in Admin!Listed \cup {Admin!NoOrder}
      /\ t.units \in 0..MaxQty
    BY <1>1 DEF Admin!Locals
<1>3. ViewOf(apc[a], t)
    BY TaskAlone
<1>4. /\ 0 <= inv.sold /\ inv.sold <= inv.max
      /\ inv.remaining = inv.max - inv.sold
      /\ apc[a] = "upsert" => inv.sold <= t.want
    BY CalmFacts DEF DbBooksBalance, AdminAlone
<1>5. /\ apc[a] \in {"restore", "increment", "cache_status"} =>
            t.now.order \in Orders /\ t.now.quantity \in 1..MaxQty
      /\ apc[a] = "restore" => t.units > 0
    BY CalmFacts DEF AdminLink, Admin!Listed, Admin!Quantities
<1>6. CASE Admin!QueryRemaining(a)
    <2>1. /\ apc[a] = "query" /\ apc'[a] = "warm" /\ UNCHANGED stores
          /\ task'[a].seen = inv.remaining
        BY <1>1, <1>6 DEF Admin!QueryRemaining, Admin!Goto, Admin!Locals,
                          Admin!stores, stores
    <2> QED
        BY <2>1 DEF TaskMove, Looks, ViewOf, stores
<1>7. CASE Admin!ReadSold(a)
    <2>1. /\ apc[a] = "read" /\ apc'[a] \in {"list", "upsert"}
          /\ UNCHANGED stores /\ task'[a].seen = inv.sold
        BY <1>1, <1>7 DEF Admin!ReadSold, Admin!Goto, Admin!Locals,
                          Admin!stores, stores
    <2> QED
        BY <2>1 DEF TaskMove, Looks, ViewOf, stores
<1>8. CASE Admin!ListConfirmed(a)
    <2>1. /\ apc[a] = "list" /\ apc'[a] \in {"cancel", "reread"}
          /\ UNCHANGED stores /\ task'[a].next = Admin!ConfirmedOrders
        BY <1>1, <1>8 DEF Admin!ListConfirmed, Admin!Goto, Admin!Locals,
                          Admin!stores, stores
    <2>2. \A j \in Admin!ConfirmedOrders : row[j.order] = Confirmed(j.quantity)
        BY <1>1 DEF Admin!ConfirmedOrders, Confirmed
    <2> QED
        BY <2>1, <2>2 DEF TaskMove, Looks, ViewOf, stores
<1>9. CASE Admin!ForceCancel(a)
    <2>1. PICK j \in t.next :
              /\ row' = [row EXCEPT ![j.order].status = "cancelled"]
              /\ task' = [task EXCEPT ![a].now = j, ![a].next = @ \ {j},
                                      ![a].units = j.quantity]
              /\ Admin!Goto(a, "restore")
        BY <1>9 DEF Admin!ForceCancel, Admin!Begin
    <2>2. /\ apc[a] = "cancel" /\ apc'[a] = "restore"
          /\ UNCHANGED <<stock, cache, inv>>
        BY <1>1, <1>9, <2>1 DEF Admin!ForceCancel, Admin!Goto
    <2>3. /\ task'[a].now = j /\ task'[a].next = t.next \ {j}
          /\ task'[a].units = j.quantity
        BY <1>1, <2>1 DEF Admin!Locals
    <2>4. \A i \in t.next :
              /\ i \in Admin!Listed
              /\ i.order \in Orders /\ i.quantity \in 1..MaxQty
              /\ row[i.order] = Confirmed(i.quantity)
        <3>1. \A i \in t.next : row[i.order] = Confirmed(i.quantity)
            BY <1>3, <2>2 DEF ViewOf
        <3>2. \A i \in Admin!Listed : i.order \in Orders /\ i.quantity \in 1..MaxQty
            BY DEF Admin!Listed, Admin!Quantities
        <3> QED
            BY <1>2, <3>1, <3>2
    <2>5. /\ row'[j.order] = [status |-> "cancelled", quantity |-> j.quantity]
          /\ \A p \in Orders \ {j.order} : row'[p] = row[p]
        <3>1. /\ j.order \in Orders
              /\ row[j.order] = [status |-> "confirmed", quantity |-> j.quantity]
            BY <2>4 DEF Confirmed
        <3>2. row'[j.order] = [row[j.order] EXCEPT !.status = "cancelled"]
            BY <1>1, <2>1, <3>1
        <3>3. \A p \in Orders \ {j.order} : row'[p] = row[p]
            BY <1>1, <2>1
        <3> QED
            BY <3>1, <3>2, <3>3
    <2>6. Cancels(a, j) /\ j \in Admin!Listed
        BY <1>2, <2>1, <2>2, <2>3, <2>4, <2>5 DEF Cancels
    <2>7. \A i \in t.next \ {j} : i.order # j.order
        <3> SUFFICES ASSUME NEW i \in t.next, i.order = j.order PROVE i = j
            OBVIOUS
        <3>1. /\ row[i.order] = Confirmed(i.quantity)
              /\ row[i.order] = Confirmed(j.quantity)
            BY <2>4
        <3>2. i.quantity = j.quantity
            <4>1. \A q : Confirmed(q).quantity = q
                BY DEF Confirmed
            <4> QED
                BY <3>1, <4>1
        <3>3. i \in Admin!Listed /\ j \in Admin!Listed
            BY <2>4
        <3> QED
            BY <3>2, <3>3 DEF Admin!Listed
    <2>8. ViewOf(apc[a], task[a])'
        BY <2>2, <2>3, <2>4, <2>5, <2>7 DEF ViewOf
    <2> QED
        BY <2>6, <2>8 DEF TaskMove
<1>10. CASE Admin!RestoreUnit(a)
    <2>1. /\ apc[a] = "restore" /\ UNCHANGED <<cache, row, inv>>
          /\ apc'[a] = IF t.units = 1 THEN "increment" ELSE "restore"
          /\ stock' = IF stock = NoKey THEN NoKey ELSE stock + 1
        BY <1>1, <1>10 DEF Admin!RestoreUnit, Admin!Goto, Admin!AfterIncr
    <2>2. /\ task'[a].units = t.units - 1 /\ task'[a].now = t.now
          /\ task'[a].next = t.next
        BY <1>1, <1>10 DEF Admin!RestoreUnit, Admin!Locals
    <2>3. t.units \in 1..MaxQty
        BY <1>1, <1>2, <1>5, <2>1
    <2>4. Restores(a)
        BY <1>5, <2>1, <2>2, <2>3 DEF Restores
    <2>5. ViewOf(apc[a], task[a])'
        BY <1>3, <2>1, <2>2 DEF ViewOf
    <2> QED
        BY <2>4, <2>5 DEF TaskMove
<1>11. CASE Admin!Increment(a)
    <2>1. /\ apc[a] = "increment" /\ apc'[a] = "cache_status" /\ task' = task
          /\ inv'.max = inv.max
          /\ inv'.sold = Greatest(inv.sold - t.now.quantity, 0)
          /\ UNCHANGED <<stock, cache, row>>
        BY <1>1, <1>11
           DEF Admin!Increment, Admin!Goto, Admin!AfterIncrement, Admin!Booked,
               Admin!Greatest, Greatest
    <2>2. Increments(a)
        BY <1>5, <2>1 DEF Increments
    <2>3. ViewOf(apc[a], task[a])'
        BY <1>3, <2>1 DEF ViewOf
    <2> QED
        BY <2>2, <2>3 DEF TaskMove
<1>12. CASE Admin!CacheCancelled(a)
    <2>1. /\ apc[a] = "cache_status" /\ apc'[a] \in {"cancel", "reread"}
          /\ cache' = [cache EXCEPT ![t.now.order] = "cancelled"]
          /\ UNCHANGED <<stock, row, inv>>
          /\ task'[a].next = t.next
        BY <1>1, <1>12 DEF Admin!CacheCancelled, Admin!Goto, Admin!Locals
    <2>2. Caches(a)
        BY <1>3, <1>5, <2>1 DEF Caches, ViewOf
    <2>3. ViewOf(apc[a], task[a])'
        BY <1>3, <2>1 DEF ViewOf
    <2> QED
        BY <2>2, <2>3 DEF TaskMove
<1>13. CASE Admin!ReadAgain(a)
    <2>1. /\ apc[a] = "reread" /\ apc'[a] = "upsert"
          /\ UNCHANGED stores /\ task'[a].seen = inv.sold
        BY <1>1, <1>13 DEF Admin!ReadAgain, Admin!Goto, Admin!Locals,
                           Admin!stores, stores
    <2> QED
        BY <2>1 DEF TaskMove, Looks, ViewOf, stores
<1>14. CASE Admin!ReductionRefused(a)
    <2>1. apc[a] = "reread" /\ apc'[a] = "refused" /\ UNCHANGED stores
        BY <1>1, <1>14 DEF Admin!ReductionRefused, Admin!Answer, Admin!Goto,
                           Admin!stores, stores
    <2> QED
        BY <2>1 DEF TaskMove, Looks, Admin!Active
<1>15. CASE Admin!WarmCache(a) \/ Admin!Overwrite(a)
    <2>1. /\ apc[a] \in {"warm", "overwrite"} /\ apc'[a] = "done"
          /\ UNCHANGED <<cache, row, inv>>
          /\ stock' = IF apc[a] = "warm" THEN t.seen ELSE t.want - t.seen
        BY <1>1, <1>15 DEF Admin!WarmCache, Admin!Overwrite, Admin!Answer,
                           Admin!Goto
    <2>2. stock' = inv.max - inv.sold
        BY <1>3, <1>4, <2>1 DEF ViewOf
    <2>3. Fills(a)
        BY <1>1, <1>4, <2>1, <2>2 DEF Fills
    <2> QED
        BY <2>1, <2>3 DEF TaskMove, Admin!Active
<1>16. CASE Admin!Upsert(a)
    <2>1. /\ apc[a] = "upsert" /\ apc'[a] = "overwrite" /\ task' = task
          /\ inv'.max = t.want /\ inv'.sold = inv.sold
          /\ UNCHANGED <<stock, cache, row>>
        BY <1>1, <1>16 DEF Admin!Upsert, Admin!Goto, Admin!AfterUpsert
    <2>2. Sets(a)
        BY <1>2, <1>4, <2>1, CapacityAssumption DEF Sets
    <2>3. ViewOf(apc[a], task[a])'
        BY <1>3, <2>1 DEF ViewOf
    <2> QED
        BY <2>2, <2>3 DEF TaskMove
<1> QED
    BY <1>6, <1>7, <1>8, <1>9, <1>10, <1>11, <1>12, <1>13, <1>14, <1>15, <1>16
       DEF Admin!TaskStep

-----------------------------------------------------------------------------
(***************************************************************************)
(* Calm is an invariant.                                                   *)
(***************************************************************************)
\* What a step of a task leaves of the links of the orders.
LEMMA TaskSerial ==
    ASSUME Calm, NEW a \in Admins, Admin!TaskStep(a) \/ Admin!Dies(a),
           UNCHANGED placement, UNCHANGED changes, KnownRows'
    PROVE  /\ StockCounts' /\ OneAtATime' /\ RowLink'
           /\ Placement!CleanLink' /\ WrittenLink'
           /\ SettledLink' /\ AdminView'
<1> DEFINE Serial == /\ StockCounts' /\ OneAtATime' /\ RowLink'
                     /\ Placement!CleanLink' /\ WrittenLink'
                     /\ SettledLink' /\ AdminView'
<1> SUFFICES Serial
    OBVIOUS
<1>1. /\ Admin!Active(a) /\ OrdersQuiet
      /\ \A b \in Admins \ {a} :
            ~Admin!Active(b) /\ apc'[b] = apc[b] /\ task'[b] = task[b]
    BY TaskAlone
<1>2. /\ AtRest
      /\ \A o \in Orders : row[o] # NoRow => msg[o] = "acked"
    BY <1>1, QuietRows
<1>3. OrdersQuiet'
    BY <1>1, QuietStays
<1>4. /\ pc' = pc /\ job' = job /\ tpc' = tpc /\ msg' = msg
    BY DEF placement, changes
<1>5. StockCounts /\ OneAtATime /\ Placement!CleanLink /\ WrittenLink /\ SettledLink
    BY CalmFacts
<1>6. Admin!TaskStep(a) =>
          TaskMove(a) /\ (Admin!Active(a)' => ViewOf(apc[a], task[a])')
    BY TaskMoves
<1>7. Admin!Dies(a) => UNCHANGED stores /\ ~Admin!Active(a)'
    BY CalmTypes DEF Admin!Dies, Admin!Goto, Admin!stores, stores, Admin!Active
<1>8. StockCounts'
    <2>1. CASE stock' \in {stock, NoKey} \/ stock' \in Nat
        BY <1>5, <2>1 DEF StockCounts
    <2>2. CASE Restores(a)
        BY <1>5, <2>2 DEF Restores, StockCounts
    <2> QED
        BY <1>6, <1>7, <2>1, <2>2
           DEF TaskMove, Looks, Cancels, Increments, Caches, Fills, Sets, stores
<1>9. \A o \in Orders : row[o] = NoRow => row'[o] = NoRow
    <2>1. CASE row' = row
        BY <2>1
    <2>2. ASSUME NEW j \in Admin!Listed, Cancels(a, j)
          PROVE  \A o \in Orders : row[o] = NoRow => row'[o] = NoRow
        <3>1. row[j.order] # NoRow
            BY <2>2 DEF Cancels, Confirmed, NoRow
        <3> QED
            BY <2>2, <3>1 DEF Cancels
    <2> QED
        BY <1>6, <1>7, <2>1, <2>2
           DEF TaskMove, Looks, Restores, Increments, Caches, Fills, Sets, stores
<1>10. OneAtATime'
    BY <1>4, <1>5 DEF OneAtATime, Active
<1>11. RowLink'
    <2>1. \A r \in Requests : ~Active(r)'
        BY <1>2, <1>4 DEF AtRest, Active
    <2>2. \A o \in Orders : row'[o].status = "absent" => row'[o] = NoRow
        BY DEF KnownRows
    <2> QED
        BY <2>1, <2>2 DEF RowLink
<1>12. Placement!CleanLink' /\ WrittenLink'
    BY <1>4, <1>5, <1>9 DEF Placement!CleanLink, WrittenLink
<1>13. SettledLink'
    BY <1>2, <1>4, <1>5, <1>9 DEF SettledLink, AtRest, Active
<1>14. AdminView'
    <2>1. Admin!Active(a)' => ViewOf(apc[a], task[a])'
        BY <1>6, <1>7
    <2>2. \A b \in Admins \ {a} : ~Admin!Active(b)'
        BY <1>1 DEF Admin!Active
    <2> QED
        BY <1>3, <2>1, <2>2 DEF AdminView
<1> QED
    BY <1>8, <1>10, <1>11, <1>12, <1>13, <1>14

LEMMA CalmStep ==
    ASSUME Guarded
    PROVE  Calm /\ [SystemNext]_systemVars => Calm'
<1> SUFFICES ASSUME Calm, [SystemNext]_systemVars PROVE Calm'
    OBVIOUS
<1>1. /\ SystemTypeOK /\ SystemLinks
      /\ SystemTypeOK' /\ SystemLinks' /\ KnownRows'
    BY CalmFacts, SystemTypesStep DEF SystemLinks
<1>2. DbBooksBalance' /\ AdminAlone'
    <2>1. Separate
        BY DEF Guarded, Separate
    <2> QED
        BY <1>1, <2>1, CalmFacts, BooksSystemStep
<1>3. ASSUME StockCounts', OneAtATime', RowLink', Placement!CleanLink',
             WrittenLink', AdminView', SettledLink'
      PROVE  Calm'
    BY <1>1, <1>2, <1>3 DEF Calm, SerialSystem
<1>4. /\ SerialSystem /\ TypeOK /\ JobLink /\ KnownRows /\ OneAtATime /\ RowLink
      /\ StockCounts /\ Placement!CleanLink /\ WrittenLink
      /\ AdminView /\ SettledLink
    BY CalmFacts
\* While an order is served, no task of InventoryService is about.
<1>5. OrderTurn => AdminIdle
    BY DEF Guarded, OrderTurn
<1>6. ASSUME AdminIdle, UNCHANGED admin PROVE AdminView'
    BY <1>6 DEF AdminIdle, AdminView, admin, Admin!Active
<1>7. ASSUME UNCHANGED placement, StockCounts', OneAtATime', RowLink',
             \A o \in Orders : row[o] = NoRow => row'[o] = NoRow,
             AdminView', SettledLink'
      PROVE  Calm'
    BY <1>3, <1>4, <1>7 DEF placement, Placement!CleanLink, WrittenLink
<1>8. ASSUME NEW o \in Orders, Place(o) PROVE Calm'
    <2>1. OneAtATime' /\ RowLink' /\ Placement!CleanLink' /\ WrittenLink'
        BY <1>4, <1>8, PlacementSerial DEF Guarded
    <2>2. StockCounts'
        BY <1>1, <1>4, <1>8, <2>1, PlacementTrades DEF Guarded
    <2>3. AdminView'
        BY <1>5, <1>6, <1>8 DEF Place
    <2>4. SettledLink'
        BY <1>8, SettledPlacement
    <2> QED
        BY <1>3, <2>1, <2>2, <2>3, <2>4
<1>9. ASSUME NEW r \in Requests, NEW o \in Orders, ChangeOrder(r, o)
      PROVE  Calm'
    <2>1. Load(r, o) /\ UNCHANGED placement /\ stock' = stock /\ row' = row
        BY <1>9 DEF ChangeOrder, Load, stores
    <2>2. OneAtATime' /\ RowLink'
        BY <1>4, <2>1, SerialLoad DEF Guarded
    <2>3. AdminView'
        BY <1>5, <1>6, <1>9 DEF ChangeOrder
    <2>4. SettledLink'
        BY <1>9, <2>1, SettledRequest
    <2> QED
        BY <1>4, <1>7, <2>1, <2>2, <2>3, <2>4 DEF StockCounts
<1>10. ASSUME NEW r \in Requests, GoOn(r) PROVE Calm'
    <2>1. (RequestStep(r) \/ Dies(r)) /\ UNCHANGED placement
        BY <1>10 DEF GoOn
    <2>2. AdminView'
        BY <1>5, <1>6, <1>10 DEF GoOn
    <2>3. SettledLink'
        BY <2>1, SettledRequest
    <2>4. CASE RequestStep(r)
        <3>1. OneAtATime' /\ RowLink' /\ StockCounts'
            BY <1>4, <2>4, SerialRequest, RequestCounts
        <3>2. job[r].order \in Orders /\ row[job[r].order] # NoRow
            BY <1>4, <2>4, RequestMoves DEF KnownRows, Active, JobLink, Jobs
        <3>3. \A p \in Orders : row[p] = NoRow => row'[p] = NoRow
            BY <1>4, <2>4, <3>2, RequestMoves
        <3> QED
            BY <1>7, <2>1, <2>2, <2>3, <3>1, <3>3
    <2>5. CASE Dies(r)
        <3>1. /\ stock' = stock /\ row' = row /\ job' = job
              /\ Active(r) /\ Goto(r, "dead")
            BY <2>5 DEF Dies
        <3>2. row[job[r].order].status # "absent"
            BY <1>4, <3>1, ActiveFacts DEF SeenOf
        <3>3. "dead" \in Steps
            BY DEF Steps
        <3>4. OneAtATime' /\ RowLink'
            BY <1>4, <3>1, <3>2, <3>3, SerialAfter
        <3> QED
            BY <1>4, <1>7, <2>1, <2>2, <2>3, <3>1, <3>4 DEF StockCounts
    <2> QED
        BY <2>1, <2>4, <2>5
<1>11. ASSUME NEW a \in Admins, AskInventory(a) PROVE Calm'
    <2>1. /\ OrdersQuiet /\ AdminIdle /\ Admin!Start(a)
          /\ UNCHANGED placement /\ UNCHANGED changes
        BY <1>11 DEF AskInventory, AdminTurn, Guarded
    <2>2. /\ UNCHANGED stores
          /\ \E step \in {"query", "read"} : apc' = [apc EXCEPT ![a] = step]
        BY <2>1 DEF Admin!Start, Admin!CacheMiss, Admin!SetInventory,
                    Admin!Goto, Admin!stores, stores
    <2>3. OrdersQuiet'
        BY <2>1, QuietStays
    <2>4. AdminView'
        <3>1. apc'[a] \in {"query", "read"}
            BY <2>2, CalmTypes
        <3>2. \A b \in Admins \ {a} : ~Admin!Active(b)'
            BY <2>1, <2>2, CalmTypes DEF AdminIdle, Admin!Active
        <3> QED
            BY <2>3, <3>1, <3>2 DEF AdminView, ViewOf
    <2>5. OneAtATime' /\ RowLink' /\ StockCounts' /\ SettledLink'
        BY <1>4, <2>1, <2>2
           DEF stores, changes, placement, OneAtATime, RowLink, StockCounts,
               SettledLink, Active
    <2> QED
        BY <1>7, <2>1, <2>2, <2>4, <2>5 DEF stores
<1>12. ASSUME NEW a \in Admins, AdminGoesOn(a) PROVE Calm'
    BY <1>1, <1>3, <1>12, TaskSerial DEF AdminGoesOn
<1>13. CASE LoseKey \/ UNCHANGED systemVars
    <2>1. /\ UNCHANGED placement /\ UNCHANGED changes /\ UNCHANGED admin
          /\ UNCHANGED <<cache, row, inv>> /\ stock' \in {stock, NoKey}
        BY <1>13 DEF LoseKey, Placement!LoseKey, systemVars, placement, stores
    <2>2. AdminView'
        BY <1>4, <2>1, QuietStays DEF AdminView, ViewOf, admin, Admin!Active
    <2>3. OneAtATime' /\ RowLink' /\ StockCounts' /\ SettledLink'
        BY <1>4, <2>1
           DEF changes, placement, OneAtATime, RowLink, StockCounts,
               SettledLink, Active
    <2> QED
        BY <1>7, <2>1, <2>2, <2>3
<1> QED
    BY <1>8, <1>9, <1>10, <1>11, <1>12, <1>13 DEF SystemNext

LEMMA CalmHolds ==
    ASSUME Guarded
    PROVE  SystemSpec => []Calm
<1>1. Calm /\ [SystemNext]_systemVars => Calm'
    BY CalmStep
<1> QED
    BY <1>1, CalmInit, PTL DEF SystemSpec

-----------------------------------------------------------------------------
(***************************************************************************)
(* The units, in the counter, in daily_inventory and with the orders.      *)
(***************************************************************************)
\* The decrement for the order has been made.
Decremented(o) == msg[o] = "acked" \/ hpc[o] \in {"status", "notify"}

\* The units of the orders whose decrement has been made, as far as requests
\* have not changed that.
Counted == [o \in Orders |-> IF Decremented(o) THEN DbOwns[o] ELSE 0]

\* The units of the order a task of InventoryService is cancelling that the
\* counter, and daily_inventory, have not got back yet.
ToRestore(a) == IF apc[a] = "restore" THEN task[a].units ELSE 0

ToIncrement(a) ==
    IF apc[a] \in {"restore", "increment"} THEN task[a].now.quantity ELSE 0

\* The books are exact, but for what is on its way back to them ...
Exact(restore, increment, stocked) ==
    /\ inv.sold = Total(Counted) + increment
    /\ stocked /\ stock # NoKey => stock + Total(Owns) + restore = inv.max

\* ... or units are missing from them, and none is there twice.
Fewer(restore, increment, stocked) ==
    /\ inv.sold >= Total(Counted) + increment
    /\ stocked /\ stock # NoKey => stock + Total(Owns) + restore <= inv.max

\* Between its row and the counter a set_inventory leaves the counter wrong,
\* and so does one that dies there.
Stocked(a) == apc[a] # "overwrite"

NoneBeforeOverwrite == \A b \in Admins : ~DiedBeforeOverwrite(b)

NoneReducing == \A r \in Requests : ~DiedReducing(r)

AdminLedger ==
    NobodyDied =>
        /\ Total(Owns) <= inv.max
        /\ AdminIdle => Exact(0, 0, TRUE)
        /\ \A a \in Admins :
              Admin!Active(a) => Exact(ToRestore(a), ToIncrement(a), Stocked(a))

AdminFewer ==
    NoneReducing =>
        /\ AdminIdle => Fewer(0, 0, NoneBeforeOverwrite)
        /\ \A a \in Admins :
              Admin!Active(a) =>
                  Fewer(ToRestore(a), ToIncrement(a),
                        Stocked(a) /\ NoneBeforeOverwrite)

LEMMA Counts ==
    Calm => /\ UnitsOwned
            /\ Counted \in [Orders -> 0..MaxQty]
            /\ Total(Owns) \in Nat /\ Total(Counted) \in Nat
            /\ \A p \in Orders :
                  /\ Decremented(p) => Counted[p] = DbOwns[p]
                  /\ ~Decremented(p) => Counted[p] = 0
<1> SUFFICES ASSUME Calm
             PROVE  /\ UnitsOwned
                    /\ Counted \in [Orders -> 0..MaxQty]
                    /\ Total(Owns) \in Nat /\ Total(Counted) \in Nat
                    /\ \A p \in Orders :
                          /\ Decremented(p) => Counted[p] = DbOwns[p]
                          /\ ~Decremented(p) => Counted[p] = 0
    OBVIOUS
<1>1. UnitsOwned
    BY CalmFacts, OwnsOf
<1>2. DbOwns \in [Orders -> 0..MaxQty] /\ 0 \in 0..MaxQty
    BY <1>1, MaxQtyAssumption DEF UnitsOwned, OwnsFacts
<1> QED
    BY <1>1, <1>2, TotalType DEF Counted

\* When all is quiet an order has what its row says, in Redis and in
\* daily_inventory.
LEMMA QuietCounts ==
    Calm /\ OrdersQuiet =>
        /\ \A p \in Orders :
              Owns[p] = LiveQuantity[p] /\ Counted[p] = LiveQuantity[p]
        /\ Total(Owns) = Total(LiveQuantity)
        /\ Total(Counted) = Total(LiveQuantity)
        /\ LiveQuantity \in [Orders -> 0..MaxQty]
<1> SUFFICES ASSUME Calm, OrdersQuiet
             PROVE  /\ \A p \in Orders :
                          /\ Owns[p] = LiveQuantity[p]
                          /\ Counted[p] = LiveQuantity[p]
                    /\ Total(Owns) = Total(LiveQuantity)
                    /\ Total(Counted) = Total(LiveQuantity)
                    /\ LiveQuantity \in [Orders -> 0..MaxQty]
    OBVIOUS
<1>1. ASSUME NEW o \in Orders
      PROVE  Owns[o] = LiveQuantity[o] /\ Counted[o] = LiveQuantity[o]
    <2>1. /\ AtRest /\ hpc[o] = "idle"
          /\ row[o] # NoRow => msg[o] = "acked"
          /\ row[o] = NoRow => msg[o] # "acked" /\ held[o] = 0
        BY QuietRows
    <2>2. RedisOwns[o] = LiveQuantity[o] /\ DbOwns[o] = LiveQuantity[o]
        BY <2>1, Counts DEF UnitsOwned, OwnsFacts, AtRest, ActiveOn
    <2>3. CASE row[o] = NoRow
        <3>1. LiveQuantity[o] = 0
            BY <2>3 DEF LiveQuantity, NoRow
        <3> QED
            BY <2>1, <2>3, <3>1, Counts DEF UnitsOwned, Decremented
    <2>4. CASE row[o] # NoRow
        BY <2>1, <2>2, <2>4, Counts DEF UnitsOwned, Decremented
    <2> QED
        BY <2>3, <2>4
<1>2. Total(Owns) = Total(LiveQuantity) /\ Total(Counted) = Total(LiveQuantity)
    BY <1>1, TotalSame
<1> QED
    BY <1>1, <1>2, Counts DEF UnitsOwned, OwnsFacts

-----------------------------------------------------------------------------
(***************************************************************************)
(* An order's turn: units move between the stores and one order.           *)
(***************************************************************************)
\* Nothing is lost or made, unless the counter has expired.
Traded ==
    /\ inv'.max = inv.max
    /\ stock # NoKey =>
          stock' # NoKey /\ stock' + Total(Owns') = stock + Total(Owns)
    /\ stock = NoKey => stock' = NoKey /\ Total(Owns') <= Total(Owns)
    /\ inv'.sold - Total(Counted') >= inv.sold - Total(Counted)
    /\ Total(Counted) <= inv.sold =>
          inv'.sold - Total(Counted') = inv.sold - Total(Counted)

\* What one order trades, all of them do.
LEMMA OneTrades ==
    ASSUME Calm, Calm', NEW o \in Orders,
           \A p \in Orders \ {o} : Owns'[p] = Owns[p] /\ Counted'[p] = Counted[p],
           inv'.max = inv.max,
           stock # NoKey => stock' # NoKey /\ stock' + Owns'[o] = stock + Owns[o],
           stock = NoKey => stock' = NoKey /\ Owns'[o] <= Owns[o],
           inv'.sold - Counted'[o] >= inv.sold - Counted[o],
           Counted[o] <= inv.sold =>
               inv'.sold - Counted'[o] = inv.sold - Counted[o]
    PROVE  Traded
<1>1. /\ Owns \in [Orders -> 0..MaxQty] /\ Counted \in [Orders -> 0..MaxQty]
      /\ Total(Owns) \in Nat /\ Total(Counted) \in Nat
    BY Counts DEF UnitsOwned
<1>2. /\ Owns' \in [Orders -> 0..MaxQty] /\ Counted' \in [Orders -> 0..MaxQty]
    <2>1. (Calm => /\ UnitsOwned /\ Counted \in [Orders -> 0..MaxQty])'
        BY Counts, PTL
    <2> QED
        BY <2>1 DEF UnitsOwned
<1>3. /\ Total(Owns') = Total(Owns) - Owns[o] + Owns'[o]
      /\ Total(Counted') = Total(Counted) - Counted[o] + Counted'[o]
    BY <1>1, <1>2, TotalChange
<1>4. Counted[o] <= Total(Counted)
    BY <1>1, TotalAtLeast
<1>5. /\ Owns[o] \in Nat /\ Owns'[o] \in Nat
      /\ Counted[o] \in Nat /\ Counted'[o] \in Nat
    BY <1>1, <1>2, MaxQtyAssumption
<1>6. /\ inv.sold \in Nat /\ inv'.sold \in Nat
      /\ stock \in Nat \/ stock = NoKey
      /\ stock' \in Nat \/ stock' = NoKey
    <2>1. (Calm => inv.sold \in Nat /\ (stock \in Nat \/ stock = NoKey))'
        BY CalmTypes, PTL
    <2> QED
        BY <2>1, CalmTypes
<1> QED
    BY <1>1, <1>3, <1>4, <1>5, <1>6 DEF Traded

\* A decrement counts the units of a row that nobody has changed yet; no other
\* step of placement counts any.
LEMMA PlacementTraded ==
    ASSUME Guarded, Calm, Calm', NEW o \in Orders, Place(o)
    PROVE  Traded
<1>1. /\ SerialSystem /\ SystemTypeOK' /\ SystemLinks' /\ OneAtATime'
      /\ Placement!TypeOK /\ Placement!TaskLink /\ Placement!HandlerLink
      /\ JobLink /\ SettledLink
    BY CalmFacts DEF Calm, SerialSystem
<1>2. Placement!OrderStep(o) /\ UNCHANGED <<pc, job, units>>
    BY DEF Place, changes
<1>3. /\ OwnsFacts
      /\ \A p \in Orders : /\ Decremented(p) => Counted[p] = DbOwns[p]
                           /\ ~Decremented(p) => Counted[p] = 0
    BY Counts DEF UnitsOwned
<1>4. /\ OwnsFacts'
      /\ \A p \in Orders : /\ Decremented(p)' => Counted'[p] = DbOwns'[p]
                           /\ ~Decremented(p)' => Counted'[p] = 0
    <2>1. (Calm => /\ UnitsOwned
                   /\ Counted \in [Orders -> 0..MaxQty]
                   /\ Total(Owns) \in Nat /\ Total(Counted) \in Nat
                   /\ \A p \in Orders :
                         /\ Decremented(p) => Counted[p] = DbOwns[p]
                         /\ ~Decremented(p) => Counted[p] = 0)'
        BY Counts, PTL
    <2> QED
        BY <2>1 DEF UnitsOwned
<1>5. \A p \in Orders : row'[p] = row[p] => DbOwns'[p] = DbOwns[p]
    BY <1>1, <1>2, <1>3, <1>4, PlacementKeeps
<1>6. /\ msg \in [Orders -> Placement!MsgStates]
      /\ hpc \in [Orders -> Placement!HandlerSteps]
      /\ inv.sold \in Nat
    BY CalmTypes
<1>7. \/ row' = row
      \/ /\ Placement!InsertRow(o)
         /\ \A p \in Orders \ {o} : row'[p] = row[p]
    BY <1>1, <1>2, PlacementRows
<1>8. \/ UNCHANGED <<msg, hpc>>
      \/ \E s, h : /\ msg' = [msg EXCEPT ![o] = s] \/ msg' = msg
                   /\ hpc' = [hpc EXCEPT ![o] = h] \/ hpc' = hpc
    BY <1>2, PlacementGoesWell
       DEF Placement!PlaceOrder, Placement!LookupFails, Placement!Reserve,
           Placement!ReserveRefused, Placement!CachePending,
           Placement!Publish, Placement!PublishRaises,
           Placement!RestoreUnit, Placement!ForgetStatus,
           Placement!Deliver, Placement!InsertRow,
           Placement!InsertDuplicate, Placement!DecrementStock,
           Placement!DecrementRefused, Placement!CacheConfirmed,
           Placement!Notified, Placement!ExpireStatus, Placement!Requeue
<1>9. ASSUME NEW p \in Orders \ {o}
      PROVE  Counted'[p] = Counted[p]
    <2>1. row'[p] = row[p] /\ msg'[p] = msg[p] /\ hpc'[p] = hpc[p]
        BY <1>6, <1>7, <1>8
    <2>2. Decremented(p)' <=> Decremented(p)
        BY <2>1 DEF Decremented
    <2> QED
        BY <1>3, <1>4, <1>5, <2>1, <2>2
<1>10. /\ inv'.max = inv.max
       /\ \A p \in Orders \ {o} : Owns'[p] = Owns[p]
       /\ stock # NoKey => stock' # NoKey /\ stock' + Owns'[o] = stock + Owns[o]
       /\ stock = NoKey => stock' = NoKey /\ Owns'[o] <= Owns[o]
    BY <1>1, PlacementTrades DEF Guarded
<1>11. CASE Placement!DecrementStock(o)
    <2>1. /\ hpc[o] = "decrement" /\ hpc'[o] = "status"
          /\ msg' = msg /\ row' = row
          /\ inv'.sold = inv.sold + qty[o]
        BY <1>6, <1>11
           DEF Placement!DecrementStock, Placement!AfterDecrement, Placement!Booked
    <2>2. msg[o] = "unacked" /\ row[o] # NoRow
        BY <1>1, <2>1 DEF Placement!HandlerLink, Placement!NoRow, NoRow
    <2>3. row[o] = Confirmed(qty[o]) /\ \A r \in Requests : ~ActiveOn(r, o)
        BY <1>1, <2>2 DEF SettledLink, ActiveOn
    <2>4. DbOwns[o] = qty[o]
        BY <1>3, <2>3 DEF OwnsFacts, LiveQuantity, Confirmed
    <2>5. Counted[o] = 0 /\ Counted'[o] = qty[o]
        BY <1>3, <1>4, <1>5, <2>1, <2>2, <2>4 DEF Decremented
    <2>6. qty[o] \in Nat
        BY CalmTypes
    <2>7. /\ inv'.sold - Counted'[o] >= inv.sold - Counted[o]
          /\ inv'.sold - Counted'[o] = inv.sold - Counted[o]
        BY <1>6, <2>1, <2>5, <2>6
    <2> QED
        BY <1>9, <1>10, <2>7, OneTrades
<1>12. CASE ~Placement!DecrementStock(o)
    <2>1. inv' = inv
        BY <1>2, <1>12, PlacementMoves
           DEF Placement!Reserve, Placement!RestoreUnit, Placement!InsertRow
    <2>2. (Decremented(o)' <=> Decremented(o)) /\ (Decremented(o) => row' = row)
        <3>1. CASE UNCHANGED <<msg, hpc, row>>
            BY <3>1 DEF Decremented
        <3>2. CASE Placement!Publish(o) \/ Placement!PublishRaises(o)
            <4>1. msg[o] = "none" /\ hpc' = hpc /\ row' = row /\ msg'[o] # "acked"
                BY <1>1, <1>6, <3>2, CalmFacts
                   DEF Placement!Publish, Placement!PublishRaises,
                       Placement!TaskLink
            <4> QED
                BY <4>1 DEF Decremented
        <3>3. CASE Placement!Deliver(o)
            <4>1. /\ msg[o] # "acked" /\ msg[o] # "unacked" /\ row' = row
                  /\ msg'[o] = "unacked" /\ hpc'[o] = "insert"
                BY <1>6, <3>3 DEF Placement!Deliver
            <4>2. hpc[o] = "idle"
                BY <1>1, <4>1 DEF Placement!HandlerLink
            <4> QED
                BY <4>1, <4>2 DEF Decremented
        <3>4. CASE \/ Placement!InsertRow(o) \/ Placement!InsertDuplicate(o)
                   \/ Placement!DecrementRefused(o)
            <4>1. /\ hpc[o] \in {"insert", "decrement"}
                  /\ hpc'[o] \in {"idle", "decrement"}
                  /\ msg' = msg \/ msg'[o] = "ready"
                BY <1>6, <3>4
                   DEF Placement!InsertRow, Placement!InsertDuplicate,
                       Placement!DecrementRefused, Placement!Requeue
            <4>2. msg[o] = "unacked"
                BY <1>1, <4>1 DEF Placement!HandlerLink
            <4> QED
                BY <4>1, <4>2 DEF Decremented
        <3>5. CASE Placement!CacheConfirmed(o) \/ Placement!Notified(o)
            <4>1. /\ hpc[o] \in {"status", "notify"} /\ row' = row
                  /\ hpc'[o] = "notify" \/ msg'[o] = "acked"
                BY <1>6, <3>5 DEF Placement!CacheConfirmed, Placement!Notified
            <4> QED
                BY <4>1 DEF Decremented
        <3> QED
            BY <1>2, <1>12, <3>1, <3>2, <3>3, <3>4, <3>5, PlacementGoesWell
               DEF Placement!PlaceOrder, Placement!LookupFails,
                   Placement!Reserve, Placement!ReserveRefused,
                   Placement!CachePending, Placement!RestoreUnit,
                   Placement!ForgetStatus, Placement!ExpireStatus
    <2>3. Counted'[o] = Counted[o]
        BY <1>3, <1>4, <1>5, <2>2
    <2>4. Counted[o] \in Nat
        <3>1. Counted \in [Orders -> 0..MaxQty] /\ MaxQty \in Nat
            BY Counts, CalmTypes
        <3> QED
            BY <3>1
    <2>5. /\ inv'.sold - Counted'[o] >= inv.sold - Counted[o]
          /\ inv'.sold - Counted'[o] = inv.sold - Counted[o]
        BY <1>6, <2>1, <2>3, <2>4
    <2> QED
        BY <1>9, <1>10, <2>5, OneTrades
<1> QED
    BY <1>11, <1>12

\* A request changes an order that is counted, and is counted with it ...
LEMMA RequestTraded ==
    ASSUME Guarded, Calm, Calm', UNCHANGED placement,
           NEW r \in Requests, RequestStep(r)
    PROVE  Traded
<1>1. /\ SerialSystem /\ SystemTypeOK' /\ SystemLinks' /\ OneAtATime'
      /\ TypeOK /\ JobLink /\ SettledLink
    BY CalmFacts DEF Calm, SerialSystem
<1>2. PICK o \in Orders : o = job[r].order /\ msg[o] = "acked"
    BY <1>1, RequestMoves DEF SettledLink, Active, JobLink, Jobs
<1>3. /\ \A p \in Orders \ {o} : Owns'[p] = Owns[p] /\ DbOwns'[p] = DbOwns[p]
      /\ stock # NoKey => stock' # NoKey /\ stock' + Owns'[o] = stock + Owns[o]
      /\ stock = NoKey => stock' = NoKey /\ Owns'[o] <= Owns[o]
      /\ inv'.max = inv.max
      /\ inv'.sold - DbOwns'[o] >= inv.sold - DbOwns[o]
      /\ DbOwns[o] <= inv.sold => inv'.sold - DbOwns'[o] = inv.sold - DbOwns[o]
    BY <1>1, <1>2, RequestTrades DEF Guarded
<1>4. /\ \A p \in Orders \ {o} : Counted'[p] = Counted[p]
      /\ Counted[o] = DbOwns[o] /\ Counted'[o] = DbOwns'[o]
    BY <1>2, <1>3 DEF Counted, Decremented, placement
<1> QED
    BY <1>3, <1>4, OneTrades

\* ... and loading one moves nothing.
LEMMA LoadTraded ==
    ASSUME Guarded, Calm, Calm', UNCHANGED placement,
           NEW r \in Requests, NEW o \in Orders, Load(r, o)
    PROVE  Traded
<1>1. /\ SerialSystem /\ SystemTypeOK' /\ SystemLinks' /\ OneAtATime'
    BY CalmFacts DEF Calm, SerialSystem
<1>2. /\ \A p \in Orders : Owns'[p] = Owns[p] /\ DbOwns'[p] = DbOwns[p]
      /\ stock' = stock /\ inv' = inv
    BY <1>1, LoadOwns DEF Guarded
<1>3. \A p \in Orders : Counted'[p] = Counted[p]
    BY <1>2 DEF Counted, Decremented, placement
<1>4. Total(Owns') = Total(Owns) /\ Total(Counted') = Total(Counted)
    BY <1>2, <1>3, TotalSame
<1>5. /\ Total(Owns) \in Nat /\ Total(Counted) \in Nat /\ inv.sold \in Nat
    BY Counts, CalmTypes
<1> QED
    BY <1>2, <1>4, <1>5 DEF Traded

-----------------------------------------------------------------------------
(***************************************************************************)
(* The ledger with InventoryService at work.                               *)
(***************************************************************************)
LEMMA LedgerSystemInit == SystemInit => AdminLedger /\ AdminFewer
<1> SUFFICES ASSUME SystemInit PROVE AdminLedger /\ AdminFewer
    OBVIOUS
<1>1. Calm
    BY CalmInit
<1>2. PICK m \in 0..Capacity :
          /\ inv.max = m /\ inv.sold = 0 /\ stock = m
          /\ m \in Nat /\ m \in Int
    BY CapacityAssumption
       DEF SystemInit, Placement!Init, Placement!Offered
<1>3. \A o \in Orders :
          /\ row[o] = NoRow /\ held[o] = 0
          /\ msg[o] = "none" /\ hpc[o] = "idle"
    BY DEF SystemInit, Placement!Init, Placement!NoRow, NoRow
<1>4. \A o \in Orders : Owns[o] = 0 /\ Counted[o] = 0
    BY <1>1, <1>3, Counts DEF UnitsOwned, Decremented
<1>5. Total(Owns) = 0 /\ Total(Counted) = 0
    BY <1>4, TotalZero
<1>6. \A a \in Admins : ~Admin!Active(a)
    BY DEF SystemInit, Admin!Idle, Admin!Active
<1> QED
    BY <1>2, <1>5, <1>6 DEF AdminLedger, AdminFewer, Exact, Fewer

\* The numbers the steps below count with.
LEMMA LedgerTypes ==
    Calm => /\ Total(Owns) \in Nat /\ Total(Counted) \in Nat
            /\ inv.sold \in Nat /\ inv.max \in Nat
            /\ stock \in Nat \/ stock = NoKey
BY Counts, CalmTypes

\* While no task of InventoryService is about, trading keeps the ledger.
LEMMA TradeKeeps ==
    ASSUME Calm, Calm', Traded, AdminIdle, UNCHANGED admin,
           AdminLedger, AdminFewer,
           NobodyDied' => NobodyDied, NoneReducing' => NoneReducing
    PROVE  AdminLedger' /\ AdminFewer'
<1>1. /\ Total(Owns) \in Nat /\ Total(Counted) \in Nat
      /\ inv.sold \in Nat /\ inv.max \in Nat
      /\ stock \in Nat \/ stock = NoKey
    BY LedgerTypes
<1>2. /\ Total(Owns') \in Nat /\ Total(Counted') \in Nat
      /\ inv'.sold \in Nat /\ inv'.max = inv.max
      /\ stock' \in Nat \/ stock' = NoKey
    <2>1. (Calm => /\ Total(Owns) \in Nat /\ Total(Counted) \in Nat
                   /\ inv.sold \in Nat /\ inv.max \in Nat
                   /\ stock \in Nat \/ stock = NoKey)'
        BY LedgerTypes, PTL
    <2> QED
        BY <2>1 DEF Traded
<1>3. (\A a \in Admins : ~Admin!Active(a)) /\ \A a \in Admins : ~Admin!Active(a)'
    BY DEF AdminIdle, admin, Admin!Active
<1>4. AdminIdle /\ AdminIdle'
    BY <1>3 DEF AdminIdle
<1>5. /\ stock # NoKey =>
             stock' # NoKey /\ stock' + Total(Owns') = stock + Total(Owns)
      /\ stock = NoKey => stock' = NoKey /\ Total(Owns') <= Total(Owns)
      /\ inv'.sold - Total(Counted') >= inv.sold - Total(Counted)
      /\ Total(Counted) <= inv.sold =>
             inv'.sold - Total(Counted') = inv.sold - Total(Counted)
    BY DEF Traded
<1>6. ASSUME NobodyDied'
      PROVE  Total(Owns') <= inv'.max /\ Exact(0, 0, TRUE)'
    <2>1. /\ Total(Owns) <= inv.max
          /\ inv.sold = Total(Counted)
          /\ stock # NoKey => stock + Total(Owns) = inv.max
        BY <1>1, <1>4, <1>6 DEF AdminLedger, Exact
    <2>2. inv'.sold = Total(Counted')
        BY <1>1, <1>2, <1>5, <2>1
    <2>3. stock' # NoKey => stock' + Total(Owns') = inv'.max
        BY <1>2, <1>5, <2>1
    <2>4. Total(Owns') <= inv'.max
        BY <1>1, <1>2, <1>5, <2>1, <2>3
    <2> QED
        BY <1>2, <2>2, <2>3, <2>4 DEF Exact
<1>7. ASSUME NoneReducing'
      PROVE  Fewer(0, 0, NoneBeforeOverwrite)'
    <2>1. /\ inv.sold >= Total(Counted)
          /\ NoneBeforeOverwrite /\ stock # NoKey => stock + Total(Owns) <= inv.max
        BY <1>1, <1>4, <1>7 DEF AdminFewer, Fewer
    <2>2. NoneBeforeOverwrite' => NoneBeforeOverwrite
        BY <1>2 DEF NoneBeforeOverwrite, DiedBeforeOverwrite, admin
    <2>3. inv'.sold >= Total(Counted')
        BY <1>1, <1>2, <1>5, <2>1
    <2>4. NoneBeforeOverwrite' /\ stock' # NoKey =>
              stock' + Total(Owns') <= inv'.max
        BY <1>2, <1>5, <2>1, <2>2
    <2> QED
        BY <1>2, <2>3, <2>4 DEF Fewer
<1> QED
    BY <1>3, <1>6, <1>7 DEF AdminLedger, AdminFewer

\* A request that dies leaves its order no more units than it had, unless it
\* was taking them away.
LEMMA DeathKeeps ==
    ASSUME Guarded, Calm, Calm', UNCHANGED placement, UNCHANGED admin,
           AdminIdle, AdminFewer, NEW r \in Requests, Dies(r)
    PROVE  AdminLedger' /\ AdminFewer'
<1>1. /\ TypeOK /\ JobLink /\ KnownRows /\ RowLink /\ OneAtATime /\ SettledLink
      /\ OneAtATime' /\ KnownRows'
    BY CalmFacts DEF Calm, SerialSystem, SystemLinks
<1>2. /\ Active(r) /\ Goto(r, "dead") /\ "dead" \in Steps
      /\ UNCHANGED <<stock, cache, row, inv, job, units>>
    BY DEF Dies, Steps
<1>3. /\ pc'[r] = "dead" /\ \A s \in Requests \ {r} : pc'[s] = pc[s]
    BY <1>1, <1>2 DEF Goto, TypeOK
<1>4. ~NobodyDied'
    BY <1>3 DEF NobodyDied, NoneDied
<1>5. CASE Lowers(job[r])
    <2>1. DiedReducing(r)'
        BY <1>2, <1>3, <1>5 DEF DiedReducing, Lowers
    <2> QED
        BY <1>4, <2>1 DEF AdminLedger, AdminFewer, NoneReducing
<1>6. CASE ~Lowers(job[r])
    <2>1. NoneReducing' => NoneReducing
        BY <1>2, <1>3 DEF NoneReducing, DiedReducing, Active
    <2>2. /\ OwnsFacts /\ Owns \in [Orders -> 0..MaxQty]
          /\ \A p \in Orders : /\ row[p] = NoRow => Owns[p] = held[p]
                               /\ row[p] # NoRow => Owns[p] = RedisOwns[p]
          /\ Counted \in [Orders -> 0..MaxQty]
        BY Counts DEF UnitsOwned
    <2>3. /\ OwnsFacts' /\ Owns' \in [Orders -> 0..MaxQty]
          /\ \A p \in Orders : /\ row'[p] = NoRow => Owns'[p] = held'[p]
                               /\ row'[p] # NoRow => Owns'[p] = RedisOwns'[p]
          /\ Counted' \in [Orders -> 0..MaxQty]
        <3>1. (Calm => /\ UnitsOwned
                       /\ Counted \in [Orders -> 0..MaxQty])'
            BY Counts, PTL
        <3> QED
            BY <3>1 DEF UnitsOwned
    <2>4. PICK o \in Orders : /\ o = job[r].order /\ msg[o] = "acked"
                              /\ row[o] # NoRow
        BY <1>1, <1>2 DEF SettledLink, Active, JobLink, Jobs, KnownRows
    <2>5. /\ RedisOwns[o] = RedisHolds(r) /\ RedisOwns'[o] = HoldsAfter(r)'
          /\ DbOwns[o] = DbHolds(r) /\ DbOwns'[o] = DbAfter(r)'
          /\ \A p \in Orders \ {o} :
                 RedisOwns'[p] = RedisOwns[p] /\ DbOwns'[p] = DbOwns[p]
        BY <1>1, <1>2, <2>2, <2>3, <2>4, OwnsAfter
    <2>6. RedisOwns[o] \in Nat /\ DbOwns[o] \in Nat /\ MaxQty \in Nat
        BY <2>2, MaxQtyAssumption DEF OwnsFacts
    <2>7. job[r].op # "write"
        BY <1>1, <1>2 DEF Guarded, KnownRows, Active
    <2>8. HoldsAfter(r)' <= RedisHolds(r) /\ DbAfter(r)' <= DbHolds(r)
        BY <1>1, <1>6, <2>5, <2>6, <2>7, DeathHolds
    <2>9. \A p \in Orders : Owns'[p] <= Owns[p] /\ Counted'[p] <= Counted[p]
        <3>1. Owns'[o] <= Owns[o] /\ Counted'[o] <= Counted[o]
            BY <1>2, <2>2, <2>3, <2>4, <2>5, <2>8
               DEF Counted, Decremented, placement
        <3>2. ASSUME NEW p \in Orders \ {o}
              PROVE  Owns'[p] <= Owns[p] /\ Counted'[p] <= Counted[p]
            <4>1. Owns'[p] = Owns[p] /\ Counted'[p] = Counted[p]
                BY <1>2, <2>2, <2>3, <2>5 DEF Counted, Decremented, placement
            <4>2. Owns[p] \in Nat /\ Counted[p] \in Nat
                BY <2>2, <2>6
            <4> QED
                BY <4>1, <4>2
        <3> QED
            BY <3>1, <3>2
    <2>10. Total(Owns') <= Total(Owns) /\ Total(Counted') <= Total(Counted)
        <3>1. /\ Owns \in [Orders -> Int] /\ Counted \in [Orders -> Int]
              /\ Owns' \in [Orders -> Int] /\ Counted' \in [Orders -> Int]
            BY <2>2, <2>3, <2>6
        <3> QED
            BY <2>9, <3>1, TotalMonotone
    <2>11. /\ Total(Owns) \in Nat /\ Total(Counted) \in Nat
           /\ Total(Owns') \in Nat /\ Total(Counted') \in Nat
           /\ inv.sold \in Nat /\ inv.max \in Nat
           /\ stock \in Nat \/ stock = NoKey
        BY LedgerTypes, TotalType
    <2>12. (\A a \in Admins : ~Admin!Active(a)')
           /\ (NoneBeforeOverwrite' => NoneBeforeOverwrite)
        BY <1>2 DEF AdminIdle, admin, Admin!Active, NoneBeforeOverwrite,
                    DiedBeforeOverwrite
    <2>13. NoneReducing' => Fewer(0, 0, NoneBeforeOverwrite)'
        BY <1>2, <2>1, <2>10, <2>11, <2>12 DEF AdminFewer, Fewer
    <2> QED
        BY <1>4, <2>12, <2>13 DEF AdminLedger, AdminFewer
<1> QED
    BY <1>5, <1>6

\* Where no order moves, no sum does.
LEMMA SameUnits ==
    ASSUME Calm, Calm', UNCHANGED placement, UNCHANGED changes, row' = row
    PROVE  Total(Owns') = Total(Owns) /\ Total(Counted') = Total(Counted)
<1>1. /\ OwnsFacts /\ JobLink
      /\ \A p \in Orders : /\ row[p] = NoRow => Owns[p] = held[p]
                           /\ row[p] # NoRow => Owns[p] = RedisOwns[p]
    BY Counts, CalmFacts DEF UnitsOwned
<1>2. /\ OwnsFacts'
      /\ \A p \in Orders : /\ row'[p] = NoRow => Owns'[p] = held'[p]
                           /\ row'[p] # NoRow => Owns'[p] = RedisOwns'[p]
    <2>1. (Calm => UnitsOwned)'
        BY Counts, PTL
    <2> QED
        BY <2>1 DEF UnitsOwned
<1>3. \A p \in Orders : RedisOwns'[p] = RedisOwns[p] /\ DbOwns'[p] = DbOwns[p]
    BY <1>1, <1>2, PlacementKeeps DEF changes
<1>4. \A p \in Orders : Owns'[p] = Owns[p] /\ Counted'[p] = Counted[p]
    BY <1>1, <1>2, <1>3 DEF Counted, Decremented, placement
<1> QED
    BY <1>4, TotalSame

\* Where one task works, or none, the ledger is that of this one.
OneLedger(a) ==
    NobodyDied =>
        /\ Total(Owns) <= inv.max
        /\ Exact(ToRestore(a), ToIncrement(a), Stocked(a))

OneFewer(a) ==
    NoneReducing =>
        Fewer(ToRestore(a), ToIncrement(a), Stocked(a) /\ NoneBeforeOverwrite)

LEMMA OneTask ==
    ASSUME NEW a \in Admins,
           \A b \in Admins \ {a} : ~Admin!Active(b) /\ ~Admin!Active(b)'
    PROVE  /\ AdminLedger <=> OneLedger(a)
           /\ AdminFewer <=> OneFewer(a)
           /\ AdminLedger' <=> OneLedger(a)'
           /\ AdminFewer' <=> OneFewer(a)'
<1>1. (AdminLedger <=> OneLedger(a)) /\ (AdminFewer <=> OneFewer(a))
    <2>1. CASE Admin!Active(a)
        BY <2>1 DEF AdminLedger, AdminFewer, AdminIdle, OneLedger, OneFewer
    <2>2. CASE ~Admin!Active(a)
        <3>1. ToRestore(a) = 0 /\ ToIncrement(a) = 0 /\ Stocked(a)
            BY <2>2 DEF ToRestore, ToIncrement, Stocked, Admin!Active
        <3> QED
            BY <2>2, <3>1
               DEF AdminLedger, AdminFewer, AdminIdle, OneLedger, OneFewer,
                   Exact, Fewer
    <2> QED
        BY <2>1, <2>2
<1>2. (AdminLedger' <=> OneLedger(a)') /\ (AdminFewer' <=> OneFewer(a)')
    <2>1. CASE Admin!Active(a)'
        BY <2>1 DEF AdminLedger, AdminFewer, AdminIdle, OneLedger, OneFewer
    <2>2. CASE ~Admin!Active(a)'
        <3>1. ToRestore(a)' = 0 /\ ToIncrement(a)' = 0 /\ Stocked(a)'
            BY <2>2 DEF ToRestore, ToIncrement, Stocked, Admin!Active
        <3> QED
            BY <2>2, <3>1
               DEF AdminLedger, AdminFewer, AdminIdle, OneLedger, OneFewer,
                   Exact, Fewer
    <2> QED
        BY <2>1, <2>2
<1> QED
    BY <1>1, <1>2

\* A task that starts, looks around or shows a cancellation has no unit.
LEMMA LooksKeeps ==
    ASSUME Calm, Calm', NEW a \in Admins, UNCHANGED changes,
           Total(Owns') = Total(Owns), Total(Counted') = Total(Counted),
           UNCHANGED <<stock, inv>>,
           \A b \in Admins \ {a} : apc'[b] = apc[b] /\ task'[b] = task[b],
           apc[a] \notin {"restore", "increment", "overwrite", "dead",
                         "half_set"},
           apc'[a] \notin {"restore", "increment", "overwrite"},
           OneLedger(a), OneFewer(a)
    PROVE  OneLedger(a)' /\ OneFewer(a)'
<1>1. /\ ToRestore(a) = 0 /\ ToIncrement(a) = 0 /\ Stocked(a)
      /\ ToRestore(a)' = 0 /\ ToIncrement(a)' = 0 /\ Stocked(a)'
    BY DEF ToRestore, ToIncrement, Stocked
<1>2. NobodyDied' => NobodyDied
    BY DEF changes, NobodyDied, NoneDied
<1>3. NoneReducing' => NoneReducing
    BY DEF changes, NoneReducing, DiedReducing
<1>4. NoneBeforeOverwrite' => NoneBeforeOverwrite
    BY DEF NoneBeforeOverwrite, DiedBeforeOverwrite
<1> QED
    BY <1>1, <1>2, <1>3, <1>4 DEF OneLedger, OneFewer, Exact, Fewer

\* A step of a task moves the units of the order it cancels, or makes the
\* counter what daily_inventory has left.
LEMMA TaskKeeps ==
    ASSUME Guarded, Calm, Calm', NEW a \in Admins, Admin!TaskStep(a),
           UNCHANGED placement, UNCHANGED changes, OneLedger(a), OneFewer(a)
    PROVE  OneLedger(a)' /\ OneFewer(a)'
<1>1. /\ Admin!Active(a) /\ OrdersQuiet /\ OrdersQuiet'
      /\ \A b \in Admins \ {a} : apc'[b] = apc[b] /\ task'[b] = task[b]
    BY TaskAlone, QuietStays
<1>2. /\ Total(Owns) \in Nat /\ Total(Counted) \in Nat
      /\ inv.sold \in Nat /\ inv.max \in Nat
      /\ stock \in Nat \/ stock = NoKey
      /\ Total(Owns) = Total(Counted) /\ MaxQty \in Nat
    BY <1>1, LedgerTypes, QuietCounts, CalmTypes
<1>3. row' = row => /\ Total(Owns') = Total(Owns)
                    /\ Total(Counted') = Total(Counted)
    BY SameUnits
<1>4. (NobodyDied' => NobodyDied) /\ (NoneReducing' => NoneReducing)
    BY <1>1 DEF changes, NobodyDied, NoneDied, NoneReducing, DiedReducing,
                Admin!Active
<1>5. inv'.max = inv.max => (NoneBeforeOverwrite' => NoneBeforeOverwrite)
    BY <1>1 DEF NoneBeforeOverwrite, DiedBeforeOverwrite, Admin!Active
<1>6. CASE Looks(a) \/ Caches(a)
    <2>1. /\ row' = row /\ UNCHANGED <<stock, inv>>
          /\ apc[a] \notin {"restore", "increment", "overwrite", "dead",
                            "half_set"}
          /\ apc'[a] \notin {"restore", "increment", "overwrite"}
        BY <1>6 DEF Looks, Caches, stores
    <2> QED
        BY <1>1, <1>3, <2>1, LooksKeeps
<1>7. ASSUME NEW j \in Admin!Listed, Cancels(a, j)
      PROVE  OneLedger(a)' /\ OneFewer(a)'
    <2>1. /\ j.order \in Orders /\ j.quantity \in 1..MaxQty
          /\ LiveQuantity[j.order] = j.quantity /\ LiveQuantity'[j.order] = 0
          /\ \A p \in Orders \ {j.order} : LiveQuantity'[p] = LiveQuantity[p]
        BY <1>7 DEF Cancels, LiveQuantity, Confirmed
    <2>2. /\ LiveQuantity \in [Orders -> 0..MaxQty]
          /\ Total(Owns) = Total(LiveQuantity)
          /\ Total(Counted) = Total(LiveQuantity)
        BY <1>1, QuietCounts
    <2>3. /\ LiveQuantity' \in [Orders -> 0..MaxQty]
          /\ Total(Owns') = Total(LiveQuantity')
          /\ Total(Counted') = Total(LiveQuantity')
        <3>1. (Calm /\ OrdersQuiet =>
                  /\ Total(Owns) = Total(LiveQuantity)
                  /\ Total(Counted) = Total(LiveQuantity)
                  /\ LiveQuantity \in [Orders -> 0..MaxQty])'
            BY QuietCounts, PTL
        <3> QED
            BY <1>1, <3>1
    <2>4. Total(LiveQuantity') = Total(LiveQuantity) - j.quantity
        <3>1. Total(LiveQuantity') = Total(LiveQuantity)
                  - LiveQuantity[j.order] + LiveQuantity'[j.order]
            BY <2>1, <2>2, <2>3, TotalChange
        <3> QED
            BY <1>2, <2>1, <2>2, <3>1
    <2>5. /\ ToRestore(a) = 0 /\ ToIncrement(a) = 0
          /\ ToRestore(a)' = j.quantity /\ ToIncrement(a)' = j.quantity
          /\ Stocked(a) /\ UNCHANGED <<stock, inv>>
        BY <1>7 DEF Cancels, ToRestore, ToIncrement, Stocked
    <2>6. j.quantity \in Nat
        BY <1>2, <2>1
    <2> QED
        BY <1>2, <1>4, <1>5, <2>2, <2>3, <2>4, <2>5, <2>6
           DEF OneLedger, OneFewer, Exact, Fewer
<1>8. CASE Restores(a)
    <2>1. /\ task[a].units \in Nat
          /\ ToRestore(a) = task[a].units /\ ToRestore(a)' = task[a].units - 1
          /\ ToIncrement(a)' = ToIncrement(a)
          /\ ToIncrement(a) = task[a].now.quantity
          /\ task[a].now.quantity \in Nat /\ Stocked(a)
        BY <1>2, <1>8 DEF Restores, ToRestore, ToIncrement, Stocked
    <2>2. /\ stock' = IF stock = NoKey THEN NoKey ELSE stock + 1
          /\ row' = row /\ inv' = inv
        BY <1>8 DEF Restores
    <2> QED
        BY <1>2, <1>3, <1>4, <1>5, <2>1, <2>2
           DEF OneLedger, OneFewer, Exact, Fewer
<1>9. CASE Increments(a)
    <2>1. /\ ToRestore(a) = 0 /\ ToRestore(a)' = 0
          /\ ToIncrement(a) = task[a].now.quantity /\ ToIncrement(a)' = 0
          /\ task[a].now.quantity \in Nat /\ Stocked(a)
        BY <1>2, <1>9 DEF Increments, ToRestore, ToIncrement, Stocked
    <2>2. /\ inv'.sold = Greatest(inv.sold - task[a].now.quantity, 0)
          /\ inv'.max = inv.max /\ stock' = stock /\ row' = row
        BY <1>9 DEF Increments
    <2> QED
        BY <1>2, <1>3, <1>4, <1>5, <2>1, <2>2
           DEF OneLedger, OneFewer, Exact, Fewer, Greatest
<1>10. CASE Fills(a)
    <2>1. /\ ToRestore(a) = 0 /\ ToIncrement(a) = 0
          /\ ToRestore(a)' = 0 /\ ToIncrement(a)' = 0
          /\ stock' = inv.max - inv.sold
          /\ row' = row /\ inv' = inv
        BY <1>10 DEF Fills, ToRestore, ToIncrement
    <2> QED
        BY <1>2, <1>3, <1>4, <1>5, <2>1 DEF OneLedger, OneFewer, Exact, Fewer
<1>11. CASE Sets(a)
    <2>1. /\ ToRestore(a) = 0 /\ ToIncrement(a) = 0
          /\ ToRestore(a)' = 0 /\ ToIncrement(a)' = 0 /\ ~Stocked(a)'
          /\ inv'.sold = inv.sold /\ inv.sold <= inv'.max
          /\ inv'.max \in Nat /\ row' = row
        BY <1>11 DEF Sets, ToRestore, ToIncrement, Stocked
    <2> QED
        BY <1>2, <1>3, <1>4, <2>1 DEF OneLedger, OneFewer, Exact, Fewer
<1> QED
    BY <1>6, <1>7, <1>8, <1>9, <1>10, <1>11, TaskMoves DEF TaskMove

\* A task that dies leaves what it has not given back missing, in both stores;
\* between its row and the counter it leaves more.
LEMMA TaskDeathKeeps ==
    ASSUME Calm, Calm', NEW a \in Admins, Admin!Dies(a),
           UNCHANGED placement, UNCHANGED changes, OneFewer(a)
    PROVE  OneLedger(a)' /\ OneFewer(a)'
<1>1. /\ apc'[a] = (IF apc[a] = "overwrite" THEN "half_set" ELSE "dead")
      /\ task' = task
      /\ Admin!Active(a) /\ ViewOf(apc[a], task[a])
      /\ UNCHANGED <<stock, row, inv>>
      /\ \A b \in Admins \ {a} : apc'[b] = apc[b]
    BY TaskAlone, CalmTypes DEF Admin!Dies, Admin!Goto, Admin!stores
<1>2. ~NobodyDied' /\ (NoneReducing' => NoneReducing)
    BY <1>1 DEF changes, NobodyDied, NoneReducing, DiedReducing
<1>3. NoneBeforeOverwrite' => NoneBeforeOverwrite /\ Stocked(a)
    BY <1>1 DEF NoneBeforeOverwrite, DiedBeforeOverwrite, Admin!Active,
                Stocked, ViewOf
<1>4. /\ ToRestore(a)' = 0 /\ ToIncrement(a)' = 0
      /\ ToRestore(a) \in Nat /\ ToIncrement(a) \in Nat
    <2>1. task[a].units \in Nat
        BY CalmTypes DEF Admin!Locals
    <2>2. task[a].now.quantity \in Nat
        BY CalmTypes DEF Admin!Locals, Admin!Listed, Admin!Quantities,
                         Admin!NoOrder
    <2> QED
        BY <1>1, <2>1, <2>2 DEF ToRestore, ToIncrement
<1>5. /\ Total(Owns) \in Nat /\ Total(Counted) \in Nat
      /\ inv.sold \in Nat /\ inv.max \in Nat
      /\ stock \in Nat \/ stock = NoKey
      /\ Total(Owns') = Total(Owns) /\ Total(Counted') = Total(Counted)
    BY <1>1, LedgerTypes, SameUnits
<1> QED
    BY <1>1, <1>2, <1>3, <1>4, <1>5 DEF OneLedger, OneFewer, Fewer

LEMMA LedgerSystemStep ==
    ASSUME Guarded
    PROVE  Calm /\ Calm' /\ AdminLedger /\ AdminFewer /\ [SystemNext]_systemVars
               => AdminLedger' /\ AdminFewer'
<1> SUFFICES ASSUME Calm, Calm', AdminLedger, AdminFewer,
                    [SystemNext]_systemVars
             PROVE  AdminLedger' /\ AdminFewer'
    OBVIOUS
<1>1. OrderTurn => AdminIdle
    BY DEF Guarded, OrderTurn
<1>2. ASSUME AdminIdle, Traded, UNCHANGED admin, NoneReducing' => NoneReducing,
             NoneDied' => NoneDied
      PROVE  AdminLedger' /\ AdminFewer'
    <2>1. NobodyDied' => NobodyDied
        BY <1>2 DEF NobodyDied, admin
    <2> QED
        BY <1>2, <2>1, TradeKeeps
<1>3. ASSUME NEW o \in Orders, Place(o) PROVE AdminLedger' /\ AdminFewer'
    <2>1. UNCHANGED admin /\ UNCHANGED changes /\ AdminIdle
        BY <1>1, <1>3 DEF Place
    <2>2. (NoneReducing' => NoneReducing) /\ (NoneDied' => NoneDied)
        BY <2>1 DEF changes, NoneReducing, DiedReducing, NoneDied
    <2> QED
        BY <1>2, <1>3, <2>1, <2>2, PlacementTraded
<1>4. ASSUME NEW r \in Requests, NEW o \in Orders, ChangeOrder(r, o)
      PROVE  AdminLedger' /\ AdminFewer'
    <2>1. /\ Load(r, o) /\ UNCHANGED placement /\ UNCHANGED admin
          /\ AdminIdle /\ TypeOK
        BY <1>1, <1>4, CalmFacts DEF ChangeOrder
    <2>2. /\ pc[r] = "new"
          /\ \A s \in Requests \ {r} : pc'[s] = pc[s] /\ job'[s] = job[s]
        BY <2>1 DEF Load, Goto, TypeOK
    <2>3. (NoneReducing' => NoneReducing) /\ (NoneDied' => NoneDied)
        BY <2>2 DEF NoneReducing, DiedReducing, NoneDied
    <2> QED
        BY <1>2, <2>1, <2>3, LoadTraded
<1>5. ASSUME NEW r \in Requests, GoOn(r) PROVE AdminLedger' /\ AdminFewer'
    <2>1. UNCHANGED placement /\ UNCHANGED admin /\ AdminIdle
        BY <1>1, <1>5 DEF GoOn
    <2>2. CASE RequestStep(r)
        <3>1. TypeOK /\ Active(r) /\ job' = job
            BY <2>2, CalmFacts, RequestMoves
        <3>2. \A s \in Requests \ {r} : pc'[s] = pc[s]
            BY <2>2, <3>1, RequestMoves DEF Goto, TypeOK
        <3>3. (NoneReducing' => NoneReducing) /\ (NoneDied' => NoneDied)
            BY <3>1, <3>2 DEF NoneReducing, DiedReducing, NoneDied, Active
        <3> QED
            BY <1>2, <2>1, <2>2, <3>3, RequestTraded
    <2>3. CASE Dies(r)
        BY <2>1, <2>3, DeathKeeps
    <2> QED
        BY <1>5, <2>2, <2>3 DEF GoOn
<1>6. ASSUME NEW a \in Admins, AskInventory(a)
      PROVE  AdminLedger' /\ AdminFewer'
    <2>1. /\ AdminIdle /\ Admin!Start(a)
          /\ UNCHANGED placement /\ UNCHANGED changes
        BY <1>6 DEF AskInventory, AdminTurn, Guarded
    <2>2. /\ UNCHANGED stores /\ apc[a] = "new"
          /\ \E step \in {"query", "read"} : apc' = [apc EXCEPT ![a] = step]
          /\ task' = task \/ \E t : task' = [task EXCEPT ![a] = t]
        BY <2>1 DEF Admin!Start, Admin!CacheMiss, Admin!SetInventory,
                    Admin!Goto, Admin!stores, stores
    <2>3. /\ apc'[a] \in {"query", "read"}
          /\ \A b \in Admins \ {a} : apc'[b] = apc[b] /\ task'[b] = task[b]
        BY <2>2, CalmTypes
    <2>4. \A b \in Admins \ {a} : ~Admin!Active(b) /\ ~Admin!Active(b)'
        BY <2>1, <2>3 DEF AdminIdle, Admin!Active
    <2>5. Total(Owns') = Total(Owns) /\ Total(Counted') = Total(Counted)
        BY <2>1, <2>2, SameUnits DEF stores
    <2>6. OneLedger(a)' /\ OneFewer(a)'
        BY <2>1, <2>2, <2>3, <2>4, <2>5, OneTask, LooksKeeps DEF stores
    <2> QED
        BY <2>4, <2>6, OneTask
<1>7. ASSUME NEW a \in Admins, AdminGoesOn(a) PROVE AdminLedger' /\ AdminFewer'
    <2>1. /\ Admin!TaskStep(a) \/ Admin!Dies(a)
          /\ UNCHANGED placement /\ UNCHANGED changes
        BY <1>7 DEF AdminGoesOn
    <2>2. \A b \in Admins \ {a} : ~Admin!Active(b) /\ ~Admin!Active(b)'
        BY <2>1, TaskAlone DEF Admin!Active
    <2>3. OneLedger(a) /\ OneFewer(a)
        BY <2>2, OneTask
    <2>4. OneLedger(a)' /\ OneFewer(a)'
        BY <2>1, <2>3, TaskKeeps, TaskDeathKeeps
    <2> QED
        BY <2>2, <2>4, OneTask
<1>8. CASE LoseKey \/ UNCHANGED systemVars
    <2>1. /\ UNCHANGED placement /\ UNCHANGED changes /\ UNCHANGED admin
          /\ UNCHANGED <<row, inv>> /\ stock' \in {stock, NoKey}
        BY <1>8 DEF LoseKey, Placement!LoseKey, systemVars, placement, stores
    <2>2. Total(Owns') = Total(Owns) /\ Total(Counted') = Total(Counted)
        BY <2>1, SameUnits
    <2>3. AdminIdle' <=> AdminIdle
        BY <2>1 DEF AdminIdle, admin, Admin!Active
    <2>4. \A a \in Admins : /\ Admin!Active(a)' <=> Admin!Active(a)
                            /\ ToRestore(a)' = ToRestore(a)
                            /\ ToIncrement(a)' = ToIncrement(a)
                            /\ Stocked(a)' <=> Stocked(a)
                            /\ DiedBeforeOverwrite(a)' <=> DiedBeforeOverwrite(a)
        BY <2>1 DEF admin, Admin!Active, ToRestore, ToIncrement, Stocked,
                    DiedBeforeOverwrite
    <2>5. /\ NobodyDied' <=> NobodyDied
          /\ NoneReducing' <=> NoneReducing
          /\ NoneBeforeOverwrite' <=> NoneBeforeOverwrite
        BY <2>1, <2>4 DEF admin, changes, NobodyDied, NoneDied, NoneReducing,
                          DiedReducing, NoneBeforeOverwrite
    <2>6. AdminLedger'
        BY <2>1, <2>2, <2>3, <2>4, <2>5 DEF AdminLedger, Exact
    <2>7. AdminFewer'
        BY <2>1, <2>2, <2>3, <2>4, <2>5 DEF AdminFewer, Fewer
    <2> QED
        BY <2>6, <2>7
<1> QED
    BY <1>3, <1>4, <1>5, <1>6, <1>7, <1>8 DEF SystemNext

LEMMA LedgerHolds ==
    ASSUME Guarded
    PROVE  SystemSpec => [](Calm /\ AdminLedger /\ AdminFewer)
<1>1. SystemSpec => []Calm
    BY CalmHolds
<1>2. Calm /\ Calm' /\ AdminLedger /\ AdminFewer /\ [SystemNext]_systemVars
          => AdminLedger' /\ AdminFewer'
    BY LedgerSystemStep
<1> QED
    BY <1>1, <1>2, LedgerSystemInit, PTL DEF SystemSpec

-----------------------------------------------------------------------------
(***************************************************************************)
(* The live statuses.                                                      *)
(***************************************************************************)
\* A live status that differs from the row of a cancelled order is about to
\* be written by the task that cancelled it.
AdminRewriting(o) ==
    \E a \in Admins : /\ apc[a] \in {"restore", "increment", "cache_status"}
                      /\ task[a].now.order = o

\* The worker has shown that the order is confirmed.
Announced(o) == row[o] # NoRow /\ (msg[o] = "acked" \/ hpc[o] = "notify")

SettledCache ==
    NobodyDied =>
        \A o \in Orders :
            Announced(o) =>
                Shown(o) = row[o].status \/ Rewriting(o) \/ AdminRewriting(o)

\* A step of placement leaves the status of an order as it is once it was
\* announced, which the worker does with what the row says.
LEMMA CachePlacement ==
    ASSUME Guarded, Calm, Calm', NEW o \in Orders, Place(o), SettledCache
    PROVE  SettledCache'
<1>1. Placement!OrderStep(o) /\ UNCHANGED changes /\ UNCHANGED admin
    BY DEF Place
<1>2. /\ Placement!TypeOK /\ Placement!TaskLink /\ Placement!HandlerLink
      /\ WrittenLink /\ SettledLink
    BY CalmFacts
<1>3. /\ msg \in [Orders -> Placement!MsgStates]
      /\ hpc \in [Orders -> Placement!HandlerSteps]
      /\ cache \in [Orders -> Statuses \cup {"none"}]
    BY CalmTypes
<1>4. \/ row' = row
      \/ Placement!InsertRow(o) /\ \A p \in Orders \ {o} : row'[p] = row[p]
    BY <1>1, <1>2, PlacementRows
<1>5. \E s, h, c : /\ msg' = [msg EXCEPT ![o] = s] \/ msg' = msg
                   /\ hpc' = [hpc EXCEPT ![o] = h] \/ hpc' = hpc
                   /\ cache' = [cache EXCEPT ![o] = c] \/ cache' = cache
    BY <1>1, PlacementGoesWell
       DEF Placement!PlaceOrder, Placement!LookupFails, Placement!Reserve,
           Placement!ReserveRefused, Placement!CachePending,
           Placement!Publish, Placement!PublishRaises,
           Placement!RestoreUnit, Placement!ForgetStatus,
           Placement!Deliver, Placement!InsertRow,
           Placement!InsertDuplicate, Placement!DecrementStock,
           Placement!DecrementRefused, Placement!CacheConfirmed,
           Placement!Notified, Placement!ExpireStatus, Placement!Requeue
<1>6. NobodyDied' => NobodyDied
    BY <1>1 DEF changes, admin, NobodyDied, NoneDied
<1>7. \A p \in Orders : /\ Rewriting(p)' <=> Rewriting(p)
                        /\ AdminRewriting(p)' <=> AdminRewriting(p)
    BY <1>1 DEF changes, admin, Rewriting, ActiveOn, Active, AdminRewriting
<1>8. ASSUME NEW p \in Orders, Announced(p)'
      PROVE  \/ Shown(p)' = row'[p].status
             \/ Announced(p) /\ row'[p] = row[p] /\ cache'[p] = cache[p]
    <2>1. CASE p # o
        <3>1. /\ row'[p] = row[p] /\ msg'[p] = msg[p]
              /\ hpc'[p] = hpc[p] /\ cache'[p] = cache[p]
            BY <1>3, <1>4, <1>5, <2>1
        <3> QED
            BY <1>8, <3>1 DEF Announced
    <2>2. CASE p = o /\ Placement!CacheConfirmed(o)
        <3>1. /\ hpc[o] = "status" /\ cache'[o] = "confirmed" /\ row' = row
            BY <1>3, <2>2 DEF Placement!CacheConfirmed
        <3>2. msg[o] = "unacked" /\ row[o] # NoRow
            BY <1>2, <3>1 DEF Placement!HandlerLink, Placement!NoRow, NoRow
        <3>3. row[o].status = "confirmed"
            <4>1. row[o] = Confirmed(qty[o])
                BY <1>2, <3>2 DEF SettledLink
            <4> QED
                BY <4>1 DEF Confirmed
        <3>4. cache'[p] = row'[p].status
            BY <2>2, <3>1, <3>3
        <3> QED
            BY <3>4 DEF Shown
    <2>3. CASE p = o /\ Placement!ExpireStatus(o)
        BY <1>3, <2>3 DEF Placement!ExpireStatus, Shown
    <2>4. CASE p = o /\ (Placement!CachePending(o) \/ Placement!ForgetStatus(o))
        <3>1. row' = row /\ tpc[o] \in {"cache", "forget"}
            BY <2>4 DEF Placement!CachePending, Placement!ForgetStatus
        <3> QED
            BY <1>2, <1>8, <2>4, <3>1 DEF WrittenLink, Announced
    <2>5. CASE p = o /\ (Placement!InsertRow(o) \/ Placement!DecrementStock(o))
        <3>1. /\ hpc[o] \in {"insert", "decrement"}
              /\ hpc'[o] \in {"decrement", "status"} /\ msg' = msg
            BY <1>3, <2>5 DEF Placement!InsertRow, Placement!DecrementStock
        <3> QED
            BY <1>2, <1>8, <2>5, <3>1 DEF Placement!HandlerLink, Announced
    <2>6. CASE p = o /\ (\/ Placement!InsertDuplicate(o)
                         \/ Placement!DecrementRefused(o)
                         \/ Placement!Deliver(o))
        <3>1. hpc'[o] \in {"idle", "insert"} /\ msg'[o] \in {"ready", "unacked"}
            BY <1>3, <2>6
               DEF Placement!InsertDuplicate, Placement!DecrementRefused,
                   Placement!Requeue, Placement!Deliver
        <3> QED
            BY <1>8, <2>6, <3>1 DEF Announced
    <2>7. CASE p = o /\ Placement!Notified(o)
        BY <1>3, <1>8, <2>7 DEF Placement!Notified, Announced
    <2>8. CASE p = o /\ (Placement!Publish(o) \/ Placement!PublishRaises(o))
        <3>1. /\ UNCHANGED <<hpc, row, cache>>
              /\ msg'[o] \in {msg[o], "ready"}
            BY <1>3, <2>8 DEF Placement!Publish, Placement!PublishRaises
        <3> QED
            BY <1>8, <2>8, <3>1 DEF Announced
    <2>9. CASE UNCHANGED <<msg, hpc, row, cache>>
        BY <1>8, <2>9 DEF Announced
    <2> QED
        BY <1>1, <2>1, <2>2, <2>3, <2>4, <2>5, <2>6, <2>7, <2>8, <2>9,
           PlacementGoesWell
           DEF Placement!PlaceOrder, Placement!LookupFails, Placement!Reserve,
               Placement!ReserveRefused, Placement!RestoreUnit
<1> QED
    BY <1>6, <1>7, <1>8 DEF SettledCache, Shown

\* A request that marks a row goes on to the live status ...
LEMMA CacheChanges ==
    ASSUME Guarded, Calm, Calm', NEW r \in Requests, AdminIdle,
           UNCHANGED placement, UNCHANGED admin, SettledCache,
           (\E o \in Orders : Load(r, o)) \/ RequestStep(r) \/ Dies(r)
    PROVE  SettledCache'
<1>1. TypeOK /\ JobLink /\ KnownRows /\ OneAtATime /\ RowLink
    BY CalmFacts
<1>2. \A p \in Orders : ~AdminRewriting(p)
    BY DEF AdminIdle, AdminRewriting, Admin!Active
<1>3. CASE Dies(r)
    <2>1. pc'[r] = "dead"
        BY <1>1, <1>3 DEF Dies, Goto, TypeOK
    <2> QED
        BY <2>1 DEF SettledCache, NobodyDied, NoneDied
<1>4. CASE RequestStep(r)
    <2>1. /\ Active(r) /\ job' = job
          /\ \A p \in Orders \ {job[r].order} : row'[p] = row[p]
          /\ row[job[r].order] # NoRow
        BY <1>1, <1>4, RequestMoves DEF KnownRows, Active
    <2>2. \A s \in Requests \ {r} : pc'[s] = pc[s]
        BY <1>1, <1>4, RequestMoves DEF Goto, TypeOK
    <2>3. NobodyDied' => NobodyDied
        BY <2>1, <2>2 DEF NobodyDied, NoneDied, Active, admin
    <2>4. \A p \in Orders : Announced(p)' => Announced(p)
        BY <2>1 DEF Announced, placement
    <2>5. \A p \in Orders : Shown(p) = row[p].status \/ Rewriting(p) =>
                                Shown(p)' = row'[p].status \/ Rewriting(p)'
        BY <1>1, <1>4, CacheRequest
    <2> QED
        BY <1>2, <2>3, <2>4, <2>5 DEF SettledCache
<1>5. ASSUME NEW o \in Orders, Load(r, o) PROVE SettledCache'
    <2>1. UNCHANGED <<row, cache>> /\ pc[r] = "new"
        BY <1>5 DEF Load, stores
    <2>2. \A s \in Requests \ {r} : pc'[s] = pc[s] /\ job'[s] = job[s]
        BY <1>1, <1>5 DEF Load, Goto, TypeOK
    <2>3. NobodyDied' => NobodyDied
        BY <2>1, <2>2 DEF NobodyDied, NoneDied, admin
    <2>4. \A p \in Orders : (Announced(p)' => Announced(p))
                            /\ (Rewriting(p) => Rewriting(p)')
        BY <2>1, <2>2
           DEF Announced, placement, Rewriting, ActiveOn, Active
    <2> QED
        BY <1>2, <2>1, <2>3, <2>4 DEF SettledCache, Shown
<1> QED
    BY <1>3, <1>4, <1>5

\* ... and so does a task of InventoryService that cancels an order.
LEMMA CacheTask ==
    ASSUME Calm, Calm', NEW a \in Admins,
           UNCHANGED placement, UNCHANGED changes, SettledCache,
           Admin!TaskStep(a) \/ Admin!Dies(a)
    PROVE  SettledCache'
<1>1. /\ Admin!Active(a) /\ OrdersQuiet
      /\ \A b \in Admins \ {a} :
            ~Admin!Active(b) /\ apc'[b] = apc[b] /\ task'[b] = task[b]
    BY TaskAlone
<1>2. \A p \in Orders : ~Rewriting(p)
    BY <1>1 DEF OrdersQuiet, AtRest, Rewriting, ActiveOn
<1>3. NobodyDied' => NobodyDied
    BY <1>1 DEF changes, NobodyDied, NoneDied, Admin!Active
<1>4. \A p \in Orders :
          AdminRewriting(p) <=>
              /\ apc[a] \in {"restore", "increment", "cache_status"}
              /\ task[a].now.order = p
    BY <1>1 DEF AdminRewriting, Admin!Active
<1>5. \A p \in Orders :
          /\ apc'[a] \in {"restore", "increment", "cache_status"}
          /\ task'[a].now.order = p
          => AdminRewriting(p)'
    BY DEF AdminRewriting
<1>6. cache \in [Orders -> Statuses \cup {"none"}]
    BY CalmTypes
<1>7. ASSUME UNCHANGED <<row, cache>>,
             apc[a] \in {"restore", "increment", "cache_status"} =>
                 /\ apc'[a] \in {"restore", "increment", "cache_status"}
                 /\ task'[a].now = task[a].now
      PROVE  SettledCache'
    <2>1. \A p \in Orders : (Announced(p)' => Announced(p))
                            /\ (AdminRewriting(p) => AdminRewriting(p)')
        BY <1>4, <1>5, <1>7 DEF Announced, placement
    <2> QED
        BY <1>2, <1>3, <1>7, <2>1 DEF SettledCache, Shown
<1>8. CASE Admin!Dies(a)
    <2>1. apc'[a] \in {"dead", "half_set"}
        BY <1>8, CalmTypes DEF Admin!Dies, Admin!Goto
    <2> QED
        BY <2>1 DEF SettledCache, NobodyDied
<1>9. ASSUME NEW j \in Admin!Listed, Cancels(a, j) PROVE SettledCache'
    <2>1. /\ apc[a] = "cancel" /\ apc'[a] = "restore" /\ task'[a].now = j
          /\ row[j.order] # NoRow /\ cache' = cache
          /\ \A p \in Orders \ {j.order} : row'[p] = row[p]
        BY <1>9 DEF Cancels, Confirmed, NoRow
    <2>2. \A p \in Orders : Announced(p)' => Announced(p)
        BY <2>1 DEF Announced, placement
    <2>3. AdminRewriting(j.order)'
        BY <2>1 DEF AdminRewriting
    <2> QED
        BY <1>2, <1>3, <1>4, <2>1, <2>2, <2>3 DEF SettledCache, Shown
<1>10. CASE Caches(a)
    <2>1. /\ apc[a] = "cache_status" /\ row' = row
          /\ row[task[a].now.order].status = "cancelled"
          /\ cache'[task[a].now.order] = "cancelled"
          /\ \A p \in Orders \ {task[a].now.order} : cache'[p] = cache[p]
        BY <1>6, <1>10 DEF Caches
    <2>2. \A p \in Orders : Announced(p)' => Announced(p)
        BY <2>1 DEF Announced, placement
    <2>3. ASSUME NEW p \in Orders, p = task[a].now.order
          PROVE  Shown(p)' = row'[p].status
        BY <2>1, <2>3 DEF Shown
    <2> QED
        BY <1>2, <1>3, <1>4, <2>1, <2>2, <2>3 DEF SettledCache, Shown
<1>11. CASE Looks(a) \/ Restores(a) \/ Increments(a) \/ Fills(a) \/ Sets(a)
    BY <1>7, <1>11 DEF Looks, Restores, Increments, Fills, Sets, stores
<1> QED
    BY <1>8, <1>9, <1>10, <1>11, TaskMoves DEF TaskMove

LEMMA CacheSystemStep ==
    ASSUME Guarded
    PROVE  Calm /\ Calm' /\ SettledCache /\ [SystemNext]_systemVars
               => SettledCache'
<1> SUFFICES ASSUME Calm, Calm', SettledCache, [SystemNext]_systemVars
             PROVE  SettledCache'
    OBVIOUS
<1>1. OrderTurn => AdminIdle
    BY DEF Guarded, OrderTurn
<1>2. ASSUME NEW r \in Requests,
             (\E o \in Orders : ChangeOrder(r, o)) \/ GoOn(r)
      PROVE  SettledCache'
    <2>1. AdminIdle /\ UNCHANGED placement /\ UNCHANGED admin
        BY <1>1, <1>2 DEF ChangeOrder, GoOn
    <2>2. (\E o \in Orders : Load(r, o)) \/ RequestStep(r) \/ Dies(r)
        BY <1>2 DEF ChangeOrder, GoOn
    <2> QED
        BY <2>1, <2>2, CacheChanges
<1>3. ASSUME UNCHANGED placement, UNCHANGED changes, UNCHANGED <<row, cache>>,
             NobodyDied' => NobodyDied,
             \A p \in Orders : AdminRewriting(p) => AdminRewriting(p)'
      PROVE  SettledCache'
    <2>1. \A p \in Orders : (Announced(p)' => Announced(p))
                            /\ (Rewriting(p) => Rewriting(p)')
        BY <1>3 DEF Announced, placement, changes, Rewriting, ActiveOn, Active
    <2> QED
        BY <1>3, <2>1 DEF SettledCache, Shown
<1>4. ASSUME NEW a \in Admins, AskInventory(a) PROVE SettledCache'
    <2>1. /\ AdminIdle /\ Admin!Start(a)
          /\ UNCHANGED placement /\ UNCHANGED changes
        BY <1>4 DEF AskInventory, AdminTurn, Guarded
    <2>2. /\ UNCHANGED stores /\ apc[a] = "new"
          /\ \E step \in {"query", "read"} : apc' = [apc EXCEPT ![a] = step]
        BY <2>1 DEF Admin!Start, Admin!CacheMiss, Admin!SetInventory,
                    Admin!Goto, Admin!stores, stores
    <2>3. NobodyDied' => NobodyDied
        BY <2>1, <2>2, CalmTypes DEF changes, NobodyDied, NoneDied
    <2>4. \A p \in Orders : ~AdminRewriting(p)
        BY <2>1 DEF AdminIdle, AdminRewriting, Admin!Active
    <2> QED
        BY <1>3, <2>1, <2>2, <2>3, <2>4 DEF stores
<1>5. CASE LoseKey \/ UNCHANGED systemVars
    <2>1. /\ UNCHANGED placement /\ UNCHANGED changes /\ UNCHANGED admin
          /\ UNCHANGED <<row, cache>>
        BY <1>5 DEF LoseKey, Placement!LoseKey, systemVars, placement, stores
    <2> QED
        BY <1>3, <2>1 DEF admin, changes, NobodyDied, NoneDied, AdminRewriting
<1> QED
    BY <1>2, <1>4, <1>5, CachePlacement, CacheTask DEF SystemNext, AdminGoesOn

LEMMA CacheSystemInit == SystemInit => SettledCache
BY DEF SystemInit, Placement!Init, Placement!NoRow, NoRow, SettledCache,
       Announced

LEMMA CacheHolds ==
    ASSUME Guarded
    PROVE  SystemSpec => [](Calm /\ SettledCache)
<1>1. SystemSpec => []Calm
    BY CalmHolds
<1>2. Calm /\ Calm' /\ SettledCache /\ [SystemNext]_systemVars => SettledCache'
    BY CacheSystemStep
<1> QED
    BY <1>1, <1>2, CacheSystemInit, PTL DEF SystemSpec

-----------------------------------------------------------------------------
(***************************************************************************)
(* The theorems.                                                           *)
(***************************************************************************)
\* A request that is not giving units back has taken no more for its order
\* from daily_inventory than from the counter: an increase takes them from
\* the counter first.
LEMMA RedisFirst ==
    ASSUME Calm, \A r \in Requests : ~GivingBack(r), NEW o \in Orders
    PROVE  DbOwns[o] <= RedisOwns[o]
<1>1. OwnsFacts /\ JobLink /\ TypeOK
    BY Counts, CalmFacts DEF UnitsOwned
<1>2. RedisOwns[o] \in Nat /\ DbOwns[o] \in Nat
    BY <1>1, MaxQtyAssumption DEF OwnsFacts
<1>3. CASE \A r \in Requests : ~ActiveOn(r, o)
    BY <1>1, <1>2, <1>3 DEF OwnsFacts
<1>4. ASSUME NEW r \in Requests, ActiveOn(r, o)
      PROVE  DbOwns[o] <= RedisOwns[o]
    <2>1. /\ Active(r) /\ job[r] \in Jobs /\ LinkOf(pc[r], job[r], units[r])
          /\ RedisOwns[o] = RedisHolds(r) /\ DbOwns[o] = DbHolds(r)
        BY <1>1, <1>4 DEF ActiveOn, Active, JobLink, OwnsFacts
    <2>2. /\ job[r].seen \in Nat /\ job[r].to \in Nat /\ units[r] \in Nat
        BY <1>1, <2>1, MaxQtyAssumption DEF TypeOK, Jobs, Quantities
    <2>3. pc[r] \notin {"restore", "increment"}
        BY DEF GivingBack
    <2>4. CASE pc[r] \in {"take", "decrement", "rollback"}
        BY <2>1, <2>2, <2>4 DEF RedisHolds, DbHolds
    <2>5. CASE pc[r] = "write"
        <3>1. job[r].op = "quantity"
            BY <2>1, <2>5 DEF LinkOf, Raises, Lowers
        <3> QED
            BY <2>1, <2>2, <2>5, <3>1 DEF RedisHolds, DbHolds
    <2>6. CASE pc[r] \notin {"take", "decrement", "rollback", "write"}
        BY <2>1, <2>2, <2>3, <2>6 DEF RedisHolds, DbHolds
    <2> QED
        BY <2>4, <2>5, <2>6
<1> QED
    BY <1>3, <1>4

\* After everything a vendor, the expiry of the counter and the customers did,
\* when nobody is at work and nobody died: sold_quantity counts the live
\* orders, and the counter is missing or what daily_inventory has left
\* (set_inventory, _cancel_overflow_orders and get_inventory).
THEOREM VendorsBooksAgree ==
    ASSUME Guarded
    PROVE  SystemSpec => []BooksAgreeWhenQuiet
<1>1. Calm /\ AdminLedger => BooksAgreeWhenQuiet
    <2> SUFFICES ASSUME Calm, AdminLedger, Quiet, NobodyDied
                 PROVE  /\ inv.sold = Total(LiveQuantity)
                        /\ stock \in {NoKey, inv.remaining}
        BY DEF BooksAgreeWhenQuiet
    <2>1. OrdersQuiet /\ Exact(0, 0, TRUE)
        BY DEF Quiet, AdminLedger
    <2>2. /\ Total(Owns) = Total(LiveQuantity)
          /\ Total(Counted) = Total(LiveQuantity)
        BY <2>1, QuietCounts
    <2>3. /\ Total(Owns) \in Nat /\ Total(Counted) \in Nat
          /\ inv.sold \in Nat /\ inv.max \in Nat
          /\ stock \in Nat \/ stock = NoKey
        BY LedgerTypes
    <2>4. inv.remaining = inv.max - inv.sold
        BY CalmFacts DEF DbBooksBalance
    <2>5. inv.sold = Total(LiveQuantity)
        BY <2>1, <2>2, <2>3 DEF Exact
    <2>6. stock # NoKey => stock = inv.remaining
        BY <2>1, <2>2, <2>3, <2>4, <2>5 DEF Exact
    <2> QED
        BY <2>5, <2>6
<1> QED
    BY <1>1, LedgerHolds, PTL

\* Requests that die half way, unless they were reducing a quantity, and a
\* set_inventory that dies, unless between its row and the counter, leave
\* fewer units on offer than there are, never more; no later cancellation,
\* warm-up or setting turns what they left into more.
THEOREM CrashesLeaveFewer ==
    ASSUME Guarded
    PROVE  SystemSpec => []CrashLeavesFewer
<1>1. Calm /\ AdminFewer => CrashLeavesFewer
    <2> SUFFICES ASSUME Calm, AdminFewer, Quiet, stock # NoKey,
                        \A r \in Requests : ~DiedReducing(r),
                        \A a \in Admins : ~DiedBeforeOverwrite(a)
                 PROVE  stock + Total(LiveQuantity) <= inv.max
        BY DEF CrashLeavesFewer
    <2>1. OrdersQuiet /\ NoneBeforeOverwrite /\ Fewer(0, 0, NoneBeforeOverwrite)
        BY DEF Quiet, AdminFewer, NoneReducing, NoneBeforeOverwrite
    <2>2. Total(Owns) = Total(LiveQuantity)
        BY <2>1, QuietCounts
    <2>3. /\ Total(Owns) \in Nat /\ inv.max \in Nat
          /\ stock \in Nat
        BY LedgerTypes
    <2> QED
        BY <2>1, <2>2, <2>3 DEF Fewer
<1> QED
    BY <1>1, LedgerHolds, PTL

\* The worker's decrement finds enough in daily_inventory, unless a request
\* has given units back to the counter and not yet to daily_inventory: the
\* units counted there, and the order's own, are owned in Redis too.
THEOREM RefusalsNeedGiveBack ==
    ASSUME Guarded
    PROVE  SystemSpec => []RefusedOnlyDuringGiveBack
<1>1. Calm /\ AdminLedger => RefusedOnlyDuringGiveBack
    <2> SUFFICES ASSUME Calm, AdminLedger, NobodyDied, NEW o \in Orders,
                        hpc[o] = "decrement",
                        \A r \in Requests : ~GivingBack(r)
                 PROVE  CanDecrement(qty[o])
        BY DEF RefusedOnlyDuringGiveBack, Placement!Decrementing
    <2> DEFINE counted == [Counted EXCEPT ![o] = qty[o]]
    <2>1. /\ msg[o] = "unacked" /\ row[o] # NoRow
          /\ row[o] = Confirmed(qty[o])
        BY CalmFacts DEF Placement!HandlerLink, Placement!NoRow, NoRow,
                         SettledLink
    <2>2. AdminIdle
        BY <2>1, CalmFacts DEF AdminView, OrdersQuiet, AdminIdle
    <2>3. Total(Owns) <= inv.max /\ Exact(0, 0, TRUE)
        BY <2>2 DEF AdminLedger
    <2>4. /\ Counted \in [Orders -> 0..MaxQty] /\ Owns \in [Orders -> 0..MaxQty]
          /\ OwnsFacts
          /\ \A p \in Orders : /\ Decremented(p) => Counted[p] = DbOwns[p]
                               /\ ~Decremented(p) => Counted[p] = 0
                               /\ row[p] # NoRow => Owns[p] = RedisOwns[p]
        BY Counts DEF UnitsOwned
    <2>5. Owns[o] = qty[o] /\ Counted[o] = 0
        <3>1. \A r \in Requests : ~ActiveOn(r, o)
            BY <2>1, CalmFacts DEF SettledLink, ActiveOn
        <3>2. RedisOwns[o] = qty[o]
            BY <2>1, <2>4, <3>1 DEF OwnsFacts, LiveQuantity, Confirmed
        <3> QED
            BY <2>1, <2>4, <3>2 DEF Decremented
    <2>6. counted \in [Orders -> 0..MaxQty] /\ MaxQty \in Nat
        BY <2>4, CalmTypes
    <2>7. ASSUME NEW p \in Orders PROVE counted[p] <= Owns[p]
        <3>1. Owns[p] \in Nat /\ qty[o] \in Nat
            BY <2>4, <2>6, CalmTypes
        <3>2. CASE p = o
            BY <2>4, <2>5, <3>1, <3>2
        <3>3. CASE p # o /\ ~Decremented(p)
            BY <2>4, <3>1, <3>3
        <3>4. CASE p # o /\ Decremented(p)
            <4>1. row[p] # NoRow
                BY <3>4, CalmFacts DEF Decremented, Placement!HandlerLink,
                                       Placement!NoRow, NoRow
            <4>2. counted[p] = DbOwns[p] /\ Owns[p] = RedisOwns[p]
                BY <2>4, <3>4, <4>1
            <4> QED
                BY <4>2, RedisFirst
        <3> QED
            BY <3>2, <3>3, <3>4
    <2>8. Total(counted) <= Total(Owns)
        <3>1. counted \in [Orders -> Int] /\ Owns \in [Orders -> Int]
            BY <2>4, <2>6
        <3> QED
            BY <2>7, <3>1, TotalMonotone
    <2>9. Total(counted) = Total(Counted) + qty[o]
        <3>1. counted[o] = qty[o] /\ \A p \in Orders \ {o} : counted[p] = Counted[p]
            BY <2>4
        <3>2. Total(counted) = Total(Counted) - Counted[o] + counted[o]
            BY <2>4, <2>6, <3>1, TotalChange
        <3>3. Total(Counted) \in Nat /\ qty[o] \in Nat
            BY LedgerTypes, CalmTypes
        <3> HIDE DEF counted
        <3> QED
            BY <2>5, <3>1, <3>2, <3>3
    <2>10. /\ Total(Owns) \in Nat /\ Total(Counted) \in Nat
           /\ inv.sold \in Nat /\ inv.max \in Nat /\ qty[o] \in Nat
           /\ inv.remaining = inv.max - inv.sold
        BY LedgerTypes, CalmTypes, CalmFacts DEF DbBooksBalance
    <2> HIDE DEF counted
    <2> QED
        BY <2>3, <2>8, <2>9, <2>10 DEF Exact, CanDecrement
<1> QED
    BY <1>1, LedgerHolds, PTL

\* When all is quiet every reader of an order is shown the status in its row,
\* also of the orders that a reduction of the inventory cancelled
\* (_cancel_order_force) and of those whose key in Redis has expired.
THEOREM ReadersAreShownTheRow ==
    ASSUME Guarded
    PROVE  SystemSpec => []LiveStatusWhenQuiet
<1>1. Calm /\ SettledCache => LiveStatusWhenQuiet
    <2> SUFFICES ASSUME Calm, SettledCache, Quiet, NobodyDied,
                        NEW o \in Orders, row[o] # NoRow
                 PROVE  Shown(o) = row[o].status
        BY DEF LiveStatusWhenQuiet
    <2>1. OrdersQuiet /\ AdminIdle
        BY DEF Quiet
    <2>2. Announced(o)
        BY <2>1, QuietRows DEF Announced
    <2>3. ~Rewriting(o) /\ ~AdminRewriting(o)
        BY <2>1 DEF OrdersQuiet, AtRest, Rewriting, ActiveOn, AdminIdle,
                    AdminRewriting, Admin!Active
    <2> QED
        BY <2>2, <2>3 DEF SettledCache
<1> QED
    BY <1>1, CacheHolds, PTL

=============================================================================
