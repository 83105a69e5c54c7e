------------------------- MODULE OrderSystemProofs -------------------------
(***************************************************************************)
(* Proofs about the whole system.  What a request does to the stores is    *)
(* OrderChangesProofs; here it meets orders that are being placed and the  *)
(* tasks of InventoryService.                                              *)
(***************************************************************************)
EXTENDS OrderSystem, OrderChangesProofs

\* The three components speak of the same stores.
LEMMA SameStores ==
    /\ Placement!StoresTypeOK <=> StoresTypeOK
    /\ Admin!StoresTypeOK <=> StoresTypeOK
BY DEF Placement!StoresTypeOK, Admin!StoresTypeOK, StoresTypeOK,
       Placement!Statuses, Admin!Statuses, Statuses

-----------------------------------------------------------------------------
(***************************************************************************)
(* The placement of an order.                                              *)
(***************************************************************************)
\* It keeps the types ...
LEMMA PlacementTypes ==
    ASSUME Placement!TypeOK, NEW o \in Orders, Placement!OrderStep(o)
    PROVE  Placement!TypeOK'
<1> USE MaxQtyAssumption
    DEF Placement!TypeOK, Placement!StoresTypeOK, Placement!TaskSteps,
        Placement!MsgStates, Placement!HandlerSteps, Placement!Statuses,
        Placement!Goto, Placement!Requeue
<1>1. ASSUME NEW q \in Placement!Quantities, Placement!PlaceOrder(o, q)
      PROVE  Placement!TypeOK'
    BY <1>1 DEF Placement!PlaceOrder, Placement!Quantities
<1>2. CASE Placement!LookupFails(o) \/ Placement!ReserveRefused(o)
    BY <1>2 DEF Placement!LookupFails, Placement!ReserveRefused
<1>3. CASE Placement!Reserve(o)
    BY <1>3 DEF Placement!Reserve, Placement!CanReserve, Placement!AfterReserve
<1>4. CASE Placement!CachePending(o)
    BY <1>4 DEF Placement!CachePending
<1>5. CASE Placement!Publish(o)
    BY <1>5 DEF Placement!Publish
<1>6. CASE Placement!PublishRaises(o)
    BY <1>6 DEF Placement!PublishRaises
<1>7. CASE Placement!RestoreUnit(o)
    BY <1>7 DEF Placement!RestoreUnit, Placement!AfterIncr
<1>8. CASE Placement!ForgetStatus(o)
    BY <1>8 DEF Placement!ForgetStatus
<1>9. CASE Placement!TaskDies(o)
    BY <1>9 DEF Placement!TaskDies
<1>10. CASE Placement!Deliver(o)
    BY <1>10 DEF Placement!Deliver
<1>11. CASE Placement!InsertRow(o)
    BY <1>11 DEF Placement!InsertRow
<1>12. CASE Placement!InsertDuplicate(o) \/ Placement!DecrementRefused(o)
    BY <1>12 DEF Placement!InsertDuplicate, Placement!DecrementRefused
<1>13. CASE Placement!DecrementStock(o)
    BY <1>13 DEF Placement!DecrementStock, Placement!AfterDecrement,
                 Placement!Booked, Placement!Greatest
<1>14. CASE Placement!CacheConfirmed(o)
    BY <1>14 DEF Placement!CacheConfirmed
<1>15. CASE Placement!Notified(o)
    BY <1>15 DEF Placement!Notified
<1>16. CASE \/ Placement!NotifyRaises(o) \/ Placement!HandlerRaises(o)
            \/ Placement!HandlerDies(o)
    BY <1>16 DEF Placement!NotifyRaises, Placement!HandlerRaises,
                 Placement!HandlerDies
<1>17. CASE Placement!ExpireStatus(o)
    BY <1>17 DEF Placement!ExpireStatus
<1> QED
    BY <1>1, <1>2, <1>3, <1>4, <1>5, <1>6, <1>7, <1>8, <1>9, <1>10, <1>11,
       <1>12, <1>13, <1>14, <1>15, <1>16, <1>17
       DEF Placement!OrderStep, Placement!TaskStep, Placement!HandlerStep

\* ... and what the program counters of task and handler say.
LEMMA PlacementLinks ==
    ASSUME Placement!TypeOK, Placement!TaskLink, Placement!HandlerLink,
           NEW o \in Orders, Placement!OrderStep(o)
    PROVE  Placement!TaskLink' /\ Placement!HandlerLink'
<1> DEFINE Links == Placement!TaskLink /\ Placement!HandlerLink
<1> USE MaxQtyAssumption
    DEF Placement!TypeOK, Placement!StoresTypeOK, Placement!TaskSteps,
        Placement!MsgStates, Placement!HandlerSteps, Placement!Statuses,
        Placement!NoRow, Placement!TaskLink, Placement!HandlerLink,
        Placement!Goto, Placement!Requeue
<1>1. ASSUME NEW q \in Placement!Quantities, Placement!PlaceOrder(o, q)
      PROVE  Links'
    BY <1>1 DEF Placement!PlaceOrder, Placement!Quantities
<1>2. CASE Placement!LookupFails(o) \/ Placement!ReserveRefused(o)
    BY <1>2 DEF Placement!LookupFails, Placement!ReserveRefused
<1>3. CASE Placement!Reserve(o)
    BY <1>3 DEF Placement!Reserve
<1>4. CASE Placement!CachePending(o)
    BY <1>4 DEF Placement!CachePending
<1>5. CASE Placement!Publish(o)
    BY <1>5 DEF Placement!Publish
<1>6. CASE Placement!PublishRaises(o)
    BY <1>6 DEF Placement!PublishRaises
<1>7. CASE Placement!RestoreUnit(o)
    BY <1>7 DEF Placement!RestoreUnit
<1>8. CASE Placement!ForgetStatus(o)
    BY <1>8 DEF Placement!ForgetStatus
<1>9. CASE Placement!TaskDies(o)
    BY <1>9 DEF Placement!TaskDies
<1>10. CASE Placement!Deliver(o)
    BY <1>10 DEF Placement!Deliver
<1>11. CASE Placement!InsertRow(o)
    BY <1>11 DEF Placement!InsertRow
<1>12. CASE Placement!InsertDuplicate(o)
    BY <1>12 DEF Placement!InsertDuplicate
<1>13. CASE Placement!DecrementStock(o)
    BY <1>13 DEF Placement!DecrementStock
<1>14. CASE Placement!CacheConfirmed(o)
    BY <1>14 DEF Placement!CacheConfirmed
<1>15. CASE Placement!Notified(o)
    BY <1>15 DEF Placement!Notified
<1>16. CASE \/ Placement!NotifyRaises(o) \/ Placement!HandlerRaises(o)
            \/ Placement!HandlerDies(o)
    BY <1>16 DEF Placement!NotifyRaises, Placement!HandlerRaises,
                 Placement!HandlerDies
<1>17. CASE Placement!ExpireStatus(o)
    BY <1>17 DEF Placement!ExpireStatus
<1>18. CASE Placement!DecrementRefused(o)
    BY <1>18 DEF Placement!DecrementRefused
<1> QED
    BY <1>1, <1>2, <1>3, <1>4, <1>5, <1>6, <1>7, <1>8, <1>9, <1>10, <1>11,
       <1>12, <1>13, <1>14, <1>15, <1>16, <1>17, <1>18
       DEF Placement!OrderStep, Placement!TaskStep, Placement!HandlerStep

\* It writes a row where there was none, or none at all.
LEMMA PlacementRows ==
    ASSUME Placement!TypeOK, Placement!TaskLink, Placement!HandlerLink,
           NEW o \in Orders, Placement!OrderStep(o)
    PROVE  \/ row' = row
           \/ /\ Placement!InsertRow(o)
              /\ row[o] = NoRow /\ row'[o] = Confirmed(qty[o])
              /\ \A p \in Orders \ {o} : row'[p] = row[p]
              /\ qty[o] \in 1..MaxQty
<1>1. CASE Placement!InsertRow(o)
    <2>1. msg[o] = "unacked"
        BY <1>1 DEF Placement!InsertRow, Placement!HandlerLink
    <2>2. qty[o] \in 1..MaxQty
        BY <2>1, MaxQtyAssumption DEF Placement!TaskLink, Placement!TypeOK
    <2> QED
        BY <1>1, <2>2
           DEF Placement!InsertRow, Placement!NoRow, NoRow, Confirmed,
               Placement!TypeOK, Placement!StoresTypeOK
<1>2. CASE row' = row
    BY <1>2
<1> QED
    BY <1>1, <1>2
       DEF Placement!OrderStep, Placement!TaskStep, Placement!HandlerStep,
           Placement!PlaceOrder, Placement!LookupFails, Placement!Reserve,
           Placement!ReserveRefused, Placement!CachePending, Placement!Publish,
           Placement!PublishRaises, Placement!RestoreUnit,
           Placement!ForgetStatus, Placement!TaskDies, Placement!Deliver,
           Placement!InsertDuplicate, Placement!DecrementStock,
           Placement!DecrementRefused, Placement!CacheConfirmed,
           Placement!Notified, Placement!NotifyRaises,
           Placement!HandlerRaises, Placement!HandlerDies,
           Placement!ExpireStatus

-----------------------------------------------------------------------------
(***************************************************************************)
(* Rows are written once and stay.                                         *)
(***************************************************************************)
\* What is known of the rows and of the handlers survives every step that
\* leaves each written row written.
LEMMA RowsStay ==
    ASSUME Placement!HandlerLink, UNCHANGED <<hpc, msg>>,
           \A o \in Orders : row[o] # NoRow => row'[o] # NoRow
    PROVE  Placement!HandlerLink'
BY DEF Placement!HandlerLink, Placement!NoRow, NoRow

LEMMA RequestRows ==
    ASSUME TypeOK, Admin!TypeOK, JobLink, KnownRows, NEW r \in Requests,
           RequestStep(r) \/ Dies(r), UNCHANGED admin
    PROVE  /\ \A o \in Orders : row[o] # NoRow => row'[o] # NoRow
           /\ KnownRows'
<1> DEFINE j == job[r]
<1>1. Active(r)
    BY DEF RequestStep, SetCancelled, SetStatus, RestoreUnit, Increment,
           CacheStatus, TakeUnit, TakeRefused, Decrement, DecrementRefused,
           RollbackUnit, WriteQuantity, Active, Dies
<1>2. j \in Jobs /\ j.order \in Orders /\ row[j.order] # NoRow
    BY <1>1 DEF JobLink, KnownRows, Active, Jobs
<1>3. j.status \in Statuses /\ j.to \in 1..MaxQty
    BY <1>2, Amounts
<1>4. row \in [Orders -> [status   : Statuses \cup {"absent"},
                          quantity : 0..MaxQty]]
    BY DEF TypeOK, StoresTypeOK
<1>5. row[j.order].status # "absent" /\ row[j.order].quantity > 0
    BY <1>2 DEF KnownRows
<1>6. /\ job' = job
      /\ \A s \in Requests : pc'[s] # "new" => pc[s] # "new"
    BY <1>1 DEF RequestStep, SetCancelled, SetStatus, RestoreUnit, Increment,
           CacheStatus, TakeUnit, TakeRefused, Decrement, DecrementRefused,
           RollbackUnit, WriteQuantity, Dies, Goto, TypeOK, Active
<1>7. \A o \in Orders :
          \/ row'[o] = row[o]
          \/ /\ row[o] # NoRow
             /\ row'[o].status # "absent" /\ row'[o].quantity > 0
    <2>1. CASE SetCancelled(r)
        BY <1>2, <1>4, <1>5, <2>1 DEF SetCancelled
    <2>2. CASE SetStatus(r)
        BY <1>2, <1>3, <1>4, <1>5, <2>2 DEF SetStatus, Statuses
    <2>3. CASE WriteQuantity(r)
        BY <1>2, <1>3, <1>4, <1>5, <2>3, MaxQtyAssumption DEF WriteQuantity
    <2>4. CASE row' = row
        BY <2>4
    <2> QED
        BY <2>1, <2>2, <2>3, <2>4
           DEF RequestStep, RestoreUnit, Increment, CacheStatus, TakeUnit,
               TakeRefused, Decrement, DecrementRefused, RollbackUnit, Dies
<1>8. \A o \in Orders : row[o] # NoRow => row'[o] # NoRow
    BY <1>7 DEF NoRow
<1>9. \A o \in Orders :
          row'[o] # NoRow => row'[o].status # "absent" /\ row'[o].quantity > 0
    BY <1>7 DEF KnownRows
<1>10. \A s \in Requests :
          pc'[s] # "new" => job'[s].op \in Ops /\ row'[job'[s].order] # NoRow
    <2> SUFFICES ASSUME NEW s \in Requests, pc'[s] # "new"
                 PROVE  job'[s].op \in Ops /\ row'[job'[s].order] # NoRow
        OBVIOUS
    <2>1. job[s] \in Jobs /\ job[s].op \in Ops /\ row[job[s].order] # NoRow
        BY <1>6 DEF JobLink, KnownRows
    <2> QED
        BY <1>6, <1>8, <2>1 DEF Jobs
<1>11. \A a \in Admins : \A i \in task'[a].next : row'[i.order] # NoRow
    <2> SUFFICES ASSUME NEW a \in Admins, NEW i \in task[a].next
                 PROVE  row'[i.order] # NoRow
        BY DEF admin
    <2>1. i.order \in Orders
        BY DEF Admin!TypeOK, Admin!Locals, Admin!Listed
    <2> QED
        BY <1>8, <2>1 DEF KnownRows
<1> QED
    BY <1>8, <1>9, <1>10, <1>11 DEF KnownRows

LEMMA LoadRows ==
    ASSUME TypeOK, KnownRows, NEW r \in Requests, NEW o \in Orders, Load(r, o),
           UNCHANGED admin
    PROVE  row' = row /\ KnownRows'
<1>1. PICK j \in JobsOn(o) : job' = [job EXCEPT ![r] = j] /\ Goto(r, FirstStep(j))
    BY DEF Load
<1>2. j.op \in Ops /\ j.order = o /\ row[o] # NoRow /\ row' = row
    BY DEF JobsOn, Load, stores
<1>3. ASSUME NEW s \in Requests, pc'[s] # "new"
      PROVE  job'[s].op \in Ops /\ row'[job'[s].order] # NoRow
    <2>1. CASE s = r
        BY <1>1, <1>2, <2>1 DEF TypeOK
    <2>2. CASE s # r
        BY <1>1, <1>2, <1>3, <2>2 DEF TypeOK, Goto, KnownRows
    <2> QED
        BY <2>1, <2>2
<1> QED
    BY <1>2, <1>3 DEF KnownRows, admin

-----------------------------------------------------------------------------
(***************************************************************************)
(* The tasks of InventoryService.                                          *)
(***************************************************************************)
\* A listed order has a row with units.
LEMMA ListedOrders ==
    ASSUME StoresTypeOK, KnownRows
    PROVE  /\ Admin!ConfirmedOrders \in SUBSET Admin!Listed
           /\ \A j \in Admin!ConfirmedOrders : row[j.order] # NoRow
<1>1. ASSUME NEW j \in Admin!ConfirmedOrders
      PROVE  j \in Admin!Listed /\ row[j.order] # NoRow
    <2>1. PICK o \in Orders :
              /\ row[o].status = "confirmed"
              /\ j = [order |-> o, quantity |-> row[o].quantity]
        BY DEF Admin!ConfirmedOrders
    <2>2. row[o] # NoRow /\ row[o].quantity \in 1..MaxQty
        BY <2>1, MaxQtyAssumption DEF KnownRows, StoresTypeOK, NoRow
    <2> QED
        BY <2>1, <2>2 DEF Admin!Listed, Admin!Quantities
<1> QED
    BY <1>1

\* A step of a task that leaves the rows alone and goes on with local
\* variables u.
LEMMA AdminAfter ==
    ASSUME Admin!TypeOK, AdminLink, KnownRows, UNCHANGED changes,
           row' = row, Admin!StoresTypeOK',
           NEW a \in Admins, NEW step \in Admin!Steps, NEW u \in Admin!Locals,
           apc' = [apc EXCEPT ![a] = step], task' = [task EXCEPT ![a] = u],
           u.next \subseteq task[a].next \cup Admin!ConfirmedOrders,
           step \in {"restore", "increment", "cache_status"}
               => u.now \in Admin!Listed,
           step = "restore" => u.units > 0
    PROVE  /\ Admin!TypeOK' /\ AdminLink' /\ KnownRows'
           /\ \A o \in Orders : row[o] # NoRow => row'[o] # NoRow
<1>1. /\ task \in [Admins -> Admin!Locals] /\ apc \in [Admins -> Admin!Steps]
      /\ StoresTypeOK
    BY SameStores DEF Admin!TypeOK
<1>2. Admin!TypeOK'
    BY <1>1 DEF Admin!TypeOK
<1>3. AdminLink'
    BY <1>1 DEF AdminLink
<1>4. \A j \in u.next : row[j.order] # NoRow
    BY <1>1, ListedOrders DEF KnownRows
<1>5. KnownRows'
    BY <1>1, <1>4 DEF KnownRows, changes
<1> QED
    BY <1>2, <1>3, <1>5

\* They keep the types, cancel only orders that are there, and give back no
\* more units than an order had when it was listed.
LEMMA AdminTypes ==
    ASSUME Admin!TypeOK, AdminLink, KnownRows, NEW a \in Admins,
           Admin!Start(a) \/ Admin!TaskStep(a) \/ Admin!Dies(a),
           UNCHANGED changes
    PROVE  /\ Admin!TypeOK' /\ AdminLink' /\ KnownRows'
           /\ \A o \in Orders : row[o] # NoRow => row'[o] # NoRow
<1> DEFINE t == task[a]
           Kept == /\ Admin!TypeOK' /\ AdminLink' /\ KnownRows'
                   /\ \A o \in Orders : row[o] # NoRow => row'[o] # NoRow
<1>1. /\ Admin!StoresTypeOK /\ StoresTypeOK
      /\ t \in Admin!Locals /\ task \in [Admins -> Admin!Locals]
      /\ apc \in [Admins -> Admin!Steps]
    BY SameStores DEF Admin!TypeOK
<1>2. /\ t.want \in 0..Capacity /\ t.seen \in Int /\ t.short \in Int
      /\ t.next \in SUBSET Admin!Listed /\ t.now \in Admin!Listed \cup {Admin!NoOrder}
      /\ t.units \in 0..MaxQty
    BY <1>1 DEF Admin!Locals
<1>3. /\ MaxQty \in Nat /\ Capacity \in Nat
      /\ inv.sold \in Nat /\ inv.max \in Nat /\ inv.remaining \in Int
    BY <1>1, MaxQtyAssumption, CapacityAssumption DEF StoresTypeOK
<1>5. t \in Admin!Locals /\ Admin!Fresh \in Admin!Locals
    BY <1>1, <1>3, MaxQtyAssumption DEF Admin!Locals, Admin!Fresh
<1>6. \A j \in t.next : row[j.order] # NoRow
    BY DEF KnownRows
<1>7. \A step \in {"new", "query", "warm", "read", "list", "cancel", "restore",
                   "increment", "cache_status", "reread", "upsert",
                   "overwrite", "done", "refused", "dead", "half_set"} :
          step \in Admin!Steps
    BY DEF Admin!Steps
<1> DEFINE Goes(step, u) ==
               /\ apc' = [apc EXCEPT ![a] = step]
               /\ task' = [task EXCEPT ![a] = u]
           Sound(step, u) ==
               /\ step \in Admin!Steps /\ u \in Admin!Locals
               /\ u.next \subseteq t.next \cup Admin!ConfirmedOrders
               /\ step \in {"restore", "increment", "cache_status"}
                      => u.now \in Admin!Listed
               /\ step = "restore" => u.units > 0
<1>8. ASSUME row' = row, Admin!StoresTypeOK',
             NEW step, NEW u, Sound(step, u), Goes(step, u)
      PROVE  Kept
    BY <1>8, AdminAfter
<1> SUFFICES Kept
    OBVIOUS
<1> HIDE DEF t, Kept, Goes, Sound
<1>9. CASE Admin!CacheMiss(a) \/ Admin!Dies(a)
    <2>1. PICK step \in {"query", "dead", "half_set"} : Goes(step, t)
        BY <1>1, <1>9 DEF Admin!CacheMiss, Admin!Dies, Admin!Goto, Goes, t
    <2>2. Sound(step, t)
        BY <1>1, <1>7 DEF Sound
    <2>3. row' = row /\ Admin!StoresTypeOK'
        BY <1>1, <1>9 DEF Admin!CacheMiss, Admin!Dies, Admin!stores,
                          Admin!StoresTypeOK
    <2> QED
        BY <1>8, <2>1, <2>2, <2>3
<1>10. CASE Admin!QueryRemaining(a) \/ Admin!ReadAgain(a)
    <2>1. PICK step \in {"warm", "upsert"}, v \in Int :
              /\ apc' = [apc EXCEPT ![a] = step]
              /\ task' = [task EXCEPT ![a].seen = v]
        BY <1>3, <1>10 DEF Admin!QueryRemaining, Admin!ReadAgain, Admin!Goto
    <2> DEFINE u == [t EXCEPT !.seen = v]
    <2>2. Goes(step, u)
        BY <1>1, <2>1 DEF Goes, t
    <2>3. Sound(step, u)
        BY <1>1, <1>7 DEF Sound, Admin!Locals
    <2>4. row' = row /\ Admin!StoresTypeOK'
        BY <1>1, <1>10 DEF Admin!QueryRemaining, Admin!ReadAgain, Admin!stores,
                           Admin!StoresTypeOK
    <2> QED
        BY <1>8, <2>2, <2>3, <2>4
<1>11. CASE \E q \in 0..Capacity : Admin!SetInventory(a, q)
    <2>1. PICK q \in 0..Capacity : Admin!SetInventory(a, q)
        BY <1>11
    <2> DEFINE u == [t EXCEPT !.want = q]
    <2>2. Goes("read", u)
        BY <1>1, <2>1 DEF Goes, t, Admin!SetInventory, Admin!Goto
    <2>3. Sound("read", u)
        BY <1>1, <1>7 DEF Sound, Admin!Locals
    <2>4. row' = row /\ Admin!StoresTypeOK'
        BY <1>1, <2>1 DEF Admin!SetInventory, Admin!stores, Admin!StoresTypeOK
    <2> QED
        BY <1>8, <2>2, <2>3, <2>4
<1>12. CASE Admin!ReadSold(a)
    <2> DEFINE d == inv.sold - t.want
               u == [t EXCEPT !.seen = inv.sold, !.short = d]
    <2>1. PICK step \in {"list", "upsert"} : apc' = [apc EXCEPT ![a] = step]
        BY <1>12 DEF Admin!ReadSold, Admin!Goto
    <2>2. Goes(step, u)
        BY <1>1, <1>12, <2>1 DEF Goes, t, Admin!ReadSold
    <2>3. d \in Int /\ inv.sold \in Int
        BY <1>2, <1>3
    <2>4. Sound(step, u)
        <3> HIDE DEF d
        <3> QED
            BY <1>1, <1>7, <2>3 DEF Sound, Admin!Locals
    <2>5. row' = row /\ Admin!StoresTypeOK'
        BY <1>1, <1>12 DEF Admin!ReadSold, Admin!stores, Admin!StoresTypeOK
    <2> QED
        BY <1>8, <2>2, <2>4, <2>5
<1>13. CASE Admin!ListConfirmed(a)
    <2> DEFINE u == [t EXCEPT !.next = Admin!ConfirmedOrders]
    <2>1. PICK step \in {"reread", "cancel"} : apc' = [apc EXCEPT ![a] = step]
        BY <1>13 DEF Admin!ListConfirmed, Admin!Goto
    <2>2. Goes(step, u)
        BY <1>1, <1>13, <2>1 DEF Goes, t, Admin!ListConfirmed
    <2>3. u \in Admin!Locals /\ u.next = Admin!ConfirmedOrders
        BY <1>1, <1>2, ListedOrders DEF Admin!Locals
    <2>4. Sound(step, u)
        BY <1>7, <2>3 DEF Sound
    <2>5. row' = row /\ Admin!StoresTypeOK'
        BY <1>1, <1>13 DEF Admin!ListConfirmed, Admin!stores, Admin!StoresTypeOK
    <2> QED
        BY <1>8, <2>2, <2>4, <2>5
<1>14. CASE Admin!RestoreUnit(a)
    <2> DEFINE u == [t EXCEPT !.units = t.units - 1]
    <2>1. t.units > 0 /\ t.now \in Admin!Listed
        BY <1>14 DEF Admin!RestoreUnit, AdminLink, t
    <2>2. PICK step \in {"increment", "restore"} :
              /\ apc' = [apc EXCEPT ![a] = step]
              /\ step = "restore" => t.units # 1
        BY <1>14 DEF Admin!RestoreUnit, Admin!Goto, t
    <2>3. Goes(step, u)
        BY <1>1, <1>14, <2>2 DEF Goes, t, Admin!RestoreUnit
    <2>4. /\ u \in Admin!Locals /\ u.next = t.next /\ u.now = t.now
          /\ u.units = t.units - 1
        BY <1>1, <1>2, <1>3, <2>1 DEF Admin!Locals
    <2>5. Sound(step, u)
        BY <1>2, <1>3, <1>7, <2>1, <2>2, <2>4 DEF Sound
    <2>6. row' = row /\ Admin!StoresTypeOK'
        BY <1>1, <1>14 DEF Admin!RestoreUnit, Admin!AfterIncr, Admin!StoresTypeOK
    <2> QED
        BY <1>8, <2>3, <2>5, <2>6
<1>15. CASE Admin!Increment(a)
    <2>1. t.now \in Admin!Listed /\ t.now.quantity \in Nat
        BY <1>3, <1>15 DEF Admin!Increment, AdminLink, Admin!Listed,
                           Admin!Quantities, t
    <2>2. Goes("cache_status", t)
        BY <1>1, <1>15 DEF Goes, t, Admin!Increment, Admin!Goto
    <2>3. Sound("cache_status", t)
        BY <1>1, <1>7, <2>1 DEF Sound
    <2>4. row' = row /\ Admin!StoresTypeOK'
        BY <1>1, <1>3, <1>15, <2>1
           DEF Admin!Increment, Admin!AfterIncrement, Admin!Booked,
               Admin!Greatest, Admin!StoresTypeOK, t
    <2> QED
        BY <1>8, <2>2, <2>3, <2>4
<1>16. CASE Admin!CacheCancelled(a)
    <2> DEFINE d == t.short - t.now.quantity
               u == [t EXCEPT !.short = d, !.now = Admin!NoOrder]
    <2>1. t.now.quantity \in Nat /\ t.now.order \in Orders
        BY <1>3, <1>16 DEF Admin!CacheCancelled, AdminLink, Admin!Listed,
                           Admin!Quantities, t
    <2>2. PICK step \in {"cancel", "reread"} : apc' = [apc EXCEPT ![a] = step]
        BY <1>16 DEF Admin!CacheCancelled, Admin!Goto
    <2>3. Goes(step, u)
        BY <1>1, <1>16, <2>2 DEF Goes, t, Admin!CacheCancelled
    <2>4. Sound(step, u)
        <3>1. d \in Int
            BY <1>2, <2>1
        <3> HIDE DEF d
        <3> QED
            BY <1>1, <1>7, <3>1 DEF Sound, Admin!Locals
    <2>5. row' = row /\ Admin!StoresTypeOK'
        BY <1>1, <1>16, <2>1 DEF Admin!CacheCancelled, Admin!Statuses,
                                 Admin!StoresTypeOK, t
    <2> QED
        BY <1>8, <2>3, <2>4, <2>5
<1>17. CASE Admin!ReductionRefused(a) \/ Admin!WarmCache(a) \/ Admin!Overwrite(a)
    <2>1. PICK step \in {"done", "refused"} : Goes(step, Admin!Fresh)
        BY <1>17 DEF Goes, Admin!ReductionRefused, Admin!WarmCache,
                     Admin!Overwrite, Admin!Answer, Admin!Goto
    <2>2. Sound(step, Admin!Fresh)
        BY <1>5, <1>7 DEF Sound, Admin!Fresh
    <2>3. row' = row /\ Admin!StoresTypeOK'
        BY <1>1, <1>2, <1>3, <1>17
           DEF Admin!ReductionRefused, Admin!WarmCache, Admin!Overwrite,
               Admin!stores, Admin!StoresTypeOK, t
    <2> QED
        BY <1>8, <2>1, <2>2, <2>3
<1>18. CASE Admin!Upsert(a)
    <2>1. Goes("overwrite", t)
        BY <1>1, <1>18 DEF Goes, t, Admin!Upsert, Admin!Goto
    <2>2. Sound("overwrite", t)
        BY <1>1, <1>7 DEF Sound
    <2>3. row' = row /\ Admin!StoresTypeOK'
        BY <1>1, <1>2, <1>3, <1>18
           DEF Admin!Upsert, Admin!AfterUpsert, Admin!Greatest,
               Admin!StoresTypeOK, t
    <2> QED
        BY <1>8, <2>1, <2>2, <2>3
<1>19. CASE Admin!ForceCancel(a)
    <2>1. PICK j \in t.next :
              /\ row' = [row EXCEPT ![j.order].status = "cancelled"]
              /\ task' = [task EXCEPT ![a].now = j, ![a].next = @ \ {j},
                                      ![a].units = j.quantity]
              /\ Admin!Goto(a, "restore")
        BY <1>19 DEF Admin!ForceCancel, Admin!Begin, t
    <2> DEFINE u == [t EXCEPT !.now = j, !.next = t.next \ {j}, !.units = j.quantity]
    <2>2. /\ j \in Admin!Listed /\ j.order \in Orders /\ j.quantity \in 1..MaxQty
          /\ row[j.order] # NoRow
        BY <1>2, <1>6 DEF Admin!Listed, Admin!Quantities
    <2>3. task' = [task EXCEPT ![a] = u]
        BY <1>1, <2>1 DEF Admin!Locals, t
    <2>4. u \in Admin!Locals /\ u.now = j /\ u.next \subseteq t.next /\ u.units > 0
        <3>1. /\ t.next \ {j} \in SUBSET Admin!Listed
              /\ j.quantity \in 0..MaxQty /\ j.quantity > 0
            BY <1>2, <1>3, <2>2
        <3> QED
            BY <1>1, <2>2, <3>1 DEF Admin!Locals
    <2>5. Admin!StoresTypeOK'
        <3>1. UNCHANGED <<stock, cache, inv>>
            BY <1>19 DEF Admin!ForceCancel
        <3>2. row' \in [Orders -> [status   : Admin!Statuses \cup {"absent"},
                                  quantity : 0..MaxQty]]
            BY <1>1, <2>1, <2>2 DEF Admin!Statuses, Admin!StoresTypeOK
        <3> QED
            BY <1>1, <3>1, <3>2 DEF Admin!StoresTypeOK
    <2>6. /\ row'[j.order] = [row[j.order] EXCEPT !.status = "cancelled"]
          /\ \A o \in Orders \ {j.order} : row'[o] = row[o]
        BY <1>1, <2>1, <2>2 DEF StoresTypeOK
    <2>7. \A o \in Orders : row[o] # NoRow => row'[o] # NoRow
        BY <1>1, <2>2, <2>6 DEF NoRow
    <2> HIDE DEF u
    <2>8. Admin!TypeOK' /\ AdminLink'
        <3>1. Admin!TypeOK'
            <4>1. apc' \in [Admins -> Admin!Steps]
                BY <1>1, <1>7, <2>1 DEF Admin!Goto
            <4>2. task' \in [Admins -> Admin!Locals]
                BY <1>1, <2>3, <2>4
            <4> QED
                BY <2>5, <4>1, <4>2 DEF Admin!TypeOK
        <3>2. AdminLink'
            BY <1>1, <2>1, <2>2, <2>3, <2>4 DEF AdminLink, Admin!Goto
        <3> QED
            BY <3>1, <3>2
    <2>9. KnownRows'
        <3>1. \A o \in Orders :
                  row'[o] # NoRow => row'[o].status # "absent" /\ row'[o].quantity > 0
            BY <1>1, <2>2, <2>6 DEF KnownRows, StoresTypeOK
        <3>2. ASSUME NEW r \in Requests, pc'[r] # "new"
              PROVE  job'[r].op \in Ops /\ row'[job'[r].order] # NoRow
            <4>1. job[r].op \in Ops /\ row[job[r].order] # NoRow
                BY <3>2 DEF KnownRows, changes
            <4> QED
                BY <1>1, <2>1, <2>7, <4>1 DEF changes, NoRow
        <3>3. ASSUME NEW b \in Admins, NEW i \in task'[b].next
              PROVE  row'[i.order] # NoRow
            <4>1. i \in task[b].next
                BY <1>1, <2>3, <2>4, <3>3 DEF t
            <4>2. i.order \in Orders /\ row[i.order] # NoRow
                BY <1>1, <4>1 DEF KnownRows, Admin!Locals, Admin!Listed
            <4> QED
                BY <2>7, <4>2
        <3> QED
            BY <3>1, <3>2, <3>3 DEF KnownRows
    <2> QED
        BY <2>7, <2>8, <2>9 DEF Kept
<1> QED
    BY <1>9, <1>10, <1>11, <1>12, <1>13, <1>14, <1>15, <1>16, <1>17, <1>18, <1>19
       DEF Kept, Admin!Start, Admin!TaskStep

-----------------------------------------------------------------------------
(***************************************************************************)
(* Types and links of the whole system, whatever the constants are.        *)
(***************************************************************************)
LEMMA SystemTypesInit == SystemInit => SystemTypeOK /\ SystemLinks
<1> SUFFICES ASSUME SystemInit PROVE SystemTypeOK /\ SystemLinks
    OBVIOUS
<1>1. PICK m \in 0..Capacity : inv = Offered(m) /\ stock = m
    BY DEF SystemInit, Placement!Init, Placement!Offered, Offered
<1>2. /\ cache = [o \in Orders |-> "none"]
      /\ row = [o \in Orders |-> NoRow]
      /\ tpc = [o \in Orders |-> "new"]
      /\ qty = [o \in Orders |-> 0]
      /\ held = [o \in Orders |-> 0]
      /\ msg = [o \in Orders |-> "none"]
      /\ hpc = [o \in Orders |-> "idle"]
    BY DEF SystemInit, Placement!Init, Placement!NoRow, NoRow
<1>3. /\ pc = [r \in Requests |-> "new"]
      /\ job = [r \in Requests |-> NoJob]
      /\ units = [r \in Requests |-> 0]
    BY DEF SystemInit, Idle
<1>4. /\ apc = [a \in Admins |-> "new"]
      /\ task = [a \in Admins |-> Admin!Fresh]
    BY DEF SystemInit, Admin!Idle
<1>5. StoresTypeOK
    BY <1>1, <1>2, CapacityAssumption, MaxQtyAssumption
       DEF StoresTypeOK, Offered, NoRow
<1>6. Placement!TypeOK
    BY <1>2, <1>5, SameStores, MaxQtyAssumption
       DEF Placement!TypeOK, Placement!TaskSteps, Placement!MsgStates,
           Placement!HandlerSteps
<1>7. TypeOK /\ JobLink
    BY <1>3, <1>5, MaxQtyAssumption DEF TypeOK, Steps, JobLink
<1>8. Admin!Fresh \in Admin!Locals /\ Admin!Fresh.next = {}
    BY CapacityAssumption, MaxQtyAssumption DEF Admin!Fresh, Admin!Locals
<1>9. Admin!TypeOK /\ AdminLink
    BY <1>4, <1>5, <1>8, SameStores DEF Admin!TypeOK, Admin!Steps, AdminLink
<1>10. Placement!TaskLink /\ Placement!HandlerLink
    BY <1>2 DEF Placement!TaskLink, Placement!HandlerLink, Placement!NoRow, NoRow
<1>11. KnownRows
    BY <1>2, <1>3, <1>4, <1>8 DEF KnownRows
<1> QED
    BY <1>6, <1>7, <1>9, <1>10, <1>11 DEF SystemTypeOK, SystemLinks

\* A step that is not the placement's leaves its variables alone.
LEMMA OthersTypes ==
    ASSUME SystemTypeOK, SystemLinks, UNCHANGED placement, StoresTypeOK',
           \A o \in Orders : row[o] # NoRow => row'[o] # NoRow
    PROVE  Placement!TypeOK' /\ Placement!TaskLink' /\ Placement!HandlerLink'
<1>1. (Placement!StoresTypeOK <=> StoresTypeOK)'
    BY SameStores, PTL
<1>2. Placement!TypeOK' /\ Placement!TaskLink'
    BY <1>1 DEF SystemTypeOK, SystemLinks, placement, Placement!TypeOK,
                Placement!TaskLink
<1> QED
    BY <1>2, RowsStay DEF SystemLinks, placement

LEMMA SystemTypesStep ==
    SystemTypeOK /\ SystemLinks /\ [SystemNext]_systemVars
        => SystemTypeOK' /\ SystemLinks'
<1>1. (Placement!StoresTypeOK <=> StoresTypeOK)'
      /\ (Admin!StoresTypeOK <=> StoresTypeOK)'
    BY SameStores, PTL
<1> SUFFICES ASSUME SystemTypeOK, SystemLinks, [SystemNext]_systemVars
             PROVE  SystemTypeOK' /\ SystemLinks'
    OBVIOUS
<1>2. /\ Placement!TypeOK /\ TypeOK /\ Admin!TypeOK
      /\ JobLink /\ Placement!TaskLink /\ Placement!HandlerLink
      /\ KnownRows /\ AdminLink
    BY DEF SystemTypeOK, SystemLinks
<1>3. ASSUME NEW o \in Orders, Place(o)
      PROVE  SystemTypeOK' /\ SystemLinks'
    <2>1. Placement!OrderStep(o) /\ UNCHANGED <<pc, job, units, apc, task>>
        BY <1>3 DEF Place, changes, admin
    <2>2. Placement!TypeOK' /\ Placement!TaskLink' /\ Placement!HandlerLink'
        BY <1>2, <2>1, PlacementTypes, PlacementLinks
    <2>3. TypeOK' /\ Admin!TypeOK'
        BY <1>1, <1>2, <2>1, <2>2 DEF TypeOK, Admin!TypeOK, Placement!TypeOK
    <2>4. JobLink' /\ AdminLink'
        BY <1>2, <2>1 DEF JobLink, AdminLink
    <2>5. \A p \in Orders :
              \/ row'[p] = row[p]
              \/ row'[p].status # "absent" /\ row'[p].quantity > 0
        <3>1. \/ row' = row
              \/ /\ row'[o] = Confirmed(qty[o]) /\ qty[o] \in 1..MaxQty
                 /\ \A p \in Orders \ {o} : row'[p] = row[p]
            BY <1>2, <2>1, PlacementRows
        <3>2. qty[o] \in 1..MaxQty => qty[o] > 0
            BY MaxQtyAssumption
        <3> QED
            BY <3>1, <3>2 DEF Confirmed
    <2>6. \A p \in Orders : row[p] # NoRow => row'[p] # NoRow
        BY <2>5 DEF NoRow
    <2>7. KnownRows'
        <3>1. \A r \in Requests : pc[r] # "new" => job[r].order \in Orders
            BY <1>2 DEF JobLink, Jobs
        <3>2. \A a \in Admins : \A j \in task[a].next : j.order \in Orders
            BY <1>2 DEF Admin!TypeOK, Admin!Locals, Admin!Listed
        <3> QED
            BY <1>2, <2>1, <2>5, <2>6, <3>1, <3>2 DEF KnownRows
    <2> QED
        BY <2>2, <2>3, <2>4, <2>7 DEF SystemTypeOK, SystemLinks
<1>4. ASSUME NEW r \in Requests, NEW o \in Orders, ChangeOrder(r, o)
      PROVE  SystemTypeOK' /\ SystemLinks'
    <2>1. Load(r, o) /\ UNCHANGED placement /\ UNCHANGED <<apc, task>>
        BY <1>4 DEF ChangeOrder, admin
    <2>2. TypeOK' /\ JobLink' /\ row' = row /\ KnownRows'
        BY <1>2, <2>1, LoadTypes, LoadRows DEF admin
    <2>3. Admin!TypeOK' /\ AdminLink'
        BY <1>1, <1>2, <2>1, <2>2 DEF TypeOK, Admin!TypeOK, AdminLink
    <2>4. Placement!TypeOK' /\ Placement!TaskLink' /\ Placement!HandlerLink'
        BY <2>1, <2>2, OthersTypes DEF TypeOK
    <2> QED
        BY <2>2, <2>3, <2>4 DEF SystemTypeOK, SystemLinks
<1>5. ASSUME NEW r \in Requests, GoOn(r)
      PROVE  SystemTypeOK' /\ SystemLinks'
    <2>1. RequestStep(r) \/ Dies(r)
        BY <1>5 DEF GoOn
    <2>2. UNCHANGED placement /\ UNCHANGED <<apc, task>>
        BY <1>5 DEF GoOn, admin
    <2>3. TypeOK' /\ JobLink'
        BY <1>2, <2>1, RequestTypes, DeathTypes
    <2>4. KnownRows' /\ \A o \in Orders : row[o] # NoRow => row'[o] # NoRow
        BY <1>2, <2>1, <2>2, RequestRows DEF admin
    <2>5. Admin!TypeOK' /\ AdminLink'
        BY <1>1, <1>2, <2>2, <2>3 DEF TypeOK, Admin!TypeOK, AdminLink
    <2>6. Placement!TypeOK' /\ Placement!TaskLink' /\ Placement!HandlerLink'
        BY <2>2, <2>3, <2>4, OthersTypes DEF TypeOK
    <2> QED
        BY <2>3, <2>4, <2>5, <2>6 DEF SystemTypeOK, SystemLinks
<1>6. ASSUME NEW a \in Admins, AskInventory(a) \/ AdminGoesOn(a)
      PROVE  SystemTypeOK' /\ SystemLinks'
    <2>1. Admin!Start(a) \/ Admin!TaskStep(a) \/ Admin!Dies(a)
        BY <1>6 DEF AskInventory, AdminGoesOn
    <2>2. UNCHANGED placement /\ UNCHANGED changes
        BY <1>6 DEF AskInventory, AdminGoesOn
    <2>3. /\ Admin!TypeOK' /\ AdminLink' /\ KnownRows'
          /\ \A o \in Orders : row[o] # NoRow => row'[o] # NoRow
        BY <1>2, <2>1, <2>2, AdminTypes
    <2>4. TypeOK' /\ JobLink'
        BY <1>1, <1>2, <2>2, <2>3 DEF TypeOK, JobLink, Admin!TypeOK, changes
    <2>5. Placement!TypeOK' /\ Placement!TaskLink' /\ Placement!HandlerLink'
        BY <2>2, <2>3, <2>4, OthersTypes DEF TypeOK
    <2> QED
        BY <2>3, <2>4, <2>5 DEF SystemTypeOK, SystemLinks
<1>7. CASE LoseKey \/ UNCHANGED systemVars
    <2>1. /\ UNCHANGED placement /\ UNCHANGED <<cache, row, inv>>
          /\ UNCHANGED <<pc, job, units, apc, task>>
          /\ stock' \in {stock, NoKey}
        BY <1>7 DEF LoseKey, Placement!LoseKey, systemVars, placement, changes,
                    admin, stores
    <2>2. StoresTypeOK'
        BY <1>2, <2>1 DEF TypeOK, StoresTypeOK
    <2>3. TypeOK' /\ JobLink' /\ Admin!TypeOK' /\ AdminLink' /\ KnownRows'
        BY <1>1, <1>2, <2>1, <2>2
           DEF TypeOK, JobLink, Admin!TypeOK, AdminLink, KnownRows
    <2>4. Placement!TypeOK' /\ Placement!TaskLink' /\ Placement!HandlerLink'
        BY <2>1, <2>2, OthersTypes
    <2> QED
        BY <2>3, <2>4 DEF SystemTypeOK, SystemLinks
<1> QED
    BY <1>3, <1>4, <1>5, <1>6, <1>7 DEF SystemNext

LEMMA SystemLinksHold == SystemSpec => [](SystemTypeOK /\ SystemLinks)
BY SystemTypesInit, SystemTypesStep, PTL DEF SystemSpec

\* Whatever requests overlap, however the worker, the requests and the tasks
\* of InventoryService fail and whichever keys expire, every store holds what
\* the code may put there: no loop gives back a unit too many, no cancellation
\* touches an order that is not there.
THEOREM SystemTypeCorrect == SystemSpec => []SystemTypeOK
BY SystemLinksHold, PTL

-----------------------------------------------------------------------------
\* A message that comes again never brings a cancelled or completed order
\* back, as long as no admin writes a status: the row it would write is there.
THEOREM OrdersStayDown ==
    ASSUME "write" \notin Ops
    PROVE  SystemSpec => NotResurrected
<1> DEFINE Down ==
        \A o \in Orders :
            row[o].status \in {"cancelled", "completed"}
                => row'[o].status # "confirmed"
<1>1. SystemTypeOK /\ SystemLinks /\ [SystemNext]_systemVars => [Down]_systemVars
    <2> SUFFICES ASSUME SystemTypeOK, SystemLinks, [SystemNext]_systemVars,
                        NEW p \in Orders,
                        row[p].status \in {"cancelled", "completed"}
                 PROVE  row'[p].status # "confirmed"
        OBVIOUS
    <2>1. /\ Placement!TypeOK /\ TypeOK /\ Admin!TypeOK
          /\ JobLink /\ Placement!TaskLink /\ Placement!HandlerLink
          /\ KnownRows /\ AdminLink
        BY DEF SystemTypeOK, SystemLinks
    <2>2. row \in [Orders -> [status   : Statuses \cup {"absent"},
                              quantity : 0..MaxQty]]
        BY <2>1 DEF TypeOK, StoresTypeOK
    <2>3. CASE row' = row
        BY <2>3
    <2>4. ASSUME NEW o \in Orders, Place(o) PROVE row'[p].status # "confirmed"
        <3>1. row' = row \/ (row[o] = NoRow /\ \A q \in Orders \ {o} : row'[q] = row[q])
            BY <2>1, <2>4, PlacementRows DEF Place
        <3> QED
            BY <3>1 DEF NoRow
    <2>5. ASSUME NEW r \in Requests, GoOn(r) PROVE row'[p].status # "confirmed"
        <3>1. CASE SetCancelled(r) \/ WriteQuantity(r)
            BY <2>2, <3>1 DEF SetCancelled, WriteQuantity
        <3>2. CASE SetStatus(r)
            <4>1. job[r].op = "complete" /\ job[r].status = "completed"
                BY <2>1, <3>2 DEF SetStatus, JobLink, LinkOf, KnownRows
            <4> QED
                BY <2>2, <3>2, <4>1 DEF SetStatus
        <3> QED
            BY <2>5, <2>3, <3>1, <3>2
               DEF GoOn, RequestStep, RestoreUnit, Increment, CacheStatus,
                   TakeUnit, TakeRefused, Decrement, DecrementRefused,
                   RollbackUnit, Dies
    <2>6. ASSUME NEW a \in Admins, AskInventory(a) \/ AdminGoesOn(a)
          PROVE  row'[p].status # "confirmed"
        <3>1. CASE Admin!ForceCancel(a)
            BY <2>2, <3>1 DEF Admin!ForceCancel
        <3> QED
            BY <2>6, <2>3, <3>1
               DEF AskInventory, AdminGoesOn, Admin!Start, Admin!TaskStep,
                   Admin!CacheMiss, Admin!QueryRemaining, Admin!WarmCache,
                   Admin!SetInventory, Admin!ReadSold, Admin!ListConfirmed,
                   Admin!RestoreUnit, Admin!Increment, Admin!CacheCancelled,
                   Admin!ReadAgain, Admin!ReductionRefused, Admin!Upsert,
                   Admin!Overwrite, Admin!Dies, Admin!stores
    <2> QED
        BY <2>3, <2>4, <2>5, <2>6
           DEF SystemNext, ChangeOrder, Load, LoseKey, Placement!LoseKey,
               systemVars, stores
<1> QED
    BY <1>1, SystemLinksHold, PTL DEF SystemSpec, NotResurrected

-----------------------------------------------------------------------------
(***************************************************************************)
(* daily_inventory keeps its law while InventoryService works alone.       *)
(***************************************************************************)
\* Nobody meets a task of InventoryService: there is none, or it is alone.
Separate == Exclusive \/ Admins = {}

LEMMA BooksSystemInit == SystemInit => DbBooksBalance /\ AdminAlone
BY DEF SystemInit, Placement!Init, Placement!Offered, Admin!Idle,
       Admin!Active, DbBooksBalance, AdminAlone

\* What an order is changed by does not meet a task of InventoryService.
LEMMA AloneStays ==
    ASSUME AdminIdle, UNCHANGED admin
    PROVE  AdminAlone'
BY DEF AdminIdle, admin, Admin!Active, AdminAlone

\* The steps of placement by what they move.
LEMMA PlacementMoves ==
    ASSUME NEW o \in Orders, Placement!OrderStep(o)
    PROVE  \/ Placement!Reserve(o)
           \/ Placement!RestoreUnit(o)
           \/ Placement!InsertRow(o)
           \/ Placement!DecrementStock(o)
           \/ UNCHANGED <<stock, row, inv, held>>
BY DEF Placement!OrderStep, Placement!TaskStep, Placement!HandlerStep,
       Placement!PlaceOrder, Placement!LookupFails, Placement!ReserveRefused,
       Placement!CachePending, Placement!Publish, Placement!PublishRaises,
       Placement!ForgetStatus, Placement!TaskDies, Placement!Deliver,
       Placement!InsertDuplicate, Placement!DecrementRefused,
       Placement!CacheConfirmed, Placement!Notified, Placement!NotifyRaises,
       Placement!HandlerRaises, Placement!HandlerDies, Placement!ExpireStatus

LEMMA BooksPlacement ==
    ASSUME Placement!TypeOK, DbBooksBalance,
           NEW o \in Orders, Placement!OrderStep(o)
    PROVE  DbBooksBalance'
<1>1. CASE Placement!DecrementStock(o)
    <2>1. /\ inv.max \in Nat /\ inv.sold \in Nat /\ inv.remaining \in Int
          /\ qty[o] \in Nat
        BY MaxQtyAssumption DEF Placement!TypeOK, Placement!StoresTypeOK
    <2> QED
        BY <1>1, <2>1
           DEF Placement!DecrementStock, Placement!CanDecrement,
               Placement!AfterDecrement, Placement!Booked, Placement!Greatest,
               DbBooksBalance
<1>2. CASE inv' = inv
    BY <1>2 DEF DbBooksBalance
<1> QED
    BY <1>1, <1>2, PlacementMoves
       DEF Placement!Reserve, Placement!RestoreUnit, Placement!InsertRow

\* The upsert finds no more sold than when it was compared.
LEMMA BooksAdmin ==
    ASSUME Admin!TypeOK, AdminLink, AdminAlone, DbBooksBalance,
           NEW a \in Admins,
           Admin!Start(a) \/ Admin!TaskStep(a) \/ Admin!Dies(a),
           Admin!Start(a) => AdminIdle
    PROVE  DbBooksBalance' /\ AdminAlone'
<1>1. /\ inv.max \in Nat /\ inv.sold \in Nat /\ inv.remaining \in Int
      /\ task \in [Admins -> Admin!Locals] /\ apc \in [Admins -> Admin!Steps]
      /\ task[a].want \in Nat
    BY CapacityAssumption DEF Admin!TypeOK, Admin!StoresTypeOK, Admin!Locals
<1>2. DbBooksBalance'
    <2>1. CASE Admin!Increment(a)
        <3>1. task[a].now.quantity \in Nat
            BY <2>1, MaxQtyAssumption
               DEF Admin!Increment, AdminLink, Admin!Listed, Admin!Quantities
        <3> QED
            BY <1>1, <2>1, <3>1
               DEF Admin!Increment, Admin!AfterIncrement, Admin!Booked,
                   Admin!Greatest, DbBooksBalance
    <2>2. CASE Admin!Upsert(a)
        BY <1>1, <2>2 DEF Admin!Upsert, Admin!AfterUpsert, Admin!Greatest,
                          DbBooksBalance, AdminAlone
    <2>3. CASE inv' = inv
        BY <2>3 DEF DbBooksBalance
    <2> QED
        BY <2>1, <2>2, <2>3
           DEF Admin!Start, Admin!TaskStep, Admin!CacheMiss,
               Admin!SetInventory, Admin!QueryRemaining, Admin!WarmCache,
               Admin!ReadSold, Admin!ListConfirmed, Admin!ForceCancel,
               Admin!RestoreUnit, Admin!CacheCancelled, Admin!ReadAgain,
               Admin!ReductionRefused, Admin!Overwrite, Admin!Dies, Admin!stores
\* The others are idle, before and after.
<1>3. /\ \A b \in Admins \ {a} : ~Admin!Active(b)
      /\ \E step \in Admin!Steps : apc' = [apc EXCEPT ![a] = step]
    <2>1. \E step \in Admin!Steps : apc' = [apc EXCEPT ![a] = step]
        BY DEF Admin!Start, Admin!TaskStep, Admin!CacheMiss,
               Admin!SetInventory, Admin!QueryRemaining, Admin!WarmCache,
               Admin!ReadSold, Admin!ListConfirmed, Admin!ForceCancel,
               Admin!Begin, Admin!RestoreUnit, Admin!Increment,
               Admin!CacheCancelled, Admin!ReadAgain, Admin!ReductionRefused,
               Admin!Upsert, Admin!Overwrite, Admin!Dies, Admin!Answer,
               Admin!Goto, Admin!Steps
    <2>2. CASE Admin!Start(a)
        BY <2>1, <2>2 DEF AdminIdle
    <2>3. CASE Admin!TaskStep(a) \/ Admin!Dies(a)
        <3>1. Admin!Active(a)
            BY <2>3 DEF Admin!TaskStep, Admin!QueryRemaining, Admin!WarmCache,
                   Admin!ReadSold, Admin!ListConfirmed, Admin!ForceCancel,
                   Admin!RestoreUnit, Admin!Increment, Admin!CacheCancelled,
                   Admin!ReadAgain, Admin!ReductionRefused, Admin!Upsert,
                   Admin!Overwrite, Admin!Dies, Admin!Active
        <3> QED
            BY <2>1, <3>1 DEF AdminAlone
    <2> QED
        BY <2>1, <2>2, <2>3
<1>4. \A b \in Admins \ {a} : apc'[b] = apc[b] /\ ~Admin!Active(b)'
    BY <1>1, <1>3 DEF Admin!Active
<1>5. apc'[a] = "upsert" => inv'.sold <= task'[a].want
    <2>1. CASE Admin!ReadSold(a)
        BY <1>1, <2>1 DEF Admin!ReadSold, Admin!Goto, Admin!Locals, Admin!stores
    <2>2. CASE Admin!ReadAgain(a)
        BY <1>1, <2>2 DEF Admin!ReadAgain, Admin!Goto, Admin!Locals, Admin!stores
    <2>3. CASE apc'[a] # "upsert"
        BY <2>3
    <2> QED
        BY <1>1, <2>1, <2>2, <2>3
           DEF Admin!Start, Admin!TaskStep, Admin!CacheMiss,
               Admin!SetInventory, Admin!QueryRemaining, Admin!WarmCache,
               Admin!ListConfirmed, Admin!ForceCancel, Admin!Begin,
               Admin!RestoreUnit, Admin!Increment, Admin!CacheCancelled,
               Admin!ReductionRefused, Admin!Upsert, Admin!Overwrite,
               Admin!Dies, Admin!Answer, Admin!Goto
<1>6. \A b \in Admins \ {a} : apc'[b] # "upsert"
    BY <1>4 DEF Admin!Active
<1> QED
    BY <1>2, <1>4, <1>5, <1>6 DEF AdminAlone

LEMMA BooksSystemStep ==
    ASSUME Separate
    PROVE  /\ SystemTypeOK /\ SystemLinks /\ DbBooksBalance /\ AdminAlone
           /\ [SystemNext]_systemVars
           => DbBooksBalance' /\ AdminAlone'
<1> SUFFICES ASSUME SystemTypeOK, SystemLinks, DbBooksBalance, AdminAlone,
                    [SystemNext]_systemVars
             PROVE  DbBooksBalance' /\ AdminAlone'
    OBVIOUS
<1>1. /\ Placement!TypeOK /\ TypeOK /\ Admin!TypeOK /\ JobLink /\ AdminLink
    BY DEF SystemTypeOK, SystemLinks
<1>2. OrderTurn => AdminIdle
    BY DEF Separate, OrderTurn, AdminIdle
<1>3. ASSUME NEW o \in Orders, Place(o)
      PROVE  DbBooksBalance' /\ AdminAlone'
    BY <1>1, <1>2, <1>3, BooksPlacement, AloneStays DEF Place
<1>4. ASSUME NEW r \in Requests,
             (\E o \in Orders : ChangeOrder(r, o)) \/ GoOn(r)
      PROVE  DbBooksBalance' /\ AdminAlone'
    <2>1. Next
        BY <1>4 DEF ChangeOrder, GoOn, Next
    <2> QED
        BY <1>1, <1>2, <1>4, <2>1, BooksStep, AloneStays DEF ChangeOrder, GoOn
<1>5. ASSUME NEW a \in Admins, AskInventory(a) \/ AdminGoesOn(a)
      PROVE  DbBooksBalance' /\ AdminAlone'
    <2>1. Admin!Start(a) \/ Admin!TaskStep(a) \/ Admin!Dies(a)
        BY <1>5 DEF AskInventory, AdminGoesOn
    <2>2. AskInventory(a) => AdminIdle
        BY DEF Separate, AskInventory, AdminTurn, AdminIdle
    <2>3. Admin!TaskStep(a) \/ Admin!Dies(a) => ~Admin!Start(a)
        BY <1>1 DEF Admin!Start, Admin!CacheMiss, Admin!SetInventory,
               Admin!TaskStep, Admin!QueryRemaining, Admin!WarmCache,
               Admin!ReadSold, Admin!ListConfirmed, Admin!ForceCancel,
               Admin!RestoreUnit, Admin!Increment, Admin!CacheCancelled,
               Admin!ReadAgain, Admin!ReductionRefused, Admin!Upsert,
               Admin!Overwrite, Admin!Dies, Admin!Active
    <2>4. Admin!Start(a) => AdminIdle
        BY <1>5, <2>2, <2>3 DEF AdminGoesOn
    <2> QED
        BY <1>1, <2>1, <2>4, BooksAdmin
<1>6. CASE LoseKey \/ UNCHANGED systemVars
    BY <1>6 DEF LoseKey, Placement!LoseKey, systemVars, stores, admin,
                DbBooksBalance, AdminAlone, Admin!Active
<1> QED
    BY <1>3, <1>4, <1>5, <1>6 DEF SystemNext

LEMMA BooksHold ==
    ASSUME Separate
    PROVE  SystemSpec => [](DbBooksBalance /\ AdminAlone)
<1>1. SystemTypeOK /\ SystemLinks /\ DbBooksBalance /\ AdminAlone
          /\ [SystemNext]_systemVars => DbBooksBalance' /\ AdminAlone'
    BY BooksSystemStep
<1> QED
    BY <1>1, BooksSystemInit, SystemLinksHold, PTL DEF SystemSpec

\* daily_inventory never records more sold than there is, nor less than
\* nothing, while the worker sells, requests overlap and die, and a vendor
\* lowers the inventory, as long as the vendor's task meets nobody.
THEOREM SystemBooksBalance ==
    ASSUME Separate
    PROVE  SystemSpec => []DbBooksBalance
BY BooksHold, PTL

-----------------------------------------------------------------------------
(***************************************************************************)
(* The units of the orders while placements and requests interleave.       *)
(***************************************************************************)
\* What the invariants below assume of the constants.  Each part is needed:
\* with overlapping requests units are given back twice, a request that dies
\* loses some, an admin's write brings a cancelled order back without any, an
\* ambiguous publish leaves a message whose units were returned, an expired
\* counter counts nothing, and set_inventory overwrites it.
Undisturbed ==
    /\ ~Overlap /\ ~Crashes
    /\ "write" \notin Ops
    /\ "ambiguous" \notin Faults /\ "key_lost" \notin Faults
    /\ Admins = {}

SystemInv == SystemTypeOK /\ SystemLinks /\ SerialSystemInv

\* The part of it that also holds when counters expire, requests die and
\* InventoryService works.
SerialSystem ==
    /\ SystemTypeOK /\ SystemLinks
    /\ StockCounts
    /\ OneAtATime /\ RowLink
    /\ Placement!CleanLink /\ WrittenLink

LEMMA SystemInvSerial ==
    SystemInv => SerialSystem /\ stock # NoKey /\ stock \in Nat
BY NoKeyAssumption
   DEF SystemInv, SerialSystemInv, SerialSystem, StockSet, StockCounts

\* A written row's units are its request's; before, they are its task's.
UnitsOwned ==
    /\ OwnsFacts
    /\ Owns \in [Orders -> 0..MaxQty]
    /\ \A o \in Orders :
          /\ row[o] = NoRow => Owns[o] = held[o]
          /\ row[o] # NoRow => Owns[o] = RedisOwns[o]

LEMMA OwnsOf == SystemTypeOK /\ SystemLinks /\ OneAtATime => UnitsOwned
<1> SUFFICES ASSUME SystemTypeOK, SystemLinks, OneAtATime PROVE UnitsOwned
    OBVIOUS
<1>1. OwnsFacts
    BY Holdings DEF SystemTypeOK, SystemLinks
<1>2. held \in [Orders -> 0..MaxQty]
    BY DEF SystemTypeOK, Placement!TypeOK
<1>3. \A o \in Orders :
          /\ row[o] = NoRow => Owns[o] = held[o]
          /\ row[o] # NoRow => Owns[o] = RedisOwns[o]
    BY DEF Owns
<1>4. Owns \in [Orders -> 0..MaxQty]
    BY <1>1, <1>2 DEF Owns, OwnsFacts
<1> QED
    BY <1>1, <1>3, <1>4 DEF UnitsOwned

\* The same around a step.
LEMMA OwnsAround ==
    ASSUME SerialSystem, SystemTypeOK', SystemLinks', OneAtATime'
    PROVE  UnitsOwned /\ UnitsOwned'
<1>1. (SystemTypeOK /\ SystemLinks /\ OneAtATime => UnitsOwned)'
    BY OwnsOf, PTL
<1> QED
    BY <1>1, OwnsOf DEF SerialSystem

\* A request leaves the other orders alone and does not die by itself.
LEMMA RequestMoves ==
    ASSUME TypeOK, NEW r \in Requests, RequestStep(r)
    PROVE  /\ Active(r) /\ job' = job
           /\ \E step \in Steps \ {"new", "dead"} : Goto(r, step)
           /\ \A s \in Requests \ {r} : units'[s] = units[s]
           /\ \A p \in Orders \ {job[r].order} : row'[p] = row[p]
<1>1. \E step \in Steps \ {"new", "dead"} : Goto(r, step)
    BY DEF RequestStep, SetCancelled, SetStatus, RestoreUnit, Increment,
           CacheStatus, TakeUnit, TakeRefused, Decrement, DecrementRefused,
           RollbackUnit, WriteQuantity, Steps
<1>2. /\ Active(r) /\ job' = job
      /\ \A s \in Requests \ {r} : units'[s] = units[s]
      /\ row' = row \/ \E d : row' = [row EXCEPT ![job[r].order] = d]
    BY DEF RequestStep, SetCancelled, SetStatus, RestoreUnit, Increment,
           CacheStatus, TakeUnit, TakeRefused, Decrement, DecrementRefused,
           RollbackUnit, WriteQuantity, Active, Count, TypeOK
<1>3. \A p \in Orders \ {job[r].order} : row'[p] = row[p]
    BY <1>2 DEF TypeOK, StoresTypeOK
<1> QED
    BY <1>1, <1>2, <1>3

\* Placement changes no units of a row that is there ...
LEMMA PlacementKeeps ==
    ASSUME OwnsFacts, OwnsFacts', JobLink, UNCHANGED <<pc, job, units>>,
           NEW p \in Orders, row'[p] = row[p]
    PROVE  RedisOwns'[p] = RedisOwns[p] /\ DbOwns'[p] = DbOwns[p]
<1>1. CASE \E s \in Requests : ActiveOn(s, p)
    <2>1. PICK s \in Requests : ActiveOn(s, p)
        BY <1>1
    <2>2. Active(s) /\ Active(s)' /\ job[s].order = p /\ job'[s].order = p
        BY <2>1 DEF ActiveOn, Active
    <2>3. RedisHolds(s)' = RedisHolds(s) /\ DbHolds(s)' = DbHolds(s)
        BY DEF RedisHolds, DbHolds
    <2>4. RedisOwns[p] = RedisHolds(s) /\ DbOwns[p] = DbHolds(s)
        BY <2>2 DEF OwnsFacts
    <2>5. RedisOwns'[p] = RedisHolds(s)' /\ DbOwns'[p] = DbHolds(s)'
        BY <2>2 DEF OwnsFacts
    <2> QED
        BY <2>3, <2>4, <2>5
<1>2. CASE \A s \in Requests : ~ActiveOn(s, p)
    <2>1. \A s \in Requests : ~ActiveOn(s, p)'
        BY <1>2 DEF ActiveOn, Active
    <2>2. LiveQuantity'[p] = LiveQuantity[p]
        BY DEF LiveQuantity
    <2>3. /\ RedisOwns[p] = LiveQuantity[p] /\ DbOwns[p] = LiveQuantity[p]
          /\ RedisOwns'[p] = LiveQuantity'[p] /\ DbOwns'[p] = LiveQuantity'[p]
        BY <1>2, <2>1 DEF OwnsFacts
    <2> QED
        BY <2>2, <2>3
<1> QED
    BY <1>1, <1>2

\* ... and a new row has the units that its task held.
LEMMA InsertOwns ==
    ASSUME SerialSystem, OwnsFacts, OwnsFacts', UNCHANGED <<pc, job, units>>,
           NEW o \in Orders, Placement!InsertRow(o), "ambiguous" \notin Faults
    PROVE  /\ RedisOwns'[o] = qty[o] /\ DbOwns'[o] = qty[o] /\ DbOwns[o] = 0
           /\ held[o] = qty[o] /\ tpc[o] = "accepted"
           /\ row[o] = NoRow /\ row'[o] = Confirmed(qty[o])
           /\ \A p \in Orders \ {o} : row'[p] = row[p]
           /\ qty[o] \in 1..MaxQty
<1>1. /\ Placement!TypeOK /\ Placement!TaskLink /\ Placement!HandlerLink
      /\ KnownRows /\ JobLink /\ Placement!CleanLink
    BY DEF SerialSystem, SystemTypeOK, SystemLinks
<1>2. /\ row[o] = NoRow /\ row'[o] = Confirmed(qty[o])
      /\ \A p \in Orders \ {o} : row'[p] = row[p]
      /\ qty[o] \in 1..MaxQty
    BY <1>1 DEF Placement!InsertRow, Placement!NoRow, NoRow, Confirmed,
                Placement!TypeOK, Placement!StoresTypeOK, Placement!HandlerLink,
                Placement!TaskLink
<1>3. tpc[o] = "accepted" /\ held[o] = qty[o]
    BY <1>1 DEF Placement!InsertRow, Placement!HandlerLink, Placement!CleanLink,
                Placement!TaskLink
<1>4. \A r \in Requests : ~ActiveOn(r, o) /\ ~ActiveOn(r, o)'
    BY <1>1, <1>2 DEF KnownRows, ActiveOn, Active
<1>5. LiveQuantity[o] = 0 /\ LiveQuantity'[o] = qty[o]
    BY <1>2 DEF LiveQuantity, NoRow, Confirmed
<1> QED
    BY <1>2, <1>3, <1>4, <1>5 DEF OwnsFacts

\* A message is sent by the task whose order it makes an accepted one, which
\* it stays.
LEMMA MessageAfter ==
    ASSUME Placement!TypeOK, Placement!HandlerLink,
           NEW o \in Orders, Placement!OrderStep(o), NEW p \in Orders
    PROVE  /\ tpc[p] = "accepted" => tpc'[p] = "accepted"
           /\ "ambiguous" \notin Faults =>
                 (msg'[p] # "none" => msg[p] # "none" \/ tpc'[p] = "accepted")
<1> USE DEF Placement!TypeOK, Placement!Goto
<1>1. CASE UNCHANGED <<tpc, msg>>
    BY <1>1
<1>2. CASE Placement!Publish(o)
    BY <1>2 DEF Placement!Publish
<1>3. CASE Placement!PublishRaises(o)
    BY <1>3 DEF Placement!PublishRaises
<1>4. CASE Placement!Deliver(o) \/ Placement!Notified(o)
    BY <1>4 DEF Placement!Deliver, Placement!Notified, Placement!HandlerLink
<1>5. CASE /\ hpc[o] # "idle" /\ tpc' = tpc
           /\ Placement!Requeue(o) \/ Placement!HandlerDies(o)
    BY <1>5 DEF Placement!Requeue, Placement!HandlerDies, Placement!HandlerLink
<1>6. CASE msg' = msg /\ \E step : tpc' = [tpc EXCEPT ![o] = step]
                    /\ tpc[o] # "accepted"
    BY <1>6
<1> QED
    BY <1>1, <1>2, <1>3, <1>4, <1>5, <1>6
       DEF Placement!OrderStep, Placement!TaskStep, Placement!HandlerStep,
           Placement!PlaceOrder, Placement!LookupFails, Placement!Reserve,
           Placement!ReserveRefused, Placement!CachePending,
           Placement!RestoreUnit, Placement!ForgetStatus, Placement!TaskDies,
           Placement!InsertRow, Placement!InsertDuplicate,
           Placement!DecrementStock, Placement!DecrementRefused,
           Placement!CacheConfirmed, Placement!NotifyRaises,
           Placement!HandlerRaises, Placement!HandlerDies,
           Placement!ExpireStatus

\* What an order owns, and the counter with it, after a step of its placement:
\* nothing is lost, unless the counter has expired.
LEMMA PlacementTrades ==
    ASSUME SerialSystem, SystemTypeOK', SystemLinks', OneAtATime',
           "ambiguous" \notin Faults, NEW o \in Orders, Place(o)
    PROVE  /\ \A p \in Orders \ {o} : Owns'[p] = Owns[p]
           /\ stock # NoKey =>
                 stock' # NoKey /\ stock' + Owns'[o] = stock + Owns[o]
           /\ stock = NoKey => stock' = NoKey /\ Owns'[o] <= Owns[o]
           /\ inv'.max = inv.max
           /\ StockCounts'
           /\ \/ Owns'[o] = Owns[o]
              \/ Placement!Reserve(o) /\ Owns[o] = 0 /\ Owns'[o] = qty[o]
              \/ Placement!RestoreUnit(o) /\ Owns[o] = held[o]
                     /\ Owns'[o] = held[o] - 1
<1>2. /\ OwnsFacts /\ OwnsFacts'
      /\ Owns \in [Orders -> 0..MaxQty]
      /\ \A p \in Orders : /\ row[p] = NoRow => Owns[p] = held[p]
                           /\ row[p] # NoRow => Owns[p] = RedisOwns[p]
      /\ \A p \in Orders : /\ row'[p] = NoRow => Owns'[p] = held'[p]
                           /\ row'[p] # NoRow => Owns'[p] = RedisOwns'[p]
    BY OwnsAround DEF UnitsOwned
<1>3. /\ Placement!TypeOK /\ Placement!TaskLink /\ JobLink /\ WrittenLink
      /\ stock \in Nat \/ stock = NoKey
      /\ inv.max \in Int /\ Owns[o] \in Int
      /\ held \in [Orders -> 0..MaxQty] /\ qty \in [Orders -> 0..MaxQty]
    BY <1>2, MaxQtyAssumption
       DEF SerialSystem, SystemTypeOK, SystemLinks, StockCounts,
           Placement!TypeOK, TypeOK, StoresTypeOK
<1>4. Placement!OrderStep(o) /\ UNCHANGED <<pc, job, units>>
    BY DEF Place, changes
<1>5. \A p \in Orders : row'[p] = row[p] => RedisOwns'[p] = RedisOwns[p]
    BY <1>2, <1>3, <1>4, PlacementKeeps
<1>6. \A n \in Int : n # NoKey
    BY NoKeyAssumption
<1>7. MaxQty \in Nat
    BY MaxQtyAssumption
<1>8. CASE Placement!Reserve(o)
    <2>1. /\ row' = row /\ inv' = inv /\ stock' = stock - qty[o]
          /\ stock # NoKey /\ stock >= qty[o] /\ tpc[o] = "reserve"
          /\ held' = [held EXCEPT ![o] = qty[o]]
        BY <1>8 DEF Placement!Reserve, Placement!CanReserve,
                    Placement!AfterReserve
    <2>2. row[o] = NoRow /\ held[o] = 0
        BY <1>3, <2>1 DEF WrittenLink, Placement!TaskLink
    <2>3. Owns[o] = 0 /\ Owns'[o] = qty[o]
        BY <1>2, <1>3, <2>1, <2>2
    <2>4. \A p \in Orders \ {o} : Owns'[p] = Owns[p]
        BY <1>2, <1>3, <1>5, <2>1
    <2>5. stock' \in Nat
        BY <1>3, <1>7, <2>1
    <2> QED
        BY <1>3, <1>6, <1>7, <1>8, <2>1, <2>3, <2>4, <2>5 DEF StockCounts
<1>9. CASE Placement!RestoreUnit(o)
    <2>1. /\ row' = row /\ inv' = inv
          /\ stock' = IF stock = NoKey THEN NoKey ELSE stock + 1
          /\ tpc[o] = "restore"
          /\ held' = [held EXCEPT ![o] = held[o] - 1]
        BY <1>3, <1>9 DEF Placement!RestoreUnit, Placement!AfterIncr
    <2>2. row[o] = NoRow
        BY <1>3, <2>1 DEF WrittenLink
    <2>3. Owns[o] = held[o] /\ Owns'[o] = held[o] - 1
        BY <1>2, <1>3, <2>1, <2>2
    <2>4. \A p \in Orders \ {o} : Owns'[p] = Owns[p]
        BY <1>2, <1>3, <1>5, <2>1
    <2>5. stock # NoKey => stock' \in Nat /\ stock' = stock + 1
        BY <1>3, <2>1
    <2>6. stock = NoKey => stock' = NoKey
        BY <2>1
    <2> QED
        BY <1>3, <1>6, <1>9, <2>1, <2>3, <2>4, <2>5, <2>6 DEF StockCounts
<1>10. CASE Placement!InsertRow(o)
    <2>1. stock' = stock /\ inv' = inv /\ held' = held
        BY <1>10 DEF Placement!InsertRow
    <2>2. /\ RedisOwns'[o] = qty[o] /\ held[o] = qty[o]
          /\ row[o] = NoRow /\ row'[o] = Confirmed(qty[o])
          /\ \A p \in Orders \ {o} : row'[p] = row[p]
        BY <1>2, <1>4, <1>10, InsertOwns
    <2>3. row'[o] # NoRow
        BY <2>2 DEF Confirmed, NoRow
    <2>4. Owns'[o] = Owns[o] /\ \A p \in Orders \ {o} : Owns'[p] = Owns[p]
        BY <1>2, <1>5, <2>1, <2>2, <2>3
    <2> QED
        BY <1>3, <2>1, <2>4 DEF StockCounts
<1>11. CASE stock' = stock /\ row' = row /\ held' = held /\ inv'.max = inv.max
    <2>1. \A p \in Orders : Owns'[p] = Owns[p]
        BY <1>2, <1>5, <1>11
    <2> QED
        BY <1>3, <1>11, <2>1 DEF StockCounts
<1>12. CASE Placement!DecrementStock(o)
    BY <1>11, <1>12 DEF Placement!DecrementStock, Placement!AfterDecrement,
                        Placement!Booked
<1> QED
    BY <1>4, <1>8, <1>9, <1>10, <1>11, <1>12, PlacementMoves

\* With a counter that does not expire.
LEMMA PlacementOwns ==
    ASSUME SystemInv, SystemTypeOK', SystemLinks', OneAtATime',
           "ambiguous" \notin Faults, NEW o \in Orders, Place(o)
    PROVE  /\ \A p \in Orders \ {o} : Owns'[p] = Owns[p]
           /\ stock' + Owns'[o] = stock + Owns[o]
           /\ inv'.max = inv.max
           /\ stock' \in Nat
           /\ \/ Owns'[o] = Owns[o]
              \/ Placement!Reserve(o) /\ Owns[o] = 0 /\ Owns'[o] = qty[o]
              \/ Placement!RestoreUnit(o) /\ Owns[o] = held[o]
                     /\ Owns'[o] = held[o] - 1
<1>1. SerialSystem /\ stock # NoKey
    BY SystemInvSerial
<1>2. /\ \A p \in Orders \ {o} : Owns'[p] = Owns[p]
      /\ stock' # NoKey /\ stock' + Owns'[o] = stock + Owns[o]
      /\ inv'.max = inv.max /\ StockCounts'
      /\ \/ Owns'[o] = Owns[o]
         \/ Placement!Reserve(o) /\ Owns[o] = 0 /\ Owns'[o] = qty[o]
         \/ Placement!RestoreUnit(o) /\ Owns[o] = held[o]
                /\ Owns'[o] = held[o] - 1
    BY <1>1, PlacementTrades
<1> QED
    BY <1>2 DEF StockCounts

\* The same for a step of a request: the units move between the counter and
\* the order of the request.  What they have done to daily_inventory, they
\* have done to the order.
LEMMA RequestTrades ==
    ASSUME SerialSystem, SystemTypeOK', SystemLinks', OneAtATime',
           "write" \notin Ops, NEW r \in Requests, RequestStep(r),
           UNCHANGED placement
    PROVE  LET o == job[r].order
           IN  /\ \A p \in Orders \ {o} :
                      Owns'[p] = Owns[p] /\ DbOwns'[p] = DbOwns[p]
               /\ stock # NoKey =>
                     stock' # NoKey /\ stock' + Owns'[o] = stock + Owns[o]
               /\ stock = NoKey => stock' = NoKey /\ Owns'[o] <= Owns[o]
               /\ inv'.max = inv.max
               /\ inv'.sold - DbOwns'[o] >= inv.sold - DbOwns[o]
               /\ DbOwns[o] <= inv.sold =>
                     inv'.sold - DbOwns'[o] = inv.sold - DbOwns[o]
<1> DEFINE o == job[r].order
<1>2. /\ OwnsFacts /\ OwnsFacts'
      /\ \A p \in Orders : /\ row[p] = NoRow => Owns[p] = held[p]
                           /\ row[p] # NoRow => Owns[p] = RedisOwns[p]
      /\ \A p \in Orders : /\ row'[p] = NoRow => Owns'[p] = held'[p]
                           /\ row'[p] # NoRow => Owns'[p] = RedisOwns'[p]
    BY OwnsAround DEF UnitsOwned
<1>3. TypeOK /\ JobLink /\ KnownRows /\ StockCounts /\ RowLink /\ OneAtATime
    BY DEF SerialSystem, SystemTypeOK, SystemLinks
<1>4. /\ Active(r) /\ job' = job
      /\ \A s \in Requests \ {r} : units'[s] = units[s]
      /\ \A p \in Orders \ {o} : row'[p] = row[p]
    BY <1>3, RequestMoves
<1>5. PICK step \in Steps \ {"new", "dead"} : Goto(r, step)
    BY <1>3, RequestMoves
<1>6. /\ pc'[r] # "new" /\ pc[r] # "new"
      /\ o \in Orders /\ row[o] # NoRow /\ job[r].op # "write"
    BY <1>3, <1>4, <1>5 DEF Goto, TypeOK, Active, KnownRows, JobLink, Jobs
<1>7. row'[o] # NoRow
    BY <1>4, <1>6 DEF SystemLinks, KnownRows
<1>8. /\ RedisOwns[o] = RedisHolds(r) /\ RedisOwns'[o] = HoldsAfter(r)'
      /\ DbOwns[o] = DbHolds(r) /\ DbOwns'[o] = DbAfter(r)'
      /\ \A p \in Orders \ {o} :
             RedisOwns'[p] = RedisOwns[p] /\ DbOwns'[p] = DbOwns[p]
    BY <1>2, <1>3, <1>4, <1>5, OwnsAfter
<1>9. held' = held
    BY DEF placement
<1>10. Owns[o] = RedisHolds(r) /\ Owns'[o] = HoldsAfter(r)'
    BY <1>2, <1>6, <1>7, <1>8
<1>11. \A p \in Orders \ {o} : Owns'[p] = Owns[p]
    BY <1>2, <1>4, <1>8, <1>9
<1>12. /\ stock # NoKey =>
              stock' # NoKey /\ stock' + HoldsAfter(r)' = stock + RedisHolds(r)
       /\ stock = NoKey => stock' = NoKey /\ HoldsAfter(r)' <= RedisHolds(r)
       /\ inv'.max = inv.max
       /\ inv'.sold - DbAfter(r)' >= inv.sold - DbHolds(r)
       /\ DbHolds(r) <= inv.sold =>
              inv'.sold - DbAfter(r)' = inv.sold - DbHolds(r)
    BY <1>3, <1>6, MovesUnits
<1> QED
    BY <1>8, <1>10, <1>11, <1>12

LEMMA RequestOwns ==
    ASSUME SystemInv, SystemTypeOK', SystemLinks', OneAtATime',
           "write" \notin Ops, NEW r \in Requests, RequestStep(r),
           UNCHANGED placement
    PROVE  /\ \A p \in Orders \ {job[r].order} : Owns'[p] = Owns[p]
           /\ stock' + Owns'[job[r].order] = stock + Owns[job[r].order]
           /\ inv'.max = inv.max
BY SystemInvSerial, RequestTrades

\* Loading an order moves nothing.
LEMMA LoadOwns ==
    ASSUME SerialSystem, SystemTypeOK', SystemLinks', OneAtATime',
           ~Overlap, "write" \notin Ops, UNCHANGED placement,
           NEW r \in Requests, NEW o \in Orders, Load(r, o)
    PROVE  /\ \A p \in Orders : Owns'[p] = Owns[p] /\ DbOwns'[p] = DbOwns[p]
           /\ stock' = stock /\ row' = row /\ inv' = inv
<1>2. /\ OwnsFacts /\ OwnsFacts'
      /\ \A p \in Orders : /\ row[p] = NoRow => Owns[p] = held[p]
                           /\ row[p] # NoRow => Owns[p] = RedisOwns[p]
      /\ \A p \in Orders : /\ row'[p] = NoRow => Owns'[p] = held'[p]
                           /\ row'[p] # NoRow => Owns'[p] = RedisOwns'[p]
    BY OwnsAround DEF UnitsOwned
<1>3. TypeOK
    BY DEF SerialSystem, SystemTypeOK
<1>4. stock' = stock /\ row' = row /\ inv' = inv /\ held' = held
    BY DEF Load, stores, placement
<1>5. job'[r].op # "write"
    BY <1>3 DEF Load, JobsOn, TypeOK
<1>6. \A s \in Requests : ~ActiveOn(s, o)
    BY DEF Load
<1>7. \A p \in Orders : RedisOwns'[p] = RedisOwns[p] /\ DbOwns'[p] = DbOwns[p]
    BY <1>2, <1>3, <1>5, <1>6, LoadHolds
<1> QED
    BY <1>2, <1>4, <1>7

\* A step of placement keeps the links: an order is accepted before its
\* message is sent, and a row is written from a message.
LEMMA PlacementSerial ==
    ASSUME SerialSystem, "ambiguous" \notin Faults, NEW o \in Orders, Place(o)
    PROVE  OneAtATime' /\ RowLink' /\ Placement!CleanLink' /\ WrittenLink'
<1>1. /\ Placement!TypeOK /\ Placement!TaskLink /\ Placement!HandlerLink
      /\ TypeOK /\ JobLink /\ KnownRows
      /\ OneAtATime /\ RowLink /\ Placement!CleanLink /\ WrittenLink
    BY DEF SerialSystem, SystemTypeOK, SystemLinks
<1>2. Placement!OrderStep(o) /\ UNCHANGED <<pc, job, units>>
    BY DEF Place, changes
<1>3. OneAtATime'
    BY <1>1, <1>2 DEF OneAtATime, Active
<1>4. \/ row' = row
      \/ /\ Placement!InsertRow(o)
         /\ row[o] = NoRow /\ row'[o] = Confirmed(qty[o])
         /\ \A p \in Orders \ {o} : row'[p] = row[p]
    BY <1>1, <1>2, PlacementRows
<1>5. RowLink'
    <2>1. \A r \in Requests : Active(r) => row[job[r].order] # NoRow
                                           /\ job[r].order \in Orders
        BY <1>1 DEF KnownRows, Active, JobLink, Jobs
    <2>2. \A r \in Requests : Active(r) => row'[job[r].order] = row[job[r].order]
        BY <1>4, <2>1
    <2> QED
        BY <1>1, <1>2, <1>4, <2>2 DEF RowLink, Confirmed, Active
<1>6. \A p \in Orders : tpc[p] = "accepted" => tpc'[p] = "accepted"
    BY <1>1, <1>2, MessageAfter
<1>7. Placement!CleanLink'
    <2>1. \A p \in Orders :
              msg'[p] # "none" => msg[p] # "none" \/ tpc'[p] = "accepted"
        BY <1>1, <1>2, MessageAfter
    <2> QED
        BY <1>1, <1>6, <2>1 DEF Placement!CleanLink
<1>8. WrittenLink'
    <2>1. Placement!InsertRow(o) => tpc[o] = "accepted"
        BY <1>1 DEF Placement!InsertRow, Placement!HandlerLink,
                    Placement!CleanLink
    <2> QED
        BY <1>1, <1>4, <1>6, <2>1 DEF WrittenLink
<1> QED
    BY <1>3, <1>5, <1>7, <1>8

\* The invariant of the undisturbed system.
LEMMA SystemInvInit == SystemInit => SerialSystemInv
<1> SUFFICES ASSUME SystemInit PROVE SerialSystemInv
    OBVIOUS
<1>1. PICK m \in 0..Capacity : inv = Offered(m) /\ stock = m
    BY DEF SystemInit, Placement!Init, Placement!Offered, Offered
<1>2. /\ row = [o \in Orders |-> NoRow]
      /\ held = [o \in Orders |-> 0]
      /\ msg = [o \in Orders |-> "none"]
      /\ pc = [r \in Requests |-> "new"]
    BY DEF SystemInit, Placement!Init, Placement!NoRow, NoRow, Idle
<1>3. stock \in Nat /\ inv.max = stock
    BY <1>1, CapacityAssumption DEF Offered
<1>4. \A o \in Orders : Owns[o] = 0
    BY <1>2 DEF Owns
<1>5. Total(Owns) = 0
    BY <1>4, TotalZero
<1> QED
    BY <1>2, <1>3, <1>5
       DEF SerialSystemInv, StockSet, OneAtATime, RowLink, Active, NoRow,
           Placement!CleanLink, WrittenLink, UnitsConserved

LEMMA SystemInvStep ==
    ASSUME Undisturbed
    PROVE  SystemInv /\ [SystemNext]_systemVars => SystemInv'
<1> SUFFICES ASSUME SystemInv, [SystemNext]_systemVars PROVE SystemInv'
    OBVIOUS
<1>1. SystemTypeOK /\ SystemLinks /\ SystemTypeOK' /\ SystemLinks'
    BY SystemTypesStep DEF SystemInv
<1>2. /\ Placement!TypeOK /\ Placement!TaskLink /\ Placement!HandlerLink
      /\ TypeOK /\ JobLink /\ KnownRows /\ JobLink' /\ KnownRows'
      /\ StockSet /\ OneAtATime /\ RowLink /\ Placement!CleanLink
      /\ WrittenLink /\ UnitsConserved
    BY <1>1 DEF SystemInv, SystemTypeOK, SystemLinks, SerialSystemInv
<1>3. stock \in Nat /\ inv.max \in Int /\ Total(Owns) \in Int
    BY <1>2, TotalType DEF StockSet, TypeOK, StoresTypeOK
\* What moves between the counter and one order leaves the sum as it was.
<1>4. ASSUME OneAtATime', NEW o \in Orders, stock' \in Int,
             \A p \in Orders \ {o} : Owns'[p] = Owns[p],
             stock' + Owns'[o] = stock + Owns[o], inv'.max = inv.max
      PROVE  UnitsConserved'
    <2>1. /\ Owns \in [Orders -> 0..MaxQty] /\ Owns' \in [Orders -> 0..MaxQty]
        BY <1>1, <1>4, SystemInvSerial, OwnsAround DEF UnitsOwned
    <2>2. Total(Owns') = Total(Owns) - Owns[o] + Owns'[o]
        BY <1>4, <2>1, TotalChange
    <2>3. Owns[o] \in Int /\ Owns'[o] \in Int
        BY <2>1, MaxQtyAssumption
    <2> QED
        BY <1>2, <1>3, <1>4, <2>2, <2>3 DEF UnitsConserved
<1>5. ASSUME NEW o \in Orders, Place(o) PROVE SystemInv'
    <2>1. OneAtATime' /\ RowLink' /\ Placement!CleanLink' /\ WrittenLink'
        BY <1>5, SystemInvSerial, PlacementSerial DEF Undisturbed
    <2>2. /\ \A p \in Orders \ {o} : Owns'[p] = Owns[p]
          /\ stock' + Owns'[o] = stock + Owns[o]
          /\ inv'.max = inv.max /\ stock' \in Nat
        BY <1>1, <1>5, <2>1, PlacementOwns DEF Undisturbed
    <2>3. UnitsConserved' /\ StockSet'
        BY <1>4, <2>1, <2>2 DEF StockSet
    <2> QED
        BY <1>1, <2>1, <2>3 DEF SystemInv, SerialSystemInv
<1>6. ASSUME UNCHANGED placement, \A o \in Orders : row[o] = NoRow => row'[o] = NoRow,
             StockSet', OneAtATime', RowLink', UnitsConserved'
      PROVE  SystemInv'
    BY <1>1, <1>2, <1>6
       DEF SystemInv, SerialSystemInv, placement, Placement!CleanLink, WrittenLink
<1>7. ASSUME NEW r \in Requests, NEW o \in Orders, ChangeOrder(r, o)
      PROVE  SystemInv'
    <2>1. Load(r, o) /\ UNCHANGED placement
        BY <1>7 DEF ChangeOrder
    <2>2. OneAtATime' /\ RowLink'
        BY <1>2, <2>1, SerialLoad DEF Undisturbed
    <2>3. /\ \A p \in Orders : Owns'[p] = Owns[p]
          /\ stock' = stock /\ row' = row /\ inv' = inv
        BY <1>1, <2>1, <2>2, SystemInvSerial, LoadOwns DEF Undisturbed
    <2>4. UnitsConserved' /\ StockSet'
        BY <1>2, <1>3, <1>4, <2>2, <2>3 DEF StockSet
    <2> QED
        BY <1>6, <2>1, <2>2, <2>3, <2>4
<1>8. ASSUME NEW r \in Requests, GoOn(r) PROVE SystemInv'
    <2>1. RequestStep(r) /\ UNCHANGED placement
        BY <1>8 DEF GoOn, Dies, Undisturbed
    <2>2. OneAtATime' /\ RowLink' /\ StockSet'
        BY <1>2, <2>1, SerialRequest, RequestStock
    <2>3. job[r].order \in Orders /\ row[job[r].order] # NoRow
        BY <1>2, <2>1, RequestMoves DEF KnownRows, Active, JobLink, Jobs
    <2>4. UnitsConserved'
        BY <1>1, <1>4, <2>1, <2>2, <2>3, RequestOwns DEF Undisturbed, StockSet
    <2>5. \A p \in Orders : row[p] = NoRow => row'[p] = NoRow
        BY <1>2, <2>1, <2>3, RequestMoves
    <2> QED
        BY <1>6, <2>1, <2>2, <2>4, <2>5
<1>9. CASE UNCHANGED systemVars
    <2>1. /\ UNCHANGED <<stock, row, inv, pc, job, units>> /\ UNCHANGED placement
        BY <1>9 DEF systemVars, stores, changes
    <2>2. OneAtATime' /\ RowLink' /\ StockSet'
        BY <1>2, <2>1 DEF OneAtATime, RowLink, StockSet, Active
    <2>3. Owns' = Owns
        BY <2>1 DEF Owns, RedisOwns, Held, RedisHolds, ActiveOn, Active,
                    LiveQuantity, placement
    <2>4. UnitsConserved'
        BY <1>2, <2>1, <2>3 DEF UnitsConserved
    <2> QED
        BY <1>6, <2>1, <2>2, <2>4
<1> QED
    BY <1>5, <1>7, <1>8, <1>9
       DEF SystemNext, Undisturbed, LoseKey, Placement!LoseKey

LEMMA SystemInvHolds ==
    ASSUME Undisturbed
    PROVE  SystemSpec => []SystemInv
<1>1. SystemInit => SystemInv
    BY SystemTypesInit, SystemInvInit DEF SystemInv
<1>2. SystemInv /\ [SystemNext]_systemVars => SystemInv'
    BY SystemInvStep
<1> QED
    BY <1>1, <1>2, PTL DEF SystemSpec

\* The Redis counter and the orders share out the inventory to the unit at
\* every await of every interleaving of reservations, compensations, the
\* worker, cancellations and changes of quantity, however often a task of a
\* placement or a handler dies and its message comes again.
THEOREM SystemConservesUnits ==
    ASSUME Undisturbed
    PROVE  SystemSpec => []UnitsConserved
<1>1. SystemInv => UnitsConserved
    BY DEF SystemInv, SerialSystemInv
<1> QED
    BY <1>1, SystemInvHolds, PTL

-----------------------------------------------------------------------------
(***************************************************************************)
(* What daily_inventory offers beside the units of the live orders.        *)
(***************************************************************************)
\* The decrements that may still be to come.
Ahead == Placement!QuantityIf(Outstanding)

\* What makes OffersOnlyOutstanding inductive: no live status is "confirmed"
\* before its row is there.
OfferInv ==
    /\ inv.sold + Total(Ahead) >= Total(DbOwns)
    /\ Placement!CacheLink

AheadTerms ==
    /\ Ahead \in [Orders -> 0..MaxQty]
    /\ \A o \in Orders : Ahead[o] = IF o \in Outstanding THEN qty[o] ELSE 0

LEMMA AheadOf == Placement!TypeOK => AheadTerms
BY MaxQtyAssumption
   DEF Placement!TypeOK, Ahead, AheadTerms, Placement!QuantityIf

\* An order is outstanding from its INSERT on, at most until its decrement.
LEMMA AheadAfter ==
    ASSUME SystemInv, SystemTypeOK', Placement!CacheLink,
           NEW o \in Orders, Placement!OrderStep(o)
    PROVE  /\ Placement!CacheLink'
           /\ \/ /\ Placement!InsertRow(o) /\ Ahead[o] = 0 /\ Ahead'[o] = qty[o]
                 /\ \A p \in Orders \ {o} : Ahead'[p] = Ahead[p]
              \/ /\ Placement!DecrementStock(o)
                 /\ Ahead[o] <= qty[o] /\ Ahead'[o] = 0
                 /\ \A p \in Orders \ {o} : Ahead'[p] = Ahead[p]
              \/ /\ inv' = inv /\ row' = row
                 /\ \A p \in Orders : Ahead[p] <= Ahead'[p]
<1>1. /\ Placement!TypeOK /\ Placement!TaskLink /\ Placement!HandlerLink
      /\ Placement!CleanLink /\ WrittenLink /\ Placement!TypeOK'
    BY DEF SystemInv, SystemTypeOK, SystemLinks, SerialSystemInv
<1>2. /\ Ahead \in [Orders -> 0..MaxQty] /\ Ahead' \in [Orders -> 0..MaxQty]
      /\ \A p \in Orders :
             /\ Ahead[p] = IF p \in Outstanding THEN qty[p] ELSE 0
             /\ Ahead'[p] = IF p \in Outstanding' THEN qty'[p] ELSE 0
    <2>1. (Placement!TypeOK => AheadTerms)'
        BY AheadOf, PTL
    <2> QED
        BY <1>1, <2>1, AheadOf DEF AheadTerms
<1>3. /\ MaxQty \in Nat /\ qty \in [Orders -> 0..MaxQty]
      /\ hpc \in [Orders -> Placement!HandlerSteps]
      /\ msg \in [Orders -> Placement!MsgStates]
      /\ cache \in [Orders -> Placement!Statuses \cup {"none"}]
      /\ row \in [Orders -> [status : Placement!Statuses \cup {"absent"},
                             quantity : 0..MaxQty]]
    BY <1>1, MaxQtyAssumption DEF Placement!TypeOK, Placement!StoresTypeOK
<1> USE DEF Outstanding, Placement!NoRow, NoRow
<1>4. CASE Placement!InsertRow(o)
    <2>1. /\ hpc[o] = "insert" /\ row[o] = NoRow /\ qty' = qty
          /\ row' = [row EXCEPT ![o] = Confirmed(qty[o])]
          /\ hpc' = [hpc EXCEPT ![o] = "decrement"]
          /\ msg' = msg /\ cache' = cache
        BY <1>4 DEF Placement!InsertRow, Confirmed
    <2>2. msg[o] # "acked" /\ cache[o] # "confirmed" /\ row'[o] # NoRow
        BY <1>1, <1>3, <2>1 DEF Placement!HandlerLink, Placement!CacheLink, Confirmed
    <2>3. /\ o \in Outstanding' /\ o \notin Outstanding
          /\ \A p \in Orders \ {o} : p \in Outstanding <=> p \in Outstanding'
        BY <1>3, <2>1, <2>2
    <2>4. Placement!CacheLink'
        BY <1>3, <2>1, <2>2 DEF Placement!CacheLink
    <2> QED
        BY <1>2, <1>4, <2>1, <2>3, <2>4
<1>5. CASE Placement!DecrementStock(o)
    <2>1. /\ qty' = qty /\ hpc' = [hpc EXCEPT ![o] = "status"]
          /\ row' = row /\ msg' = msg /\ cache' = cache
        BY <1>5 DEF Placement!DecrementStock
    <2>2. /\ o \notin Outstanding'
          /\ \A p \in Orders \ {o} : p \in Outstanding <=> p \in Outstanding'
        BY <1>3, <2>1
    <2>3. Placement!CacheLink'
        BY <2>1 DEF Placement!CacheLink
    <2> QED
        BY <1>2, <1>3, <1>5, <2>1, <2>2, <2>3
\* Any other step leaves the outstanding orders outstanding.
<1>6. ASSUME inv' = inv, row' = row,
             \A p \in Orders : cache'[p] = "confirmed" => \/ cache[p] = "confirmed"
                                                          \/ hpc[p] = "status",
             \A p \in Outstanding : /\ msg'[p] # "acked"
                                    /\ hpc'[p] \notin {"status", "notify"}
                                    /\ qty'[p] = qty[p]
      PROVE  /\ Placement!CacheLink'
             /\ \A p \in Orders : Ahead[p] <= Ahead'[p]
    <2>1. Outstanding \subseteq Outstanding'
        BY <1>6
    <2>2. \A p \in Orders : Ahead[p] <= Ahead'[p]
        BY <1>2, <1>3, <1>6, <2>1
    <2>3. Placement!CacheLink'
        BY <1>1, <1>6 DEF Placement!CacheLink, Placement!HandlerLink
    <2> QED
        BY <2>2, <2>3
<1>7. ASSUME NEW q \in Placement!Quantities, Placement!PlaceOrder(o, q)
      PROVE  /\ Placement!CacheLink' /\ inv' = inv /\ row' = row
             /\ \A p \in Orders : Ahead[p] <= Ahead'[p]
    <2>1. o \notin Outstanding
        BY <1>1, <1>7 DEF Placement!PlaceOrder, WrittenLink
    <2> QED
        BY <1>3, <1>6, <1>7, <2>1 DEF Placement!PlaceOrder
<1>8. CASE UNCHANGED <<inv, row, cache, msg, hpc, qty>>
    BY <1>6, <1>8
<1>9. CASE \/ Placement!CachePending(o) \/ Placement!ForgetStatus(o)
           \/ Placement!ExpireStatus(o) \/ Placement!CacheConfirmed(o)
    BY <1>3, <1>6, <1>9
       DEF Placement!CachePending, Placement!ForgetStatus,
           Placement!ExpireStatus, Placement!CacheConfirmed
<1>10. CASE Placement!Publish(o) \/ Placement!PublishRaises(o)
    BY <1>3, <1>6, <1>10 DEF Placement!Publish, Placement!PublishRaises
<1>11. CASE Placement!Deliver(o) \/ Placement!Notified(o)
    BY <1>3, <1>6, <1>11 DEF Placement!Deliver, Placement!Notified
<1>12. CASE /\ Placement!Requeue(o) \/ Placement!HandlerDies(o)
            /\ UNCHANGED <<inv, row, cache, qty>>
    BY <1>3, <1>6, <1>12 DEF Placement!Requeue, Placement!HandlerDies
<1> QED
    BY <1>4, <1>5, <1>7, <1>8, <1>9, <1>10, <1>11, <1>12, <1>6
       DEF Placement!OrderStep, Placement!TaskStep, Placement!HandlerStep,
           Placement!LookupFails, Placement!Reserve,
           Placement!ReserveRefused, Placement!RestoreUnit,
           Placement!TaskDies, Placement!InsertDuplicate,
           Placement!DecrementRefused, Placement!NotifyRaises,
           Placement!HandlerRaises, Placement!HandlerDies, Placement!Publish,
           Placement!PublishRaises, Placement!CachePending,
           Placement!ForgetStatus, Placement!ExpireStatus,
           Placement!CacheConfirmed, Placement!Deliver, Placement!Notified

LEMMA OfferInit == SystemInit => OfferInv
<1> SUFFICES ASSUME SystemInit PROVE OfferInv
    OBVIOUS
<1>1. inv.sold = 0 /\ Placement!CacheLink
    BY DEF SystemInit, Placement!Init, Placement!Offered, Placement!CacheLink
<1>2. \A o \in Orders : DbOwns[o] = 0
    BY DEF SystemInit, Placement!Init, Placement!NoRow, Idle, DbOwns, Held,
           ActiveOn, Active, LiveQuantity
<1>3. Total(DbOwns) = 0 /\ Total(Ahead) \in Nat
    BY <1>2, TotalZero, TotalType
<1> QED
    BY <1>1, <1>3 DEF OfferInv

\* A request writes "confirmed" into no live status.
LEMMA RequestCaches ==
    ASSUME TypeOK, JobLink, KnownRows, "write" \notin Ops,
           NEW r \in Requests, RequestStep(r), NEW p \in Orders
    PROVE  cache'[p] = "confirmed" => cache[p] = "confirmed"
<1>1. CASE CacheStatus(r)
    <2>1. /\ pc[r] = "cache_status" /\ job[r].op # "write"
          /\ cache' = [cache EXCEPT ![job[r].order] = job[r].status]
        BY <1>1 DEF CacheStatus, KnownRows
    <2>2. job[r] \in Jobs /\ LinkOf(pc[r], job[r], units[r])
        BY <2>1 DEF JobLink
    <2>3. job[r].op \in {"cancel", "complete"}
        BY <2>1, <2>2 DEF LinkOf, Jobs, AllOps
    <2>4. job[r].status # "confirmed"
        BY <2>2, <2>3 DEF LinkOf
    <2> QED
        BY <2>1, <2>4 DEF TypeOK, StoresTypeOK
<1>2. CASE cache' = cache
    BY <1>2
<1> QED
    BY <1>1, <1>2
       DEF RequestStep, SetCancelled, SetStatus, RestoreUnit, Increment,
           TakeUnit, TakeRefused, Decrement, DecrementRefused, RollbackUnit,
           WriteQuantity

LEMMA OfferStep ==
    ASSUME Undisturbed
    PROVE  SystemInv /\ OfferInv /\ [SystemNext]_systemVars => OfferInv'
<1> DEFINE Covers == inv.sold + Total(Ahead) >= Total(DbOwns)
<1> SUFFICES ASSUME SystemInv, OfferInv, [SystemNext]_systemVars
             PROVE  Covers' /\ Placement!CacheLink'
    BY DEF OfferInv
<1>1. /\ SystemTypeOK' /\ SystemLinks' /\ OneAtATime'
      /\ SystemTypeOK /\ SystemLinks
    BY SystemInvStep DEF SystemInv, SerialSystemInv
<1>2. /\ Placement!TypeOK /\ Placement!TypeOK'
      /\ TypeOK /\ JobLink /\ KnownRows /\ JobLink' /\ KnownRows'
      /\ StockSet /\ OneAtATime /\ RowLink /\ StoresTypeOK'
      /\ Covers /\ Placement!CacheLink
    BY <1>1 DEF SystemInv, SystemTypeOK, SystemLinks, SerialSystemInv, TypeOK,
                OfferInv
<1>3. /\ Total(Ahead) \in Nat /\ Total(Ahead') \in Nat
      /\ Total(DbOwns) \in Nat /\ Total(DbOwns') \in Nat
      /\ inv.sold \in Nat /\ inv'.sold \in Nat
    BY <1>2, TotalType DEF TypeOK, StoresTypeOK
<1>4. /\ OwnsFacts /\ OwnsFacts'
      /\ Ahead \in [Orders -> 0..MaxQty] /\ Ahead' \in [Orders -> 0..MaxQty]
    <2>1. (Placement!TypeOK => AheadTerms)'
        BY AheadOf, PTL
    <2> QED
        BY <1>1, <1>2, <2>1, AheadOf, SystemInvSerial, OwnsAround
           DEF UnitsOwned, AheadTerms
<1>5. MaxQty \in Nat /\ qty \in [Orders -> 0..MaxQty]
    BY <1>2, MaxQtyAssumption DEF Placement!TypeOK
<1>6. ASSUME \A p \in Orders : Ahead[p] <= Ahead'[p]
      PROVE  Total(Ahead) <= Total(Ahead')
    <2>1. Ahead \in [Orders -> Int] /\ Ahead' \in [Orders -> Int]
        BY <1>4, <1>5
    <2> QED
        BY <1>6, <2>1, TotalMonotone
<1>7. ASSUME NEW o \in Orders, Place(o) PROVE Covers' /\ Placement!CacheLink'
    <2>1. Placement!OrderStep(o) /\ UNCHANGED <<pc, job, units>>
        BY <1>7 DEF Place, changes
    <2>2. Placement!CacheLink'
        BY <1>1, <1>2, <2>1, AheadAfter
    <2>3. \A p \in Orders : row'[p] = row[p] => DbOwns'[p] = DbOwns[p]
        BY <1>2, <1>4, <2>1, PlacementKeeps
    <2>4. CASE /\ Placement!InsertRow(o) /\ Ahead[o] = 0 /\ Ahead'[o] = qty[o]
               /\ \A p \in Orders \ {o} : Ahead'[p] = Ahead[p]
        <3>1. /\ DbOwns'[o] = qty[o] /\ DbOwns[o] = 0 /\ qty[o] \in 1..MaxQty
              /\ \A p \in Orders \ {o} : row'[p] = row[p]
            <4>1. "ambiguous" \notin Faults
                BY DEF Undisturbed
            <4> QED
                BY <1>4, <2>1, <2>4, <4>1, SystemInvSerial, InsertOwns
        <3>2. \A p \in Orders \ {o} : DbOwns'[p] = DbOwns[p]
            BY <2>3, <3>1
        <3>3. /\ Total(Ahead') = Total(Ahead) - Ahead[o] + Ahead'[o]
              /\ Total(DbOwns') = Total(DbOwns) - DbOwns[o] + DbOwns'[o]
            BY <1>4, <2>4, <3>2, TotalChange DEF OwnsFacts
        <3> QED
            BY <1>2, <1>3, <1>5, <2>2, <2>4, <3>1, <3>3
               DEF Placement!InsertRow
    <2>5. CASE /\ Placement!DecrementStock(o)
               /\ Ahead[o] <= qty[o] /\ Ahead'[o] = 0
               /\ \A p \in Orders \ {o} : Ahead'[p] = Ahead[p]
        <3>1. row' = row /\ inv'.sold = inv.sold + qty[o] /\ qty[o] \in Nat
            BY <1>2, <1>5, <2>5
               DEF Placement!DecrementStock, Placement!AfterDecrement,
                   Placement!Booked, Placement!TypeOK
        <3>2. Total(DbOwns') = Total(DbOwns)
            BY <2>3, <3>1, TotalSame
        <3>3. Total(Ahead') = Total(Ahead) - Ahead[o] + Ahead'[o]
            BY <1>4, <2>5, TotalChange
        <3>4. Ahead[o] \in Nat
            BY <1>4, <1>5
        <3> QED
            BY <1>2, <1>3, <2>2, <2>5, <3>1, <3>2, <3>3, <3>4
    <2>6. CASE /\ inv' = inv /\ row' = row
               /\ \A p \in Orders : Ahead[p] <= Ahead'[p]
        <3>1. Total(DbOwns') = Total(DbOwns) /\ Total(Ahead) <= Total(Ahead')
            BY <1>6, <2>3, <2>6, TotalSame
        <3> QED
            BY <1>2, <1>3, <2>2, <2>6, <3>1
    <2> QED
        BY <1>1, <1>2, <2>1, <2>4, <2>5, <2>6, AheadAfter
\* A request leaves the outstanding orders outstanding.
<1>8. ASSUME UNCHANGED placement,
             \A o \in Orders : row[o] # NoRow => row'[o] # NoRow,
             \A o \in Orders : cache'[o] = "confirmed" => cache[o] = "confirmed"
      PROVE  Total(Ahead) <= Total(Ahead') /\ Placement!CacheLink'
    <2>1. Outstanding \subseteq Outstanding' /\ qty' = qty
        BY <1>8 DEF Outstanding, placement
    <2>2. \A p \in Orders : Ahead[p] <= Ahead'[p]
        BY <1>5, <2>1 DEF Ahead, Placement!QuantityIf
    <2>3. Placement!CacheLink'
        BY <1>2, <1>8 DEF Placement!CacheLink, Placement!NoRow, NoRow
    <2> QED
        BY <1>6, <2>2, <2>3
<1>9. ASSUME NEW r \in Requests, NEW o \in Orders, ChangeOrder(r, o)
      PROVE  Covers' /\ Placement!CacheLink'
    <2>1. Load(r, o) /\ UNCHANGED placement /\ cache' = cache
        BY <1>9 DEF ChangeOrder, Load, stores
    <2>2. /\ \A p \in Orders : DbOwns'[p] = DbOwns[p]
          /\ row' = row /\ inv' = inv
        BY <1>1, <2>1, SystemInvSerial, LoadOwns DEF Undisturbed
    <2>3. Total(DbOwns') = Total(DbOwns)
        BY <2>2, TotalSame
    <2>4. Total(Ahead) <= Total(Ahead') /\ Placement!CacheLink'
        BY <1>8, <2>1, <2>2
    <2> QED
        BY <1>2, <1>3, <2>2, <2>3, <2>4
<1>10. ASSUME NEW r \in Requests, GoOn(r)
       PROVE  Covers' /\ Placement!CacheLink'
    <2>1. RequestStep(r) /\ UNCHANGED placement
        BY <1>10 DEF GoOn, Dies, Undisturbed
    <2>2. /\ Active(r) /\ job' = job
          /\ \A s \in Requests \ {r} : units'[s] = units[s]
          /\ \A p \in Orders \ {job[r].order} : row'[p] = row[p]
        BY <1>2, <2>1, RequestMoves
    <2>3. PICK step \in Steps \ {"new", "dead"} : Goto(r, step)
        BY <1>2, <2>1, RequestMoves
    <2>4. /\ pc[r] # "new" /\ pc'[r] # "new" /\ job[r].op # "write"
          /\ row[job[r].order] # NoRow /\ row'[job[r].order] # NoRow
        BY <1>2, <2>2, <2>3 DEF Goto, TypeOK, Active, KnownRows, Undisturbed
    <2>5. \A p \in Orders : row[p] # NoRow => row'[p] # NoRow
        BY <2>2, <2>4
    <2>6. \A p \in Orders : cache'[p] = "confirmed" => cache[p] = "confirmed"
        BY <1>2, <2>1, RequestCaches DEF Undisturbed
    <2>7. Total(Ahead) <= Total(Ahead') /\ Placement!CacheLink'
        BY <1>8, <2>1, <2>5, <2>6
    <2>8. inv'.sold - DbAfter(r)' >= inv.sold - DbHolds(r)
        BY <1>2, <2>1, <2>4, SystemInvSerial, MovesUnits DEF SerialSystem
    <2>9. /\ Total(DbOwns') = Total(DbOwns) - DbHolds(r) + DbAfter(r)'
          /\ DbHolds(r) \in Nat /\ DbAfter(r)' \in Nat
        BY <1>1, <1>2, <1>4, <2>2, <2>3, TotalsAfter
    <2> QED
        BY <1>2, <1>3, <2>7, <2>8, <2>9
<1>11. CASE UNCHANGED systemVars
    <2>1. /\ UNCHANGED <<cache, row, inv, pc, job, units>> /\ UNCHANGED placement
        BY <1>11 DEF systemVars, stores, changes
    <2>2. DbOwns' = DbOwns
        BY <2>1 DEF DbOwns, Held, DbHolds, ActiveOn, Active, LiveQuantity
    <2>3. Total(Ahead) <= Total(Ahead') /\ Placement!CacheLink'
        BY <1>8, <2>1
    <2> QED
        BY <1>2, <1>3, <2>1, <2>2, <2>3
<1> QED
    BY <1>7, <1>9, <1>10, <1>11
       DEF SystemNext, Undisturbed, LoseKey, Placement!LoseKey

\* What daily_inventory offers, with the units of the live orders, exceeds the
\* inventory by no more than the messages not known to be consumed ask for,
\* although handlers stop between an INSERT and its decrement, and an order is
\* changed or cancelled there and GREATEST clamps.
THEOREM OffersOutstandingOnly ==
    ASSUME Undisturbed
    PROVE  SystemSpec => []OffersOnlyOutstanding
<1>1. SystemInv /\ OfferInv /\ [SystemNext]_systemVars => OfferInv'
    BY OfferStep
<1>2. SystemInv /\ OfferInv /\ DbBooksBalance => OffersOnlyOutstanding
    <2> SUFFICES ASSUME SystemInv, OfferInv, DbBooksBalance
                 PROVE  OffersOnlyOutstanding
        OBVIOUS
    <2>1. inv.remaining = inv.max - inv.sold /\ inv.max \in Nat /\ inv.sold \in Nat
        BY DEF DbBooksBalance, SystemInv, SystemTypeOK, TypeOK, StoresTypeOK
    <2>2. Total(Ahead) \in Nat /\ Total(DbOwns) \in Nat
        BY TotalType
    <2> QED
        BY <2>1, <2>2 DEF OfferInv, OffersOnlyOutstanding, Ahead
<1>3. Separate
    BY DEF Separate, Undisturbed
<1> QED
    BY <1>1, <1>2, <1>3, OfferInit, SystemInvHolds, SystemBooksBalance, PTL
       DEF SystemSpec

=============================================================================
