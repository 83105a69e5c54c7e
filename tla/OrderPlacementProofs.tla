------------------------ MODULE OrderPlacementProofs ------------------------
(***************************************************************************)
(* Proofs of the safety properties of OrderPlacement for every finite set  *)
(* of orders, every bound on quantities and inventories, every prefetch    *)
(* and every combination of failures.                                      *)
(*                                                                         *)
(* The argument is one inductive invariant, IInv.  The sums StockConserved *)
(* and SoldAtMostOnce speak about are not inductive by themselves: that a  *)
(* redelivered message is not sold again rests on HandlerLink and RowLink  *)
(* (the primary key), that a compensation gives back exactly what was      *)
(* taken rests on TaskLink.  Each action changes each sum at one order, so *)
(* TotalChange of StoresProofs is all the arithmetic on sums there is.     *)
(***************************************************************************)
EXTENDS OrderPlacement, StoresProofs

USE OrdersAssumption, MaxQtyAssumption, NoKeyAssumption,
    CapacityAssumption, PrefetchAssumption, FaultsAssumption

-----------------------------------------------------------------------------
(***************************************************************************)
(* Facts about the statements of Stores.                                   *)
(***************************************************************************)

\* When the guard of the UPDATE holds and the books balance, so do they after
\* it: the clamp does nothing.
LEMMA DecrementKeepsBooks ==
    ASSUME inv \in [max : Nat, sold : Nat, remaining : Int], DbBooksBalance,
           NEW q \in Nat, CanDecrement(q)
    PROVE  /\ AfterDecrement(q) \in [max : Nat, sold : Nat, remaining : Int]
           /\ AfterDecrement(q).max = inv.max
           /\ AfterDecrement(q).sold = inv.sold + q
           /\ AfterDecrement(q).remaining = inv.max - (inv.sold + q)
           /\ inv.sold + q <= inv.max
<1>1. inv.max \in Nat /\ inv.sold \in Nat /\ inv.remaining \in Int
    OBVIOUS
<1>2. inv.sold + q <= inv.max
    BY <1>1 DEF CanDecrement, DbBooksBalance
<1> QED
    BY <1>1, <1>2 DEF AfterDecrement, Booked, Greatest

-----------------------------------------------------------------------------
(***************************************************************************)
(* Type correctness.                                                       *)
(***************************************************************************)
LEMMA TypeInit == Init => TypeOK
<1> SUFFICES ASSUME Init PROVE TypeOK
    OBVIOUS
<1>1. PICK m \in 0..Capacity : inv = Offered(m) /\ stock = m
    BY DEF Init
<1>2. StoresTypeOK
    BY <1>1 DEF Init, StoresTypeOK, Offered, NoRow
<1> QED
    BY <1>2 DEF Init, TypeOK, TaskSteps, MsgStates, HandlerSteps

\* TypeOK is inductive.
LEMMA TypeStep == TypeOK /\ [Next]_vars => TypeOK'
<1> SUFFICES ASSUME TypeOK, [Next]_vars PROVE TypeOK'
    OBVIOUS
<1> USE DEF TypeOK, StoresTypeOK, TaskSteps, MsgStates, HandlerSteps, Statuses
<1>1. ASSUME NEW o \in Orders, NEW q \in Quantities, PlaceOrder(o, q)
      PROVE  TypeOK'
    BY <1>1 DEF PlaceOrder, Goto, Quantities
<1>2. ASSUME NEW o \in Orders, LookupFails(o) PROVE TypeOK'
    BY <1>2 DEF LookupFails, Goto
<1>3. ASSUME NEW o \in Orders, Reserve(o) PROVE TypeOK'
    BY <1>3 DEF Reserve, Goto, CanReserve, AfterReserve
<1>4. ASSUME NEW o \in Orders, ReserveRefused(o) PROVE TypeOK'
    BY <1>4 DEF ReserveRefused, Goto
<1>5. ASSUME NEW o \in Orders, CachePending(o) PROVE TypeOK'
    BY <1>5 DEF CachePending, Goto
<1>6. ASSUME NEW o \in Orders, Publish(o) PROVE TypeOK'
    BY <1>6 DEF Publish, Goto
<1>7. ASSUME NEW o \in Orders, PublishRaises(o) PROVE TypeOK'
    BY <1>7 DEF PublishRaises, Goto
<1>8. ASSUME NEW o \in Orders, RestoreUnit(o) PROVE TypeOK'
    BY <1>8 DEF RestoreUnit, Goto, AfterIncr
<1>9. ASSUME NEW o \in Orders, ForgetStatus(o) PROVE TypeOK'
    BY <1>9 DEF ForgetStatus, Goto
<1>10. ASSUME NEW o \in Orders, TaskDies(o) PROVE TypeOK'
    BY <1>10 DEF TaskDies, Goto
<1>11. ASSUME NEW o \in Orders, Deliver(o) PROVE TypeOK'
    BY <1>11 DEF Deliver
<1>12. ASSUME NEW o \in Orders, InsertRow(o) PROVE TypeOK'
    BY <1>12 DEF InsertRow
<1>13. ASSUME NEW o \in Orders, InsertDuplicate(o) PROVE TypeOK'
    BY <1>13 DEF InsertDuplicate, Requeue
<1>14. ASSUME NEW o \in Orders, DecrementStock(o) PROVE TypeOK'
    BY <1>14 DEF DecrementStock, AfterDecrement, Booked, Greatest
<1>15. ASSUME NEW o \in Orders, DecrementRefused(o) PROVE TypeOK'
    BY <1>15 DEF DecrementRefused, Requeue
<1>16. ASSUME NEW o \in Orders, CacheConfirmed(o) PROVE TypeOK'
    BY <1>16 DEF CacheConfirmed
<1>17. ASSUME NEW o \in Orders, Notified(o) PROVE TypeOK'
    BY <1>17 DEF Notified
<1>18. ASSUME NEW o \in Orders, NotifyRaises(o) PROVE TypeOK'
    BY <1>18 DEF NotifyRaises, Requeue
<1>19. ASSUME NEW o \in Orders, HandlerDies(o) PROVE TypeOK'
    BY <1>19 DEF HandlerDies
<1>20. ASSUME NEW o \in Orders, ExpireStatus(o) PROVE TypeOK'
    BY <1>20 DEF ExpireStatus
<1>21. CASE LoseKey
    BY <1>21 DEF LoseKey
<1>22. CASE UNCHANGED vars
    BY <1>22 DEF vars
<1>23. ASSUME NEW o \in Orders, HandlerRaises(o) PROVE TypeOK'
    BY <1>23 DEF HandlerRaises, Requeue
<1> QED
    BY <1>1, <1>2, <1>3, <1>4, <1>5, <1>6, <1>7, <1>8, <1>9, <1>10, <1>11,
       <1>12, <1>13, <1>14, <1>15, <1>16, <1>17, <1>18, <1>19, <1>20, <1>21,
       <1>22, <1>23
       DEF Next, OrderStep, TaskStep, HandlerStep


-----------------------------------------------------------------------------
(***************************************************************************)
(* What each program counter says about its order.                         *)
(***************************************************************************)
Links == TaskLink /\ HandlerLink /\ RowLink /\ CacheLink /\ CleanLink

LEMMA LinksInit == Init => Links
BY DEF Init, Links, TaskLink, HandlerLink, RowLink, CacheLink, CleanLink, NoRow

\* The program counters keep their meaning at every step.
LEMMA LinksStep == TypeOK /\ Links /\ [Next]_vars => Links'
<1> SUFFICES ASSUME TypeOK, Links, [Next]_vars PROVE Links'
    OBVIOUS
<1> USE DEF TypeOK, StoresTypeOK, TaskSteps, MsgStates, HandlerSteps, Statuses,
            NoRow, Links, TaskLink, HandlerLink, RowLink, CacheLink, CleanLink
<1>1. ASSUME NEW o \in Orders, NEW q \in Quantities, PlaceOrder(o, q)
      PROVE  Links'
    BY <1>1 DEF PlaceOrder, Goto, Quantities
<1>2. ASSUME NEW o \in Orders, LookupFails(o) PROVE Links'
    BY <1>2 DEF LookupFails, Goto
<1>3. ASSUME NEW o \in Orders, Reserve(o) PROVE Links'
    BY <1>3 DEF Reserve, Goto
<1>4. ASSUME NEW o \in Orders, ReserveRefused(o) PROVE Links'
    BY <1>4 DEF ReserveRefused, Goto
<1>5. ASSUME NEW o \in Orders, CachePending(o) PROVE Links'
    BY <1>5 DEF CachePending, Goto
<1>6. ASSUME NEW o \in Orders, Publish(o) PROVE Links'
    BY <1>6 DEF Publish, Goto
<1>7. ASSUME NEW o \in Orders, PublishRaises(o) PROVE Links'
    BY <1>7 DEF PublishRaises, Goto
<1>8. ASSUME NEW o \in Orders, RestoreUnit(o) PROVE Links'
    BY <1>8 DEF RestoreUnit, Goto
<1>9. ASSUME NEW o \in Orders, ForgetStatus(o) PROVE Links'
    BY <1>9 DEF ForgetStatus, Goto
<1>10. ASSUME NEW o \in Orders, TaskDies(o) PROVE Links'
    BY <1>10 DEF TaskDies, Goto
<1>11. ASSUME NEW o \in Orders, Deliver(o) PROVE Links'
    BY <1>11 DEF Deliver
<1>12. ASSUME NEW o \in Orders, InsertRow(o) PROVE Links'
    BY <1>12 DEF InsertRow
<1>13. ASSUME NEW o \in Orders, InsertDuplicate(o) PROVE Links'
    BY <1>13 DEF InsertDuplicate, Requeue
<1>14. ASSUME NEW o \in Orders, DecrementStock(o) PROVE Links'
    BY <1>14 DEF DecrementStock
<1>15. ASSUME NEW o \in Orders, DecrementRefused(o) PROVE Links'
    BY <1>15 DEF DecrementRefused, Requeue
<1>16. ASSUME NEW o \in Orders, CacheConfirmed(o) PROVE Links'
    BY <1>16 DEF CacheConfirmed
<1>17. ASSUME NEW o \in Orders, Notified(o) PROVE Links'
    BY <1>17 DEF Notified
<1>18. ASSUME NEW o \in Orders, NotifyRaises(o) PROVE Links'
    BY <1>18 DEF NotifyRaises, Requeue
<1>19. ASSUME NEW o \in Orders, HandlerDies(o) PROVE Links'
    BY <1>19 DEF HandlerDies
<1>20. ASSUME NEW o \in Orders, ExpireStatus(o) PROVE Links'
    BY <1>20 DEF ExpireStatus
<1>21. CASE LoseKey
    BY <1>21 DEF LoseKey
<1>22. CASE UNCHANGED vars
    BY <1>22 DEF vars
<1>23. ASSUME NEW o \in Orders, HandlerRaises(o) PROVE Links'
    BY <1>23 DEF HandlerRaises, Requeue
<1> QED
    BY <1>1, <1>2, <1>3, <1>4, <1>5, <1>6, <1>7, <1>8, <1>9, <1>10, <1>11,
       <1>12, <1>13, <1>14, <1>15, <1>16, <1>17, <1>18, <1>19, <1>20, <1>21,
       <1>22, <1>23
       DEF Next, OrderStep, TaskStep, HandlerStep


-----------------------------------------------------------------------------
(***************************************************************************)
(* The Redis counter and the units the orders hold.                        *)
(***************************************************************************)
LEMMA StockInit == Init => StockConserved
<1> SUFFICES ASSUME Init PROVE StockConserved
    OBVIOUS
<1>1. PICK m \in 0..Capacity : inv = Offered(m) /\ stock = m
    BY DEF Init
<1>2. Total(held) = 0
    BY TotalZero DEF Init
<1> QED
    BY <1>1, <1>2 DEF StockConserved, Offered

\* Reserve and RestoreUnit move units between the counter and one order; no
\* other step touches either, and losing the key only forgets the counter.
LEMMA StockStep ==
    TypeOK /\ TaskLink /\ StockConserved /\ [Next]_vars => StockConserved'
<1> SUFFICES ASSUME TypeOK, TaskLink, StockConserved, [Next]_vars
             PROVE  StockConserved'
    OBVIOUS
<1>1. /\ held \in [Orders -> 0..MaxQty] /\ held' \in [Orders -> 0..MaxQty]
      /\ qty \in [Orders -> 0..MaxQty]
      /\ stock \in Int \cup {NoKey} /\ inv.max \in Nat
    BY TypeStep DEF TypeOK, StoresTypeOK
<1>2. Total(held) \in Nat /\ Total(held') \in Nat
    BY TotalType
<1>3. ASSUME NEW o \in Orders, Reserve(o) PROVE StockConserved'
    <2>1. held[o] = 0 /\ held'[o] = qty[o] /\ qty[o] \in Nat
        BY <1>1, <1>3 DEF Reserve, TaskLink
    <2>2. \A p \in Orders \ {o} : held'[p] = held[p]
        BY <1>1, <1>3 DEF Reserve
    <2>3. Total(held') = Total(held) + qty[o]
        BY <1>1, <1>2, <2>1, <2>2, TotalChange
    <2>4. /\ stock \in Int /\ stock >= qty[o]
          /\ stock' = stock - qty[o] /\ inv' = inv
        BY <1>1, <1>3 DEF Reserve, CanReserve, AfterReserve
    <2> QED
        BY <1>1, <1>2, <2>1, <2>3, <2>4 DEF StockConserved
<1>4. ASSUME NEW o \in Orders, RestoreUnit(o) PROVE StockConserved'
    <2>1. held'[o] = held[o] - 1 /\ held[o] \in Nat
        BY <1>1, <1>4 DEF RestoreUnit
    <2>2. \A p \in Orders \ {o} : held'[p] = held[p]
        BY <1>1, <1>4 DEF RestoreUnit
    <2>3. Total(held') = Total(held) - 1
        BY <1>1, <1>2, <2>1, <2>2, TotalChange
    <2>4. stock' = AfterIncr /\ inv' = inv
        BY <1>4 DEF RestoreUnit
    <2> QED
        BY <1>1, <1>2, <2>3, <2>4 DEF StockConserved, AfterIncr
<1>5. CASE LoseKey
    BY <1>1, <1>2, <1>5 DEF LoseKey, StockConserved
<1>6. ASSUME UNCHANGED <<stock, held>>, inv'.max = inv.max
      PROVE  StockConserved'
    BY <1>6 DEF StockConserved
<1>7. ASSUME NEW o \in Orders, DecrementStock(o) PROVE StockConserved'
    BY <1>6, <1>7 DEF DecrementStock, AfterDecrement, Booked
<1> QED
    BY <1>3, <1>4, <1>5, <1>6, <1>7
       DEF Next, OrderStep, TaskStep, HandlerStep, vars, PlaceOrder, LookupFails,
           ReserveRefused, CachePending, Publish, PublishRaises, ForgetStatus,
           TaskDies, Deliver, InsertRow, InsertDuplicate, DecrementRefused,
           CacheConfirmed, Notified, NotifyRaises, HandlerRaises,
           HandlerDies, ExpireStatus

-----------------------------------------------------------------------------
(***************************************************************************)
(* The books of the database.                                              *)
(***************************************************************************)
LEMMA BooksInit == Init => DbBooksBalance
BY DEF Init, Offered, DbBooksBalance

\* Only the worker's UPDATE writes daily_inventory, and it keeps the balance.
LEMMA BooksStep ==
    TypeOK /\ DbBooksBalance /\ [Next]_vars => DbBooksBalance'
<1> SUFFICES ASSUME TypeOK, DbBooksBalance, [Next]_vars PROVE DbBooksBalance'
    OBVIOUS
<1>1. ASSUME NEW o \in Orders, DecrementStock(o) PROVE DbBooksBalance'
    <2>1. qty[o] \in Nat /\ inv \in [max : Nat, sold : Nat, remaining : Int]
        BY DEF TypeOK, StoresTypeOK
    <2>2. CanDecrement(qty[o]) /\ inv' = AfterDecrement(qty[o])
        BY <1>1 DEF DecrementStock
    <2> QED
        BY <2>1, <2>2, DecrementKeepsBooks DEF DbBooksBalance
<1>2. ASSUME UNCHANGED inv PROVE DbBooksBalance'
    BY <1>2 DEF DbBooksBalance
<1> QED
    BY <1>1, <1>2
       DEF Next, OrderStep, TaskStep, HandlerStep, vars, PlaceOrder, LookupFails, Reserve,
           ReserveRefused, CachePending, Publish, PublishRaises, RestoreUnit,
           ForgetStatus, TaskDies, Deliver, InsertRow, InsertDuplicate,
           DecrementRefused, CacheConfirmed, Notified, NotifyRaises,
           HandlerRaises, HandlerDies, ExpireStatus, LoseKey


-----------------------------------------------------------------------------
(***************************************************************************)
(* Sold at most once.                                                      *)
(***************************************************************************)

\* The terms of the sums are quantities.
LEMMA TermTypes ==
    ASSUME TypeOK
    PROVE  /\ RowQuantity \in [Orders -> 0..MaxQty]
           /\ \A who : QuantityIf(who) \in [Orders -> 0..MaxQty]
           /\ AcceptedQuantity \in [Orders -> 0..MaxQty]
           /\ held \in [Orders -> 0..MaxQty]
BY DEF TypeOK, StoresTypeOK, RowQuantity, QuantityIf, AcceptedQuantity

LEMMA SoldInit == Init => SoldAtMostOnce
<1> SUFFICES ASSUME Init PROVE SoldAtMostOnce
    OBVIOUS
<1>1. inv.sold = 0
    BY DEF Init, Offered
<1>2. Total(QuantityIf(Decrementing)) = 0
    BY TotalZero DEF Init, QuantityIf, Decrementing
<1>3. Total(RowQuantity) \in Nat
    BY TotalType
<1> QED
    BY <1>1, <1>2, <1>3 DEF SoldAtMostOnce

\* Only InsertRow lets a handler get to the decrement, and the primary key
\* lets that happen once for each order; every other step that touches the
\* three sums takes the order out of the decrement again.
LEMMA SoldStep ==
    TypeOK /\ Links /\ SoldAtMostOnce /\ [Next]_vars => SoldAtMostOnce'
<1> SUFFICES ASSUME TypeOK, Links, SoldAtMostOnce, [Next]_vars
             PROVE  SoldAtMostOnce'
    OBVIOUS
<1> DEFINE dec == QuantityIf(Decrementing)
<1>1. /\ dec \in [Orders -> 0..MaxQty] /\ dec' \in [Orders -> 0..MaxQty]
      /\ RowQuantity \in [Orders -> 0..MaxQty]
      /\ RowQuantity' \in [Orders -> 0..MaxQty]
      /\ inv.sold \in Nat /\ inv'.sold \in Nat
      /\ qty \in [Orders -> 0..MaxQty]
    <2>1. TypeOK'
        BY TypeStep
    <2>2. /\ RowQuantity' \in [Orders -> 0..MaxQty]
          /\ dec' \in [Orders -> 0..MaxQty]
        BY <2>1 DEF TypeOK, StoresTypeOK, RowQuantity, QuantityIf
    <2> QED
        BY <2>1, <2>2, TermTypes DEF TypeOK, StoresTypeOK
<1>2. /\ Total(dec) \in Nat /\ Total(dec') \in Nat
      /\ Total(RowQuantity) \in Nat /\ Total(RowQuantity') \in Nat
    BY TotalType
<1>3. inv.sold + Total(dec) <= Total(RowQuantity)
    BY DEF SoldAtMostOnce
<1>4. ASSUME inv'.sold + Total(dec') <= Total(RowQuantity')
      PROVE  SoldAtMostOnce'
    BY <1>4 DEF SoldAtMostOnce
<1>5. ASSUME NEW o \in Orders, InsertRow(o) PROVE SoldAtMostOnce'
    <2>1. dec[o] = 0 /\ dec'[o] = qty[o]
        BY <1>5 DEF InsertRow, QuantityIf, Decrementing, TypeOK
    <2>2. \A p \in Orders \ {o} : dec'[p] = dec[p]
        BY <1>5 DEF InsertRow, QuantityIf, Decrementing, TypeOK
    <2>3. RowQuantity[o] = 0 /\ RowQuantity'[o] = qty[o]
        BY <1>5 DEF InsertRow, RowQuantity, NoRow, TypeOK, StoresTypeOK
    <2>4. \A p \in Orders \ {o} : RowQuantity'[p] = RowQuantity[p]
        BY <1>5 DEF InsertRow, RowQuantity, TypeOK, StoresTypeOK
    <2>5. Total(dec') = Total(dec) - dec[o] + dec'[o]
        BY <1>1, <2>2, TotalChange
    <2>6. Total(RowQuantity') =
              Total(RowQuantity) - RowQuantity[o] + RowQuantity'[o]
        BY <1>1, <2>4, TotalChange
    <2>7. inv'.sold = inv.sold /\ qty[o] \in Nat
        BY <1>1, <1>5 DEF InsertRow
    <2> HIDE DEF dec
    <2> QED
        BY <1>1, <1>2, <1>3, <1>4, <2>1, <2>3, <2>5, <2>6, <2>7
<1>6. ASSUME NEW o \in Orders, DecrementStock(o) PROVE SoldAtMostOnce'
    <2>1. dec[o] = qty[o] /\ dec'[o] = 0
        BY <1>6 DEF DecrementStock, QuantityIf, Decrementing, TypeOK
    <2>2. \A p \in Orders \ {o} : dec'[p] = dec[p]
        BY <1>6 DEF DecrementStock, QuantityIf, Decrementing, TypeOK
    <2>3. Total(dec') = Total(dec) - dec[o] + dec'[o]
        BY <1>1, <2>2, TotalChange
    <2>4. RowQuantity' = RowQuantity
        BY <1>6 DEF DecrementStock, RowQuantity
    <2>5. inv'.sold = inv.sold + qty[o] /\ qty[o] \in Nat
        BY <1>1, <1>6 DEF DecrementStock, AfterDecrement, Booked
    <2> HIDE DEF dec
    <2> QED
        BY <1>1, <1>2, <1>3, <1>4, <2>1, <2>3, <2>4, <2>5
<1>7. ASSUME UNCHANGED <<inv, row>>,
             \A p \in Orders :
                 hpc'[p] = "decrement" => hpc[p] = "decrement" /\ qty'[p] = qty[p]
      PROVE  SoldAtMostOnce'
    <2>1. \A p \in Orders : dec'[p] <= dec[p]
        BY <1>1, <1>7 DEF QuantityIf, Decrementing
    <2>2. dec \in [Orders -> Int] /\ dec' \in [Orders -> Int]
        BY <1>1
    <2>3. Total(dec') <= Total(dec)
        BY <2>1, <2>2, TotalMonotone
    <2>4. RowQuantity' = RowQuantity
        BY <1>7 DEF RowQuantity
    <2> HIDE DEF dec
    <2> QED
        BY <1>1, <1>2, <1>3, <1>4, <1>7, <2>3, <2>4
<1>8. ASSUME NEW o \in Orders, NEW q \in Quantities, PlaceOrder(o, q)
      PROVE  SoldAtMostOnce'
    <2>1. hpc[o] = "idle"
        BY <1>8 DEF PlaceOrder, Links, TaskLink, HandlerLink
    <2> QED
        BY <1>7, <1>8, <2>1 DEF PlaceOrder, TypeOK
<1>9. ASSUME NEW o \in Orders, Deliver(o) PROVE SoldAtMostOnce'
    BY <1>7, <1>9 DEF Deliver, TypeOK
<1>10. ASSUME NEW o \in Orders, hpc' = [hpc EXCEPT ![o] = "idle"],
              UNCHANGED <<inv, row, qty>>
       PROVE  SoldAtMostOnce'
    BY <1>7, <1>10 DEF TypeOK
<1>11. ASSUME NEW o \in Orders, CacheConfirmed(o) PROVE SoldAtMostOnce'
    BY <1>7, <1>11 DEF CacheConfirmed, TypeOK
<1>12. ASSUME NEW o \in Orders, Notified(o) PROVE SoldAtMostOnce'
    BY <1>7, <1>12 DEF Notified, TypeOK
<1>13. ASSUME UNCHANGED <<inv, row, qty, hpc>> PROVE SoldAtMostOnce'
    BY <1>7, <1>13
<1> QED
    BY <1>5, <1>6, <1>8, <1>9, <1>10, <1>11, <1>12, <1>13
       DEF Next, OrderStep, TaskStep, HandlerStep, vars, LookupFails, Reserve,
           ReserveRefused, CachePending, Publish, PublishRaises, RestoreUnit,
           ForgetStatus, TaskDies, InsertDuplicate, DecrementRefused, Requeue,
           NotifyRaises, HandlerRaises, HandlerDies, ExpireStatus, LoseKey


-----------------------------------------------------------------------------
(***************************************************************************)
(* What is past its decrement is sold.                                     *)
(***************************************************************************)
LEMMA SoldLinkInit == Init => SoldLink
<1> SUFFICES ASSUME Init PROVE SoldLink
    OBVIOUS
<1>1. inv.sold \in Nat
    BY DEF Init, Offered
<1>2. Total(QuantityIf(Decremented)) = 0
    BY TotalZero DEF Init, QuantityIf, Decremented
<1> QED
    BY <1>1, <1>2 DEF SoldLink

\* An order joins the ones past their decrement only by its decrement.
LEMMA SoldLinkStep ==
    TypeOK /\ Links /\ SoldLink /\ [Next]_vars => SoldLink'
<1> SUFFICES ASSUME TypeOK, Links, SoldLink, [Next]_vars PROVE SoldLink'
    OBVIOUS
<1> DEFINE done == QuantityIf(Decremented)
<1>1. /\ done \in [Orders -> 0..MaxQty] /\ done' \in [Orders -> 0..MaxQty]
      /\ inv.sold \in Nat /\ qty \in [Orders -> 0..MaxQty]
    BY TypeStep, TermTypes DEF TypeOK, StoresTypeOK, QuantityIf
<1>2. Total(done) \in Nat /\ Total(done') \in Nat
    BY TotalType
<1>3. Total(done) <= inv.sold
    BY DEF SoldLink
<1>4. ASSUME Total(done') <= inv'.sold PROVE SoldLink'
    BY <1>4 DEF SoldLink
<1>5. ASSUME NEW o \in Orders, DecrementStock(o) PROVE SoldLink'
    <2>1. \A p \in Orders \ {o} : done'[p] = done[p]
        BY <1>5 DEF DecrementStock, QuantityIf, Decremented, TypeOK
    <2>2. Total(done') = Total(done) - done[o] + done'[o]
        BY <1>1, <2>1, TotalChange
    <2>3. done[o] \in Nat /\ done'[o] = qty[o] /\ qty[o] \in Nat
        BY <1>1, <1>5 DEF DecrementStock, QuantityIf, Decremented, TypeOK
    <2>4. inv'.sold = inv.sold + qty[o]
        BY <1>5 DEF DecrementStock, AfterDecrement, Booked
    <2> HIDE DEF done
    <2> QED
        BY <1>1, <1>2, <1>3, <1>4, <2>2, <2>3, <2>4
<1>6. ASSUME UNCHANGED inv, Decremented' \subseteq Decremented,
             \A p \in Decremented' : qty'[p] = qty[p]
      PROVE  SoldLink'
    <2>1. \A p \in Orders : done'[p] <= done[p]
        BY <1>1, <1>6 DEF QuantityIf
    <2>2. done \in [Orders -> Int] /\ done' \in [Orders -> Int]
        BY <1>1
    <2>3. Total(done') <= Total(done)
        BY <2>1, <2>2, TotalMonotone
    <2> HIDE DEF done
    <2> QED
        BY <1>1, <1>2, <1>3, <1>4, <1>6, <2>3
<1>7. ASSUME NEW o \in Orders, NEW q \in Quantities, PlaceOrder(o, q)
      PROVE  SoldLink'
    <2>1. /\ hpc[o] = "idle" /\ msg[o] # "acked" /\ cache[o] # "confirmed"
        BY <1>7 DEF PlaceOrder, Links, TaskLink, HandlerLink, RowLink, CacheLink
    <2> QED
        BY <1>6, <1>7, <2>1 DEF PlaceOrder, TypeOK, Decremented
<1>8. ASSUME NEW o \in Orders,
             CachePending(o) \/ ForgetStatus(o) \/ ExpireStatus(o)
      PROVE  SoldLink'
    BY <1>6, <1>8 DEF CachePending, ForgetStatus, ExpireStatus, TypeOK,
                      StoresTypeOK, Decremented
<1>9. ASSUME NEW o \in Orders, Publish(o) \/ PublishRaises(o) PROVE SoldLink'
    BY <1>6, <1>9 DEF Publish, PublishRaises, TypeOK, Decremented
<1>10. ASSUME NEW o \in Orders, CacheConfirmed(o) PROVE SoldLink'
    BY <1>6, <1>10 DEF CacheConfirmed, TypeOK, StoresTypeOK, Decremented
<1>11. ASSUME NEW o \in Orders, Deliver(o) \/ InsertRow(o) \/ Notified(o)
       PROVE  SoldLink'
    BY <1>6, <1>11 DEF Deliver, InsertRow, Notified, TypeOK, Decremented
<1>12. ASSUME NEW o \in Orders, Requeue(o) \/ HandlerDies(o),
              UNCHANGED <<inv, cache, qty>>
       PROVE  SoldLink'
    BY <1>6, <1>12 DEF Requeue, HandlerDies, TypeOK, Decremented
<1>13. ASSUME UNCHANGED <<inv, cache, qty, msg, hpc>> PROVE SoldLink'
    BY <1>6, <1>13 DEF Decremented
<1> QED
    BY <1>5, <1>7, <1>8, <1>9, <1>10, <1>11, <1>12, <1>13
       DEF Next, OrderStep, TaskStep, HandlerStep, vars, LookupFails, Reserve,
           ReserveRefused, RestoreUnit, TaskDies, InsertDuplicate,
           DecrementRefused, NotifyRaises, HandlerRaises, HandlerDies, LoseKey

-----------------------------------------------------------------------------
(***************************************************************************)
(* The invariant and what follows from it.                                 *)
(***************************************************************************)
LEMMA IInvInit == Init => IInv
BY TypeInit, LinksInit, StockInit, BooksInit, SoldInit, SoldLinkInit
   DEF IInv, Links

LEMMA IInvStep == IInv /\ [Next]_vars => IInv'
BY TypeStep, LinksStep, StockStep, BooksStep, SoldStep, SoldLinkStep
   DEF IInv, Links

\* Every reachable state satisfies the inductive invariant.
THEOREM Invariance == Spec => []IInv
BY IInvInit, IInvStep, PTL DEF Spec

\* Every variable has its type in every reachable state.
THEOREM TypeCorrect == Spec => []TypeOK
<1>1. IInv => TypeOK
    BY DEF IInv
<1> QED
    BY <1>1, Invariance, PTL

\* The Redis counter and the units held by orders always add up to the
\* inventory the vendor set.
THEOREM StockIsConserved == Spec => []StockConserved
<1>1. IInv => StockConserved
    BY DEF IInv
<1> QED
    BY <1>1, Invariance, PTL

\* create_order never oversells: what accepted orders ask for fits in the
\* inventory, however publishes, tasks, handlers and keys fail.
THEOREM NoOversell == Spec => []AcceptedFit
<1>1. IInv => AcceptedFit
    <2> SUFFICES ASSUME IInv PROVE AcceptedFit
        OBVIOUS
    <2>1. TypeOK /\ TaskLink /\ Total(held) <= inv.max /\ inv.max \in Nat
        BY DEF IInv, StockConserved, TypeOK, StoresTypeOK
    <2>2. \A o \in Orders : AcceptedQuantity[o] <= held[o]
        BY <2>1 DEF AcceptedQuantity, TypeOK, TaskLink
    <2>3. AcceptedQuantity \in [Orders -> Int] /\ held \in [Orders -> Int]
        BY <2>1, TermTypes
    <2>4. Total(AcceptedQuantity) <= Total(held)
        BY <2>2, <2>3, TotalMonotone
    <2>5. Total(AcceptedQuantity) \in Nat /\ Total(held) \in Nat
        BY TotalType
    <2> QED
        BY <2>1, <2>4, <2>5 DEF AcceptedFit
<1> QED
    BY <1>1, Invariance, PTL

\* An accepted order has its message in the queue or its row in PostgreSQL.
THEOREM NoOrderLost == Spec => []AcceptedNotLost
<1>1. IInv => AcceptedNotLost
    <2> SUFFICES ASSUME IInv, NEW o \in Orders, pc[o] = "accepted"
                 PROVE  \/ msg[o] \in {"ready", "returned", "unacked"}
                        \/ row[o].status = "confirmed"
        BY DEF AcceptedNotLost
    <2>1. msg[o] \in {"ready", "returned", "unacked", "acked"}
        BY DEF IInv, TypeOK, MsgStates, TaskLink
    <2>2. CASE msg[o] = "acked"
        <3>1. row[o] = [status |-> "confirmed", quantity |-> qty[o]]
            BY <2>2 DEF IInv, HandlerLink, RowLink
        <3> QED
            BY <3>1
    <2> QED
        BY <2>1, <2>2
<1> QED
    BY <1>1, Invariance, PTL

\* daily_inventory never records more sold than there is, and its
\* remaining_quantity is always the difference.
THEOREM BooksBalance == Spec => []DbBooksBalance
<1>1. IInv => DbBooksBalance
    BY DEF IInv
<1> QED
    BY <1>1, Invariance, PTL

\* Redelivery never sells an order twice.
THEOREM NoDoubleSale == Spec => []SoldAtMostOnce
<1>1. IInv => SoldAtMostOnce
    BY DEF IInv
<1> QED
    BY <1>1, Invariance, PTL

\* Who is shown "confirmed", by the live status or by the row, has been sold
\* units, the unannounced orders excepted.
THEOREM ConfirmedMeansSold == Spec => []ConfirmedIsSold
<1>1. IInv => ConfirmedIsSold
    <2> SUFFICES ASSUME IInv PROVE ConfirmedIsSold
        OBVIOUS
    <2> DEFINE announced == {o \in ShownConfirmed : ~Unannounced(o)}
    <2>1. announced \subseteq Decremented
        <3> SUFFICES ASSUME NEW o \in announced PROVE o \in Decremented
            OBVIOUS
        <3>1. o \in Orders /\ (cache[o] = "none" \/ cache[o] = "confirmed")
            BY DEF ShownConfirmed, Shown
        <3> QED
            BY <3>1 DEF Unannounced, Decremented
    <2>2. /\ QuantityIf(announced) \in [Orders -> 0..MaxQty]
          /\ QuantityIf(Decremented) \in [Orders -> 0..MaxQty]
          /\ qty \in [Orders -> 0..MaxQty]
        BY TermTypes DEF IInv, TypeOK
    <2>3. \A o \in Orders :
              QuantityIf(announced)[o] <= QuantityIf(Decremented)[o]
        BY <2>1, <2>2 DEF QuantityIf
    <2> HIDE DEF announced
    <2>4. Total(QuantityIf(announced)) <= Total(QuantityIf(Decremented))
        <3>1. /\ QuantityIf(announced) \in [Orders -> Int]
              /\ QuantityIf(Decremented) \in [Orders -> Int]
            BY <2>2
        <3> QED
            BY <2>3, <3>1, TotalMonotone
    <2>5. /\ Total(QuantityIf(announced)) \in Nat
          /\ Total(QuantityIf(Decremented)) \in Nat /\ inv.sold \in Nat
        BY <2>2, TotalType DEF IInv, TypeOK, StoresTypeOK
    <2>6. Total(QuantityIf(announced)) <= inv.sold
        BY <2>4, <2>5 DEF IInv, SoldLink
    <2> QED
        BY <2>6 DEF ConfirmedIsSold, announced
<1> QED
    BY <1>1, Invariance, PTL

\* As long as no publish is ambiguous, an order shown as "confirmed" holds its
\* units in Redis, whether it is sold already or not: it has a row, hence a
\* message, hence it was accepted, and what is accepted is never given back.
THEOREM ConfirmedHoldUnits ==
    ASSUME "ambiguous" \notin Faults
    PROVE  Spec => []ConfirmedHasUnits
<1>1. IInv => ConfirmedHasUnits
    <2> SUFFICES ASSUME IInv, NEW o \in ShownConfirmed PROVE held[o] = qty[o]
        BY DEF ConfirmedHasUnits
    <2>1. o \in Orders /\ row[o] # NoRow
        BY DEF ShownConfirmed, Shown, IInv, CacheLink, NoRow
    <2>2. pc[o] = "accepted"
        BY <2>1 DEF IInv, RowLink, CleanLink
    <2> QED
        BY <2>1, <2>2 DEF IInv, TaskLink
<1> QED
    BY <1>1, Invariance, PTL

\* The live status never returns from "confirmed" to "pending".
THEOREM LiveStatusNeverBack == Spec => LiveStatusForward
<1> DEFINE Forward ==
        \A o \in Orders : cache[o] = "confirmed" => cache'[o] # "pending"
<1>1. IInv /\ [Next]_vars => [Forward]_vars
    <2> SUFFICES ASSUME IInv, Next PROVE Forward
        OBVIOUS
    <2>1. TypeOK /\ TaskLink /\ RowLink /\ CacheLink
        BY DEF IInv
    <2>2. ASSUME NEW o \in Orders, CachePending(o) PROVE Forward
        <3>1. cache[o] # "confirmed"
            BY <2>1, <2>2 DEF CachePending, TaskLink, RowLink, CacheLink
        <3> QED
            BY <2>1, <2>2, <3>1 DEF CachePending, TypeOK, StoresTypeOK
    <2>3. ASSUME NEW o \in Orders,
                 ForgetStatus(o) \/ CacheConfirmed(o) \/ ExpireStatus(o)
          PROVE  Forward
        BY <2>1, <2>3
           DEF ForgetStatus, CacheConfirmed, ExpireStatus, TypeOK, StoresTypeOK
    <2>4. ASSUME UNCHANGED cache PROVE Forward
        BY <2>4
    <2> QED
        BY <2>2, <2>3, <2>4
           DEF Next, OrderStep, TaskStep, HandlerStep, PlaceOrder, LookupFails, Reserve,
               ReserveRefused, Publish, PublishRaises, RestoreUnit, TaskDies,
               Deliver, InsertRow, InsertDuplicate, DecrementStock,
               DecrementRefused, Notified, NotifyRaises, HandlerRaises,
               HandlerDies, LoseKey
<1> QED
    BY <1>1, Invariance, PTL DEF Spec, LiveStatusForward

\* As long as no publish is ambiguous, the database never refuses what Redis
\* has reserved: the rows are those of accepted orders, which fit, and what
\* is sold with the decrements to come is at most the rows.
THEOREM WorkerIsNeverRefused ==
    ASSUME "ambiguous" \notin Faults
    PROVE  Spec => []WorkerNeverRefused
<1>1. IInv => WorkerNeverRefused
    <2> SUFFICES ASSUME IInv, NEW o \in Decrementing PROVE CanDecrement(qty[o])
        BY DEF WorkerNeverRefused
    <2> DEFINE dec == QuantityIf(Decrementing)
    <2>1. /\ TypeOK /\ o \in Orders /\ hpc[o] = "decrement"
          /\ inv.max \in Nat /\ inv.sold \in Nat /\ qty[o] \in Nat
        BY DEF IInv, TypeOK, StoresTypeOK, Decrementing
    <2>2. /\ Total(dec) \in Nat /\ Total(RowQuantity) \in Nat
          /\ Total(held) \in Nat
        BY TotalType
    <2>3. qty[o] <= Total(dec)
        <3>1. dec \in [Orders -> 0..MaxQty] /\ dec[o] = qty[o]
            BY <2>1, TermTypes DEF QuantityIf
        <3> HIDE DEF dec
        <3> QED
            BY <2>1, <3>1, TotalAtLeast
    <2>4. Total(RowQuantity) <= Total(held)
        <3>1. \A p \in Orders : RowQuantity[p] <= held[p]
            BY DEF IInv, TypeOK, StoresTypeOK, TaskLink, RowLink, CleanLink,
                   RowQuantity, NoRow
        <3>2. RowQuantity \in [Orders -> Int] /\ held \in [Orders -> Int]
            BY <2>1, TermTypes
        <3> QED
            BY <3>1, <3>2, TotalMonotone
    <2>5. /\ inv.sold + Total(dec) <= Total(RowQuantity)
          /\ Total(held) <= inv.max
          /\ inv.remaining = inv.max - inv.sold
        BY DEF IInv, SoldAtMostOnce, StockConserved, DbBooksBalance
    <2> HIDE DEF dec
    <2> QED
        BY <2>1, <2>2, <2>3, <2>4, <2>5 DEF CanDecrement
<1> QED
    BY <1>1, Invariance, PTL

=============================================================================
