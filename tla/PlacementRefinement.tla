------------------------- MODULE PlacementRefinement -------------------------
(***************************************************************************)
(* The proof that OrderPlacement implements Ledger.  Under the mapping of  *)
(* Book an order's phase follows from the next await of its task and from  *)
(* what it holds, so each action is one step of the ledger or none.  That  *)
(* an admission finds enough free units is StockConserved; that a task     *)
(* which stands, leaves or dies half way holds units is TaskLink.          *)
(***************************************************************************)
EXTENDS OrderPlacementProofs

\* The ledger counts units as the stores do.
LEMMA SameFree == Book!Free = inv.max - Total(held)
BY DEF Book!Free, Book!Total, Book!Units, Book!Quantities,
       Book!Cardinality, Total, Units, Quantities, Cardinality

LEMMA RefinesInit == Init => Book!Init
BY DEF Init, Book!Init, LedgerPhase, PhaseOf, Offered

\* One order's phase after a step of its task.
LEMMA PhaseAfter ==
    ASSUME TypeOK, NEW o \in Orders, NEW step \in TaskSteps, Goto(o, step),
           \A p \in Orders \ {o} : held'[p] = held[p]
    PROVE  LedgerPhase' = [LedgerPhase EXCEPT ![o] = LedgerPhase'[o]]
<1>1. \A p \in Orders \ {o} : pc'[p] = pc[p]
    BY DEF Goto, TypeOK
<1>2. \A p \in Orders \ {o} : LedgerPhase'[p] = LedgerPhase[p]
    BY <1>1 DEF LedgerPhase
<1>3. /\ LedgerPhase = [p \in Orders |-> LedgerPhase[p]]
      /\ LedgerPhase' = [p \in Orders |-> LedgerPhase'[p]]
    BY DEF LedgerPhase
<1> QED
    BY <1>2, <1>3

\* A step of placement that moves no phase and no unit is none of the ledger.
LEMMA StutterStep ==
    ASSUME inv'.max = inv.max, held' = held, LedgerPhase' = LedgerPhase
    PROVE  UNCHANGED Book!vars
BY DEF Book!vars

\* The task of an order.
LEMMA TaskRefines ==
    ASSUME IInv, NEW o \in Orders,
           TaskStep(o) \/ LookupFails(o) \/ TaskDies(o)
    PROVE  [Book!Next]_(Book!vars)
<1>1. TypeOK /\ TaskLink /\ StockConserved /\ pc \in [Orders -> TaskSteps]
      /\ held \in [Orders -> 0..MaxQty] /\ qty \in [Orders -> 0..MaxQty]
    BY DEF IInv, TypeOK
<1>2. inv.max \in Nat /\ Total(held) \in Nat
    BY <1>1, TotalType DEF TypeOK, StoresTypeOK
<1>3. CASE Reserve(o)
    <2>1. qty[o] \in Quantities /\ pc[o] = "reserve"
        BY <1>1, <1>3 DEF Reserve, TaskLink, Quantities
    <2>2. qty[o] <= Book!Free
        BY <1>1, <1>2, <1>3, <2>1, SameFree
           DEF Reserve, CanReserve, StockConserved, Quantities, TypeOK, StoresTypeOK
    <2>3. LedgerPhase[o] = "new" /\ LedgerPhase'[o] = "standing"
        BY <1>1, <1>3, <2>1 DEF Reserve, Goto, LedgerPhase, PhaseOf
    <2>4. LedgerPhase' = [LedgerPhase EXCEPT ![o] = "standing"]
        BY <1>1, <1>3, <2>3, PhaseAfter DEF Reserve, TaskSteps
    <2>5. Book!Admit(o, qty[o])
        BY <1>3, <2>2, <2>3, <2>4 DEF Book!Admit, Reserve
    <2> QED
        BY <2>1, <2>5 DEF Book!Next, Book!Quantities, Quantities
<1>4. CASE LookupFails(o) \/ ReserveRefused(o)
    <2>1. LedgerPhase[o] = "new" /\ LedgerPhase'[o] = "gone"
        BY <1>1, <1>4 DEF LookupFails, ReserveRefused, Goto, LedgerPhase, PhaseOf
    <2>2. LedgerPhase' = [LedgerPhase EXCEPT ![o] = "gone"]
        BY <1>1, <1>4, <2>1, PhaseAfter
           DEF LookupFails, ReserveRefused, TaskSteps
    <2>3. Book!Refuse(o)
        BY <1>4, <2>1, <2>2 DEF Book!Refuse, LookupFails, ReserveRefused
    <2> QED
        BY <2>3 DEF Book!Next
<1>5. CASE PublishRaises(o)
    <2>1. LedgerPhase[o] = "standing" /\ LedgerPhase'[o] = "leaving"
        BY <1>1, <1>5 DEF PublishRaises, Goto, LedgerPhase, PhaseOf
    <2>2. LedgerPhase' = [LedgerPhase EXCEPT ![o] = "leaving"]
        BY <1>1, <1>5, <2>1, PhaseAfter DEF PublishRaises, TaskSteps
    <2>3. Book!Leave(o)
        BY <1>5, <2>1, <2>2 DEF Book!Leave, PublishRaises
    <2> QED
        BY <2>3 DEF Book!Next
<1>6. CASE RestoreUnit(o)
    <2> DEFINE after == IF held[o] = 1 THEN "gone" ELSE "leaving"
    <2>1. LedgerPhase[o] = "leaving" /\ LedgerPhase'[o] = after
        BY <1>1, <1>6 DEF RestoreUnit, Goto, LedgerPhase, PhaseOf
    <2>2. \A p \in Orders \ {o} : held'[p] = held[p]
        BY <1>1, <1>6 DEF RestoreUnit
    <2>3. LedgerPhase' = [LedgerPhase EXCEPT ![o] = after]
        BY <1>1, <1>6, <2>1, <2>2, PhaseAfter DEF RestoreUnit, TaskSteps
    <2>4. Book!GiveBack(o)
        BY <1>6, <2>1, <2>3 DEF Book!GiveBack, RestoreUnit
    <2> QED
        BY <2>4 DEF Book!Next
<1>7. CASE TaskDies(o)
    <2>1. held' = held /\ inv' = inv /\ Goto(o, "dead")
        BY <1>7 DEF TaskDies
    <2>2. LedgerPhase' = [LedgerPhase EXCEPT ![o] = LedgerPhase'[o]]
        BY <1>1, <2>1, PhaseAfter DEF TaskSteps
    <2>3. CASE pc[o] = "forget"
        <3>1. LedgerPhase'[o] = "gone" /\ LedgerPhase[o] = "gone"
            BY <1>1, <2>1, <2>3 DEF Goto, LedgerPhase, PhaseOf, TaskLink
        <3>2. LedgerPhase' = LedgerPhase
            BY <2>2, <3>1 DEF LedgerPhase
        <3> QED
            BY <2>1, <3>2, StutterStep
    <2>4. CASE pc[o] \in {"cache", "publish", "restore"}
        <3>1. held[o] # 0
            BY <1>1, <2>4 DEF TaskLink
        <3>2. /\ LedgerPhase[o] \in {"standing", "leaving"}
              /\ LedgerPhase'[o] = "stuck"
            BY <1>1, <2>1, <2>4, <3>1 DEF Goto, LedgerPhase, PhaseOf
        <3>3. Book!Abandon(o)
            BY <2>1, <2>2, <3>2 DEF Book!Abandon
        <3> QED
            BY <3>3 DEF Book!Next
    <2> QED
        BY <1>7, <2>3, <2>4 DEF TaskDies
<1>8. CASE CachePending(o) \/ Publish(o) \/ ForgetStatus(o)
    <2>1. LedgerPhase'[o] = LedgerPhase[o]
        BY <1>1, <1>8 DEF CachePending, Publish, ForgetStatus, Goto, LedgerPhase, PhaseOf
    <2>2. LedgerPhase' = [LedgerPhase EXCEPT ![o] = LedgerPhase[o]]
        BY <1>1, <1>8, <2>1, PhaseAfter
           DEF CachePending, Publish, ForgetStatus, TaskSteps
    <2>3. LedgerPhase' = LedgerPhase
        BY <2>2 DEF LedgerPhase
    <2> QED
        BY <1>8, <2>3, StutterStep DEF CachePending, Publish, ForgetStatus
<1> QED
    BY <1>3, <1>4, <1>5, <1>6, <1>7, <1>8 DEF TaskStep

\* Every step of placement is a step of the ledger or none.
LEMMA StepRefines == IInv /\ [Next]_vars => [Book!Next]_(Book!vars)
<1> SUFFICES ASSUME IInv, [Next]_vars PROVE [Book!Next]_(Book!vars)
    OBVIOUS
<1>1. TypeOK /\ DbBooksBalance
    BY DEF IInv
<1>2. ASSUME NEW o \in Orders, NEW q \in Quantities, PlaceOrder(o, q)
      PROVE  [Book!Next]_(Book!vars)
    <2>1. LedgerPhase'[o] = LedgerPhase[o]
        BY <1>1, <1>2 DEF PlaceOrder, Goto, LedgerPhase, PhaseOf, TypeOK
    <2>2. LedgerPhase' = [LedgerPhase EXCEPT ![o] = LedgerPhase[o]]
        BY <1>1, <1>2, <2>1, PhaseAfter DEF PlaceOrder, TaskSteps
    <2>3. LedgerPhase' = LedgerPhase
        BY <2>2 DEF LedgerPhase
    <2> QED
        BY <1>2, <2>3, StutterStep DEF PlaceOrder
<1>3. ASSUME NEW o \in Orders, DecrementStock(o)
      PROVE  [Book!Next]_(Book!vars)
    <2>1. pc' = pc /\ held' = held /\ inv'.max = inv.max
        BY <1>1, <1>3
           DEF DecrementStock, AfterDecrement, Booked, TypeOK, StoresTypeOK
    <2> QED
        BY <2>1, StutterStep DEF LedgerPhase
<1>4. ASSUME UNCHANGED <<pc, held, inv>> PROVE [Book!Next]_(Book!vars)
    BY <1>4, StutterStep DEF LedgerPhase
<1> QED
    BY <1>2, <1>3, <1>4, TaskRefines
       DEF Next, OrderStep, HandlerStep, vars, Deliver, InsertRow,
           InsertDuplicate, DecrementRefused, CacheConfirmed, Notified,
           NotifyRaises, HandlerRaises, HandlerDies, ExpireStatus, LoseKey

\* Placement implements the ledger: whatever fails and however tasks, handlers
\* and messages interleave, orders are admitted with all their units or none,
\* never beyond what is free, and what leaves is returned once and for good.
THEOREM PlacementImplementsLedger == Spec => ImplementsLedger
<1> QED
    BY RefinesInit, StepRefines, Invariance, PTL
       DEF Spec, ImplementsLedger, Book!Spec

=============================================================================
