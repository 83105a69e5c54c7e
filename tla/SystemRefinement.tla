-------------------------- MODULE SystemRefinement --------------------------
(***************************************************************************)
(* The proof that the undisturbed system implements Ledger.  Under the     *)
(* mapping of Book a placement task, then a row, stands for an order; each *)
(* await is one step of the ledger or none.  That an admission and an      *)
(* increase find enough free units is UnitsConserved; that a request only  *)
(* gives back what its order still owns is JobLink with RowLink.           *)
(***************************************************************************)
EXTENDS OrderSystemProofs

\* The ledger counts units as the stores do.
LEMMA SameFreeUnits == Book!Free = inv.max - Total(Owns)
BY DEF Book!Free, Book!Total, Book!Units, Book!Quantities,
       Book!Cardinality, Total, Units, Quantities, Cardinality

-----------------------------------------------------------------------------
(***************************************************************************)
(* Where each order is in its life.                                        *)
(***************************************************************************)
PhaseShape ==
    \A o \in Orders :
        /\ row[o] = NoRow => LedgerPhase[o] = Placement!PhaseOf(tpc[o], held[o])
        /\ row[o].status = "cancelled" =>
              LedgerPhase[o] = IF Owns[o] = 0 THEN "gone" ELSE "leaving"
        /\ row[o] # NoRow /\ row[o].status # "cancelled" =>
              LedgerPhase[o] = "standing"

LEMMA Phases == PhaseShape
BY DEF PhaseShape, LedgerPhase, Placement!LedgerPhase, NoRow

LEMMA SystemRefinesInit == SystemInit => Book!Init
<1> SUFFICES ASSUME SystemInit PROVE Book!Init
    OBVIOUS
<1>1. PICK m \in 0..Capacity : inv = Offered(m)
    BY DEF SystemInit, Placement!Init, Placement!Offered, Offered
<1>2. /\ row = [o \in Orders |-> NoRow]
      /\ tpc = [o \in Orders |-> "new"]
      /\ held = [o \in Orders |-> 0]
    BY DEF SystemInit, Placement!Init, Placement!NoRow, NoRow
<1>3. Owns = [o \in Orders |-> 0]
    BY <1>2 DEF Owns
<1>4. \A o \in Orders : LedgerPhase[o] = "new"
    BY <1>2, Phases DEF PhaseShape, Placement!PhaseOf
<1>5. LedgerPhase = [o \in Orders |-> LedgerPhase[o]]
    BY DEF LedgerPhase
<1>6. LedgerPhase = [o \in Orders |-> "new"]
    BY <1>4, <1>5
<1>7. inv.max \in 0..Capacity
    BY <1>1 DEF Offered
<1> QED
    BY <1>3, <1>6, <1>7 DEF Book!Init

\* A step that moves one order, in one of the ledger's ways or not at all.
LedgerMove(o) ==
    LET before == LedgerPhase[o]
        after  == LedgerPhase'[o]
        more   == Owns'[o] - Owns[o]
    IN  \/ /\ before = "new" /\ after = "standing"
           /\ Owns'[o] \in Quantities /\ Owns'[o] <= inv.max - Total(Owns)
        \/ before = "new" /\ after = "gone" /\ more = 0
        \/ /\ before = "standing" /\ after = "standing"
           /\ more = 1 /\ inv.max - Total(Owns) > 0
        \/ before = "standing" /\ after = "standing" /\ more = -1 /\ Owns[o] > 1
        \/ before = "standing" /\ after = "leaving" /\ more = 0
        \/ /\ before = "leaving" /\ more = -1
           /\ after = IF Owns[o] = 1 THEN "gone" ELSE "leaving"
        \/ before \in {"standing", "leaving"} /\ after = "stuck" /\ more = 0
        \/ before = after /\ more = 0

LEMMA MoveRefines ==
    ASSUME UnitsOwned, UnitsOwned', NEW o \in Orders, inv'.max = inv.max,
           \A p \in Orders \ {o} :
               Owns'[p] = Owns[p] /\ LedgerPhase'[p] = LedgerPhase[p],
           LedgerMove(o)
    PROVE  [Book!Next]_(Book!vars)
<1> DEFINE f == LedgerPhase
           after == LedgerPhase'[o]
           now == Owns'[o]
<1>1. /\ Owns \in [Orders -> 0..MaxQty] /\ Owns' \in [Orders -> 0..MaxQty]
      /\ Owns[o] \in Int /\ Owns'[o] \in Int
    BY MaxQtyAssumption DEF UnitsOwned
<1>2. Owns' = [Owns EXCEPT ![o] = Owns'[o]]
    BY <1>1
<1>3. LedgerPhase' = [LedgerPhase EXCEPT ![o] = LedgerPhase'[o]]
    <2>1. /\ LedgerPhase = [p \in Orders |-> LedgerPhase[p]]
          /\ LedgerPhase' = [p \in Orders |-> LedgerPhase'[p]]
        BY DEF LedgerPhase
    <2> QED
        BY <2>1
<1>4. Book!Free = inv.max - Total(Owns)
    BY SameFreeUnits
<1>5. CASE /\ LedgerPhase[o] = "new" /\ LedgerPhase'[o] = "standing"
           /\ Owns'[o] \in Quantities /\ Owns'[o] <= inv.max - Total(Owns)
    <2>1. Book!Admit(o, Owns'[o])
        BY <1>2, <1>3, <1>4, <1>5 DEF Book!Admit
    <2> QED
        BY <1>5, <2>1 DEF Book!Next, Book!Quantities, Quantities
<1>6. ASSUME Owns'[o] - Owns[o] = 0 PROVE Owns' = Owns
    BY <1>1, <1>2, <1>6
<1>7. ASSUME Owns'[o] - Owns[o] = 1 PROVE Owns' = [Owns EXCEPT ![o] = Owns[o] + 1]
    <2>1. Owns'[o] = Owns[o] + 1
        BY <1>1, <1>7
    <2> QED
        BY <1>2, <2>1
<1>8. ASSUME Owns'[o] - Owns[o] = -1 PROVE Owns' = [Owns EXCEPT ![o] = Owns[o] - 1]
    <2>1. Owns'[o] = Owns[o] - 1
        BY <1>1, <1>8
    <2> QED
        BY <1>2, <2>1
<1>9. CASE /\ LedgerPhase[o] = "new" /\ LedgerPhase'[o] = "gone"
           /\ Owns'[o] - Owns[o] = 0
    <2>1. Book!Refuse(o)
        BY <1>3, <1>6, <1>9 DEF Book!Refuse
    <2> QED
        BY <2>1 DEF Book!Next
<1>10. CASE /\ LedgerPhase[o] = "standing" /\ LedgerPhase'[o] = "standing"
            /\ Owns'[o] - Owns[o] = 1 /\ inv.max - Total(Owns) > 0
    <2>1. LedgerPhase' = LedgerPhase
        BY <1>3, <1>10 DEF LedgerPhase
    <2>2. Book!Grow(o)
        BY <1>4, <1>7, <1>10, <2>1 DEF Book!Grow
    <2> QED
        BY <2>2 DEF Book!Next
<1>11. CASE /\ LedgerPhase[o] = "standing" /\ LedgerPhase'[o] = "standing"
            /\ Owns'[o] - Owns[o] = -1 /\ Owns[o] > 1
    <2>1. LedgerPhase' = LedgerPhase
        BY <1>3, <1>11 DEF LedgerPhase
    <2>2. Book!Shrink(o)
        BY <1>8, <1>11, <2>1 DEF Book!Shrink
    <2> QED
        BY <2>2 DEF Book!Next
<1>12. CASE /\ LedgerPhase[o] = "standing" /\ LedgerPhase'[o] = "leaving"
            /\ Owns'[o] - Owns[o] = 0
    <2>1. Book!Leave(o)
        BY <1>3, <1>6, <1>12 DEF Book!Leave
    <2> QED
        BY <2>1 DEF Book!Next
<1>13. CASE /\ LedgerPhase[o] = "leaving" /\ Owns'[o] - Owns[o] = -1
            /\ LedgerPhase'[o] = IF Owns[o] = 1 THEN "gone" ELSE "leaving"
    <2>1. Book!GiveBack(o)
        BY <1>3, <1>8, <1>13 DEF Book!GiveBack
    <2> QED
        BY <2>1 DEF Book!Next
<1>14. CASE /\ LedgerPhase[o] \in {"standing", "leaving"}
            /\ LedgerPhase'[o] = "stuck" /\ Owns'[o] - Owns[o] = 0
    <2>1. Book!Abandon(o)
        BY <1>3, <1>6, <1>14 DEF Book!Abandon
    <2> QED
        BY <2>1 DEF Book!Next
<1>15. CASE LedgerPhase[o] = LedgerPhase'[o] /\ Owns'[o] - Owns[o] = 0
    <2>1. LedgerPhase' = LedgerPhase
        BY <1>3, <1>15 DEF LedgerPhase
    <2> QED
        BY <1>6, <1>15, <2>1 DEF Book!vars
<1> QED
    BY <1>5, <1>9, <1>10, <1>11, <1>12, <1>13, <1>14, <1>15 DEF LedgerMove

-----------------------------------------------------------------------------
(***************************************************************************)
(* The steps of a placement, and of a request, as moves of the ledger.     *)
(***************************************************************************)
\* A placement leaves the tasks and the rows of other orders alone.
LEMMA PlacementLocal ==
    ASSUME Placement!TypeOK, NEW o \in Orders, Placement!OrderStep(o),
           NEW p \in Orders \ {o}
    PROVE  tpc'[p] = tpc[p] /\ held'[p] = held[p] /\ row'[p] = row[p]
BY DEF Placement!OrderStep, Placement!TaskStep, Placement!HandlerStep,
       Placement!PlaceOrder, Placement!LookupFails, Placement!Reserve,
       Placement!ReserveRefused, Placement!CachePending, Placement!Publish,
       Placement!PublishRaises, Placement!RestoreUnit,
       Placement!ForgetStatus, Placement!TaskDies, Placement!Deliver,
       Placement!InsertRow, Placement!InsertDuplicate,
       Placement!DecrementStock, Placement!DecrementRefused,
       Placement!CacheConfirmed, Placement!Notified, Placement!NotifyRaises,
       Placement!HandlerRaises, Placement!HandlerDies, Placement!ExpireStatus, Placement!Requeue,
       Placement!Goto, Placement!TypeOK, Placement!StoresTypeOK

\* What the task of an order without a row does to its phase.
LEMMA TaskPhase ==
    ASSUME Placement!TypeOK, Placement!TaskLink, Placement!TypeOK',
           Placement!TaskLink', "ambiguous" \notin Faults,
           NEW o \in Orders, Placement!OrderStep(o), row'[o] = row[o]
    PROVE  LET before == Placement!PhaseOf(tpc[o], held[o])
               after  == Placement!PhaseOf(tpc'[o], held'[o])
           IN  \/ before = after /\ held'[o] = held[o]
               \/ /\ before = "new" /\ after = "standing"
                  /\ Placement!Reserve(o)
               \/ before = "new" /\ after = "gone" /\ held'[o] = held[o]
               \/ before = "standing" /\ after = "leaving" /\ held'[o] = held[o]
               \/ /\ Placement!RestoreUnit(o)
                  /\ before = "leaving" /\ held'[o] = held[o] - 1
                  /\ after = IF held[o] = 1 THEN "gone" ELSE "leaving"
               \/ /\ before \in {"standing", "leaving"} /\ after = "stuck"
                  /\ held'[o] = held[o]
<1> DEFINE before == Placement!PhaseOf(tpc[o], held[o])
           after  == Placement!PhaseOf(tpc'[o], held'[o])
<1>1. /\ tpc \in [Orders -> Placement!TaskSteps]
      /\ held \in [Orders -> 0..MaxQty] /\ qty \in [Orders -> 0..MaxQty]
      /\ MaxQty \in Nat
    BY MaxQtyAssumption DEF Placement!TypeOK
<1> USE <1>1 DEF Placement!PhaseOf, Placement!Goto, Placement!TaskSteps
<1>2. ASSUME NEW q \in Placement!Quantities, Placement!PlaceOrder(o, q)
      PROVE  before = after /\ held'[o] = held[o]
    BY <1>2 DEF Placement!PlaceOrder
<1>3. CASE Placement!LookupFails(o) \/ Placement!ReserveRefused(o)
    BY <1>3 DEF Placement!LookupFails, Placement!ReserveRefused
<1>4. CASE Placement!Reserve(o)
    BY <1>4 DEF Placement!Reserve
<1>5. CASE Placement!CachePending(o) \/ Placement!Publish(o)
    BY <1>5 DEF Placement!CachePending, Placement!Publish
<1>6. CASE Placement!PublishRaises(o)
    BY <1>6 DEF Placement!PublishRaises
<1>7. CASE Placement!RestoreUnit(o)
    <2>1. /\ tpc[o] = "restore" /\ held'[o] = held[o] - 1
          /\ tpc'[o] = IF held[o] = 1 THEN "forget" ELSE "restore"
        BY <1>7 DEF Placement!RestoreUnit
    <2> QED
        BY <1>7, <2>1
<1>8. CASE Placement!ForgetStatus(o)
    BY <1>8 DEF Placement!ForgetStatus
<1>9. CASE Placement!TaskDies(o)
    <2>1. /\ tpc[o] \in {"cache", "publish", "restore", "forget"}
          /\ tpc'[o] = "dead" /\ held'[o] = held[o]
        BY <1>9 DEF Placement!TaskDies
    <2>2. CASE tpc[o] = "forget"
        BY <2>1, <2>2 DEF Placement!TaskLink
    <2>3. CASE tpc[o] \in {"cache", "publish", "restore"}
        <3>1. held[o] # 0
            BY <2>3 DEF Placement!TaskLink
        <3> QED
            BY <2>1, <2>3, <3>1
    <2> QED
        BY <2>1, <2>2, <2>3
<1>10. CASE tpc' = tpc /\ held' = held
    BY <1>10
<1> QED
    BY <1>2, <1>3, <1>4, <1>5, <1>6, <1>7, <1>8, <1>9, <1>10
       DEF Placement!OrderStep, Placement!TaskStep, Placement!HandlerStep,
           Placement!Deliver, Placement!InsertRow, Placement!InsertDuplicate,
           Placement!DecrementStock, Placement!DecrementRefused,
           Placement!CacheConfirmed, Placement!Notified,
           Placement!NotifyRaises, Placement!HandlerRaises,
           Placement!HandlerDies,
           Placement!ExpireStatus

LEMMA PlaceMovesLedger ==
    ASSUME Undisturbed, SystemInv, SystemTypeOK', SystemLinks', OneAtATime',
           NEW o \in Orders, Place(o)
    PROVE  /\ LedgerMove(o)
           /\ \A p \in Orders \ {o} :
                  Owns'[p] = Owns[p] /\ LedgerPhase'[p] = LedgerPhase[p]
           /\ inv'.max = inv.max
<1>1. PhaseShape /\ PhaseShape'
    BY Phases, PTL
<1>2. /\ \A p \in Orders \ {o} : Owns'[p] = Owns[p]
      /\ stock' + Owns'[o] = stock + Owns[o]
      /\ inv'.max = inv.max
      /\ stock' \in Nat
      /\ \/ Owns'[o] = Owns[o]
         \/ Placement!Reserve(o) /\ Owns[o] = 0 /\ Owns'[o] = qty[o]
         \/ Placement!RestoreUnit(o) /\ Owns[o] = held[o]
                /\ Owns'[o] = held[o] - 1
    BY PlacementOwns DEF Undisturbed
<1>3. /\ Placement!TypeOK /\ Placement!TaskLink /\ Placement!HandlerLink
      /\ Placement!TypeOK' /\ Placement!TaskLink'
      /\ WrittenLink /\ stock \in Nat /\ inv.max \in Int
      /\ UnitsConserved /\ Total(Owns) \in Int
    BY TotalType
       DEF SystemInv, SystemTypeOK, SystemLinks, SerialSystemInv, StockSet,
           TypeOK, StoresTypeOK
<1>4. Placement!OrderStep(o)
    BY DEF Place
<1>5. /\ UnitsOwned /\ UnitsOwned'
      /\ Owns[o] \in 0..MaxQty /\ Owns'[o] \in 0..MaxQty /\ MaxQty \in Nat
    BY SystemInvSerial, OwnsAround, MaxQtyAssumption DEF UnitsOwned
<1>6. ASSUME NEW p \in Orders \ {o} PROVE LedgerPhase'[p] = LedgerPhase[p]
    <2>1. tpc'[p] = tpc[p] /\ held'[p] = held[p] /\ row'[p] = row[p]
        BY <1>3, <1>4, PlacementLocal
    <2>2. Owns'[p] = Owns[p]
        BY <1>2
    <2> QED
        BY <1>1, <2>1, <2>2 DEF PhaseShape
<1>7. \/ row'[o] = row[o]
      \/ /\ Placement!InsertRow(o)
         /\ row[o] = NoRow /\ row'[o] = Confirmed(qty[o])
    BY <1>3, <1>4, PlacementRows
<1>8. CASE row[o] # NoRow
    <2>1. tpc[o] = "accepted"
        BY <1>3, <1>8 DEF WrittenLink
    <2>2. Owns'[o] = Owns[o]
        BY <1>2, <2>1 DEF Placement!Reserve, Placement!RestoreUnit
    <2>3. LedgerPhase'[o] = LedgerPhase[o]
        BY <1>1, <1>7, <1>8, <2>2 DEF PhaseShape
    <2> QED
        BY <1>2, <1>5, <1>6, <2>2, <2>3 DEF LedgerMove
<1>9. CASE row[o] = NoRow /\ row'[o] # row[o]
    <2>1. Placement!InsertRow(o) /\ row'[o] = Confirmed(qty[o])
        BY <1>7, <1>9
    <2>2. tpc[o] = "accepted"
        BY <2>1 DEF Placement!InsertRow, Placement!HandlerLink,
                    Placement!CleanLink, Undisturbed, SystemInv, SystemLinks,
                    SerialSystemInv
    <2>3. Owns'[o] = Owns[o]
        BY <1>2, <2>2 DEF Placement!Reserve, Placement!RestoreUnit
    <2>4. LedgerPhase[o] = "standing"
        BY <1>1, <1>9, <2>2 DEF PhaseShape, Placement!PhaseOf
    <2>5. LedgerPhase'[o] = "standing"
        BY <1>1, <2>1 DEF PhaseShape, Confirmed, NoRow
    <2> QED
        BY <1>2, <1>5, <1>6, <2>3, <2>4, <2>5 DEF LedgerMove
<1>10. CASE row[o] = NoRow /\ row'[o] = row[o]
    <2> DEFINE before == LedgerPhase[o]
               after  == LedgerPhase'[o]
    <2>1. /\ before = Placement!PhaseOf(tpc[o], held[o])
          /\ after = Placement!PhaseOf(tpc'[o], held'[o])
        BY <1>1, <1>10 DEF PhaseShape
    <2>2. Owns[o] = held[o] /\ Owns'[o] = held'[o]
        BY <1>5, <1>10 DEF UnitsOwned
    <2>3. \/ before = after /\ held'[o] = held[o]
          \/ /\ before = "new" /\ after = "standing"
             /\ Placement!Reserve(o)
          \/ before = "new" /\ after = "gone" /\ held'[o] = held[o]
          \/ before = "standing" /\ after = "leaving" /\ held'[o] = held[o]
          \/ /\ Placement!RestoreUnit(o)
             /\ before = "leaving" /\ held'[o] = held[o] - 1
             /\ after = IF held[o] = 1 THEN "gone" ELSE "leaving"
          \/ /\ before \in {"standing", "leaving"} /\ after = "stuck"
             /\ held'[o] = held[o]
        BY <1>3, <1>4, <1>10, <2>1, TaskPhase DEF Undisturbed
    <2>4. CASE Placement!Reserve(o) /\ before = "new" /\ after = "standing"
        <3>1. qty[o] \in Quantities /\ held'[o] = qty[o]
            BY <1>3, <1>5, <2>4
               DEF Placement!Reserve, Placement!TaskLink, Placement!TypeOK,
                   Quantities
        <3>2. held[o] = 0
            BY <1>3, <2>4 DEF Placement!Reserve, Placement!TaskLink
        <3>3. stock = inv.max - Total(Owns)
            BY <1>3 DEF UnitsConserved
        <3>4. Owns'[o] <= inv.max - Total(Owns)
            BY <1>2, <1>3, <1>5, <2>2, <3>2, <3>3
        <3> QED
            BY <1>2, <1>6, <2>2, <2>4, <3>1, <3>4 DEF LedgerMove
    <2> QED
        BY <1>2, <1>5, <1>6, <2>2, <2>3, <2>4 DEF LedgerMove
<1> QED
    BY <1>7, <1>8, <1>9, <1>10

LEMMA RequestMovesLedger ==
    ASSUME Undisturbed, SystemInv, SystemTypeOK', SystemLinks', OneAtATime',
           NEW r \in Requests, RequestStep(r), UNCHANGED placement
    PROVE  /\ job[r].order \in Orders
           /\ LedgerMove(job[r].order)
           /\ \A p \in Orders \ {job[r].order} :
                  Owns'[p] = Owns[p] /\ LedgerPhase'[p] = LedgerPhase[p]
           /\ inv'.max = inv.max
<1> DEFINE j == job[r]
           o == job[r].order
           n == units[r]
<1>1. PhaseShape /\ PhaseShape'
    BY Phases, PTL
<1>2. /\ \A p \in Orders \ {o} : Owns'[p] = Owns[p]
      /\ stock' + Owns'[o] = stock + Owns[o]
      /\ inv'.max = inv.max
    BY RequestOwns DEF Undisturbed
<1>3. /\ TypeOK /\ JobLink /\ KnownRows /\ OneAtATime /\ RowLink
      /\ KnownRows' /\ stock \in Nat /\ UnitsConserved
    BY DEF SystemInv, SystemTypeOK, SystemLinks, SerialSystemInv, StockSet
<1>4. /\ Active(r)
      /\ \A p \in Orders \ {o} : row'[p] = row[p]
    BY <1>3, RequestMoves
<1>5. /\ pc[r] # "new" /\ j \in Jobs /\ LinkOf(pc[r], j, n)
      /\ j.op # "write" /\ j.op \in AllOps
      /\ o \in Orders /\ row[o] # NoRow /\ SeenOf(pc[r], j, row[o])
    BY <1>3, <1>4 DEF Active, JobLink, KnownRows, RowLink, Jobs, Undisturbed
<1>6. /\ j.seen \in 1..MaxQty /\ j.to \in 1..MaxQty /\ n \in 0..MaxQty
      /\ MaxQty \in Nat
    BY <1>3, <1>5, MaxQtyAssumption DEF Jobs, TypeOK, Quantities
<1>7. /\ UnitsOwned /\ UnitsOwned'
      /\ Owns[o] \in 0..MaxQty /\ Owns'[o] \in 0..MaxQty
    BY <1>5, SystemInvSerial, OwnsAround DEF UnitsOwned
<1>8. Owns[o] = RedisHolds(r)
    <2>1. ActiveOn(r, o)
        BY <1>4 DEF ActiveOn
    <2> QED
        BY <1>4, <1>5, <1>7, <2>1 DEF UnitsOwned, OwnsFacts
<1>9. row \in [Orders -> [status   : Statuses \cup {"absent"},
                          quantity : 0..MaxQty]]
    BY <1>3 DEF TypeOK, StoresTypeOK
<1>10. ASSUME NEW p \in Orders \ {o} PROVE LedgerPhase'[p] = LedgerPhase[p]
    <2>1. tpc'[p] = tpc[p] /\ held'[p] = held[p] /\ row'[p] = row[p]
        BY <1>4 DEF placement
    <2>2. Owns'[p] = Owns[p]
        BY <1>2
    <2> QED
        BY <1>1, <2>1, <2>2 DEF PhaseShape
<1>11. row'[o] # NoRow
    <2>1. PICK step \in Steps \ {"new", "dead"} : Goto(r, step)
        BY <1>3, RequestMoves
    <2>2. pc'[r] # "new" /\ job' = job
        BY <1>3, <2>1, RequestMoves DEF Goto, TypeOK
    <2> QED
        BY <1>3, <2>2 DEF KnownRows
\* What is left to show is the phase of o itself.
<1>12. /\ row[o].status # "cancelled" => LedgerPhase[o] = "standing"
       /\ row[o].status = "cancelled" =>
             LedgerPhase[o] = IF Owns[o] = 0 THEN "gone" ELSE "leaving"
       /\ row'[o].status # "cancelled" => LedgerPhase'[o] = "standing"
       /\ row'[o].status = "cancelled" =>
             LedgerPhase'[o] = IF Owns'[o] = 0 THEN "gone" ELSE "leaving"
    BY <1>1, <1>5, <1>11 DEF PhaseShape
<1>13. stock = inv.max - Total(Owns)
    <2>1. inv.max \in Int /\ Total(Owns) \in Int
        BY <1>3, TotalType DEF TypeOK, StoresTypeOK
    <2> QED
        BY <1>3, <2>1 DEF UnitsConserved
<1>14. stock # NoKey
    BY <1>3, NoKeyAssumption
<1> SUFFICES LedgerMove(o)
    BY <1>2, <1>5, <1>10
<1> HIDE DEF o, j, n
<1>15. CASE SetCancelled(r)
    <2>1. /\ pc[r] = "set_cancelled" /\ stock' = stock
          /\ row'[o].status = "cancelled"
        BY <1>5, <1>9, <1>15 DEF SetCancelled, o
    <2>2. row[o].status # "cancelled"
        BY <1>5, <2>1 DEF LinkOf, SeenOf
    <2>3. Owns[o] = j.seen
        BY <1>8, <2>1 DEF RedisHolds, j
    <2>4. Owns'[o] = Owns[o] /\ Owns'[o] # 0
        BY <1>2, <1>3, <1>6, <1>7, <2>1, <2>3
    <2> QED
        BY <1>7, <1>12, <2>1, <2>2, <2>4 DEF LedgerMove
<1>16. ASSUME stock' = stock,
              row'[o].status = "cancelled" <=> row[o].status = "cancelled"
       PROVE  LedgerMove(o)
    <2>1. Owns'[o] = Owns[o]
        BY <1>2, <1>3, <1>7, <1>16
    <2>2. LedgerPhase'[o] = LedgerPhase[o]
        BY <1>12, <1>16, <2>1
    <2> QED
        BY <1>7, <2>1, <2>2 DEF LedgerMove
<1>17. CASE SetStatus(r)
    <2>1. /\ pc[r] = "set_status" /\ stock' = stock
          /\ row'[o].status = j.status
        BY <1>5, <1>9, <1>17 DEF SetStatus, o, j
    <2>2. j.op = "complete" /\ j.status = "completed"
        BY <1>5, <2>1 DEF LinkOf
    <2>3. row[o].status # "cancelled"
        BY <1>5, <2>2 DEF SeenOf
    <2> QED
        BY <1>16, <2>1, <2>2, <2>3
<1>18. CASE WriteQuantity(r)
    <2>1. stock' = stock /\ row'[o].status = row[o].status
        BY <1>5, <1>9, <1>18 DEF WriteQuantity, o
    <2> QED
        BY <1>16, <2>1
<1>19. CASE RestoreUnit(r)
    <2>1. /\ pc[r] = "restore" /\ stock' = stock + 1 /\ row' = row /\ n > 0
        BY <1>14, <1>19 DEF RestoreUnit, AfterIncr, n
    <2>2. Owns'[o] = Owns[o] - 1
        BY <1>2, <1>3, <1>7, <2>1
    <2>3. CASE j.op = "cancel"
        <3>1. row[o].status = "cancelled"
            BY <1>5, <2>1, <2>3 DEF SeenOf
        <3>2. Owns[o] = n
            BY <1>6, <1>8, <2>1, <2>3 DEF RedisHolds, j, n
        <3>3. /\ LedgerPhase[o] = "leaving"
              /\ LedgerPhase'[o] = IF Owns[o] = 1 THEN "gone" ELSE "leaving"
            BY <1>6, <1>7, <1>12, <2>1, <2>2, <3>1, <3>2
        <3> QED
            BY <1>7, <2>2, <3>3 DEF LedgerMove
    <2>4. CASE j.op # "cancel"
        <3>1. j.op = "quantity"
            BY <1>5, <2>1, <2>4 DEF LinkOf, Lowers
        <3>2. row[o].status # "cancelled"
            BY <1>5, <3>1 DEF SeenOf
        <3>3. Owns[o] = j.to + n
            BY <1>8, <2>1, <2>4 DEF RedisHolds, j, n
        <3>4. Owns[o] > 1
            BY <1>6, <2>1, <3>3
        <3> QED
            BY <1>7, <1>12, <2>1, <2>2, <3>2, <3>4 DEF LedgerMove
    <2> QED
        BY <2>3, <2>4
<1>20. CASE TakeUnit(r)
    <2>1. /\ pc[r] = "take" /\ stock > 0 /\ stock' = stock - 1 /\ row' = row
        BY <1>3, <1>14, <1>20 DEF TakeUnit, DecrReply
    <2>2. j.op = "quantity"
        BY <1>5, <2>1 DEF LinkOf, Raises
    <2>3. row[o].status # "cancelled"
        BY <1>5, <2>2 DEF SeenOf
    <2>4. Owns'[o] = Owns[o] + 1
        BY <1>2, <1>3, <1>7, <2>1
    <2> QED
        BY <1>7, <1>12, <1>13, <2>1, <2>3, <2>4 DEF LedgerMove
<1>21. CASE RollbackUnit(r)
    <2>1. /\ pc[r] = "rollback" /\ stock' = stock + 1 /\ row' = row /\ n > 0
        BY <1>14, <1>21 DEF RollbackUnit, AfterIncr, n
    <2>2. j.op = "quantity"
        BY <1>5, <2>1 DEF LinkOf, Raises
    <2>3. row[o].status # "cancelled"
        BY <1>5, <2>2 DEF SeenOf
    <2>4. Owns[o] = j.seen + n
        BY <1>8, <2>1 DEF RedisHolds, j, n
    <2>5. Owns'[o] = Owns[o] - 1 /\ Owns[o] > 1
        BY <1>2, <1>3, <1>6, <1>7, <2>1, <2>4
    <2> QED
        BY <1>7, <1>12, <2>1, <2>3, <2>5 DEF LedgerMove
<1>22. CASE stock' = stock /\ row' = row
    BY <1>16, <1>22
<1> QED
    BY <1>15, <1>17, <1>18, <1>19, <1>20, <1>21, <1>22
       DEF RequestStep, Increment, CacheStatus, TakeRefused, Decrement,
           DecrementRefused


-----------------------------------------------------------------------------
LEMMA SystemRefinesStep ==
    ASSUME Undisturbed
    PROVE  SystemInv /\ [SystemNext]_systemVars => [Book!Next]_(Book!vars)
<1> SUFFICES ASSUME SystemInv, [SystemNext]_systemVars
             PROVE  [Book!Next]_(Book!vars)
    OBVIOUS
<1>1. SystemTypeOK' /\ SystemLinks' /\ OneAtATime'
    BY SystemInvStep DEF SystemInv, SerialSystemInv
<1>2. UnitsOwned /\ UnitsOwned'
    BY <1>1, SystemInvSerial, OwnsAround
<1>3. PhaseShape /\ PhaseShape'
    BY Phases, PTL
<1>4. ASSUME NEW o \in Orders, Place(o) PROVE [Book!Next]_(Book!vars)
    <2>1. /\ LedgerMove(o) /\ inv'.max = inv.max
          /\ \A p \in Orders \ {o} :
                 Owns'[p] = Owns[p] /\ LedgerPhase'[p] = LedgerPhase[p]
        BY <1>1, <1>4, PlaceMovesLedger
    <2> QED
        BY <1>2, <2>1, MoveRefines
<1>5. ASSUME NEW r \in Requests, GoOn(r) PROVE [Book!Next]_(Book!vars)
    <2>1. RequestStep(r) /\ UNCHANGED placement
        BY <1>5 DEF GoOn, Dies, Undisturbed
    <2>2. /\ job[r].order \in Orders /\ inv'.max = inv.max
          /\ LedgerMove(job[r].order)
          /\ \A p \in Orders \ {job[r].order} :
                 Owns'[p] = Owns[p] /\ LedgerPhase'[p] = LedgerPhase[p]
        BY <1>1, <2>1, RequestMovesLedger
    <2> QED
        BY <1>2, <2>2, MoveRefines
\* A load, like a step of nobody, is a stutter of the ledger.
<1>6. ASSUME UNCHANGED <<row, inv, placement>>,
             \A p \in Orders : Owns'[p] = Owns[p]
      PROVE  [Book!Next]_(Book!vars)
    <2>1. Owns' = Owns
        BY <1>2, <1>6 DEF UnitsOwned
    <2>2. \A p \in Orders : LedgerPhase'[p] = LedgerPhase[p]
        BY <1>3, <1>6 DEF PhaseShape, placement
    <2>3. LedgerPhase' = LedgerPhase
        <3>1. /\ LedgerPhase = [p \in Orders |-> LedgerPhase[p]]
              /\ LedgerPhase' = [p \in Orders |-> LedgerPhase'[p]]
            BY DEF LedgerPhase
        <3> QED
            BY <2>2, <3>1
    <2> QED
        BY <1>6, <2>1, <2>3 DEF Book!vars
<1>7. ASSUME NEW r \in Requests, NEW o \in Orders, ChangeOrder(r, o)
      PROVE  [Book!Next]_(Book!vars)
    <2>1. Load(r, o) /\ UNCHANGED placement
        BY <1>7 DEF ChangeOrder
    <2>2. /\ \A p \in Orders : Owns'[p] = Owns[p]
          /\ row' = row /\ inv' = inv
        BY <1>1, <2>1, SystemInvSerial, LoadOwns DEF Undisturbed
    <2> QED
        BY <1>6, <2>1, <2>2
<1>8. CASE UNCHANGED systemVars
    <2>1. UNCHANGED <<row, inv, placement, pc, job, units>>
        BY <1>8 DEF systemVars, stores, changes
    <2>2. Owns' = Owns
        BY <2>1 DEF Owns, RedisOwns, Held, RedisHolds, ActiveOn, Active,
                    LiveQuantity, placement
    <2> QED
        BY <1>6, <2>1, <2>2
<1> QED
    BY <1>4, <1>5, <1>7, <1>8
       DEF SystemNext, Undisturbed, LoseKey, Placement!LoseKey

\* The whole path of an order, from the request that places it over the
\* message and its row to its cancellation or a change of its quantity, with
\* tasks and handlers dying and messages coming again at any await, implements
\* Ledger: admitted with all its units or none, from what is free; changed
\* unit by unit; and once it left, returning each unit once and owning none
\* again.
THEOREM SystemImplementsLedger ==
    ASSUME Undisturbed
    PROVE  SystemSpec => ImplementsLedger
<1>1. SystemInv /\ [SystemNext]_systemVars => [Book!Next]_(Book!vars)
    BY SystemRefinesStep
<1> QED
    BY <1>1, SystemRefinesInit, SystemInvHolds, PTL
       DEF SystemSpec, ImplementsLedger, Book!Spec

=============================================================================
