------------------------- MODULE OrderChangesProofs -------------------------
(***************************************************************************)
(* Proofs about OrderChanges, for any number of orders, requests and       *)
(* units.  Types, the program counters' links and the law of               *)
(* daily_inventory hold however requests overlap; the rest assumes that    *)
(* requests for one order do not, as the runs do.                          *)
(***************************************************************************)
EXTENDS OrderChanges, StoresProofs

\* What a job moves, by what it does.
LEMMA Amounts ==
    ASSUME NEW j \in Jobs
    PROVE  /\ j.order \in Orders /\ j.status \in Statuses
           /\ j.seen \in 1..MaxQty /\ j.to \in 1..MaxQty
           /\ Difference(j) \in 0..MaxQty
           /\ Amount(j) \in 0..MaxQty
           /\ j.op = "cancel" => Amount(j) = j.seen
           /\ Raises(j) => Amount(j) = j.to - j.seen /\ Amount(j) > 0
           /\ Lowers(j) => Amount(j) = j.seen - j.to /\ Amount(j) > 0
BY MaxQtyAssumption DEF Jobs, Quantities, Difference, Amount, Raises, Lowers

-----------------------------------------------------------------------------
(***************************************************************************)
(* Types, and what each await says about its job.                          *)
(***************************************************************************)
LEMMA TypeInit == Init => TypeOK /\ JobLink /\ StockSet
<1> SUFFICES ASSUME Init PROVE TypeOK /\ JobLink /\ StockSet
    OBVIOUS
<1>1. PICK m \in 0..Capacity, f \in [Orders -> 0..MaxQty] :
          /\ Total(f) <= m
          /\ row = [o \in Orders |-> IF f[o] = 0 THEN NoRow ELSE Confirmed(f[o])]
          /\ inv = [max |-> m, sold |-> Total(f), remaining |-> m - Total(f)]
          /\ stock = m - Total(f)
          /\ cache = [o \in Orders |-> IF f[o] = 0 THEN "none" ELSE "confirmed"]
    BY DEF Init
<1>2. Total(f) \in Nat /\ m \in Nat
    BY <1>1, TotalType, CapacityAssumption
<1>3. StoresTypeOK
    <2>1. stock \in Int /\ inv \in [max : Nat, sold : Nat, remaining : Int]
        BY <1>1, <1>2
    <2>2. cache \in [Orders -> Statuses \cup {"none"}]
        BY <1>1 DEF Statuses
    <2>3. row \in [Orders -> [status   : Statuses \cup {"absent"},
                              quantity : 0..MaxQty]]
        BY <1>1, MaxQtyAssumption DEF Statuses, NoRow, Confirmed
    <2> QED
        BY <2>1, <2>2, <2>3 DEF StoresTypeOK
<1>4. StockSet
    BY <1>1, <1>2 DEF StockSet
<1> QED
    BY <1>3, <1>4, MaxQtyAssumption DEF Init, Idle, TypeOK, JobLink, Steps

\* A request that moves on with a counter that fits keeps the links.
LEMMA LinkAfter ==
    ASSUME TypeOK, JobLink, NEW r \in Requests, NEW step \in Steps \ {"new"}, NEW n,
           Goto(r, step), units' = [units EXCEPT ![r] = n], job' = job,
           pc[r] # "new", n \in 0..MaxQty, LinkOf(step, job[r], n)
    PROVE  /\ JobLink'
           /\ pc' \in [Requests -> Steps]
           /\ job' \in [Requests -> Jobs \cup {NoJob}]
           /\ units' \in [Requests -> 0..MaxQty]
<1>1. /\ pc' \in [Requests -> Steps]
      /\ job' \in [Requests -> Jobs \cup {NoJob}]
      /\ units' \in [Requests -> 0..MaxQty]
    BY DEF TypeOK, Goto
<1>2. ASSUME NEW s \in Requests
      PROVE  /\ pc'[s] = "new" => job'[s] = NoJob
             /\ pc'[s] # "new" =>
                    job'[s] \in Jobs /\ LinkOf(pc'[s], job'[s], units'[s])
    <2>1. CASE s = r
        BY <2>1, <1>1 DEF TypeOK, Goto, JobLink
    <2>2. CASE s # r
        BY <2>2, <1>1, <1>2 DEF TypeOK, Goto, JobLink
    <2> QED
        BY <2>1, <2>2
<1> QED
    BY <1>1, <1>2 DEF JobLink

\* One step of a request, action by action.
LEMMA RequestTypes ==
    ASSUME TypeOK, JobLink, NEW r \in Requests, RequestStep(r)
    PROVE  TypeOK' /\ JobLink'
<1> DEFINE j == job[r]
<1>1. pc[r] # "new" /\ j \in Jobs /\ LinkOf(pc[r], j, units[r])
    BY DEF RequestStep, SetCancelled, SetStatus, RestoreUnit, Increment,
           CacheStatus, TakeUnit, TakeRefused, Decrement, DecrementRefused,
           RollbackUnit, WriteQuantity, JobLink
<1>2. /\ j.order \in Orders /\ j.status \in Statuses
      /\ j.seen \in 1..MaxQty /\ j.to \in 1..MaxQty
      /\ Amount(j) \in 0..MaxQty
      /\ j.op = "cancel" => Amount(j) = j.seen
      /\ Raises(j) => Amount(j) > 0
      /\ Lowers(j) => Amount(j) > 0
    BY <1>1, Amounts
<1>3. units[r] \in 0..MaxQty /\ MaxQty \in Nat /\ StoresTypeOK
    BY MaxQtyAssumption DEF TypeOK
<1>4. units' = [units EXCEPT ![r] = units'[r]] /\ job' = job
    BY DEF RequestStep, SetCancelled, SetStatus, RestoreUnit, Increment,
           CacheStatus, TakeUnit, TakeRefused, Decrement, DecrementRefused,
           RollbackUnit, WriteQuantity, TypeOK, Count
<1>5. ASSUME NEW step \in Steps \ {"new"}, Goto(r, step), units'[r] \in 0..MaxQty,
             LinkOf(step, j, units'[r]), StoresTypeOK'
      PROVE  TypeOK' /\ JobLink'
    BY <1>1, <1>4, <1>5, LinkAfter DEF TypeOK
<1> HIDE DEF j
<1>6. CASE SetCancelled(r)
    <2>1. StoresTypeOK' /\ units'[r] = j.seen
        BY <1>2, <1>3, <1>6
           DEF SetCancelled, StoresTypeOK, Count, TypeOK, Statuses, j
    <2>2. LinkOf("restore", j, units'[r])
        BY <1>1, <1>2, <1>6, <2>1 DEF SetCancelled, LinkOf
    <2> QED
        BY <1>2, <1>5, <1>6, <2>1, <2>2 DEF SetCancelled, Steps
<1>7. CASE SetStatus(r)
    <2>1. StoresTypeOK' /\ units'[r] = units[r]
        BY <1>2, <1>3, <1>7 DEF SetStatus, StoresTypeOK, j
    <2>2. LinkOf("cache_status", j, units'[r])
        BY <1>1, <1>7, <2>1 DEF SetStatus, LinkOf
    <2> QED
        BY <1>3, <1>5, <1>7, <2>1, <2>2 DEF SetStatus, Steps
<1>8. CASE RestoreUnit(r)
    <2> DEFINE next == IF units[r] = 1 THEN "increment" ELSE "restore"
    <2>1. /\ StoresTypeOK'
          /\ units'[r] = units[r] - 1 /\ units[r] > 0
        BY <1>3, <1>8, NoKeyAssumption
           DEF RestoreUnit, AfterIncr, Count, TypeOK, StoresTypeOK
    <2>2. LinkOf(next, j, units'[r])
        BY <1>1, <1>2, <1>3, <1>8, <2>1 DEF RestoreUnit, LinkOf
    <2> QED
        BY <1>3, <1>5, <1>8, <2>1, <2>2 DEF RestoreUnit, Steps
<1>9. CASE Increment(r)
    <2> DEFINE next == IF j.op = "cancel" THEN "cache_status" ELSE "write"
    <2>1. StoresTypeOK' /\ units'[r] = units[r]
        BY <1>2, <1>3, <1>9
           DEF Increment, AfterIncrement, Booked, Greatest, StoresTypeOK, j
    <2>2. LinkOf(next, j, units'[r])
        BY <1>1, <1>9, <2>1 DEF Increment, LinkOf, Lowers
    <2> QED
        BY <1>3, <1>5, <1>9, <2>1, <2>2 DEF Increment, Steps, j
<1>10. CASE CacheStatus(r)
    <2>1. StoresTypeOK' /\ units'[r] = units[r]
        BY <1>2, <1>3, <1>10 DEF CacheStatus, StoresTypeOK, j
    <2>2. LinkOf("done", j, units'[r])
        BY <1>1, <2>1 DEF LinkOf
    <2> QED
        BY <1>3, <1>5, <1>10, <2>1, <2>2 DEF CacheStatus, Steps
<1>11. CASE TakeUnit(r)
    <2> DEFINE next == IF units[r] + 1 = Amount(j) THEN "decrement" ELSE "take"
    <2>1. /\ StoresTypeOK'
          /\ units'[r] = units[r] + 1 /\ units[r] < Amount(j)
        BY <1>1, <1>3, <1>11
           DEF TakeUnit, DecrReply, Count, TypeOK, StoresTypeOK, LinkOf
    <2>2. LinkOf(next, j, units'[r])
        BY <1>1, <1>2, <1>3, <1>11, <2>1 DEF TakeUnit, LinkOf
    <2> QED
        BY <1>2, <1>3, <1>5, <1>11, <2>1, <2>2 DEF TakeUnit, Steps, j
<1>12. CASE TakeRefused(r)
    <2> DEFINE next == IF units[r] = 0 THEN "done" ELSE "rollback"
    <2>1. StoresTypeOK' /\ units'[r] = units[r]
        BY <1>3, <1>12 DEF TakeRefused, StoresTypeOK
    <2>2. LinkOf(next, j, units'[r])
        BY <1>1, <1>2, <1>3, <1>12, <2>1 DEF TakeRefused, LinkOf
    <2> QED
        BY <1>3, <1>5, <1>12, <2>1, <2>2 DEF TakeRefused, Steps
<1>13. CASE Decrement(r)
    <2>1. StoresTypeOK' /\ units'[r] = units[r]
        BY <1>2, <1>3, <1>13
           DEF Decrement, AfterDecrement, Booked, Greatest, StoresTypeOK, j
    <2>2. LinkOf("write", j, units'[r])
        BY <1>1, <1>13, <2>1 DEF Decrement, LinkOf
    <2> QED
        BY <1>3, <1>5, <1>13, <2>1, <2>2 DEF Decrement, Steps
<1>14. CASE DecrementRefused(r)
    <2>1. StoresTypeOK' /\ units'[r] = units[r]
        BY <1>3, <1>14 DEF DecrementRefused, StoresTypeOK
    <2>2. LinkOf("rollback", j, units'[r])
        BY <1>1, <1>2, <1>3, <1>14, <2>1 DEF DecrementRefused, LinkOf
    <2> QED
        BY <1>3, <1>5, <1>14, <2>1, <2>2 DEF DecrementRefused, Steps
<1>15. CASE RollbackUnit(r)
    <2> DEFINE next == IF units[r] = 1 THEN "done" ELSE "rollback"
    <2>1. /\ StoresTypeOK'
          /\ units'[r] = units[r] - 1 /\ units[r] > 0
        BY <1>3, <1>15, NoKeyAssumption
           DEF RollbackUnit, AfterIncr, Count, TypeOK, StoresTypeOK
    <2>2. LinkOf(next, j, units'[r])
        BY <1>1, <1>2, <1>3, <1>15, <2>1 DEF RollbackUnit, LinkOf
    <2> QED
        BY <1>3, <1>5, <1>15, <2>1, <2>2 DEF RollbackUnit, Steps
<1>16. CASE WriteQuantity(r)
    <2>1. StoresTypeOK' /\ units'[r] = units[r]
        BY <1>2, <1>3, <1>16 DEF WriteQuantity, StoresTypeOK, j
    <2>2. LinkOf("done", j, units'[r])
        BY <1>1, <2>1 DEF LinkOf
    <2> QED
        BY <1>3, <1>5, <1>16, <2>1, <2>2 DEF WriteQuantity, Steps
<1> QED
    BY <1>6, <1>7, <1>8, <1>9, <1>10, <1>11, <1>12, <1>13, <1>14, <1>15, <1>16
       DEF RequestStep

\* A request that loads its row starts with a job that fits its first await.
LEMMA LoadTypes ==
    ASSUME TypeOK, JobLink, NEW r \in Requests, NEW o \in Orders,
           Load(r, o)
    PROVE  TypeOK' /\ JobLink'
<1>1. PICK j \in JobsOn(o) :
          /\ job' = [job EXCEPT ![r] = j]
          /\ Goto(r, FirstStep(j))
          /\ Count(r, IF FirstStep(j) = "restore" THEN Difference(j) ELSE 0)
    BY DEF Load
<1> DEFINE n == IF FirstStep(j) = "restore" THEN Difference(j) ELSE 0
<1>2. j \in Jobs /\ j.op \in AllOps
    BY DEF JobsOn, Jobs
<1>3. n \in 0..MaxQty /\ FirstStep(j) \in Steps \ {"new"}
    BY <1>2, Amounts, MaxQtyAssumption DEF FirstStep, AllOps, Steps
<1>4. LinkOf(FirstStep(j), j, n)
    <2>1. /\ j.op = "cancel" => j.status = "cancelled"
          /\ j.op = "complete" => j.status = "completed"
          /\ j.op = "quantity" => j.to # j.seen
        BY DEF JobsOn
    <2>2. /\ j.seen \in Int /\ j.to \in Int /\ Amount(j) \in Int
          /\ Difference(j) \in Int
          /\ Raises(j) => Amount(j) > 0
          /\ Lowers(j) => Amount(j) > 0 /\ Amount(j) = Difference(j)
        BY <1>2, Amounts, MaxQtyAssumption DEF Amount, Lowers
    <2>3. CASE Raises(j)
        BY <2>1, <2>2, <2>3 DEF LinkOf, FirstStep, Raises
    <2>4. CASE Lowers(j)
        BY <2>1, <2>2, <2>4 DEF LinkOf, FirstStep, Lowers
    <2>5. CASE j.op \in {"cancel", "complete", "write"}
        BY <2>1, <2>5 DEF LinkOf, FirstStep
    <2> QED
        BY <1>2, <2>1, <2>2, <2>3, <2>4, <2>5 DEF AllOps, Raises, Lowers
<1>5. /\ pc' \in [Requests -> Steps]
      /\ job' \in [Requests -> Jobs \cup {NoJob}]
      /\ units' \in [Requests -> 0..MaxQty]
    BY <1>1, <1>2, <1>3 DEF TypeOK, Goto, Count
<1>6. StoresTypeOK'
    BY DEF Load, stores, TypeOK, StoresTypeOK
<1>7. ASSUME NEW s \in Requests
      PROVE  /\ pc'[s] = "new" => job'[s] = NoJob
             /\ pc'[s] # "new" =>
                    job'[s] \in Jobs /\ LinkOf(pc'[s], job'[s], units'[s])
    <2>1. CASE s = r
        BY <1>1, <1>2, <1>3, <1>4, <2>1 DEF TypeOK, Goto, Count
    <2>2. CASE s # r
        BY <1>1, <1>7, <2>2 DEF TypeOK, Goto, Count, JobLink
    <2> QED
        BY <2>1, <2>2
<1> QED
    BY <1>5, <1>6, <1>7 DEF TypeOK, JobLink

\* What is in the counter stays at least nothing.
LEMMA RequestStock ==
    ASSUME StockSet, NEW r \in Requests, RequestStep(r)
    PROVE  StockSet'
<1>1. CASE RestoreUnit(r) \/ RollbackUnit(r)
    BY <1>1, NoKeyAssumption DEF RestoreUnit, RollbackUnit, AfterIncr, StockSet
<1>2. CASE TakeUnit(r)
    BY <1>2, NoKeyAssumption DEF TakeUnit, DecrReply, StockSet
<1>3. CASE stock' = stock
    BY <1>3 DEF StockSet
<1> QED
    BY <1>1, <1>2, <1>3
       DEF RequestStep, SetCancelled, SetStatus, Increment, CacheStatus,
           TakeRefused, Decrement, DecrementRefused, WriteQuantity

\* A request that dies leaves everything but its program counter.
LEMMA DeathTypes ==
    ASSUME TypeOK, JobLink, NEW r \in Requests, Dies(r)
    PROVE  TypeOK' /\ JobLink'
<1>1. StoresTypeOK' /\ pc[r] # "new"
    BY DEF Dies, TypeOK, StoresTypeOK, Active
<1>2. LinkOf("dead", job[r], units[r])
    BY <1>1 DEF JobLink, LinkOf
<1>3. units[r] \in 0..MaxQty /\ units' = [units EXCEPT ![r] = units[r]]
    BY DEF Dies, TypeOK
<1> QED
    BY <1>1, <1>2, <1>3, LinkAfter DEF Dies, TypeOK, Steps

LEMMA TypeStep ==
    TypeOK /\ JobLink /\ StockSet /\ [Next]_vars => TypeOK' /\ JobLink' /\ StockSet'
<1> SUFFICES ASSUME TypeOK, JobLink, StockSet, [Next]_vars
             PROVE  TypeOK' /\ JobLink' /\ StockSet'
    OBVIOUS
<1>1. ASSUME NEW r \in Requests, Dies(r) PROVE TypeOK' /\ JobLink' /\ StockSet'
    BY <1>1, DeathTypes DEF Dies, StockSet
<1>2. ASSUME NEW o \in Orders, ExpireStatus(o)
      PROVE  TypeOK' /\ JobLink' /\ StockSet'
    BY <1>2 DEF ExpireStatus, TypeOK, StoresTypeOK, JobLink, StockSet
<1>3. CASE UNCHANGED vars
    BY <1>3 DEF vars, TypeOK, StoresTypeOK, JobLink, StockSet
<1> QED
    BY <1>1, <1>2, <1>3, LoadTypes, RequestTypes, RequestStock
       DEF Next, Load, stores, StockSet

-----------------------------------------------------------------------------
(***************************************************************************)
(* daily_inventory keeps its law.                                          *)
(***************************************************************************)
LEMMA BooksInit == Init => DbBooksBalance
<1> SUFFICES ASSUME Init PROVE DbBooksBalance
    OBVIOUS
<1>1. PICK m \in 0..Capacity, f \in [Orders -> 0..MaxQty] :
          /\ Total(f) <= m
          /\ inv = [max |-> m, sold |-> Total(f), remaining |-> m - Total(f)]
    BY DEF Init
<1>2. Total(f) \in Nat /\ m \in Nat
    BY <1>1, TotalType, CapacityAssumption
<1> QED
    BY <1>1, <1>2 DEF DbBooksBalance

LEMMA BooksStep ==
    TypeOK /\ JobLink /\ DbBooksBalance /\ [Next]_vars => DbBooksBalance'
<1> SUFFICES ASSUME TypeOK, JobLink, DbBooksBalance, [Next]_vars
             PROVE  DbBooksBalance'
    OBVIOUS
<1>1. inv.max \in Nat /\ inv.sold \in Nat /\ inv.remaining \in Int
    BY DEF TypeOK, StoresTypeOK
<1>2. ASSUME NEW r \in Requests, pc[r] # "new" PROVE Amount(job[r]) \in Nat
    BY <1>2, Amounts, MaxQtyAssumption DEF JobLink
<1>3. ASSUME NEW r \in Requests, Increment(r) PROVE DbBooksBalance'
    BY <1>1, <1>2, <1>3
       DEF Increment, AfterIncrement, Booked, Greatest, DbBooksBalance
<1>4. ASSUME NEW r \in Requests, Decrement(r) PROVE DbBooksBalance'
    BY <1>1, <1>2, <1>4
       DEF Decrement, CanDecrement, AfterDecrement, Booked, Greatest,
           DbBooksBalance
<1>5. CASE UNCHANGED inv
    BY <1>5 DEF DbBooksBalance
<1> QED
    BY <1>3, <1>4, <1>5
       DEF Next, RequestStep, vars, stores, Load, SetCancelled, SetStatus,
           RestoreUnit, CacheStatus, TakeUnit, TakeRefused, DecrementRefused,
           RollbackUnit, WriteQuantity, Dies, ExpireStatus

-----------------------------------------------------------------------------
(***************************************************************************)
(* One request at a time for an order: what it knows of its row stays true *)
(* until it has finished.                                                  *)
(***************************************************************************)
LEMMA SerialInit == Init => OneAtATime /\ RowLink
BY DEF Init, Idle, OneAtATime, RowLink, Active, NoRow, Confirmed

\* A request that moves on, and touches the row of its order only.
LEMMA SerialAfter ==
    ASSUME TypeOK, JobLink, OneAtATime, RowLink,
           NEW r \in Requests, Active(r),
           NEW step \in Steps, Goto(r, step), job' = job,
           \A p \in Orders \ {job[r].order} : row'[p] = row[p],
           row'[job[r].order].status # "absent",
           \/ step \in {"done", "dead"}
           \/ SeenOf(step, job[r], row'[job[r].order])
    PROVE  OneAtATime' /\ RowLink'
<1>1. \A s \in Requests : Active(s)' => Active(s)
    BY DEF Active, Goto, TypeOK
<1>2. OneAtATime'
    BY <1>1 DEF OneAtATime
<1>3. \A o \in Orders : row'[o].status = "absent" => row'[o] = NoRow
    BY DEF RowLink
<1>4. ASSUME NEW s \in Requests, Active(s)'
      PROVE  SeenOf(pc'[s], job'[s], row'[job'[s].order])
    <2>1. CASE s = r
        BY <1>4, <2>1 DEF Active, Goto, TypeOK
    <2>2. CASE s # r
        <3>1. Active(s) /\ pc'[s] = pc[s]
            BY <1>1, <1>4, <2>2 DEF Goto, TypeOK
        <3>2. job[s].order # job[r].order
            BY <2>2, <3>1 DEF OneAtATime
        <3>3. row'[job[s].order] = row[job[s].order]
            <4>1. job[s] \in Jobs
                BY <3>1 DEF JobLink, Active
            <4> QED
                BY <3>2, <4>1 DEF Jobs
        <3> QED
            BY <3>1, <3>3 DEF RowLink
    <2> QED
        BY <2>1, <2>2
<1> QED
    BY <1>2, <1>3, <1>4 DEF RowLink

\* What the row of a request in flight was, and that it is there.
LEMMA ActiveFacts ==
    ASSUME TypeOK, JobLink, RowLink, NEW r \in Requests, Active(r)
    PROVE  /\ job[r] \in Jobs /\ job[r].order \in Orders
           /\ job[r].op \in AllOps
           /\ LinkOf(pc[r], job[r], units[r])
           /\ SeenOf(pc[r], job[r], row[job[r].order])
BY DEF Active, JobLink, RowLink, Jobs

LEMMA SerialRequest ==
    ASSUME TypeOK, JobLink, OneAtATime, RowLink,
           NEW r \in Requests, RequestStep(r)
    PROVE  OneAtATime' /\ RowLink'
<1> DEFINE j == job[r]
           o == job[r].order
<1>1. Active(r)
    BY DEF RequestStep, SetCancelled, SetStatus, RestoreUnit, Increment,
           CacheStatus, TakeUnit, TakeRefused, Decrement, DecrementRefused,
           RollbackUnit, WriteQuantity, Active
<1>2. /\ j \in Jobs /\ o \in Orders /\ j.op \in AllOps /\ j.status \in Statuses
      /\ LinkOf(pc[r], j, units[r]) /\ SeenOf(pc[r], j, row[o])
    BY <1>1, ActiveFacts, Amounts
<1>3. row \in [Orders -> [status   : Statuses \cup {"absent"},
                          quantity : 0..MaxQty]]
    BY DEF TypeOK, StoresTypeOK
<1>4. row[o].status # "absent"
    BY <1>2 DEF SeenOf
<1>5. CASE SetCancelled(r)
    <2>1. /\ row'[o] = [row[o] EXCEPT !.status = "cancelled"]
          /\ \A p \in Orders \ {o} : row'[p] = row[p]
        BY <1>2, <1>3, <1>5 DEF SetCancelled
    <2>2. row'[o].status = "cancelled" /\ row'[o].quantity = row[o].quantity
        BY <1>2, <1>3, <2>1
    <2>3. SeenOf("restore", j, row'[o])
        BY <1>2, <1>5, <2>2 DEF SetCancelled, LinkOf, SeenOf
    <2> QED
        BY <1>1, <1>5, <2>1, <2>2, <2>3, SerialAfter DEF SetCancelled, Steps
<1>6. CASE SetStatus(r)
    <2>1. /\ row'[o] = [row[o] EXCEPT !.status = j.status]
          /\ \A p \in Orders \ {o} : row'[p] = row[p]
        BY <1>2, <1>3, <1>6 DEF SetStatus
    <2>2. row'[o].status = j.status /\ row'[o].quantity = row[o].quantity
        BY <1>2, <1>3, <2>1
    <2>3. j.status # "absent"
        BY <1>2 DEF Statuses
    <2>4. SeenOf("cache_status", j, row'[o])
        BY <1>2, <1>6, <2>2, <2>3 DEF SetStatus, LinkOf, SeenOf
    <2> QED
        BY <1>1, <1>6, <2>1, <2>2, <2>3, <2>4, SerialAfter DEF SetStatus, Steps
<1>7. CASE WriteQuantity(r)
    <2>1. /\ row'[o] = [row[o] EXCEPT !.quantity = j.to]
          /\ \A p \in Orders \ {o} : row'[p] = row[p]
        BY <1>2, <1>3, <1>7 DEF WriteQuantity
    <2>2. row'[o].status = row[o].status
        BY <1>2, <1>3, <2>1
    <2> QED
        BY <1>1, <1>4, <1>7, <2>1, <2>2, SerialAfter DEF WriteQuantity, Steps
<1>8. ASSUME UNCHANGED <<row, job>>, NEW step \in Steps, Goto(r, step),
             \/ step = "done"
             \/ /\ step \notin {"set_cancelled", "cache_status"}
                /\ pc[r] # "set_cancelled"
             \/ /\ step = "cache_status"
                /\ pc[r] = "increment" /\ j.op = "cancel"
      PROVE  OneAtATime' /\ RowLink'
    <2>1. step = "done" \/ SeenOf(step, j, row[o])
        BY <1>2, <1>8 DEF SeenOf, LinkOf
    <2> QED
        BY <1>1, <1>4, <1>8, <2>1, SerialAfter
<1>9. CASE Increment(r)
    BY <1>8, <1>9 DEF Increment, Steps
<1>10. CASE RestoreUnit(r)
    BY <1>8, <1>10 DEF RestoreUnit, Steps
<1>11. CASE CacheStatus(r)
    BY <1>8, <1>11 DEF CacheStatus, Steps
<1>12. CASE TakeUnit(r) \/ TakeRefused(r)
    BY <1>8, <1>12 DEF TakeUnit, TakeRefused, Steps
<1>13. CASE Decrement(r) \/ DecrementRefused(r)
    BY <1>8, <1>13 DEF Decrement, DecrementRefused, Steps
<1>14. CASE RollbackUnit(r)
    BY <1>8, <1>14 DEF RollbackUnit, Steps
<1> QED
    BY <1>5, <1>6, <1>7, <1>9, <1>10, <1>11, <1>12, <1>13, <1>14
       DEF RequestStep

\* Loading: no other request is under way for the order, and the job knows
\* the row as it is.
LEMMA SerialLoad ==
    ASSUME ~Overlap, TypeOK, JobLink, OneAtATime, RowLink,
           NEW r \in Requests, NEW o \in Orders, Load(r, o)
    PROVE  OneAtATime' /\ RowLink'
<1>1. PICK j \in JobsOn(o) :
          /\ Allowed(j.op, row[o].status)
          /\ job' = [job EXCEPT ![r] = j]
          /\ Goto(r, FirstStep(j))
    BY DEF Load
<1>2. /\ j \in Jobs /\ j.order = o /\ j.seen = row[o].quantity
      /\ j.op \in AllOps
    BY DEF JobsOn, Jobs
<1>3. row' = row /\ row[o] # NoRow /\ \A s \in Requests : ~ActiveOn(s, o)
    BY DEF Load, stores
<1>4. /\ pc'[r] = FirstStep(j) /\ job'[r] = j
      /\ \A s \in Requests \ {r} : pc'[s] = pc[s] /\ job'[s] = job[s]
    BY <1>1 DEF TypeOK, Goto
<1>5. \A s \in Requests \ {r} : Active(s)' => Active(s) /\ job'[s].order # o
    BY <1>3, <1>4 DEF Active, ActiveOn
<1>6. OneAtATime'
    <2> SUFFICES ASSUME NEW s \in Requests, NEW t \in Requests,
                        Active(s)', Active(t)', job'[s].order = job'[t].order
                 PROVE  s = t
        BY DEF OneAtATime
    <2>1. CASE s = r \/ t = r
        BY <1>2, <1>4, <1>5, <2>1
    <2>2. CASE s # r /\ t # r
        BY <1>4, <1>5, <2>2 DEF OneAtATime
    <2> QED
        BY <2>1, <2>2
<1>7. row[o].status # "absent"
    BY <1>3 DEF RowLink
<1>8. SeenOf(FirstStep(j), j, row[o])
    <2>1. FirstStep(j) # "cache_status"
        BY <1>2 DEF FirstStep, AllOps
    <2>2. j.op = "cancel" =>
              FirstStep(j) = "set_cancelled" /\ row[o].status # "cancelled"
        BY <1>1 DEF FirstStep, Allowed
    <2>3. j.op \in {"complete", "quantity"} => row[o].status # "cancelled"
        BY <1>1 DEF Allowed
    <2> QED
        BY <1>2, <1>7, <2>1, <2>2, <2>3 DEF SeenOf
<1>9. ASSUME NEW s \in Requests, Active(s)'
      PROVE  SeenOf(pc'[s], job'[s], row'[job'[s].order])
    <2>1. CASE s = r
        BY <1>2, <1>3, <1>4, <1>8, <2>1
    <2>2. CASE s # r
        BY <1>3, <1>4, <1>5, <1>9, <2>2 DEF RowLink
    <2> QED
        BY <2>1, <2>2
<1> QED
    BY <1>3, <1>6, <1>9 DEF RowLink

LEMMA SerialStep ==
    ASSUME ~Overlap
    PROVE  TypeOK /\ JobLink /\ OneAtATime /\ RowLink /\ [Next]_vars
               => OneAtATime' /\ RowLink'
<1> SUFFICES ASSUME TypeOK, JobLink, OneAtATime, RowLink, [Next]_vars
             PROVE  OneAtATime' /\ RowLink'
    OBVIOUS
<1>1. ASSUME NEW r \in Requests, Dies(r) PROVE OneAtATime' /\ RowLink'
    <2>1. row[job[r].order].status # "absent"
        BY <1>1, ActiveFacts DEF Dies, SeenOf
    <2> QED
        BY <1>1, <2>1, SerialAfter DEF Dies, Steps
<1>2. CASE UNCHANGED <<row, pc, job>>
    BY <1>2 DEF OneAtATime, RowLink, Active
<1> QED
    BY <1>1, <1>2, SerialLoad, SerialRequest DEF Next, vars, ExpireStatus

-----------------------------------------------------------------------------
(***************************************************************************)
(* What the stores hold for each order.                                    *)
(***************************************************************************)
OwnsFacts ==
    /\ RedisOwns \in [Orders -> 0..MaxQty]
    /\ DbOwns \in [Orders -> 0..MaxQty]
    /\ LiveQuantity \in [Orders -> 0..MaxQty]
    /\ \A r \in Requests :
          Active(r) => /\ RedisOwns[job[r].order] = RedisHolds(r)
                       /\ DbOwns[job[r].order] = DbHolds(r)
    /\ \A o \in Orders :
          (\A r \in Requests : ~ActiveOn(r, o)) =>
              RedisOwns[o] = LiveQuantity[o] /\ DbOwns[o] = LiveQuantity[o]

LEMMA Holdings == TypeOK /\ JobLink /\ OneAtATime => OwnsFacts
<1> SUFFICES ASSUME TypeOK, JobLink, OneAtATime PROVE OwnsFacts
    OBVIOUS
<1>1. LiveQuantity \in [Orders -> 0..MaxQty]
    BY MaxQtyAssumption DEF LiveQuantity, TypeOK, StoresTypeOK
<1>2. ASSUME NEW r \in Requests, Active(r)
      PROVE  /\ RedisHolds(r) \in 0..MaxQty /\ DbHolds(r) \in 0..MaxQty
             /\ job[r].order \in Orders
    <2>1. job[r] \in Jobs /\ LinkOf(pc[r], job[r], units[r])
        BY <1>2 DEF Active, JobLink
    <2>2. /\ job[r].seen \in 1..MaxQty /\ job[r].to \in 1..MaxQty
          /\ job[r].order \in Orders
          /\ job[r].op = "cancel" => Amount(job[r]) = job[r].seen
          /\ Raises(job[r]) => Amount(job[r]) = job[r].to - job[r].seen
          /\ Lowers(job[r]) => Amount(job[r]) = job[r].seen - job[r].to
        BY <2>1, Amounts
    <2>3. units[r] \in 0..MaxQty /\ MaxQty \in Nat
        BY MaxQtyAssumption DEF TypeOK
    <2>4. RedisHolds(r) \in 0..MaxQty
        <3>1. CASE pc[r] \in {"take", "decrement", "rollback"}
            BY <2>1, <2>2, <2>3, <3>1 DEF RedisHolds, LinkOf
        <3>2. CASE pc[r] = "restore"
            BY <2>1, <2>2, <2>3, <3>2 DEF RedisHolds, LinkOf, Lowers
        <3>3. CASE pc[r] \notin {"take", "decrement", "rollback", "restore"}
            BY <2>2, <2>3, <3>3 DEF RedisHolds
        <3> QED
            BY <3>1, <3>2, <3>3
    <2>5. DbHolds(r) \in 0..MaxQty
        BY <2>2, <2>3 DEF DbHolds
    <2> QED
        BY <2>2, <2>4, <2>5
<1>3. ASSUME NEW o \in Orders, NEW r \in Requests, ActiveOn(r, o)
      PROVE  RedisOwns[o] = RedisHolds(r) /\ DbOwns[o] = DbHolds(r)
    <2>1. (CHOOSE s \in Requests : ActiveOn(s, o)) = r
        <3>1. \A s \in Requests : ActiveOn(s, o) => s = r
            BY <1>3 DEF ActiveOn, OneAtATime
        <3> QED
            BY <1>3, <3>1
    <2> QED
        BY <1>3, <2>1 DEF RedisOwns, DbOwns, Held
<1>4. ASSUME NEW o \in Orders, \A r \in Requests : ~ActiveOn(r, o)
      PROVE  RedisOwns[o] = LiveQuantity[o] /\ DbOwns[o] = LiveQuantity[o]
    BY <1>4 DEF RedisOwns, DbOwns, Held
<1>5. \A o \in Orders : RedisOwns[o] \in 0..MaxQty /\ DbOwns[o] \in 0..MaxQty
    BY <1>1, <1>2, <1>3, <1>4 DEF ActiveOn
<1>6. /\ RedisOwns = [o \in Orders |-> RedisOwns[o]]
      /\ DbOwns = [o \in Orders |-> DbOwns[o]]
    BY DEF RedisOwns, DbOwns, Held
<1>7. \A r \in Requests :
          Active(r) => /\ RedisOwns[job[r].order] = RedisHolds(r)
                       /\ DbOwns[job[r].order] = DbHolds(r)
    BY <1>2, <1>3 DEF ActiveOn
<1>8. RedisOwns \in [Orders -> 0..MaxQty] /\ DbOwns \in [Orders -> 0..MaxQty]
    <2> HIDE DEF RedisOwns, DbOwns
    <2> QED
        BY <1>5, <1>6
<1> QED
    BY <1>1, <1>4, <1>7, <1>8 DEF OwnsFacts

\* What the stores hold for an order does not depend on a request that is not
\* for it.
LEMMA OthersKeep ==
    ASSUME OwnsFacts, OwnsFacts', NEW r \in Requests, NEW p \in Orders,
           \A s \in Requests \ {r} :
               pc'[s] = pc[s] /\ job'[s] = job[s] /\ units'[s] = units[s],
           row'[p] = row[p], ~ActiveOn(r, p), ~ActiveOn(r, p)'
    PROVE  RedisOwns'[p] = RedisOwns[p] /\ DbOwns'[p] = DbOwns[p]
<1>1. CASE \E s \in Requests : ActiveOn(s, p)
    <2>1. PICK s \in Requests : ActiveOn(s, p)
        BY <1>1
    <2>2. /\ pc'[s] = pc[s] /\ job'[s] = job[s] /\ units'[s] = units[s]
          /\ Active(s) /\ Active(s)' /\ job[s].order = p
        BY <2>1 DEF ActiveOn, Active
    <2>3. RedisOwns[p] = RedisHolds(s) /\ DbOwns[p] = DbHolds(s)
        BY <2>2 DEF OwnsFacts
    <2>4. RedisOwns'[p] = RedisHolds(s)' /\ DbOwns'[p] = DbHolds(s)'
        BY <2>2 DEF OwnsFacts
    <2>5. RedisHolds(s)' = RedisHolds(s) /\ DbHolds(s)' = DbHolds(s)
        BY <2>2 DEF RedisHolds, DbHolds
    <2> QED
        BY <2>3, <2>4, <2>5
<1>2. CASE \A s \in Requests : ~ActiveOn(s, p)
    <2>1. \A s \in Requests : ~ActiveOn(s, p)'
        BY <1>2 DEF ActiveOn, Active
    <2>2. LiveQuantity'[p] = LiveQuantity[p]
        BY DEF LiveQuantity
    <2>3. /\ RedisOwns[p] = LiveQuantity[p] /\ DbOwns[p] = LiveQuantity[p]
          /\ RedisOwns'[p] = LiveQuantity'[p] /\ DbOwns'[p] = LiveQuantity'[p]
        BY <1>2, <2>1 DEF OwnsFacts
    <2> QED
        BY <2>2, <2>3
<1> QED
    BY <1>1, <1>2

\* The units a request holds for its order when it has gone on.
HoldsAfter(r) == IF Active(r) THEN RedisHolds(r) ELSE LiveQuantity[job[r].order]

DbAfter(r) == IF Active(r) THEN DbHolds(r) ELSE LiveQuantity[job[r].order]

\* A step of a request changes what it holds itself and nothing else ...
LEMMA OwnsAfter ==
    ASSUME TypeOK, JobLink, OneAtATime, OwnsFacts, OwnsFacts', OneAtATime',
           NEW r \in Requests, Active(r), NEW step \in Steps, Goto(r, step),
           job' = job, \A s \in Requests \ {r} : units'[s] = units[s],
           \A p \in Orders \ {job[r].order} : row'[p] = row[p]
    PROVE  /\ RedisOwns[job[r].order] = RedisHolds(r)
           /\ DbOwns[job[r].order] = DbHolds(r)
           /\ RedisOwns'[job[r].order] = HoldsAfter(r)'
           /\ DbOwns'[job[r].order] = DbAfter(r)'
           /\ \A p \in Orders \ {job[r].order} :
                  RedisOwns'[p] = RedisOwns[p] /\ DbOwns'[p] = DbOwns[p]
<1> DEFINE o == job[r].order
<1>1. o \in Orders /\ RedisOwns[o] = RedisHolds(r) /\ DbOwns[o] = DbHolds(r)
    BY DEF OwnsFacts, Active, JobLink, Jobs
<1>2. \A s \in Requests \ {r} : pc'[s] = pc[s] /\ job'[s] = job[s]
    BY DEF Goto, TypeOK
<1>3. \A p \in Orders \ {o} : RedisOwns'[p] = RedisOwns[p] /\ DbOwns'[p] = DbOwns[p]
    BY <1>2, OthersKeep DEF ActiveOn
<1>4. RedisOwns'[o] = HoldsAfter(r)' /\ DbOwns'[o] = DbAfter(r)'
    <2>1. CASE Active(r)'
        BY <2>1 DEF OwnsFacts, HoldsAfter, DbAfter
    <2>2. CASE ~Active(r)'
        <3>1. \A s \in Requests : Active(s)' => Active(s) /\ s # r
            BY <1>2, <2>2 DEF Active
        <3>2. \A s \in Requests : ~ActiveOn(s, o)'
            BY <3>1 DEF ActiveOn, OneAtATime
        <3> QED
            BY <1>1, <2>2, <3>2 DEF OwnsFacts, HoldsAfter, DbAfter
    <2> QED
        BY <2>1, <2>2
<1> QED
    BY <1>1, <1>3, <1>4

\* ... so the sums change by what the request changed.
LEMMA TotalsAfter ==
    ASSUME TypeOK, JobLink, OneAtATime, OwnsFacts, OwnsFacts', OneAtATime',
           NEW r \in Requests, Active(r), NEW step \in Steps, Goto(r, step),
           job' = job, \A s \in Requests \ {r} : units'[s] = units[s],
           \A p \in Orders \ {job[r].order} : row'[p] = row[p]
    PROVE  /\ Total(RedisOwns') =
                  Total(RedisOwns) - RedisHolds(r) + HoldsAfter(r)'
           /\ Total(DbOwns') = Total(DbOwns) - DbHolds(r) + DbAfter(r)'
           /\ RedisHolds(r) \in Nat /\ HoldsAfter(r)' \in Nat
           /\ DbHolds(r) \in Nat /\ DbAfter(r)' \in Nat
           /\ DbHolds(r) <= Total(DbOwns)
<1> DEFINE o == job[r].order
<1>1. o \in Orders
    BY DEF Active, JobLink, Jobs
<1>2. /\ RedisOwns[o] = RedisHolds(r) /\ RedisOwns'[o] = HoldsAfter(r)'
      /\ DbOwns[o] = DbHolds(r) /\ DbOwns'[o] = DbAfter(r)'
      /\ \A p \in Orders \ {o} : RedisOwns'[p] = RedisOwns[p] /\ DbOwns'[p] = DbOwns[p]
    BY OwnsAfter
<1>3. /\ RedisOwns[o] \in Nat /\ RedisOwns'[o] \in Nat
      /\ DbOwns[o] \in Nat /\ DbOwns'[o] \in Nat
    BY <1>1, MaxQtyAssumption DEF OwnsFacts
<1>4. DbOwns[o] <= Total(DbOwns)
    BY <1>1, TotalAtLeast DEF OwnsFacts
<1>5. /\ Total(RedisOwns') = Total(RedisOwns) - RedisOwns[o] + RedisOwns'[o]
      /\ Total(DbOwns') = Total(DbOwns) - DbOwns[o] + DbOwns'[o]
    BY <1>1, <1>2, TotalChange DEF OwnsFacts
<1> QED
    BY <1>2, <1>3, <1>4, <1>5

\* The counter, if it is set, counts.
StockCounts == stock # NoKey => stock \in Nat

LEMMA RequestCounts ==
    ASSUME StockCounts, NEW r \in Requests, RequestStep(r)
    PROVE  StockCounts'
<1>1. CASE RestoreUnit(r) \/ RollbackUnit(r)
    BY <1>1, NoKeyAssumption DEF RestoreUnit, RollbackUnit, AfterIncr, StockCounts
<1>2. CASE TakeUnit(r)
    BY <1>2, NoKeyAssumption DEF TakeUnit, DecrReply, StockCounts
<1>3. CASE stock' = stock
    BY <1>3 DEF StockCounts
<1> QED
    BY <1>1, <1>2, <1>3
       DEF RequestStep, SetCancelled, SetStatus, Increment, CacheStatus,
           TakeRefused, Decrement, DecrementRefused, WriteQuantity

\* Each step of a request moves units between a store and the request, and
\* makes none and loses none: only a counter that is not set, which drops what
\* it is given, and an increment that PostgreSQL would clamp at zero could.
LEMMA MovesUnits ==
    ASSUME TypeOK, JobLink, StockCounts, RowLink,
           NEW r \in Requests, job[r].op # "write", RequestStep(r)
    PROVE  /\ stock # NoKey =>
                  stock' # NoKey /\ stock' + HoldsAfter(r)' = stock + RedisHolds(r)
           /\ stock = NoKey =>
                  stock' = NoKey /\ HoldsAfter(r)' <= RedisHolds(r)
           /\ inv'.max = inv.max
           /\ inv'.sold - DbAfter(r)' >= inv.sold - DbHolds(r)
           /\ DbHolds(r) <= inv.sold =>
                  inv'.sold - DbAfter(r)' = inv.sold - DbHolds(r)
<1> DEFINE j == job[r]
           o == job[r].order
<1>1. Active(r)
    BY DEF RequestStep, SetCancelled, SetStatus, RestoreUnit, Increment,
           CacheStatus, TakeUnit, TakeRefused, Decrement, DecrementRefused,
           RollbackUnit, WriteQuantity, Active
<1>2. /\ j \in Jobs /\ o \in Orders /\ j.op \in {"cancel", "complete", "quantity"}
      /\ LinkOf(pc[r], j, units[r]) /\ SeenOf(pc[r], j, row[o])
    BY <1>1, ActiveFacts DEF AllOps
<1>3. /\ j.seen \in Nat /\ j.to \in Nat /\ Amount(j) \in Nat
      /\ j.op = "cancel" => Amount(j) = j.seen
      /\ Raises(j) => Amount(j) = j.to - j.seen
      /\ Lowers(j) => Amount(j) = j.seen - j.to
    BY <1>2, Amounts, MaxQtyAssumption
<1>4. /\ stock # NoKey => stock \in Nat
      /\ units[r] \in Nat
      /\ inv.sold \in Nat /\ inv.max \in Nat /\ inv.remaining \in Int
      /\ pc \in [Requests -> Steps]
      /\ row \in [Orders -> [status   : Statuses \cup {"absent"},
                             quantity : 0..MaxQty]]
      /\ units \in [Requests -> 0..MaxQty]
    BY MaxQtyAssumption DEF StockCounts, TypeOK, StoresTypeOK
<1>5. \A n \in Int : n # NoKey
    BY NoKeyAssumption
<1>6. CASE SetCancelled(r)
    <2>1. j.op = "cancel" /\ RedisHolds(r) = j.seen /\ DbHolds(r) = j.seen
        BY <1>2, <1>6 DEF SetCancelled, LinkOf, RedisHolds, DbHolds
    <2>2. /\ Active(r)' /\ pc'[r] = "restore" /\ job' = job
          /\ units'[r] = j.seen /\ stock' = stock /\ inv' = inv
        BY <1>4, <1>6 DEF SetCancelled, Goto, Count, Active
    <2>3. RedisHolds(r)' = j.seen /\ DbHolds(r)' = j.seen
        BY <1>3, <2>1, <2>2 DEF RedisHolds, DbHolds
    <2> QED
        BY <1>3, <1>4, <2>1, <2>2, <2>3 DEF HoldsAfter, DbAfter
<1>7. CASE SetStatus(r)
    <2>1. j.op = "complete" /\ RedisHolds(r) = j.seen /\ DbHolds(r) = j.seen
        BY <1>2, <1>7 DEF SetStatus, LinkOf, RedisHolds, DbHolds
    <2>2. /\ Active(r)' /\ pc'[r] = "cache_status" /\ job' = job
          /\ stock' = stock /\ inv' = inv
        BY <1>4, <1>7 DEF SetStatus, Goto, Active
    <2>3. RedisHolds(r)' = j.seen /\ DbHolds(r)' = j.seen
        BY <2>1, <2>2 DEF RedisHolds, DbHolds
    <2> QED
        BY <1>3, <1>4, <2>1, <2>2, <2>3 DEF HoldsAfter, DbAfter
<1>8. CASE RestoreUnit(r)
    <2> DEFINE kept == IF j.op = "cancel" THEN 0 ELSE j.to
    <2>1. /\ pc[r] = "restore" /\ j.op \in {"cancel", "quantity"}
          /\ RedisHolds(r) = kept + units[r] /\ DbHolds(r) = j.seen
        BY <1>2, <1>8
           DEF RestoreUnit, LinkOf, Lowers, RedisHolds, DbHolds
    <2>2. /\ Active(r)' /\ job' = job /\ units[r] > 0
          /\ pc'[r] = IF units[r] = 1 THEN "increment" ELSE "restore"
          /\ units'[r] = units[r] - 1 /\ stock' = AfterIncr /\ inv' = inv
        BY <1>4, <1>8 DEF RestoreUnit, Goto, Count, Active
    <2>3. RedisHolds(r)' = kept + units[r] - 1 /\ DbHolds(r)' = j.seen
        BY <1>3, <1>4, <2>1, <2>2 DEF RedisHolds, DbHolds
    <2> QED
        BY <1>3, <1>4, <1>5, <2>1, <2>2, <2>3 DEF HoldsAfter, DbAfter, AfterIncr
<1>9. CASE Increment(r)
    <2>1. /\ Active(r)' /\ job' = job /\ stock' = stock
          /\ inv'.max = inv.max
          /\ inv'.sold = Greatest(inv.sold - Amount(j), 0)
        BY <1>4, <1>9
           DEF Increment, Goto, Active, AfterIncrement, Booked
    <2>2. ASSUME NEW kept \in Nat, RedisHolds(r) = kept, DbHolds(r) = j.seen,
                 RedisHolds(r)' = kept, DbHolds(r)' = kept,
                 Amount(j) = j.seen - kept
          PROVE  /\ stock' = stock /\ HoldsAfter(r)' = RedisHolds(r)
                 /\ HoldsAfter(r)' <= RedisHolds(r)
                 /\ inv'.max = inv.max
                 /\ inv'.sold - DbAfter(r)' >= inv.sold - DbHolds(r)
                 /\ DbHolds(r) <= inv.sold =>
                        inv'.sold - DbAfter(r)' = inv.sold - DbHolds(r)
        BY <1>3, <1>4, <2>1, <2>2 DEF HoldsAfter, DbAfter, Greatest
    <2>3. CASE j.op = "cancel"
        <3>1. pc'[r] = "cache_status" /\ pc[r] = "increment" /\ job'[r].op = "cancel"
            BY <1>4, <1>9, <2>1, <2>3 DEF Increment, Goto
        <3> QED
            BY <1>3, <2>1, <2>2, <2>3, <3>1 DEF RedisHolds, DbHolds
    <2>4. CASE Lowers(j)
        <3>1. pc'[r] = "write" /\ pc[r] = "increment" /\ j.op = "quantity"
            BY <1>4, <1>9, <2>4 DEF Increment, Goto, Lowers
        <3> QED
            BY <1>3, <2>1, <2>2, <2>4, <3>1 DEF RedisHolds, DbHolds
    <2> QED
        BY <1>2, <1>9, <2>3, <2>4 DEF Increment, LinkOf
<1>10. CASE CacheStatus(r)
    <2>1. /\ j.op \in {"cancel", "complete"}
          /\ RedisHolds(r) = IF j.op = "cancel" THEN 0 ELSE j.seen
          /\ DbHolds(r) = RedisHolds(r)
        BY <1>2, <1>10 DEF CacheStatus, LinkOf, RedisHolds, DbHolds
    <2>2. ~Active(r)' /\ job' = job /\ row' = row /\ stock' = stock /\ inv' = inv
        BY <1>4, <1>10 DEF CacheStatus, Goto, Active
    <2>3. LiveQuantity'[o] = RedisHolds(r)
        BY <1>2, <1>10, <2>1, <2>2 DEF CacheStatus, LiveQuantity, SeenOf, LinkOf
    <2> QED
        BY <1>3, <1>4, <2>1, <2>2, <2>3 DEF HoldsAfter, DbAfter
<1>11. CASE TakeUnit(r)
    <2>1. RedisHolds(r) = j.seen + units[r] /\ DbHolds(r) = j.seen
        BY <1>11 DEF TakeUnit, RedisHolds, DbHolds
    <2>2. /\ stock # NoKey /\ stock \in Nat /\ stock' = stock - 1
          /\ stock' # NoKey
        <3>1. stock # NoKey /\ stock \in Nat
            BY <1>4, <1>11 DEF TakeUnit, DecrReply
        <3>2. stock' = stock - 1 /\ stock - 1 \in Int
            BY <1>11, <3>1 DEF TakeUnit, DecrReply
        <3> QED
            BY <1>5, <3>1, <3>2
    <2>3. /\ Active(r)' /\ job' = job /\ pc'[r] \in {"take", "decrement"}
          /\ units'[r] = units[r] + 1 /\ inv' = inv
        BY <1>4, <1>11 DEF TakeUnit, Goto, Count, Active
    <2>4. RedisHolds(r)' = j.seen + units[r] + 1 /\ DbHolds(r)' = j.seen
        <3>1. RedisHolds(r)' = j.seen + units'[r] /\ DbHolds(r)' = j.seen
            BY <2>3 DEF RedisHolds, DbHolds
        <3>2. units[r] \in Nat /\ j.seen \in Nat
            BY <1>3, <1>4
        <3> QED
            BY <2>3, <3>1, <3>2
    <2> QED
        BY <1>3, <1>4, <2>1, <2>2, <2>3, <2>4 DEF HoldsAfter, DbAfter
<1>12. CASE TakeRefused(r) \/ DecrementRefused(r) \/ RollbackUnit(r)
    <2>1. /\ j.op = "quantity"
          /\ RedisHolds(r) = j.seen + units[r] /\ DbHolds(r) = j.seen
        BY <1>2, <1>12
           DEF TakeRefused, DecrementRefused, RollbackUnit, LinkOf, Raises,
               RedisHolds, DbHolds
    <2>2. /\ job' = job /\ row' = row /\ inv' = inv
          /\ \/ stock' = stock /\ units'[r] = units[r]
             \/ stock' = AfterIncr /\ units'[r] = units[r] - 1
          /\ \/ pc'[r] = "rollback"
             \/ pc'[r] = "done" /\ units'[r] = 0
        BY <1>2, <1>3, <1>4, <1>12
           DEF TakeRefused, DecrementRefused, RollbackUnit, Goto, Count, LinkOf
    <2>3. HoldsAfter(r)' = j.seen + units'[r] /\ DbAfter(r)' = j.seen
        <3>1. CASE pc'[r] = "rollback"
            BY <2>2, <3>1 DEF Active, HoldsAfter, DbAfter, RedisHolds, DbHolds
        <3>2. CASE pc'[r] = "done" /\ units'[r] = 0
            <4>1. ~Active(r)' /\ LiveQuantity'[o] = j.seen
                BY <1>2, <2>1, <2>2, <3>2 DEF Active, LiveQuantity, SeenOf
            <4> QED
                BY <1>3, <2>2, <3>2, <4>1 DEF HoldsAfter, DbAfter
        <3> QED
            BY <2>2, <3>1, <3>2
    <2>4. CASE stock' = stock /\ units'[r] = units[r]
        BY <1>3, <1>4, <2>1, <2>2, <2>3, <2>4
    <2>5. CASE stock' = AfterIncr /\ units'[r] = units[r] - 1
        <3>1. stock = NoKey => stock' = NoKey
            BY <2>5 DEF AfterIncr
        <3>2. stock # NoKey => stock' = stock + 1 /\ stock' \in Int
            BY <1>4, <2>5 DEF AfterIncr
        <3> QED
            BY <1>3, <1>4, <1>5, <2>1, <2>2, <2>3, <2>5, <3>1, <3>2
    <2> QED
        BY <2>2, <2>4, <2>5
<1>13. CASE Decrement(r)
    <2>1. /\ RedisHolds(r) = j.to /\ DbHolds(r) = j.seen
          /\ Raises(j) /\ j.op = "quantity"
        BY <1>2, <1>3, <1>13
           DEF Decrement, LinkOf, Raises, RedisHolds, DbHolds
    <2>2. /\ Active(r)' /\ pc'[r] = "write" /\ job' = job /\ stock' = stock
          /\ inv' = AfterDecrement(Amount(j))
        BY <1>4, <1>13 DEF Decrement, Goto, Active
    <2>3. RedisHolds(r)' = j.to /\ DbHolds(r)' = j.to
        BY <2>1, <2>2 DEF RedisHolds, DbHolds
    <2>4. inv'.max = inv.max /\ inv'.sold = inv.sold + Amount(j)
        BY <2>2 DEF AfterDecrement, Booked
    <2> QED
        BY <1>3, <1>4, <2>1, <2>2, <2>3, <2>4 DEF HoldsAfter, DbAfter
<1>14. CASE WriteQuantity(r)
    <2>1. /\ RedisHolds(r) = j.to /\ DbHolds(r) = j.to /\ j.op = "quantity"
        BY <1>2, <1>14
           DEF WriteQuantity, LinkOf, Raises, Lowers, RedisHolds, DbHolds
    <2>2. /\ ~Active(r)' /\ job' = job /\ stock' = stock /\ inv' = inv
          /\ row'[o].quantity = j.to /\ row'[o].status = row[o].status
        BY <1>2, <1>4, <1>14 DEF WriteQuantity, Goto, Active
    <2>3. LiveQuantity'[o] = j.to
        BY <1>2, <2>1, <2>2 DEF LiveQuantity, SeenOf
    <2> QED
        BY <1>3, <1>4, <2>1, <2>2, <2>3 DEF HoldsAfter, DbAfter
<1> QED
    BY <1>6, <1>7, <1>8, <1>9, <1>10, <1>11, <1>12, <1>13, <1>14
       DEF RequestStep

\* A death leaves the order no more than it had in either store, unless its
\* units were being taken away before the row says so.
LEMMA DeathHolds ==
    ASSUME TypeOK, JobLink, RowLink, NEW r \in Requests, Dies(r),
           job[r].op # "write", ~Lowers(job[r]),
           RedisHolds(r) \in Nat, DbHolds(r) \in Nat
    PROVE  HoldsAfter(r)' <= RedisHolds(r) /\ DbAfter(r)' <= DbHolds(r)
<1> DEFINE j == job[r]
<1>1. /\ Active(r) /\ ~Active(r)'
      /\ UNCHANGED <<stock, row, inv, job, units>>
    BY DEF Dies, Active, Goto, TypeOK
<1>2. /\ j \in Jobs /\ j.op \in {"cancel", "complete", "quantity"}
      /\ LinkOf(pc[r], j, units[r])
      /\ SeenOf(pc[r], j, row[j.order])
    BY <1>1, ActiveFacts DEF AllOps
<1>3. j.seen \in Nat /\ j.to \in Nat /\ units[r] \in Nat
    BY <1>2, MaxQtyAssumption DEF TypeOK, Jobs, Quantities
<1>4. HoldsAfter(r)' = LiveQuantity[j.order] /\ DbAfter(r)' = HoldsAfter(r)'
    BY <1>1, <1>2 DEF HoldsAfter, DbAfter, LiveQuantity, Jobs
<1>5. CASE j.op = "cancel" /\ pc[r] # "set_cancelled"
    <2>1. LiveQuantity[j.order] = 0
        BY <1>2, <1>5 DEF LiveQuantity, SeenOf, Jobs
    <2> QED
        BY <1>4, <2>1
<1>6. CASE j.op = "cancel" /\ pc[r] = "set_cancelled"
    BY <1>2, <1>3, <1>4, <1>6
       DEF LiveQuantity, SeenOf, RedisHolds, DbHolds, Jobs
<1>7. CASE j.op = "complete"
    <2>1. pc[r] \in {"set_status", "cache_status"}
        BY <1>1, <1>2, <1>7
           DEF LinkOf, Lowers, Raises, Active, TypeOK, Steps
    <2> QED
        BY <1>2, <1>3, <1>4, <1>7, <2>1
           DEF LiveQuantity, SeenOf, RedisHolds, DbHolds, Jobs
<1>8. CASE j.op = "quantity"
    <2>1. /\ pc[r] \in {"take", "decrement", "rollback", "write"}
          /\ j.to > j.seen
        BY <1>1, <1>2, <1>8
           DEF LinkOf, Lowers, Raises, Active, TypeOK, Steps
    <2>2. LiveQuantity[j.order] = j.seen
        BY <1>2, <1>8 DEF LiveQuantity, SeenOf, Jobs
    <2> QED
        BY <1>3, <1>4, <1>8, <2>1, <2>2 DEF RedisHolds, DbHolds
<1> QED
    BY <1>2, <1>5, <1>6, <1>7, <1>8

LEMMA LedgerInit == Init => InFlightLedger /\ NeverTooMany
<1> SUFFICES ASSUME Init PROVE InFlightLedger /\ NeverTooMany
    OBVIOUS
<1>1. PICK m \in 0..Capacity, f \in [Orders -> 0..MaxQty] :
          /\ Total(f) <= m
          /\ row = [o \in Orders |-> IF f[o] = 0 THEN NoRow ELSE Confirmed(f[o])]
          /\ inv = [max |-> m, sold |-> Total(f), remaining |-> m - Total(f)]
          /\ stock = m - Total(f)
    BY DEF Init
<1>2. Total(f) \in Nat /\ m \in Nat
    BY <1>1, TotalType, CapacityAssumption
<1>3. OwnsFacts
    BY TypeInit, SerialInit, Holdings
<1>4. \A o \in Orders : \A r \in Requests : ~ActiveOn(r, o)
    BY DEF Init, Idle, ActiveOn, Active
<1>5. \A o \in Orders : LiveQuantity[o] = f[o]
    BY <1>1 DEF LiveQuantity, NoRow, Confirmed
<1>6. \A o \in Orders : RedisOwns[o] = f[o] /\ DbOwns[o] = f[o]
    BY <1>3, <1>4, <1>5 DEF OwnsFacts
<1>7. Total(RedisOwns) = Total(f) /\ Total(DbOwns) = Total(f)
    BY <1>6, TotalSame
<1> QED
    BY <1>1, <1>2, <1>7 DEF InFlightLedger, NeverTooMany

\* Loading an order moves nothing.
LEMMA LoadHolds ==
    ASSUME TypeOK, OwnsFacts, OwnsFacts', NEW r \in Requests,
           NEW o \in Orders, Load(r, o), \A s \in Requests : ~ActiveOn(s, o),
           job'[r].op # "write"
    PROVE  /\ \A p \in Orders : RedisOwns'[p] = RedisOwns[p] /\ DbOwns'[p] = DbOwns[p]
           /\ Total(RedisOwns') = Total(RedisOwns) /\ Total(DbOwns') = Total(DbOwns)
<1>1. PICK j \in JobsOn(o) :
          /\ Allowed(j.op, row[o].status)
          /\ job' = [job EXCEPT ![r] = j]
          /\ Goto(r, FirstStep(j))
          /\ Count(r, IF FirstStep(j) = "restore" THEN Difference(j) ELSE 0)
    BY DEF Load
<1>2. /\ j \in Jobs /\ j.order = o /\ j.seen = row[o].quantity
      /\ j.op \in AllOps /\ j.seen \in Int /\ j.to \in Int
    BY MaxQtyAssumption DEF JobsOn, Jobs, Quantities
<1>3. /\ pc'[r] = FirstStep(j) /\ job'[r] = j /\ row' = row
      /\ units'[r] = IF FirstStep(j) = "restore" THEN Difference(j) ELSE 0
      /\ \A s \in Requests \ {r} :
             pc'[s] = pc[s] /\ job'[s] = job[s] /\ units'[s] = units[s]
    BY <1>1 DEF Load, stores, TypeOK, Goto, Count
<1>4. j.op \in {"cancel", "complete", "quantity"}
    BY <1>2, <1>3 DEF AllOps
<1>5. Active(r)'
    BY <1>3, <1>4 DEF Active, FirstStep
<1>6. LiveQuantity[o] = j.seen
    BY <1>1, <1>2, <1>4 DEF Allowed, LiveQuantity
<1>7. RedisHolds(r)' = j.seen /\ DbHolds(r)' = j.seen
    <2>1. CASE j.op = "quantity" /\ j.to > j.seen
        BY <1>2, <1>3, <2>1 DEF RedisHolds, DbHolds, FirstStep
    <2>2. CASE j.op = "quantity" /\ ~(j.to > j.seen)
        <3>1. pc'[r] = "restore" /\ units'[r] = j.seen - j.to
            BY <1>3, <2>2 DEF FirstStep, Difference
        <3> QED
            BY <1>2, <1>3, <2>2, <3>1 DEF RedisHolds, DbHolds
    <2>3. CASE j.op \in {"cancel", "complete"}
        BY <1>2, <1>3, <2>3 DEF RedisHolds, DbHolds, FirstStep
    <2> QED
        BY <1>4, <2>1, <2>2, <2>3
<1>8. RedisOwns'[o] = RedisOwns[o] /\ DbOwns'[o] = DbOwns[o]
    BY <1>2, <1>3, <1>5, <1>6, <1>7 DEF OwnsFacts
<1>9. \A p \in Orders \ {o} : RedisOwns'[p] = RedisOwns[p] /\ DbOwns'[p] = DbOwns[p]
    <2>1. ~Active(r)
        BY DEF Load, Active
    <2> QED
        BY <1>2, <1>3, <2>1, OthersKeep DEF ActiveOn
<1> QED
    BY <1>8, <1>9, TotalSame

\* In flight, at rest and after a death: every step keeps the sums.
LEMMA LedgerStep ==
    ASSUME ~Overlap
    PROVE  TypeOK /\ JobLink /\ StockSet /\ OneAtATime /\ RowLink
               /\ InFlightLedger /\ NeverTooMany /\ [Next]_vars
               => InFlightLedger' /\ NeverTooMany'
<1>1. (TypeOK /\ JobLink /\ OneAtATime => OwnsFacts)'
    BY Holdings, PTL
<1> SUFFICES ASSUME TypeOK, JobLink, StockSet, OneAtATime, RowLink,
                    InFlightLedger, NeverTooMany, [Next]_vars
             PROVE  InFlightLedger' /\ NeverTooMany'
    OBVIOUS
<1>2. OwnsFacts /\ OwnsFacts' /\ OneAtATime' /\ TypeOK'
    BY <1>1, Holdings, TypeStep, SerialStep
<1>3. /\ Total(RedisOwns) \in Nat /\ Total(RedisOwns') \in Nat
      /\ Total(DbOwns) \in Nat /\ Total(DbOwns') \in Nat
      /\ stock \in Int /\ inv.max \in Int /\ inv.sold \in Int
    BY TotalType DEF StockSet, TypeOK, StoresTypeOK
<1>4. ASSUME NEW r \in Requests, Active(r), NEW step \in Steps, step # "dead",
             Goto(r, step), job' = job
      PROVE  /\ NoneDied' => NoneDied
             /\ NoneWrote' => NoneWrote
             /\ (\A s \in Requests : ~DiedReducing(s)')
                    => \A s \in Requests : ~DiedReducing(s)
    BY <1>4 DEF TypeOK, Goto, NoneDied, NoneWrote, DiedReducing, Active
<1>5. ASSUME NEW r \in Requests, RequestStep(r)
      PROVE  InFlightLedger' /\ NeverTooMany'
    <2>1. PICK step \in Steps \ {"new", "dead"} : Goto(r, step)
        BY <1>5
           DEF RequestStep, SetCancelled, SetStatus, RestoreUnit, Increment,
               CacheStatus, TakeUnit, TakeRefused, Decrement, DecrementRefused,
               RollbackUnit, WriteQuantity, Steps
    <2>2. /\ Active(r) /\ job' = job
          /\ \A s \in Requests \ {r} : units'[s] = units[s]
          /\ row' = row \/ \E d : row' = [row EXCEPT ![job[r].order] = d]
        BY <1>5
           DEF RequestStep, SetCancelled, SetStatus, RestoreUnit, Increment,
               CacheStatus, TakeUnit, TakeRefused, Decrement, DecrementRefused,
               RollbackUnit, WriteQuantity, Active, Count, TypeOK
    <2>3. \A p \in Orders \ {job[r].order} : row'[p] = row[p]
        BY <2>2 DEF TypeOK, StoresTypeOK
    <2>4. /\ Total(RedisOwns') =
                 Total(RedisOwns) - RedisHolds(r) + HoldsAfter(r)'
          /\ Total(DbOwns') = Total(DbOwns) - DbHolds(r) + DbAfter(r)'
          /\ RedisHolds(r) \in Nat /\ HoldsAfter(r)' \in Nat
          /\ DbHolds(r) \in Nat /\ DbAfter(r)' \in Nat
          /\ DbHolds(r) <= Total(DbOwns)
        BY <1>2, <2>1, <2>2, <2>3, TotalsAfter
    <2>5. ASSUME NoneWrote
          PROVE  /\ stock' + HoldsAfter(r)' = stock + RedisHolds(r)
                 /\ inv'.max = inv.max
                 /\ inv'.sold - DbAfter(r)' >= inv.sold - DbHolds(r)
                 /\ DbHolds(r) <= inv.sold =>
                        inv'.sold - DbAfter(r)' = inv.sold - DbHolds(r)
        BY <1>5, <2>5, MovesUnits, NoKeyAssumption
           DEF NoneWrote, StockSet, StockCounts
    <2>6. stock' \in Int /\ inv'.sold \in Int
        BY <1>2, <1>3, <1>5, TypeStep DEF TypeOK, StoresTypeOK, StockSet
    <2>7. InFlightLedger'
        <3> SUFFICES ASSUME NoneDied', NoneWrote'
                     PROVE  /\ stock' + Total(RedisOwns') = inv'.max
                            /\ inv'.sold = Total(DbOwns')
            BY DEF InFlightLedger
        <3>1. /\ NoneWrote /\ stock + Total(RedisOwns) = inv.max
              /\ inv.sold = Total(DbOwns)
            BY <1>4, <2>1, <2>2 DEF InFlightLedger
        <3>2. DbHolds(r) <= inv.sold
            BY <2>4, <3>1
        <3>3. /\ stock' + HoldsAfter(r)' = stock + RedisHolds(r)
              /\ inv'.max = inv.max
              /\ inv'.sold - DbAfter(r)' = inv.sold - DbHolds(r)
            BY <2>5, <3>1, <3>2
        <3> QED
            BY <1>3, <2>4, <2>6, <3>1, <3>3
    <2>8. NeverTooMany'
        <3> SUFFICES ASSUME NoneWrote', \A s \in Requests : ~DiedReducing(s)'
                     PROVE  /\ stock' + Total(RedisOwns') <= inv'.max
                            /\ Total(DbOwns') <= inv'.sold
            BY DEF NeverTooMany
        <3>1. /\ NoneWrote /\ stock + Total(RedisOwns) <= inv.max
              /\ Total(DbOwns) <= inv.sold
            BY <1>4, <2>1, <2>2 DEF NeverTooMany
        <3> QED
            BY <1>3, <2>4, <2>5, <2>6, <3>1
    <2> QED
        BY <2>7, <2>8
<1>6. ASSUME NEW r \in Requests, NEW o \in Orders, Load(r, o)
      PROVE  InFlightLedger' /\ NeverTooMany'
    <2>1. /\ \A s \in Requests : ~ActiveOn(s, o)
          /\ stock' = stock /\ inv' = inv
        BY <1>6 DEF Load, stores
    <2>2. /\ NoneDied' => NoneDied
          /\ (\A s \in Requests : ~DiedReducing(s)')
                 => \A s \in Requests : ~DiedReducing(s)
        BY <1>6 DEF Load, Goto, TypeOK, NoneDied, DiedReducing
    <2>3. NoneWrote' => NoneWrote
        BY <1>6 DEF Load, TypeOK, NoneWrote, JobLink, NoJob
    <2>4. NoneWrote' => /\ Total(RedisOwns') = Total(RedisOwns)
                        /\ Total(DbOwns') = Total(DbOwns)
        BY <1>2, <1>6, <2>1, LoadHolds DEF NoneWrote
    <2> QED
        BY <2>1, <2>2, <2>3, <2>4 DEF InFlightLedger, NeverTooMany
<1>7. ASSUME NEW r \in Requests, Dies(r)
      PROVE  InFlightLedger' /\ NeverTooMany'
    <2>1. /\ Active(r) /\ Goto(r, "dead") /\ ~Active(r)'
          /\ UNCHANGED <<stock, row, inv, job, units>>
        BY <1>7 DEF Dies, Active, Goto, TypeOK
    <2>2. InFlightLedger'
        BY <2>1 DEF InFlightLedger, NoneDied, Goto, TypeOK
    <2>3. /\ Total(RedisOwns') =
                 Total(RedisOwns) - RedisHolds(r) + HoldsAfter(r)'
          /\ Total(DbOwns') = Total(DbOwns) - DbHolds(r) + DbAfter(r)'
          /\ RedisHolds(r) \in Nat /\ HoldsAfter(r)' \in Nat
          /\ DbHolds(r) \in Nat /\ DbAfter(r)' \in Nat
        BY <1>2, <2>1, TotalsAfter DEF Steps
    <2>4. /\ NoneWrote' => NoneWrote
          /\ (\A s \in Requests : ~DiedReducing(s)')
                 => ~Lowers(job[r]) /\ \A s \in Requests : ~DiedReducing(s)
        BY <2>1 DEF NoneWrote, DiedReducing, Lowers, Goto, TypeOK
    <2>5. ASSUME NoneWrote, ~Lowers(job[r])
          PROVE  HoldsAfter(r)' <= RedisHolds(r) /\ DbAfter(r)' <= DbHolds(r)
        BY <1>7, <2>3, <2>5, DeathHolds DEF NoneWrote
    <2>6. NeverTooMany'
        BY <1>3, <2>1, <2>3, <2>4, <2>5 DEF NeverTooMany
    <2> QED
        BY <2>2, <2>6
<1>8. CASE UNCHANGED <<stock, row, inv, pc, job, units>>
    <2>1. RedisOwns' = RedisOwns /\ DbOwns' = DbOwns
        BY <1>8 DEF RedisOwns, DbOwns, Held, RedisHolds, DbHolds, ActiveOn,
                    Active, LiveQuantity
    <2> QED
        BY <1>8, <2>1
           DEF InFlightLedger, NeverTooMany, NoneDied, NoneWrote, DiedReducing
<1> QED
    BY <1>5, <1>6, <1>7, <1>8 DEF Next, ExpireStatus, vars

-----------------------------------------------------------------------------
(***************************************************************************)
(* The live status.                                                        *)
(***************************************************************************)
LEMMA CacheInit == Init => CacheLink
BY DEF Init, CacheLink, Shown, NoRow, Confirmed

\* A request keeps to the live status it has to write, or leaves it alone.
LEMMA CacheRequest ==
    ASSUME TypeOK, JobLink, OneAtATime, RowLink, NEW p \in Orders,
           Shown(p) = row[p].status \/ Rewriting(p),
           NEW r \in Requests, RequestStep(r)
    PROVE  Shown(p)' = row'[p].status \/ Rewriting(p)'
<1> DEFINE j == job[r]
<1>1. /\ Active(r) /\ job' = job
      /\ \A s \in Requests \ {r} : pc'[s] = pc[s]
      /\ row' = row \/ \E d : row' = [row EXCEPT ![j.order] = d]
      /\ cache' = cache \/ \E d : cache' = [cache EXCEPT ![j.order] = d]
    BY DEF RequestStep, SetCancelled, SetStatus, RestoreUnit, Increment,
           CacheStatus, TakeUnit, TakeRefused, Decrement, DecrementRefused,
           RollbackUnit, WriteQuantity, Active, Goto, TypeOK
<1>2. /\ j \in Jobs /\ j.order \in Orders /\ j.status \in Statuses
      /\ LinkOf(pc[r], j, units[r]) /\ SeenOf(pc[r], j, row[j.order])
    BY <1>1, ActiveFacts, Amounts
<1>3. CASE p # j.order
    <2>1. row'[p] = row[p] /\ cache'[p] = cache[p]
        BY <1>1, <1>2, <1>3 DEF TypeOK, StoresTypeOK
    <2>2. Rewriting(p) => Rewriting(p)'
        BY <1>1, <1>3 DEF Rewriting, ActiveOn, Active
    <2> QED
        BY <2>1, <2>2 DEF Shown
<1>4. CASE p = j.order /\ j.op = "quantity"
    <2>1. ~Rewriting(p)
        BY <1>1, <1>4 DEF Rewriting, ActiveOn, OneAtATime
    <2>2. row'[p].status = row[p].status /\ cache' = cache
        <3>1. UNCHANGED <<row, cache>> \/ WriteQuantity(r)
            BY <1>2, <1>4
               DEF RequestStep, SetCancelled, SetStatus, RestoreUnit,
                   Increment, CacheStatus, TakeUnit, TakeRefused, Decrement,
                   DecrementRefused, RollbackUnit, LinkOf
        <3> QED
            BY <1>2, <1>4, <3>1 DEF WriteQuantity, TypeOK, StoresTypeOK
    <2> QED
        BY <2>1, <2>2 DEF Shown
<1>5. CASE p = j.order /\ CacheStatus(r)
    <2>1. row' = row /\ cache'[p] = j.status /\ j.status = row[p].status
        BY <1>2, <1>5 DEF CacheStatus, SeenOf, TypeOK, StoresTypeOK
    <2>2. cache'[p] # "none"
        BY <1>2, <2>1 DEF Statuses
    <2> QED
        BY <2>1, <2>2 DEF Shown
<1>6. CASE p = j.order /\ j.op # "quantity" /\ ~CacheStatus(r)
    <2>1. pc'[r] \in {"restore", "increment", "cache_status"}
        BY <1>2, <1>6
           DEF RequestStep, SetCancelled, SetStatus, RestoreUnit, Increment,
               TakeUnit, TakeRefused, Decrement, DecrementRefused,
               RollbackUnit, WriteQuantity, LinkOf, Raises, Lowers, Goto,
               TypeOK
    <2> QED
        BY <1>1, <1>6, <2>1 DEF Rewriting, ActiveOn, Active
<1> QED
    BY <1>3, <1>4, <1>5, <1>6

\* A status differs from its row only while a request is about to write it.
LEMMA CacheStep ==
    TypeOK /\ JobLink /\ OneAtATime /\ RowLink /\ CacheLink /\ [Next]_vars
        => CacheLink'
<1> SUFFICES ASSUME TypeOK, JobLink, OneAtATime, RowLink, CacheLink,
                    [Next]_vars, NoneDied', NEW p \in Orders
             PROVE  Shown(p)' = row'[p].status \/ Rewriting(p)'
    BY DEF CacheLink
<1>1. NoneDied => Shown(p) = row[p].status \/ Rewriting(p)
    BY DEF CacheLink
<1>2. ASSUME UNCHANGED <<row, cache>>, NoneDied,
             Rewriting(p) => Rewriting(p)'
      PROVE  Shown(p)' = row'[p].status \/ Rewriting(p)'
    BY <1>1, <1>2 DEF Shown
<1>3. ASSUME NEW r \in Requests, RequestStep(r)
      PROVE  Shown(p)' = row'[p].status \/ Rewriting(p)'
    <2>1. NoneDied
        BY <1>3
           DEF RequestStep, SetCancelled, SetStatus, RestoreUnit, Increment,
               CacheStatus, TakeUnit, TakeRefused, Decrement, DecrementRefused,
               RollbackUnit, WriteQuantity, Goto, TypeOK, NoneDied
    <2> QED
        BY <1>1, <1>3, <2>1, CacheRequest
<1>4. ASSUME NEW r \in Requests, NEW o \in Orders, Load(r, o)
      PROVE  Shown(p)' = row'[p].status \/ Rewriting(p)'
    <2>1. NoneDied /\ UNCHANGED <<row, cache>>
        BY <1>4 DEF Load, stores, Goto, TypeOK, NoneDied
    <2>2. Rewriting(p) => Rewriting(p)'
        BY <1>4 DEF Load, Goto, TypeOK, Rewriting, ActiveOn, Active
    <2> QED
        BY <1>2, <2>1, <2>2
<1>5. ASSUME NEW r \in Requests, Dies(r) PROVE FALSE
    BY <1>5 DEF Dies, Goto, TypeOK, NoneDied
<1>6. ASSUME NEW o \in Orders, ExpireStatus(o)
      PROVE  Shown(p)' = row'[p].status \/ Rewriting(p)'
    <2>1. cache'[p] = "none" \/ cache'[p] = cache[p]
        BY <1>6 DEF ExpireStatus, TypeOK, StoresTypeOK
    <2>2. NoneDied /\ row' = row /\ (Rewriting(p) => Rewriting(p)')
        BY <1>6 DEF ExpireStatus, NoneDied, Rewriting, ActiveOn, Active
    <2> QED
        BY <1>1, <2>1, <2>2 DEF Shown
<1>7. CASE UNCHANGED vars
    BY <1>2, <1>7 DEF vars, NoneDied, Rewriting, ActiveOn, Active
<1> QED
    BY <1>3, <1>4, <1>5, <1>6, <1>7 DEF Next

-----------------------------------------------------------------------------
(***************************************************************************)
(* The theorems.  The first two hold however requests overlap.             *)
(***************************************************************************)
\* Every variable has its type, and each await the job that fits it.
LEMMA LinksHold == Spec => [](TypeOK /\ JobLink /\ StockSet)
BY TypeInit, TypeStep, PTL DEF Spec

THEOREM ChangesTypeCorrect == Spec => []TypeOK
BY LinksHold, PTL

\* However requests overlap and wherever they die, daily_inventory never
\* records more sold than there is, nor less than nothing.
THEOREM ChangesBooksBalance == Spec => []DbBooksBalance
<1>1. TypeOK /\ JobLink /\ DbBooksBalance /\ [Next]_vars => DbBooksBalance'
    BY BooksStep
<1> QED
    BY <1>1, BooksInit, LinksHold, PTL DEF Spec

\* What holds as long as requests for one order do not overlap.
THEOREM SerialInvariance ==
    ASSUME ~Overlap
    PROVE  Spec => []SerialInv
<1>1. Init => SerialInv
    BY SerialInit, LedgerInit, CacheInit DEF SerialInv
<1>2. TypeOK /\ JobLink /\ StockSet /\ SerialInv /\ [Next]_vars => SerialInv'
    BY SerialStep, LedgerStep, CacheStep DEF SerialInv
<1> QED
    BY <1>1, <1>2, LinksHold, PTL DEF Spec

\* At every await each store differs from the order rows by exactly what the
\* requests in flight have done to it so far.
THEOREM LedgerInFlight ==
    ASSUME ~Overlap
    PROVE  Spec => []InFlightLedger
<1>1. SerialInv => InFlightLedger
    BY DEF SerialInv
<1> QED
    BY <1>1, SerialInvariance, PTL

\* With no request in flight, what the stores hold is what the rows say.
LEMMA RestFacts ==
    ASSUME TypeOK, JobLink, OneAtATime, AtRest
    PROVE  /\ Total(RedisOwns) = Total(LiveQuantity)
           /\ Total(DbOwns) = Total(LiveQuantity)
<1>1. OwnsFacts
    BY Holdings
<1>2. \A o \in Orders : RedisOwns[o] = LiveQuantity[o] /\ DbOwns[o] = LiveQuantity[o]
    BY <1>1 DEF OwnsFacts, AtRest, ActiveOn
<1> QED
    BY <1>2, TotalSame

\* Redis, daily_inventory and the order rows agree whenever nothing is under
\* way and nothing died: every refused increase was rolled back to the unit.
THEOREM BooksAgree ==
    ASSUME ~Overlap
    PROVE  Spec => []BooksAgreeAtRest
<1>1. TypeOK /\ JobLink /\ StockSet /\ DbBooksBalance /\ SerialInv
          => BooksAgreeAtRest
    <2> SUFFICES ASSUME TypeOK, JobLink, StockSet, DbBooksBalance, SerialInv,
                        AtRest, NoneDied, NoneWrote
                 PROVE  stock = inv.remaining /\ inv.sold = Total(LiveQuantity)
        BY DEF BooksAgreeAtRest
    <2>1. /\ Total(RedisOwns) = Total(LiveQuantity)
          /\ Total(DbOwns) = Total(LiveQuantity)
        BY RestFacts DEF SerialInv
    <2>2. stock + Total(RedisOwns) = inv.max /\ inv.sold = Total(DbOwns)
        BY DEF SerialInv, InFlightLedger
    <2>3. /\ stock \in Int /\ inv.max \in Int /\ inv.sold \in Int
          /\ Total(LiveQuantity) \in Int
          /\ inv.remaining = inv.max - inv.sold
        BY TotalType DEF StockSet, TypeOK, StoresTypeOK, DbBooksBalance
    <2> QED
        BY <2>1, <2>2, <2>3
<1> QED
    BY <1>1, LinksHold, ChangesBooksBalance, SerialInvariance, PTL

\* Requests that die anywhere, except in a reduction, may leave units nobody
\* has, and never let a unit be had twice.
THEOREM CrashesNeverOversell ==
    ASSUME ~Overlap
    PROVE  Spec => []CrashNeverOversells
<1>1. TypeOK /\ JobLink /\ SerialInv => CrashNeverOversells
    <2> SUFFICES ASSUME TypeOK, JobLink, SerialInv, AtRest, NoneWrote,
                        \A r \in Requests : ~DiedReducing(r)
                 PROVE  /\ stock + Total(LiveQuantity) <= inv.max
                        /\ Total(LiveQuantity) <= inv.sold
        BY DEF CrashNeverOversells
    <2>1. /\ Total(RedisOwns) = Total(LiveQuantity)
          /\ Total(DbOwns) = Total(LiveQuantity)
        BY RestFacts DEF SerialInv
    <2> QED
        BY <2>1 DEF SerialInv, NeverTooMany
<1> QED
    BY <1>1, LinksHold, SerialInvariance, PTL

\* At rest a reader is shown the status in PostgreSQL, expired key or not.
THEOREM LiveStatusIsRow ==
    ASSUME ~Overlap
    PROVE  Spec => []LiveStatusAgrees
<1>1. SerialInv => LiveStatusAgrees
    BY DEF SerialInv, CacheLink, Rewriting, ActiveOn, AtRest, LiveStatusAgrees
<1> QED
    BY <1>1, SerialInvariance, PTL

\* A cancelled order stays cancelled unless an admin writes its status.
THEOREM CancelledForGood ==
    ASSUME ~Overlap
    PROVE  Spec => CancelledStays
<1> DEFINE Stays ==
        \A o \in Orders :
            row[o].status = "cancelled" =>
                \/ row'[o].status = "cancelled"
                \/ \E r \in Requests : ActiveOn(r, o) /\ job[r].op = "write"
<1>1. TypeOK /\ JobLink /\ SerialInv /\ [Next]_vars => [Stays]_vars
    <2> SUFFICES ASSUME TypeOK, JobLink, SerialInv, Next PROVE Stays
        OBVIOUS
    <2>1. row \in [Orders -> [status   : Statuses \cup {"absent"},
                              quantity : 0..MaxQty]]
        BY DEF TypeOK, StoresTypeOK
    <2>2. ASSUME NEW r \in Requests, SetStatus(r) PROVE Stays
        <3>1. Active(r) /\ pc[r] = "set_status"
            BY <2>2 DEF SetStatus, Active
        <3>2. /\ job[r].op \in {"complete", "write"} /\ job[r].order \in Orders
              /\ job[r].op = "complete" => row[job[r].order].status # "cancelled"
            BY <3>1, ActiveFacts DEF SerialInv, LinkOf, SeenOf
        <3>3. \A o \in Orders \ {job[r].order} : row'[o] = row[o]
            BY <2>1, <2>2 DEF SetStatus
        <3> QED
            BY <3>1, <3>2, <3>3 DEF ActiveOn
    <2>3. ASSUME NEW r \in Requests, SetCancelled(r) \/ WriteQuantity(r)
          PROVE  Stays
        <3>1. \A o \in Orders :
                  row'[o].status = row[o].status \/ row'[o].status = "cancelled"
            BY <2>1, <2>3 DEF SetCancelled, WriteQuantity
        <3> QED
            BY <3>1
    <2>4. CASE UNCHANGED row
        BY <2>4
    <2> QED
        BY <2>2, <2>3, <2>4
           DEF Next, RequestStep, stores, Load, RestoreUnit, Increment,
               CacheStatus, TakeUnit, TakeRefused, Decrement, DecrementRefused,
               RollbackUnit, Dies, ExpireStatus
<1> QED
    BY <1>1, LinksHold, SerialInvariance, PTL DEF Spec, CancelledStays

=============================================================================
