---------------------------- MODULE StoresProofs ----------------------------
(***************************************************************************)
(* Facts about Total, the sum over all orders, that the proofs of the      *)
(* modules built on Stores cite.                                           *)
(***************************************************************************)
EXTENDS Stores, FiniteSetTheorems, TLAPS

\* The units of an order and the units of the others.
UnitsOf(f, o) == {o} \X (1..f[o])

\* A finite number of orders owns a finite number of units.
LEMMA UnitsFinite ==
    ASSUME NEW f
    PROVE  IsFiniteSet(Units(f))
<1>1. IsFiniteSet(Quantities)
    BY MaxQtyAssumption, FS_Interval DEF Quantities
<1>2. IsFiniteSet(Orders \X Quantities)
    BY <1>1, OrdersAssumption, FS_Product
<1>3. Units(f) \in SUBSET (Orders \X Quantities)
    BY DEF Units
<1> QED
    BY <1>2, <1>3, FS_Subset

\* A sum of quantities is a natural number.
LEMMA TotalType ==
    ASSUME NEW f
    PROVE  Total(f) \in Nat
BY UnitsFinite, FS_CardinalityType DEF Total

\* A sum depends on the values at the orders only.
LEMMA TotalSame ==
    ASSUME NEW f, NEW g, \A p \in Orders : f[p] = g[p]
    PROVE  Total(f) = Total(g)
<1>1. Units(f) = Units(g)
    BY DEF Units
<1> QED
    BY <1>1 DEF Total

\* A sum grows with its terms.
LEMMA TotalMonotone ==
    ASSUME NEW f \in [Orders -> Int], NEW g \in [Orders -> Int],
           \A p \in Orders : f[p] <= g[p]
    PROVE  Total(f) <= Total(g)
<1>1. ASSUME NEW u \in Units(f) PROVE u \in Units(g)
    <2>1. u \in Orders \X Quantities /\ u[2] <= f[u[1]]
        BY DEF Units
    <2>2. u[1] \in Orders /\ u[2] \in Int
        BY <2>1, MaxQtyAssumption DEF Quantities
    <2>3. u[2] <= g[u[1]]
        BY <2>1, <2>2
    <2> QED
        BY <2>1, <2>3 DEF Units
<1>2. Units(f) \in SUBSET Units(g)
    BY <1>1
<1> QED
    BY <1>2, UnitsFinite, FS_Subset DEF Total

\* The units of one order are as many as its term of the sum.
LEMMA UnitsOfCardinality ==
    ASSUME NEW f \in [Orders -> 0..MaxQty], NEW o \in Orders
    PROVE  /\ IsFiniteSet(UnitsOf(f, o))
           /\ Cardinality(UnitsOf(f, o)) = f[o]
<1>1. f[o] \in Nat
    BY MaxQtyAssumption
<1>2. IsFiniteSet(1..f[o]) /\ Cardinality(1..f[o]) = f[o]
    BY <1>1, FS_Interval
<1>3. IsFiniteSet({o}) /\ Cardinality({o}) = 1
    BY FS_Singleton
<1> QED
    BY <1>1, <1>2, <1>3, FS_Product DEF UnitsOf

\* The sum is the term of one order plus the sum without it.
LEMMA TotalSplit ==
    ASSUME NEW f \in [Orders -> 0..MaxQty], NEW o \in Orders
    PROVE  Total(f) = f[o] + Total([f EXCEPT ![o] = 0])
<1> DEFINE rest == [f EXCEPT ![o] = 0]
<1>1. Units(f) = UnitsOf(f, o) \cup Units(rest)
    <2>1. ASSUME NEW u \in Units(f) PROVE u \in UnitsOf(f, o) \cup Units(rest)
        BY MaxQtyAssumption DEF Units, UnitsOf, Quantities
    <2>2. ASSUME NEW u \in UnitsOf(f, o) PROVE u \in Units(f)
        BY MaxQtyAssumption DEF Units, UnitsOf, Quantities
    <2>3. ASSUME NEW u \in Units(rest) PROVE u \in Units(f)
        BY MaxQtyAssumption DEF Units, Quantities
    <2> QED
        BY <2>1, <2>2, <2>3
<1>2. UnitsOf(f, o) \cap Units(rest) = {}
    BY MaxQtyAssumption DEF Units, UnitsOf, Quantities
<1>3. IsFiniteSet(UnitsOf(f, o)) /\ Cardinality(UnitsOf(f, o)) = f[o]
    BY UnitsOfCardinality
<1>4. IsFiniteSet(Units(rest))
    BY UnitsFinite
<1>5. Cardinality(UnitsOf(f, o) \cup Units(rest))
          = Cardinality(UnitsOf(f, o)) + Cardinality(Units(rest))
    <2>1. Cardinality(UnitsOf(f, o)) \in Nat /\ Cardinality(Units(rest)) \in Nat
        BY <1>3, <1>4, FS_CardinalityType
    <2> HIDE DEF rest
    <2> QED
        BY <1>2, <1>3, <1>4, <2>1, FS_Union, FS_EmptySet
<1> QED
    BY <1>1, <1>3, <1>5 DEF Total

\* Changing the term of one order changes the sum by the difference.
LEMMA TotalChange ==
    ASSUME NEW f \in [Orders -> 0..MaxQty], NEW g \in [Orders -> 0..MaxQty],
           NEW o \in Orders, \A p \in Orders \ {o} : g[p] = f[p]
    PROVE  Total(g) = Total(f) - f[o] + g[o]
<1>1. [f EXCEPT ![o] = 0] = [g EXCEPT ![o] = 0]
    OBVIOUS
<1>2. /\ Total(f) = f[o] + Total([f EXCEPT ![o] = 0])
      /\ Total(g) = g[o] + Total([g EXCEPT ![o] = 0])
    BY TotalSplit
<1>3. Total([f EXCEPT ![o] = 0]) \in Nat
    BY TotalType
<1> QED
    BY <1>1, <1>2, <1>3, MaxQtyAssumption

\* A term is at most the sum.
LEMMA TotalAtLeast ==
    ASSUME NEW f \in [Orders -> 0..MaxQty], NEW o \in Orders
    PROVE  f[o] <= Total(f)
<1>1. Total([f EXCEPT ![o] = 0]) \in Nat
    BY TotalType
<1>2. Total(f) = f[o] + Total([f EXCEPT ![o] = 0])
    BY TotalSplit
<1>3. f[o] \in Int
    BY MaxQtyAssumption
<1> QED
    BY <1>1, <1>2, <1>3

\* A sum of zeros is zero.
LEMMA TotalZero ==
    ASSUME NEW f, \A p \in Orders : f[p] = 0
    PROVE  Total(f) = 0
<1>1. Units(f) = {}
    BY MaxQtyAssumption DEF Units, Quantities
<1> QED
    BY <1>1, FS_EmptySet DEF Total

=============================================================================
