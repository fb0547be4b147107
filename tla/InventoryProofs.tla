-------------------------- MODULE InventoryProofs --------------------------
(***************************************************************************)
(* Proofs about Inventory, for any catalogue, any seed stock and any       *)
(* number of reservations.  The argument counts units: a step moves the    *)
(* units of one reservation into or out of the open or the committed ones, *)
(* and UnitsAddUp says what that does to the two sums.                     *)
(***************************************************************************)
EXTENDS Inventory, FiniteSetTheorems, TLAPS

\* Both sums are sizes of finite sets.
Countable ==
  \A p \in Products : IsFiniteSet(Units(Open, p)) /\ IsFiniteSet(Units(committed, p))

\* The inductive invariant: the three checked invariants and Countable.
InventoryInv == InventoryTypeOK /\ Countable /\ NoOversell /\ StockConserved

-----------------------------------------------------------------------------

\* One reservation contributes as many units as it asks for.
LEMMA UnitsOfOne ==
  ASSUME NEW r, NEW n \in Nat
  PROVE  IsFiniteSet({r} \X (1 .. n)) /\ Cardinality({r} \X (1 .. n)) = n
<1>1. IsFiniteSet(1 .. n) /\ Cardinality(1 .. n) = n
  <2>1. 1 \in Int /\ n \in Int
    OBVIOUS
  <2>2. IsFiniteSet(1 .. n) /\ Cardinality(1 .. n) = IF 1 > n THEN 0 ELSE n - 1 + 1
    BY <2>1, FS_Interval, Zenon
  <2> QED BY <2>2
<1>2. IsFiniteSet({r}) /\ Cardinality({r}) = 1
  BY FS_Singleton
<1> DEFINE own == {r} \X (1 .. n)
<1>3. IsFiniteSet(own) /\ Cardinality(own) = Cardinality({r}) * Cardinality(1 .. n)
  BY <1>1, <1>2, FS_Product, Zenon
<1> HIDE DEF own
<1>4. Cardinality(own) = n
  BY <1>1, <1>2, <1>3
<1> QED BY <1>3, <1>4 DEF own

\* The sizes of two sets without a common element add up.
LEMMA UnitsAddUp ==
  ASSUME NEW S, NEW T, NEW own, S = T \cup own, T \cap own = {},
         IsFiniteSet(own), IsFiniteSet(T) \/ IsFiniteSet(S)
  PROVE  /\ IsFiniteSet(S) /\ IsFiniteSet(T)
         /\ Cardinality(T) \in Nat
         /\ Cardinality(S) = Cardinality(T) + Cardinality(own)
<1>1. IsFiniteSet(T)
  BY FS_Subset
<1>2. Cardinality(T \cap own) = 0
  BY FS_EmptySet
<1>3. IsFiniteSet(T \cup own)
       /\ Cardinality(T \cup own) = Cardinality(T) + Cardinality(own) - Cardinality(T \cap own)
  BY <1>1, FS_Union
<1>4. Cardinality(T) \in Nat /\ Cardinality(own) \in Nat
  BY <1>1, FS_CardinalityType
<1> QED BY <1>1, <1>2, <1>3, <1>4

\* The sums are natural numbers and the items of a reservation are quantities.
LEMMA Quantities ==
  ASSUME InventoryTypeOK, Countable
  PROVE  /\ \A p \in Products : stock[p] \in Nat /\ Held(p) \in Nat /\ Sold(p) \in Nat
         /\ \A r \in DOMAIN reservations, p \in Products : reservations[r][p] \in Nat
<1>1. \A p \in Products : Held(p) \in Nat /\ Sold(p) \in Nat
  BY FS_CardinalityType DEF Countable, Held, Sold
<1>2. \A items \in Baskets, p \in Products : items[p] \in Nat
  BY BasketsAssumption
<1> QED BY <1>1, <1>2 DEF InventoryTypeOK

-----------------------------------------------------------------------------
(* What each operation does to the sums *)

\* A new reservation is held in full.
LEMMA ReserveEffect ==
  ASSUME InventoryTypeOK, Countable,
         NEW r \in ReservationIds, NEW items \in Baskets, Reserve(r, items),
         NEW p \in Products
  PROVE  /\ IsFiniteSet(Units(Open, p))' /\ IsFiniteSet(Units(committed, p))'
         /\ Held(p)' = Held(p) + items[p]
         /\ Sold(p)' = Sold(p)
<1> DEFINE own == {r} \X (1 .. items[p])
<1>1. items[p] \in Nat
  BY BasketsAssumption
<1>2. Open' = Open \cup {r} /\ r \notin Open
  BY DEF Reserve, Open, InventoryTypeOK
<1>3. /\ \A x \in Open \cup committed : reservations'[x] = reservations[x]
      /\ reservations'[r] = items
  BY DEF Reserve, Open, InventoryTypeOK
<1>4. Units(Open, p)' = Units(Open, p) \cup own /\ Units(Open, p) \cap own = {}
  BY <1>2, <1>3 DEF Units
<1>5. Units(committed, p)' = Units(committed, p)
  BY <1>3 DEF Units, Reserve
<1>6. IsFiniteSet(Units(Open, p)) /\ IsFiniteSet(Units(committed, p))
  BY DEF Countable
<1>7. IsFiniteSet(own) /\ Cardinality(own) = items[p]
  BY <1>1, UnitsOfOne
<1> HIDE DEF own
<1>8. IsFiniteSet(Units(Open, p)') /\ Cardinality(Units(Open, p)') = Cardinality(Units(Open, p)) + items[p]
  <2> DEFINE before == Units(Open, p)
             after == Units(Open, p)'
  <2>1. after = before \cup own /\ before \cap own = {} /\ IsFiniteSet(before)
    BY <1>4, <1>6
  <2> HIDE DEF before, after
  <2>2. IsFiniteSet(after) /\ Cardinality(after) = Cardinality(before) + Cardinality(own)
    BY <1>7, <2>1, UnitsAddUp
  <2> QED BY <1>7, <2>2 DEF before, after
<1> QED BY <1>5, <1>6, <1>8 DEF Held, Sold

\* A committed reservation moves in full from the held to the sold units.
LEMMA CommitEffect ==
  ASSUME InventoryTypeOK, Countable, NEW r \in Open, Commit(r), NEW p \in Products
  PROVE  /\ IsFiniteSet(Units(Open, p))' /\ IsFiniteSet(Units(committed, p))'
         /\ Held(p)' \in Nat
         /\ Held(p) = Held(p)' + reservations[r][p]
         /\ Sold(p)' = Sold(p) + reservations[r][p]
<1> DEFINE own == {r} \X (1 .. reservations[r][p])
<1>1. reservations[r][p] \in Nat
  BY Quantities DEF Open
<1>2. Open' = Open \ {r} /\ committed' = committed \cup {r} /\ r \notin committed
  BY DEF Commit, Open
<1>3. Units(Open, p) = Units(Open, p)' \cup own /\ Units(Open, p)' \cap own = {}
  BY <1>2 DEF Units, Commit
<1>4. Units(committed, p)' = Units(committed, p) \cup own /\ Units(committed, p) \cap own = {}
  BY <1>2 DEF Units, Commit
<1>5. IsFiniteSet(Units(Open, p)) /\ IsFiniteSet(Units(committed, p))
  BY DEF Countable
<1>6. IsFiniteSet(own) /\ Cardinality(own) = reservations[r][p]
  BY <1>1, UnitsOfOne
<1> HIDE DEF own
<1>7. /\ IsFiniteSet(Units(Open, p)') /\ Cardinality(Units(Open, p)') \in Nat
      /\ Cardinality(Units(Open, p)) = Cardinality(Units(Open, p)') + reservations[r][p]
  BY <1>6, <1>3, <1>5, UnitsAddUp
<1>8. IsFiniteSet(Units(committed, p)')
      /\ Cardinality(Units(committed, p)') = Cardinality(Units(committed, p)) + reservations[r][p]
  BY <1>6, <1>4, <1>5, UnitsAddUp
<1> QED BY <1>7, <1>8 DEF Held, Sold

\* An open reservation that is released is held no more.
LEMMA ReleaseEffect ==
  ASSUME InventoryTypeOK, Countable, NEW r \in Open, Release(r), NEW p \in Products
  PROVE  /\ IsFiniteSet(Units(Open, p))' /\ IsFiniteSet(Units(committed, p))'
         /\ Held(p)' \in Nat
         /\ Held(p) = Held(p)' + reservations[r][p]
         /\ Sold(p)' = Sold(p)
<1> DEFINE own == {r} \X (1 .. reservations[r][p])
<1>1. reservations[r][p] \in Nat
  BY Quantities DEF Open
<1>2. Open' = Open \ {r} /\ committed' = committed
  BY DEF Release, Open
<1>3. Units(Open, p) = Units(Open, p)' \cup own /\ Units(Open, p)' \cap own = {}
  BY <1>2 DEF Units, Release
<1>4. Units(committed, p)' = Units(committed, p)
  BY <1>2 DEF Units, Release
<1>5. IsFiniteSet(Units(Open, p)) /\ IsFiniteSet(Units(committed, p))
  BY DEF Countable
<1>6. IsFiniteSet(own) /\ Cardinality(own) = reservations[r][p]
  BY <1>1, UnitsOfOne
<1> HIDE DEF own
<1>7. /\ IsFiniteSet(Units(Open, p)') /\ Cardinality(Units(Open, p)') \in Nat
      /\ Cardinality(Units(Open, p)) = Cardinality(Units(Open, p)') + reservations[r][p]
  BY <1>6, <1>3, <1>5, UnitsAddUp
<1> QED BY <1>4, <1>5, <1>7 DEF Held, Sold

-----------------------------------------------------------------------------
(* The invariant *)

\* What is available is the stock nobody holds.
FreeUnits ==
  \A p \in Products :
    /\ stock[p] \in Nat /\ Held(p) \in Nat
    /\ Held(p) <= stock[p]
    /\ Available(p) = stock[p] - Held(p)

LEMMA AvailableIsFree == InventoryInv => FreeUnits
BY Quantities DEF InventoryInv, NoOversell, Available, FreeUnits

LEMMA InventoryInvInit == InventoryInit => InventoryInv
<1> SUFFICES ASSUME InventoryInit PROVE InventoryInv
  OBVIOUS
<1>1. Open = {} /\ committed = {} /\ stock = InitialStock
  BY DEF InventoryInit, Open
<1>2. \A p \in Products : Units(Open, p) = {} /\ Units(committed, p) = {}
  BY <1>1 DEF Units
<1>3. \A p \in Products : Held(p) = 0 /\ Sold(p) = 0
  BY <1>2, FS_EmptySet DEF Held, Sold
<1>4. InventoryTypeOK
  BY StockAssumption DEF InventoryInit, InventoryTypeOK
<1>5. Countable
  BY <1>2, FS_EmptySet DEF Countable
<1>6. NoOversell /\ StockConserved
  BY <1>1, <1>3, StockAssumption DEF NoOversell, StockConserved
<1> QED BY <1>4, <1>5, <1>6 DEF InventoryInv

\* Every operation keeps the counts in step with the reservations.
LEMMA InventoryInvStep == InventoryInv /\ [InventoryNext]_inventoryVars => InventoryInv'
<1> SUFFICES ASSUME InventoryInv, [InventoryNext]_inventoryVars
             PROVE  InventoryInv'
  OBVIOUS
<1> USE DEF InventoryInv
<1>1. ASSUME NEW r \in ReservationIds, NEW items \in Baskets, Reserve(r, items)
      PROVE  InventoryInv'
  <2>1. InventoryTypeOK'
    BY <1>1 DEF Reserve, InventoryTypeOK
  <2>2. Countable'
    BY <1>1, ReserveEffect DEF Countable
  <2>3. \A p \in Products : items[p] \in Nat /\ stock'[p] = stock[p]
    BY <1>1, BasketsAssumption DEF Reserve
  <2>4. NoOversell'
    <3> SUFFICES ASSUME NEW p \in Products PROVE Held(p)' <= stock'[p]
      BY DEF NoOversell
    <3>1. Held(p)' = Held(p) + items[p]
      BY <1>1, ReserveEffect
    <3>2. items[p] > 0 => Available(p) >= items[p]
      BY <1>1 DEF Reserve, CanReserve
    <3>3. Held(p) <= stock[p]
      BY DEF NoOversell
    <3> QED BY <2>3, <3>1, <3>2, <3>3, AvailableIsFree DEF FreeUnits
  <2>5. StockConserved'
    BY <1>1, <2>3, ReserveEffect DEF StockConserved
  <2> QED BY <2>1, <2>2, <2>4, <2>5
<1>2. ASSUME NEW r \in ReservationIds, Commit(r)
      PROVE  InventoryInv'
  <2>1. CASE r \in committed
    <3>1. UNCHANGED inventoryVars
      BY <1>2, <2>1 DEF Commit, inventoryVars
    <3> QED BY <3>1 DEF inventoryVars, InventoryTypeOK, Countable, NoOversell, StockConserved,
                        Held, Sold, Units, Open
  <2>2. CASE r \notin committed
    <3>1. r \in Open
      BY <1>2, <2>2 DEF Commit, CommitRaises, Open
    <3>2. \A p \in Products :
            /\ stock[p] \in Nat /\ Held(p) \in Nat /\ Sold(p) \in Nat
            /\ reservations[r][p] \in Nat
      BY <3>1, Quantities DEF Open
    <3>3. \A p \in Products : stock'[p] = stock[p] - reservations[r][p] /\ stock'[p] \in Nat
      BY <1>2, <2>2, <3>1, <3>2, CommitEffect DEF Commit, AdjustInventory, NoOversell
    <3>4. InventoryTypeOK'
      BY <1>2, <3>2, <3>3, StockAssumption DEF Commit, CommitRaises, InventoryTypeOK
    <3>5. Countable'
      BY <1>2, <3>1, CommitEffect DEF Countable
    <3>6. NoOversell'
      BY <1>2, <3>1, <3>2, <3>3, CommitEffect DEF NoOversell
    <3>7. StockConserved'
      BY <1>2, <3>1, <3>2, <3>3, CommitEffect DEF StockConserved
    <3> QED BY <3>4, <3>5, <3>6, <3>7
  <2> QED BY <2>1, <2>2
<1>3. ASSUME NEW r \in ReservationIds, Release(r)
      PROVE  InventoryInv'
  <2>1. CASE r \in Open
    <3>1. \A p \in Products :
            /\ stock[p] \in Nat /\ Held(p) \in Nat /\ Sold(p) \in Nat
            /\ reservations[r][p] \in Nat
      BY <2>1, Quantities DEF Open
    <3>2. InventoryTypeOK'
      BY <1>3 DEF Release, InventoryTypeOK
    <3>3. Countable'
      BY <1>3, <2>1, ReleaseEffect DEF Countable
    <3>4. NoOversell'
      <4> SUFFICES ASSUME NEW p \in Products PROVE Held(p)' <= stock'[p]
        BY DEF NoOversell
      <4>1. Held(p)' \in Nat /\ Held(p) = Held(p)' + reservations[r][p]
        BY <1>3, <2>1, ReleaseEffect
      <4>2. Held(p) <= stock[p] /\ stock' = stock
        BY <1>3 DEF NoOversell, Release
      <4> QED BY <3>1, <4>1, <4>2
    <3>5. StockConserved'
      BY <1>3, <2>1, <3>1, ReleaseEffect DEF StockConserved, Release
    <3> QED BY <3>2, <3>3, <3>4, <3>5
  <2>2. CASE r \notin Open
    <3>1. UNCHANGED inventoryVars
      BY <1>3, <2>2 DEF Release, Open, inventoryVars
    <3> QED BY <3>1 DEF inventoryVars, InventoryTypeOK, Countable, NoOversell, StockConserved,
                        Held, Sold, Units, Open
  <2> QED BY <2>1, <2>2
<1>4. CASE Reseed
  <2>1. InventoryInit'
    BY <1>4 DEF Reseed, InventoryInit
  <2> QED BY <2>1, InventoryInvInit, PTL
<1>5. CASE UNCHANGED inventoryVars
  <2>1. UNCHANGED <<stock, reservations, committed, released>> /\ UNCHANGED Open
    BY <1>5 DEF inventoryVars, Open
  <2>2. InventoryTypeOK' /\ Countable'
    <3>1. InventoryTypeOK'
      BY <2>1 DEF InventoryTypeOK
    <3>2. Countable'
      BY <2>1 DEF Countable, Units
    <3> QED BY <3>1, <3>2
  <2>3. NoOversell'
    BY <2>1 DEF NoOversell, Held, Units
  <2>4. StockConserved'
    BY <2>1 DEF StockConserved, Sold, Units
  <2> QED BY <2>2, <2>3, <2>4
<1> QED BY <1>1, <1>2, <1>3, <1>4, <1>5 DEF InventoryNext

LEMMA InventoryInvHolds == InventorySpec => []InventoryInv
BY InventoryInvInit, InventoryInvStep, PTL DEF InventorySpec

\* The types of the stock and of the reservations, whatever the catalogue
\* (inventory_service.py 26-148).
THEOREM InventoryTypes == InventorySpec => []InventoryTypeOK
<1>1. InventoryInv => InventoryTypeOK
  BY DEF InventoryInv
<1> QED BY <1>1, InventoryInvHolds, PTL

\* No product is promised more often than it is in stock, however many
\* reservations overlap (inventory_service.py 84-104).
THEOREM NothingIsOversold == InventorySpec => []NoOversell
<1>1. InventoryInv => NoOversell
  BY DEF InventoryInv
<1> QED BY <1>1, InventoryInvHolds, PTL

\* Every unit of the catalogue is on the shelf or sold, at any time
\* (inventory_service.py 115-148).
THEOREM NoUnitIsLost == InventorySpec => []StockConserved
<1>1. InventoryInv => StockConserved
  BY DEF InventoryInv
<1> QED BY <1>1, InventoryInvHolds, PTL

\* A committed reservation is never released, a released one never committed,
\* and neither changes its items, for as long as the process runs.
THEOREM InventorySettledIsFinal == InventorySpec => SettledIsFinal
<1>1. InventoryInv /\ [InventoryNext]_inventoryVars => [SettledKept]_inventoryVars
  <2> SUFFICES ASSUME InventoryInv, [InventoryNext]_inventoryVars
               PROVE  [SettledKept]_inventoryVars
    OBVIOUS
  <2>1. committed \subseteq DOMAIN reservations /\ released \subseteq DOMAIN reservations
    BY DEF InventoryInv, InventoryTypeOK
  <2>2. ASSUME NEW r \in ReservationIds, NEW items \in Baskets, Reserve(r, items)
        PROVE  SettledKept
    BY <2>1, <2>2 DEF Reserve, SettledKept
  <2>3. ASSUME NEW r \in ReservationIds, Commit(r)
        PROVE  [SettledKept]_inventoryVars
    <3>1. CASE r \in committed
      BY <2>3, <3>1 DEF Commit, inventoryVars
    <3>2. CASE r \notin committed
      BY <2>1, <2>3, <3>2 DEF Commit, CommitRaises, SettledKept
    <3> QED BY <3>1, <3>2
  <2>4. ASSUME NEW r \in ReservationIds, Release(r)
        PROVE  [SettledKept]_inventoryVars
    <3>1. CASE r \in committed \/ r \in released
      BY <2>4, <3>1 DEF Release, inventoryVars
    <3>2. CASE r \notin committed /\ r \notin released
      BY <2>1, <2>4, <3>2 DEF Release, SettledKept
    <3> QED BY <3>1, <3>2
  <2>5. CASE Reseed
    BY <2>5 DEF SettledKept
  <2> QED BY <2>2, <2>3, <2>4, <2>5 DEF InventoryNext
<1> QED BY <1>1, InventoryInvInit, InventoryInvStep, PTL DEF InventorySpec, SettledIsFinal

-----------------------------------------------------------------------------
(* Refinement *)

\* The phases the refinement mapping gives to the reservations.
PhaseOf(r) ==
  IF r \in committed THEN "sold" ELSE IF r \in released THEN "returned" ELSE "held"

LEMMA PoolInit == InventoryInit => Pool!Init
<1> SUFFICES ASSUME InventoryInit PROVE Pool!Init
  OBVIOUS
<1>1. InventoryInv
  BY InventoryInvInit
<1>2. Open = {} /\ stock = InitialStock
  BY DEF InventoryInit, Open
<1>3. \A p \in Products : Held(p) = 0
  BY <1>2, FS_EmptySet DEF Held, Units
<1>4. \A p \in Products : Available(p) = InitialStock[p]
  BY <1>1, <1>2, <1>3, AvailableIsFree, StockAssumption DEF FreeUnits
<1>5. [p \in Products |-> Available(p)] = InitialStock
  BY <1>4, StockAssumption
<1>6. reservations = <<>> /\ [r \in DOMAIN reservations |-> PhaseOf(r)] = <<>>
  BY DEF InventoryInit
<1> QED BY <1>5, <1>6 DEF Pool!Init, PhaseOf

\* Reserve is Hold, the first Commit is Sell, the first Release is Return, and
\* a repeated call is a stutter of the pool.
LEMMA PoolStep ==
  InventoryInv /\ InventoryInv' /\ [InventoryNext]_inventoryVars => [Pool!Next]_(Pool!poolVars)
<1> SUFFICES ASSUME InventoryInv, InventoryInv', [InventoryNext]_inventoryVars
             PROVE  [Pool!Next]_(Pool!poolVars)
  OBVIOUS
<1>1. FreeUnits /\ FreeUnits'
  BY AvailableIsFree, PTL
<1>2. committed \subseteq DOMAIN reservations /\ released \subseteq DOMAIN reservations
  BY DEF InventoryInv, InventoryTypeOK
<1>3. ASSUME NEW r \in ReservationIds, NEW items \in Baskets, Reserve(r, items)
      PROVE  Pool!Hold(r, items)
  <2>1. \A p \in Products : items[p] \in Nat /\ Held(p)' = Held(p) + items[p] /\ stock'[p] = stock[p]
    BY <1>3, BasketsAssumption, ReserveEffect DEF InventoryInv, Reserve
  <2>2. \A p \in Products : items[p] <= Available(p)
    BY <1>1, <1>3, <2>1 DEF FreeUnits, Reserve, CanReserve
  <2>3. \A p \in Products : Available(p)' = Available(p) - items[p]
    BY <1>1, <2>1 DEF FreeUnits
  <2>4. [p \in Products |-> Available(p)]' = [p \in Products |-> Available(p) - items[p]]
    BY <2>3
  <2>5. [x \in DOMAIN reservations |-> PhaseOf(x)]'
          = [x \in DOMAIN reservations \cup {r} |-> IF x = r THEN "held" ELSE PhaseOf(x)]
    BY <1>2, <1>3 DEF Reserve, PhaseOf
  <2> QED BY <1>3, <2>2, <2>4, <2>5 DEF Reserve, Pool!Hold, PhaseOf
<1>4. ASSUME NEW r \in ReservationIds, Commit(r)
      PROVE  [Pool!Next]_(Pool!poolVars)
  <2>1. CASE r \in committed
    <3>1. UNCHANGED inventoryVars
      BY <1>4, <2>1 DEF Commit, inventoryVars
    <3> QED BY <3>1 DEF inventoryVars, Pool!poolVars, Available, Held, Units, Open
  <2>2. CASE r \notin committed
    <3>1. r \in Open
      BY <1>4, <2>2 DEF Commit, CommitRaises, Open
    <3>2. \A p \in Products : reservations[r][p] \in Nat
      BY <3>1, Quantities DEF InventoryInv, Open
    <3>3. \A p \in Products : Held(p)' \in Nat /\ Held(p) = Held(p)' + reservations[r][p]
      BY <1>4, <3>1, CommitEffect DEF InventoryInv
    <3>4. \A p \in Products : stock'[p] = stock[p] - reservations[r][p]
      BY <1>1, <1>4, <2>2, <3>2, <3>3 DEF Commit, AdjustInventory, FreeUnits
    <3>5. \A p \in Products : Available(p)' = Available(p)
      BY <1>1, <3>2, <3>3, <3>4 DEF FreeUnits
    <3>6. [p \in Products |-> Available(p)]' = [p \in Products |-> Available(p)]
      BY <3>5
    <3>7. [x \in DOMAIN reservations |-> PhaseOf(x)]'
            = [[x \in DOMAIN reservations |-> PhaseOf(x)] EXCEPT ![r] = "sold"]
      BY <1>4, <3>1 DEF Commit, PhaseOf, Open
    <3>8. Pool!Sell(r)
      BY <1>4, <3>1, <3>6, <3>7 DEF Commit, Pool!Sell, PhaseOf, Open
    <3> QED BY <3>8 DEF Pool!Next
  <2> QED BY <2>1, <2>2
<1>5. ASSUME NEW r \in ReservationIds, Release(r)
      PROVE  [Pool!Next]_(Pool!poolVars)
  <2>1. CASE r \notin Open
    <3>1. UNCHANGED inventoryVars
      BY <1>5, <2>1 DEF Release, Open, inventoryVars
    <3> QED BY <3>1 DEF inventoryVars, Pool!poolVars, Available, Held, Units, Open
  <2>2. CASE r \in Open
    <3>1. \A p \in Products : reservations[r][p] \in Nat
      BY <2>2, Quantities DEF InventoryInv, Open
    <3>2. \A p \in Products : Held(p)' \in Nat /\ Held(p) = Held(p)' + reservations[r][p]
      BY <1>5, <2>2, ReleaseEffect DEF InventoryInv
    <3>3. \A p \in Products : Available(p)' = Available(p) + reservations[r][p]
      BY <1>1, <1>5, <3>1, <3>2 DEF FreeUnits, Release
    <3>4. [p \in Products |-> Available(p)]'
            = [p \in Products |-> Available(p) + reservations[r][p]]
      BY <3>3
    <3>5. [x \in DOMAIN reservations |-> PhaseOf(x)]'
            = [[x \in DOMAIN reservations |-> PhaseOf(x)] EXCEPT ![r] = "returned"]
      BY <1>5, <2>2 DEF Release, PhaseOf, Open
    <3>6. Pool!Return(r)
      BY <1>5, <2>2, <3>4, <3>5 DEF Release, Pool!Return, PhaseOf, Open
    <3> QED BY <3>6 DEF Pool!Next
  <2> QED BY <2>1, <2>2
<1>6. CASE Reseed
  <2>1. Pool!Init'
    <3>1. InventoryInit'
      BY <1>6 DEF Reseed, InventoryInit
    <3> QED BY <3>1, PoolInit, PTL
  <2>2. Pool!Reseed
    BY <2>1 DEF Pool!Init, Pool!Reseed
  <2> QED BY <2>2 DEF Pool!Next
<1>7. CASE UNCHANGED inventoryVars
  BY <1>7 DEF inventoryVars, Pool!poolVars, Available, Held, Units, Open
<1> QED BY <1>3, <1>4, <1>5, <1>6, <1>7 DEF InventoryNext, Pool!Next

\* The inventory implements the pool of units: what it reports as available
\* is what nobody holds or owns, and every operation is one move of a booking.
THEOREM InventoryImplementsPool == InventorySpec => ImplementsPool
<1> QED BY InventoryInvHolds, PoolInit, PoolStep, PTL DEF InventorySpec, ImplementsPool, Pool!Spec
=============================================================================
