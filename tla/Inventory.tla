----------------------------- MODULE Inventory -----------------------------
(***************************************************************************)
(* InventoryService (app/services/inventory_service.py) on top of the      *)
(* stock counts of CatalogService.  Every operation runs under one RLock,  *)
(* so each is one action.  A call that raises changes nothing; the         *)
(* conditions under which it raises are operators of their own             *)
(* (CanReserve, CommitRaises), which the callers in Merchant branch on.    *)
(***************************************************************************)
EXTENDS Naturals, FiniteSets

CONSTANTS Products,      \* product ids of the catalogue
          ReservationIds,\* reservation ids ("rsv_" plus a uuid)
          Baskets,       \* quantities per product an order may ask for
          InitialStock   \* on-hand stock the catalogue is seeded with

ASSUME BasketsAssumption == Baskets \subseteq [Products -> Nat]
ASSUME StockAssumption == InitialStock \in [Products -> Nat]

VARIABLES stock,         \* CatalogService: on-hand units per product
          reservations,  \* reservation id -> items
          committed,     \* ids of the reservations with the flag committed
          released       \* ids of the reservations with the flag released

inventoryVars == <<stock, reservations, committed, released>>

-----------------------------------------------------------------------------
(* Reads *)

Open == DOMAIN reservations \ (committed \cup released)

\* The units of p in a set of reservations: one pair per unit, so that the
\* sum over the reservations is the size of the set.
Units(rs, p) == UNION {{r} \X (1 .. reservations[r][p]) : r \in rs}

Held(p) == Cardinality(Units(Open, p))

Sold(p) == Cardinality(Units(committed, p))

\* Mutant of Available: the stock on the shelf, holds ignored.
AvailableOnShelf(p) == stock[p]

Available(p) == IF Held(p) <= stock[p] THEN stock[p] - Held(p) ELSE 0

\* require() for every item of the order; a product with quantity 0 is not
\* in it.
CanReserve(items) == \A p \in Products : items[p] > 0 => Available(p) >= items[p]

\* Mutant of CommitRaises: the check of the flag released is missing.
CommitRaisesUnknown(r) == r \notin DOMAIN reservations

\* commit() raises for an unknown and for a released reservation.
CommitRaises(r) == r \notin DOMAIN reservations \/ r \in released

-----------------------------------------------------------------------------
(* Operations *)

\* Mutant of AdjustInventory: the delta has the wrong sign.
AdjustInventoryUp(p, taken) == stock[p] + taken

\* adjust_inventory() with a negative delta, clamped at zero.
AdjustInventory(p, taken) == IF taken <= stock[p] THEN stock[p] - taken ELSE 0

Reserve(r, items) ==
  /\ r \notin DOMAIN reservations
  /\ CanReserve(items)
  /\ reservations' = [x \in DOMAIN reservations \cup {r} |->
                        IF x = r THEN items ELSE reservations[x]]
  /\ UNCHANGED <<stock, committed, released>>

\* Mutant of Commit: a second commit takes the units again.
CommitAgain(r) ==
  /\ ~ CommitRaises(r)
  /\ stock' = [p \in Products |-> AdjustInventory(p, reservations[r][p])]
  /\ committed' = committed \cup {r}
  /\ UNCHANGED <<reservations, released>>

\* A second commit of the same reservation returns it unchanged.
Commit(r) ==
  /\ ~ CommitRaises(r)
  /\ stock' = IF r \in committed THEN stock
              ELSE [p \in Products |-> AdjustInventory(p, reservations[r][p])]
  /\ committed' = committed \cup {r}
  /\ UNCHANGED <<reservations, released>>

\* Mutant of Release: a committed reservation is released as well.
ReleaseCommitted(r) ==
  /\ r \in DOMAIN reservations
  /\ released' = released \cup {r}
  /\ UNCHANGED <<stock, reservations, committed>>

\* A committed reservation is returned unchanged, a released one released again.
Release(r) ==
  /\ r \in DOMAIN reservations
  /\ released' = IF r \in committed THEN released ELSE released \cup {r}
  /\ UNCHANGED <<stock, reservations, committed>>

-----------------------------------------------------------------------------

InventoryInit ==
  /\ stock = InitialStock
  /\ reservations = <<>>
  /\ committed = {}
  /\ released = {}

\* The process starts again: stock and reservations live in memory only and
\* the catalogue is read from its seed file.
Reseed ==
  /\ stock' = InitialStock
  /\ reservations' = <<>>
  /\ committed' = {}
  /\ released' = {}

InventoryNext ==
  \/ \E r \in ReservationIds, items \in Baskets : Reserve(r, items)
  \/ \E r \in ReservationIds : Commit(r) \/ Release(r)
  \/ Reseed

InventorySpec == InventoryInit /\ [][InventoryNext]_inventoryVars

-----------------------------------------------------------------------------
(* Properties *)

\* Counts and reservations stay in range: no product ever shows more units
\* than it was seeded with (inventory_service.py, catalog_service.py 167-175).
InventoryTypeOK ==
  /\ stock \in [Products -> Nat]
  /\ \A p \in Products : stock[p] <= InitialStock[p]
  /\ DOMAIN reservations \subseteq ReservationIds
  /\ reservations \in [DOMAIN reservations -> Baskets]
  /\ committed \subseteq DOMAIN reservations
  /\ released \subseteq DOMAIN reservations

\* Open reservations never promise more units than are on the shelf, so two
\* transactions never hold the last unit (reserve, lines 84-95).
NoOversell == \A p \in Products : Held(p) <= stock[p]

\* Every unit that left the shelf is accounted for by exactly one committed
\* reservation; in particular the clamp in adjust_inventory never hides a
\* missing unit and no commit is applied twice (commit, lines 115-129).
StockConserved == \A p \in Products : stock[p] + Sold(p) = InitialStock[p]

\* A reservation that was committed or released keeps that outcome and its
\* items until the process ends (commit and release, lines 115-148).
SettledKept ==
  \/ Reseed
  \/ \A r \in committed \cup released :
       /\ r \in DOMAIN reservations' /\ reservations'[r] = reservations[r]
       /\ r \in committed' <=> r \in committed
       /\ r \in released' <=> r \in released

SettledIsFinal == [][SettledKept]_inventoryVars

\* The reservations implement the abstract pool: what check() reports as
\* available is exactly what nobody holds or owns.
Pool == INSTANCE StockPool WITH
  Bookings <- ReservationIds,
  free <- [p \in Products |-> Available(p)],
  booked <- reservations,
  phase <- [r \in DOMAIN reservations |->
              IF r \in committed THEN "sold"
              ELSE IF r \in released THEN "returned" ELSE "held"]

ImplementsPool == Pool!Spec
=============================================================================
