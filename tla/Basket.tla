------------------------------- MODULE Basket -------------------------------
(***************************************************************************)
(* How the buyer agent decides what to order (buyer_agent/agent/           *)
(* buyer_core.py), against the catalogue of the merchant and an inventory  *)
(* other customers use at the same time.  Whatever a language model        *)
(* answers is an arbitrary choice here; the checks around it are the code. *)
(* Amounts are minor units and every price is in one currency; what a user *)
(* types has fractions of them and is counted in tenths.                   *)
(***************************************************************************)
EXTENDS Inventory, Integers

CONSTANTS Price, Category,  \* of each product
          Categories,       \* what the model may name as category
          UpsellFor,        \* the products each product is an add-on for
          AnyCategory,      \* the empty category of an intent
          AddOnCategories,  \* accessories and services
          Budgets,          \* budgets as typed, in tenths; NoBudget for none
          InferredBudgets,  \* budgets the model may read out of a request
          RawQuantities,    \* quantities the model may read out of a request
          DefaultBudget,    \* settings: budget without any other source
          AbsoluteMax,      \* settings: ceiling of every mandate
          SearchLimit,      \* number of search results
          NoProduct,        \* no product chosen yet
          Own               \* the reservation of this purchase

NoBudget == -1

ASSUME CatalogAssumption ==
  /\ Price \in [Products -> Nat]
  /\ UpsellFor \in [Products -> SUBSET Products]
  /\ NoProduct \notin Products
  /\ Own \notin ReservationIds
ASSUME BudgetsAssumption ==
  /\ Budgets \subseteq (Nat \ {0}) \cup {NoBudget}
  /\ InferredBudgets \subseteq Int /\ RawQuantities \subseteq Int
  /\ DefaultBudget \in Nat \ {0} /\ AbsoluteMax \in Nat \ {0}

VARIABLES stage,     \* how far the purchase has come
          budget,    \* what the user typed
          category,  \* what the model understood
          quantity,
          mandate,   \* the limits of the spending mandate
          product,   \* the product selected
          addOn,     \* the add-on offered or accepted: a set of at most one
          moved      \* did other customers act since the search?

decisionVars == <<stage, budget, category, quantity, mandate, product, addOn, moved>>
basketVars == <<decisionVars, inventoryVars>>

Least(a, b) == IF a <= b THEN a ELSE b

-----------------------------------------------------------------------------
(* Reading the request and the mandate *)

\* Mutant of Clamped: bounded above only.
ClampedAbove(raw) == Least(raw, 10)

\* What the model read is forced into one to ten.
Clamped(raw) == IF raw < 1 THEN 1 ELSE Least(raw, 10)

\* Mutant of ToMinor: rounded up.
ToMinorUp(typed) == (typed + 9) \div 10

\* to_minor(): tenths to whole minor units, half up.
ToMinor(typed) == (typed + 5) \div 10

\* _budget_minor(): zero for less than half a minor unit.
BudgetMinor(typed) == IF typed = NoBudget THEN NoBudget ELSE ToMinor(typed)

\* Mutant of Asked: the model's reading is preferred.
AskedByModel(explicit, inferred) ==
  IF inferred > 0 THEN inferred ELSE IF explicit > 0 THEN explicit ELSE DefaultBudget

\* The explicit budget, else what the model inferred, else the default.
Asked(explicit, inferred) ==
  IF explicit > 0 THEN explicit ELSE IF inferred > 0 THEN inferred ELSE DefaultBudget

\* Mutant of MandateFor: no room for an add-on.
TightMandate(amount, c, q) ==
  [maximum |-> Least(amount, AbsoluteMax),
   categories |-> IF c = AnyCategory THEN {} ELSE {c} \cup AddOnCategories,
   maxItems |-> q]

\* _create_mandate() and create_mandate(): capped, scoped to the category and
\* the add-ons, one item more than asked for.  strip() (ap2.py 159) has no
\* effect: a category with blanks around it finds no product (catalog_service.py
\* 70), so that no order is made under its mandate.
MandateFor(amount, c, q) ==
  [maximum |-> Least(amount, AbsoluteMax),
   categories |-> IF c = AnyCategory THEN {} ELSE {c} \cup AddOnCategories,
   maxItems |-> IF q + 1 < 2 THEN 2 ELSE q + 1]

Interpret ==
  /\ stage = "requested"
  /\ \E explicit \in Budgets, inferred \in InferredBudgets, raw \in RawQuantities,
        c \in Categories :
       /\ budget' = explicit
       /\ category' = c
       /\ quantity' = Clamped(raw)
       /\ mandate' = MandateFor(Asked(BudgetMinor(explicit), inferred), c, Clamped(raw))
  /\ stage' = "mandated"
  /\ UNCHANGED <<product, addOn, moved, inventoryVars>>

-----------------------------------------------------------------------------
(* Searching and selecting *)

\* search(): hard filters on category, unit price and stock on the shelf.
Matching ==
  {p \in Products :
     /\ category \in {AnyCategory, Category[p]}
     /\ Price[p] <= mandate.maximum \div quantity
     /\ stock[p] > 0}

\* Mutant of Affordable: the number available is not looked at.
AffordableAnyStock(p) == Price[p] * quantity <= mandate.maximum

\* The buyer's own check of a search result.
Affordable(p) == Price[p] * quantity <= mandate.maximum /\ Available(p) >= quantity

\* The best results by similarity, any of those the buyer can afford by the
\* model's ranking.
Select ==
  /\ stage = "mandated"
  /\ \E results \in SUBSET Matching :
       /\ Cardinality(results) = Least(SearchLimit, Cardinality(Matching))
       /\ \/ \E p \in results :
               /\ Affordable(p)
               /\ product' = p
               /\ stage' = "selected"
          \/ /\ \A p \in results : ~ Affordable(p)
             /\ stage' = "rejected"
             /\ UNCHANGED product
  /\ moved' = FALSE
  /\ UNCHANGED <<budget, category, quantity, mandate, addOn, inventoryVars>>

-----------------------------------------------------------------------------
(* Quote and add-on *)

BaseTotal == Price[product] * quantity

\* build_upsell_offer(): linked to the product, on the shelf and within the
\* headroom of the mandate.
Offerable ==
  {p \in Products :
     product \in UpsellFor[p] /\ stock[p] > 0 /\ Price[p] <= mandate.maximum - BaseTotal}

\* quote(): the cheapest add-on, if the product itself is available.
Quote ==
  /\ stage = "selected"
  /\ \/ /\ Available(product) >= quantity
        /\ \E p \in Offerable :
             /\ \A q \in Offerable : Price[p] <= Price[q]
             /\ addOn' = {p}
     \/ /\ Available(product) < quantity \/ Offerable = {}
        /\ addOn' = {}
  /\ stage' = "quoted"
  /\ UNCHANGED <<budget, category, quantity, mandate, product, moved, inventoryVars>>

InScope(p) == mandate.categories = {} \/ Category[p] \in mandate.categories

\* _evaluate_upsell() up to the hard gate.
Acceptable(p) == InScope(p) /\ BaseTotal + Price[p] <= mandate.maximum

\* An acceptable add-on is taken if the model finds it desirable.
EvaluateUpsell ==
  /\ stage = "quoted"
  /\ \E desirable \in BOOLEAN :
       addOn' = IF desirable THEN {p \in addOn : Acceptable(p)} ELSE {}
  /\ stage' = "evaluated"
  /\ UNCHANGED <<budget, category, quantity, mandate, product, moved, inventoryVars>>

-----------------------------------------------------------------------------
(* Authorizing and ordering *)

Items == [p \in Products |-> (IF p = product THEN quantity ELSE 0)
                             + (IF p \in addOn THEN 1 ELSE 0)]

Total == BaseTotal + (IF addOn = {} THEN 0 ELSE Price[CHOOSE p \in addOn : TRUE])

\* authorize(), the same code on both sides: number of items, scope, total.
Authorized ==
  /\ quantity + (IF addOn = {} THEN 0 ELSE 1) <= mandate.maxItems
  /\ \A p \in {product} \cup addOn : InScope(p)
  /\ Total <= mandate.maximum

Authorize ==
  /\ stage = "evaluated"
  /\ stage' = IF Authorized THEN "authorized" ELSE "vetoed"
  /\ UNCHANGED <<budget, category, quantity, mandate, product, addOn, moved, inventoryVars>>

\* create_order() at the merchant: stock, then mandate, then the reservation.
Order ==
  /\ stage = "authorized"
  /\ \/ Authorized /\ Reserve(Own, Items) /\ stage' = "ordered"
     \/ /\ ~ CanReserve(Items) \/ ~ Authorized
        /\ stage' = IF CanReserve(Items) THEN "refused" ELSE "short"
        /\ UNCHANGED inventoryVars
  /\ UNCHANGED <<budget, category, quantity, mandate, product, addOn, moved>>

\* Somebody else reserves, buys or gives back.
OtherCustomer ==
  /\ \/ \E r \in ReservationIds, items \in Baskets : Reserve(r, items)
     \/ \E r \in ReservationIds : Commit(r) \/ Release(r)
  /\ moved' = TRUE
  /\ UNCHANGED <<stage, budget, category, quantity, mandate, product, addOn>>

-----------------------------------------------------------------------------

BasketInit ==
  /\ InventoryInit
  /\ stage = "requested"
  /\ budget = NoBudget
  /\ category = AnyCategory
  /\ quantity = 1
  /\ mandate = MandateFor(DefaultBudget, AnyCategory, 1)
  /\ product = NoProduct
  /\ addOn = {}
  /\ moved = FALSE

BasketNext ==
  \/ Interpret \/ Select \/ Quote \/ EvaluateUpsell \/ Authorize \/ Order
  \/ OtherCustomer

BasketSpec == BasketInit /\ [][BasketNext]_basketVars

-----------------------------------------------------------------------------
(* Properties *)

\* A quantity of one to ten, a positive ceiling, at most one add-on, and a
\* product from the selection on (buyer_core.py 502-519, 529-547).
BasketTypeOK ==
  /\ stage \in {"requested", "mandated", "rejected", "selected", "quoted", "evaluated",
                "authorized", "vetoed", "refused", "short", "ordered"}
  /\ budget \in (Nat \ {0}) \cup {NoBudget}
  /\ category \in Categories \cup {AnyCategory}
  /\ quantity \in 1 .. 10
  /\ mandate.maximum \in 1 .. AbsoluteMax
  /\ mandate.maxItems \in 1 .. 11
  /\ product \in Products \cup {NoProduct}
  /\ product = NoProduct <=> stage \in {"requested", "mandated", "rejected"}
  /\ addOn \in SUBSET Products
  /\ \A p, q \in addOn : p = q
  /\ moved \in BOOLEAN

\* The stages in which the basket has passed the buyer's own check.
Passed == {"authorized", "ordered", "refused", "short"}

\* What is sent to the merchant, add-on included, never costs more than the
\* mandate allows, than the platform allows, or than the budget the user typed,
\* whatever the models answer (buyer_core.py 521-594, 659-693; ap2.py 151): half
\* a minor unit above it at most, and only if it does not round to zero, which
\* counts as no budget (routes.py 33-36, money.py 17-24).
WithinCeilings ==
  stage \in Passed =>
    /\ Total <= mandate.maximum
    /\ Total <= AbsoluteMax
    /\ budget >= 5 => 10 * Total <= budget + 5

\* The checks agree: what selection and upsell evaluation let pass is neither
\* vetoed by the buyer's authorization nor refused under its mandate by the
\* merchant, so no mandate is spent on an order bound to fail for its scope
\* (buyer_core.py 544, 558-563, 647-660 against ap2.py 261-279).
ChecksAgree == stage \notin {"vetoed", "refused"}

\* An order without add-on is short of stock only because another customer
\* was faster since the search (buyer_core.py 558-563, tools.py 143-145).
ShortForACause == stage = "short" => moved \/ addOn # {}
=============================================================================
