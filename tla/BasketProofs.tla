---------------------------- MODULE BasketProofs ----------------------------
(***************************************************************************)
(* Proofs about Basket: for every catalogue, every budget, every answer of *)
(* the models and everything other customers do, the order stays within    *)
(* the limits, and the checks of buyer and merchant agree.                 *)
(***************************************************************************)
EXTENDS Basket, TLAPS

\* What selection and upsell evaluation establish, carried to the order.
DecisionInv ==
  /\ BasketTypeOK
  /\ budget >= 5 => mandate.maximum <= ToMinor(budget)
  /\ quantity + 1 <= mandate.maxItems
  /\ category = AnyCategory => mandate.categories = {}
  /\ category # AnyCategory => category \in mandate.categories
  /\ product # NoProduct => BaseTotal <= mandate.maximum /\ InScope(product)
  /\ stage = "evaluated" => \A p \in addOn : Acceptable(p)
  /\ stage \in Passed => Authorized
  /\ ChecksAgree

\* A clamped quantity is one to ten.
LEMMA ClampedRange ==
  ASSUME NEW raw \in Int
  PROVE  Clamped(raw) \in 1 .. 10
BY DEF Clamped, Least

\* A requested amount is positive and respects an explicit budget.
LEMMA AskedRange ==
  ASSUME NEW explicit \in Nat \cup {NoBudget}, NEW inferred \in Int
  PROVE  /\ Asked(explicit, inferred) \in Nat \ {0}
         /\ explicit > 0 => Asked(explicit, inferred) = explicit
BY BudgetsAssumption DEF Asked, NoBudget

\* A typed budget of half a minor unit or more is at least one minor unit, and
\* at most half a one above what was typed.
LEMMA TypedRange ==
  ASSUME NEW typed \in (Nat \ {0}) \cup {NoBudget}
  PROVE  /\ BudgetMinor(typed) \in Nat \cup {NoBudget}
         /\ typed >= 5 => /\ BudgetMinor(typed) = ToMinor(typed)
                         /\ ToMinor(typed) > 0
                         /\ 10 * ToMinor(typed) <= typed + 5
<1>1. CASE typed = NoBudget
  BY <1>1 DEF BudgetMinor, NoBudget
<1>2. CASE typed # NoBudget
  <2>1. typed \in Nat /\ BudgetMinor(typed) = (typed + 5) \div 10
    BY <1>2 DEF BudgetMinor, ToMinor
  <2>2. (typed + 5) \div 10 \in Nat /\ 10 * ((typed + 5) \div 10) <= typed + 5
    BY <2>1
  <2>3. typed >= 5 => (typed + 5) \div 10 > 0
    BY <2>1
  <2> QED BY <2>1, <2>2, <2>3 DEF ToMinor
<1> QED BY <1>1, <1>2

\* The mandate is capped and leaves room for one add-on in its scope.
LEMMA MandateLimits ==
  ASSUME NEW amount \in Nat \ {0}, NEW c, NEW q \in 1 .. 10
  PROVE  LET m == MandateFor(amount, c, q) IN
         /\ m.maximum \in 1 .. AbsoluteMax
         /\ m.maximum <= amount
         /\ m.maxItems = q + 1
         /\ c = AnyCategory => m.categories = {}
         /\ c # AnyCategory => c \in m.categories
<1> DEFINE m == MandateFor(amount, c, q)
<1>1. m.maximum = Least(amount, AbsoluteMax) BY DEF MandateFor
<1>2. m.maximum \in 1 .. AbsoluteMax /\ m.maximum <= amount
  BY <1>1, BudgetsAssumption DEF Least
<1>3. m.maxItems = q + 1 BY DEF MandateFor
<1>4. m.categories = IF c = AnyCategory THEN {} ELSE {c} \cup AddOnCategories
  BY DEF MandateFor
<1> QED BY <1>2, <1>3, <1>4

LEMMA InterpretKeeps ==
  ASSUME DecisionInv, Interpret
  PROVE  DecisionInv'
<1>1. PICK explicit \in Budgets, inferred \in InferredBudgets, raw \in RawQuantities,
            c \in Categories :
         /\ budget' = explicit
         /\ category' = c
         /\ quantity' = Clamped(raw)
         /\ mandate' = MandateFor(Asked(BudgetMinor(explicit), inferred), c, Clamped(raw))
  BY DEF Interpret
<1>2. Clamped(raw) \in 1 .. 10 BY ClampedRange, BudgetsAssumption
<1> DEFINE amount == Asked(BudgetMinor(explicit), inferred)
<1>3. explicit \in (Nat \ {0}) \cup {NoBudget} /\ inferred \in Int BY BudgetsAssumption
<1>4. /\ amount \in Nat \ {0}
      /\ BudgetMinor(explicit) > 0 => amount = BudgetMinor(explicit)
  BY <1>3, TypedRange, AskedRange
<1> HIDE DEF amount
<1>5. /\ mandate'.maximum \in 1 .. AbsoluteMax
      /\ mandate'.maximum <= amount
      /\ mandate'.maxItems = quantity' + 1
      /\ c = AnyCategory => mandate'.categories = {}
      /\ c # AnyCategory => c \in mandate'.categories
  BY <1>1, <1>2, <1>4, MandateLimits DEF amount
<1>6. product' = NoProduct /\ stage' = "mandated" /\ addOn' = addOn /\ moved' = moved
  BY DEF Interpret, DecisionInv, BasketTypeOK
<1>7. BasketTypeOK'
  BY <1>1, <1>2, <1>3, <1>5, <1>6 DEF DecisionInv, BasketTypeOK
<1>8. budget' >= 5 => mandate'.maximum <= ToMinor(budget')
  BY <1>1, <1>3, <1>4, <1>5, TypedRange
<1>9. ChecksAgree' BY <1>6 DEF ChecksAgree
<1>10. quantity' + 1 <= mandate'.maxItems BY <1>1, <1>2, <1>5
<1> QED BY <1>1, <1>5, <1>6, <1>7, <1>8, <1>9, <1>10 DEF DecisionInv, Passed

LEMMA SelectKeeps ==
  ASSUME DecisionInv, Select
  PROVE  DecisionInv'
<1> USE DEF DecisionInv
<1>1. /\ stage = "mandated" /\ moved' = FALSE
      /\ UNCHANGED <<budget, category, quantity, mandate, addOn>>
  BY DEF Select
<1>2. PICK results \in SUBSET Matching :
        \/ \E p \in results : Affordable(p) /\ product' = p /\ stage' = "selected"
        \/ stage' = "rejected" /\ UNCHANGED product
  BY DEF Select
<1>3. CASE stage' = "rejected" /\ UNCHANGED product
  BY <1>1, <1>3 DEF BasketTypeOK, BaseTotal, InScope, Passed, ChecksAgree
<1>4. CASE \E p \in results : Affordable(p) /\ product' = p /\ stage' = "selected"
  <2>1. PICK p \in results : Affordable(p) /\ product' = p /\ stage' = "selected"
    BY <1>4
  <2>2. p \in Products /\ category \in {AnyCategory, Category[p]}
    BY <2>1, <1>2 DEF Matching
  <2>3. p # NoProduct BY <2>2, CatalogAssumption
  <2>4. BaseTotal' <= mandate'.maximum
    BY <2>1, <1>1 DEF BaseTotal, Affordable
  <2>5. InScope(product)'
    BY <2>1, <2>2, <1>1 DEF InScope
  <2>6. BasketTypeOK'
    BY <1>1, <2>1, <2>2, <2>3 DEF BasketTypeOK
  <2> QED BY <1>1, <2>1, <2>4, <2>5, <2>6 DEF Passed, ChecksAgree
<1> QED BY <1>2, <1>3, <1>4

\* While the quantities and the product stay, so do the base total and the scope.
LEMMA ChoiceStays ==
  ASSUME UNCHANGED <<quantity, mandate, product>>
  PROVE  /\ BaseTotal' = BaseTotal
         /\ \A p : InScope(p)' <=> InScope(p)
         /\ \A p : Acceptable(p)' <=> Acceptable(p)
BY DEF BaseTotal, InScope, Acceptable

LEMMA QuoteKeeps ==
  ASSUME DecisionInv, Quote
  PROVE  DecisionInv'
<1> USE DEF DecisionInv
<1>1. /\ stage = "selected" /\ stage' = "quoted"
      /\ UNCHANGED <<budget, category, quantity, mandate, product, moved>>
  BY DEF Quote
<1>2. addOn' = {} \/ \E p \in Products : addOn' = {p}
  BY DEF Quote, Offerable
<1>3. addOn' \in SUBSET Products /\ \A p, q \in addOn' : p = q
  BY <1>2
<1>4. BasketTypeOK' BY <1>1, <1>3 DEF BasketTypeOK
<1> QED BY <1>1, <1>4, ChoiceStays DEF Passed, ChecksAgree

LEMMA EvaluateKeeps ==
  ASSUME DecisionInv, EvaluateUpsell
  PROVE  DecisionInv'
<1> USE DEF DecisionInv
<1>1. /\ stage = "quoted" /\ stage' = "evaluated"
      /\ UNCHANGED <<budget, category, quantity, mandate, product, moved>>
  BY DEF EvaluateUpsell
<1>2. addOn' \subseteq addOn /\ \A p \in addOn' : Acceptable(p)
  BY DEF EvaluateUpsell
<1>3. BasketTypeOK' BY <1>1, <1>2 DEF BasketTypeOK
<1> QED BY <1>1, <1>2, <1>3, ChoiceStays DEF Passed, ChecksAgree

\* What the buyer evaluated, its own authorization accepts.
LEMMA EvaluatedIsAuthorized ==
  ASSUME DecisionInv, stage = "evaluated"
  PROVE  Authorized
<1> USE DEF DecisionInv
<1>1. /\ quantity \in 1 .. 10 /\ mandate.maxItems \in 1 .. 11
      /\ quantity + 1 <= mandate.maxItems
      /\ BaseTotal <= mandate.maximum /\ InScope(product)
      /\ \A p \in addOn : InScope(p) /\ BaseTotal + Price[p] <= mandate.maximum
  BY DEF BasketTypeOK, Acceptable
<1>2. quantity + (IF addOn = {} THEN 0 ELSE 1) <= mandate.maxItems
  BY <1>1
<1>3. Total <= mandate.maximum
  <2>1. CASE addOn = {}
    <3>1. product \in Products /\ quantity \in Nat BY DEF BasketTypeOK
    <3>2. BaseTotal \in Nat BY <3>1, CatalogAssumption DEF BaseTotal
    <3> QED BY <1>1, <2>1, <3>2 DEF Total
  <2>2. CASE addOn # {}
    <3>1. (CHOOSE p \in addOn : TRUE) \in addOn BY <2>2
    <3> QED BY <1>1, <2>2, <3>1 DEF Total
  <2> QED BY <2>1, <2>2
<1> QED BY <1>1, <1>2, <1>3 DEF Authorized

\* The decision of authorize() depends on nothing but mandate and basket.
LEMMA AuthorizedStays ==
  ASSUME UNCHANGED <<quantity, mandate, product, addOn>>
  PROVE  Authorized' <=> Authorized
BY DEF Authorized, Total, BaseTotal, InScope

LEMMA AuthorizeKeeps ==
  ASSUME DecisionInv, Authorize
  PROVE  DecisionInv'
<1>1. /\ stage = "evaluated"
      /\ UNCHANGED <<budget, category, quantity, mandate, product, addOn, moved>>
  BY DEF Authorize
<1>2. Authorized BY <1>1, EvaluatedIsAuthorized
<1>3. stage' = "authorized" BY <1>2 DEF Authorize
<1>4. Authorized' BY <1>1, <1>2, AuthorizedStays
<1>5. BasketTypeOK' BY <1>1, <1>3 DEF BasketTypeOK, DecisionInv
<1> QED BY <1>1, <1>3, <1>4, <1>5, ChoiceStays DEF ChecksAgree, DecisionInv

LEMMA OrderKeeps ==
  ASSUME DecisionInv, Order
  PROVE  DecisionInv'
<1>1. /\ stage = "authorized"
      /\ UNCHANGED <<budget, category, quantity, mandate, product, addOn, moved>>
  BY DEF Order
<1>2. Authorized BY <1>1 DEF DecisionInv, Passed
<1>3. stage' \in {"ordered", "short"} BY <1>2 DEF Order
<1>4. Authorized' BY <1>1, <1>2, AuthorizedStays
<1>5. BasketTypeOK' BY <1>1, <1>3 DEF BasketTypeOK, DecisionInv
<1> QED BY <1>1, <1>3, <1>4, <1>5, ChoiceStays DEF ChecksAgree, DecisionInv

\* Other customers change nothing the decisions rest on.
LEMMA OthersKeep ==
  ASSUME DecisionInv,
         UNCHANGED <<stage, budget, category, quantity, mandate, product, addOn>>,
         moved' \in BOOLEAN
  PROVE  DecisionInv'
<1>1. BasketTypeOK' BY DEF BasketTypeOK, DecisionInv
<1>2. ChecksAgree' BY DEF ChecksAgree, DecisionInv
<1> QED BY <1>1, <1>2, AuthorizedStays, ChoiceStays DEF DecisionInv

LEMMA DecisionInvStep ==
  ASSUME DecisionInv, [BasketNext]_basketVars
  PROVE  DecisionInv'
<1>1. CASE OtherCustomer
  BY <1>1, OthersKeep DEF OtherCustomer
<1>2. CASE UNCHANGED basketVars
  <2>1. moved' \in BOOLEAN BY <1>2 DEF basketVars, decisionVars, DecisionInv, BasketTypeOK
  <2> QED BY <1>2, <2>1, OthersKeep DEF basketVars, decisionVars
<1> QED BY <1>1, <1>2, InterpretKeeps, SelectKeeps, QuoteKeeps, EvaluateKeeps,
           AuthorizeKeeps, OrderKeeps DEF BasketNext

LEMMA DecisionInvInit == BasketInit => DecisionInv
<1> SUFFICES ASSUME BasketInit PROVE DecisionInv
  OBVIOUS
<1>1. /\ mandate.maximum \in 1 .. AbsoluteMax
      /\ mandate.maxItems = 2
      /\ category = AnyCategory => mandate.categories = {}
      /\ category # AnyCategory => category \in mandate.categories
  BY MandateLimits, BudgetsAssumption DEF BasketInit
<1>2. /\ stage = "requested" /\ budget = NoBudget /\ category = AnyCategory
      /\ quantity = 1 /\ product = NoProduct /\ addOn = {} /\ moved = FALSE
  BY DEF BasketInit
<1>3. BasketTypeOK
  <2>1. quantity \in 1 .. 10 /\ mandate.maxItems \in 1 .. 11 BY <1>1, <1>2
  <2>2. addOn \in SUBSET Products /\ \A p, q \in addOn : p = q BY <1>2
  <2>3. budget \in (Nat \ {0}) \cup {NoBudget} BY <1>2
  <2> QED BY <1>1, <1>2, <2>1, <2>2, <2>3 DEF BasketTypeOK
<1> QED BY <1>1, <1>2, <1>3 DEF DecisionInv, NoBudget, Passed, ChecksAgree

LEMMA DecisionInvariant == BasketSpec => []DecisionInv
<1>1. DecisionInv /\ [BasketNext]_basketVars => DecisionInv' BY DecisionInvStep
<1> QED BY DecisionInvInit, <1>1, PTL DEF BasketSpec

-----------------------------------------------------------------------------
(* The theorems *)

\* Whatever the models answer, quantities, ceilings and add-ons are in range
\* (buyer_core.py 502-519, 529-547).
THEOREM BasketTypes == BasketSpec => []BasketTypeOK
<1>1. DecisionInv => BasketTypeOK BY DEF DecisionInv
<1> QED BY DecisionInvariant, <1>1, PTL

\* For every catalogue and every answer of the models an order costs no more
\* than its mandate and the platform's ceiling allow, nor than the budget the
\* user typed, rounded to minor units
\* (buyer_core.py 529-693, routes.py 33-36, money.py 17-24, ap2.py 147-289).
THEOREM OrdersStayWithinCeilings == BasketSpec => []WithinCeilings
<1>1. DecisionInv => WithinCeilings
  <2> SUFFICES ASSUME DecisionInv, stage \in Passed PROVE
        /\ Total <= mandate.maximum
        /\ Total <= AbsoluteMax
        /\ budget >= 5 => 10 * Total <= budget + 5
    BY DEF WithinCeilings
  <2>1. /\ mandate.maximum \in 1 .. AbsoluteMax
        /\ budget \in (Nat \ {0}) \cup {NoBudget}
        /\ budget >= 5 => mandate.maximum <= ToMinor(budget)
        /\ product \in Products /\ quantity \in Nat /\ addOn \in SUBSET Products
    BY DEF DecisionInv, BasketTypeOK, Passed
  <2>2. Total <= mandate.maximum BY DEF DecisionInv, Authorized
  <2>3. Total \in Nat
    <3>1. BaseTotal \in Nat BY <2>1, CatalogAssumption DEF BaseTotal
    <3>2. addOn # {} => Price[CHOOSE p \in addOn : TRUE] \in Nat
      <4>1. addOn # {} => (CHOOSE p \in addOn : TRUE) \in Products BY <2>1
      <4> QED BY <4>1, CatalogAssumption
    <3> QED BY <3>1, <3>2 DEF Total
  <2>4. budget >= 5 => 10 * ToMinor(budget) <= budget + 5
    BY <2>1, TypedRange
  <2>5. budget \in Int /\ ToMinor(budget) \in Int
    BY <2>1 DEF NoBudget, ToMinor
  <2>6. Total <= AbsoluteMax
    BY <2>1, <2>2, <2>3, BudgetsAssumption
  <2>7. budget >= 5 => 10 * Total <= budget + 5
    <3> HIDE DEF Total, ToMinor
    <3>1. budget >= 5 => Total <= ToMinor(budget) BY <2>1, <2>2, <2>3, <2>5
    <3> QED BY <2>3, <2>4, <2>5, <3>1
  <2> QED BY <2>2, <2>6, <2>7
<1> QED BY DecisionInvariant, <1>1, PTL

\* The merchant refuses no order under its mandate that the buyer's selection
\* let pass, nor does the buyer itself (buyer_core.py 544-660, ap2.py 261-279).
THEOREM BuyerAndMerchantAgree == BasketSpec => []ChecksAgree
<1>1. DecisionInv => ChecksAgree BY DEF DecisionInv
<1> QED BY DecisionInvariant, <1>1, PTL
-----------------------------------------------------------------------------
(* Why an order is short of stock *)

\* As long as no other customer acted, what the search saw is still there.
StillAvailable ==
  stage \in {"selected", "quoted", "evaluated", "authorized"} /\ ~ moved
    => Available(product) >= quantity

LEMMA StillAvailableStep ==
  ASSUME DecisionInv, StillAvailable, ShortForACause, [BasketNext]_basketVars
  PROVE  StillAvailable' /\ ShortForACause'
<1>1. ASSUME UNCHANGED inventoryVars, UNCHANGED <<product, quantity, moved>>,
             stage \in {"selected", "quoted", "evaluated", "authorized"} \/ stage' = stage,
             stage' # "short" \/ UNCHANGED <<stage, addOn>>
      PROVE  StillAvailable' /\ ShortForACause'
  <2>1. Available(product)' = Available(product)
    BY <1>1 DEF Available, Held, Units, Open, inventoryVars
  <2> QED BY <1>1, <2>1 DEF StillAvailable, ShortForACause
<1>2. CASE Interpret
  BY <1>2 DEF Interpret, StillAvailable, ShortForACause
<1>3. CASE Select
  <2>1. UNCHANGED inventoryVars /\ quantity' = quantity
    BY <1>3 DEF Select
  <2>2. PICK results \in SUBSET Matching :
          \/ \E p \in results : Affordable(p) /\ product' = p /\ stage' = "selected"
          \/ stage' = "rejected"
    BY <1>3 DEF Select
  <2>3. ASSUME NEW p \in results, Affordable(p), product' = p, stage' = "selected"
        PROVE  StillAvailable' /\ ShortForACause'
    <3>1. Available(product)' = Available(p)
      BY <2>1, <2>3 DEF Available, Held, Units, Open, inventoryVars
    <3> QED BY <2>1, <2>3, <3>1 DEF Affordable, StillAvailable, ShortForACause
  <2> QED BY <2>2, <2>3 DEF StillAvailable, ShortForACause
<1>4. CASE Quote \/ EvaluateUpsell \/ Authorize
  <2>1. UNCHANGED inventoryVars /\ UNCHANGED <<product, quantity, moved>>
    BY <1>4 DEF Quote, EvaluateUpsell, Authorize
  <2>2. stage \in {"selected", "quoted", "evaluated"} /\ stage' # "short"
    BY <1>4 DEF Quote, EvaluateUpsell, Authorize
  <2> QED BY <1>1, <2>1, <2>2
<1>5. CASE Order
  <2>1. stage = "authorized" /\ stage' \notin {"selected", "quoted", "evaluated", "authorized"}
        /\ UNCHANGED <<addOn, moved>>
    BY <1>5 DEF Order
  <2>2. ASSUME stage' = "short", addOn = {} PROVE moved
    <3>1. ~ CanReserve(Items) BY <1>5, <2>2 DEF Order
    <3>2. PICK p \in Products : Items[p] > 0 /\ ~ Available(p) >= Items[p]
      BY <3>1 DEF CanReserve
    <3>3. Items[p] = (IF p = product THEN quantity ELSE 0) + 0
      BY <2>2 DEF Items
    <3>4. quantity \in 1 .. 10 BY DEF DecisionInv, BasketTypeOK
    <3>5. p = product /\ Items[p] = quantity BY <3>2, <3>3, <3>4
    <3> QED BY <2>1, <3>2, <3>5 DEF StillAvailable, DecisionInv, BasketTypeOK
  <2> QED BY <2>1, <2>2 DEF StillAvailable, ShortForACause
<1>6. CASE OtherCustomer
  BY <1>6 DEF OtherCustomer, StillAvailable, ShortForACause
<1>7. CASE UNCHANGED basketVars
  BY <1>1, <1>7 DEF basketVars, decisionVars
<1> QED BY <1>2, <1>3, <1>4, <1>5, <1>6, <1>7 DEF BasketNext

\* Without an add-on an order runs short only if another customer acted after
\* the search (buyer_core.py 558-563, tools.py 143-145).
THEOREM ShortageHasACause == BasketSpec => []ShortForACause
<1>1. BasketInit => StillAvailable /\ ShortForACause
  BY DEF BasketInit, StillAvailable, ShortForACause
<1>2. DecisionInv /\ StillAvailable /\ ShortForACause /\ [BasketNext]_basketVars
        => StillAvailable' /\ ShortForACause'
  BY StillAvailableStep
<1> QED BY <1>1, <1>2, DecisionInvariant, PTL DEF BasketSpec
=============================================================================
