----------------------------- MODULE MCMerchant -----------------------------
(***************************************************************************)
(* One product with one unit on the shelf, which every order wants.  An    *)
(* order costs one; a payment of two is one of the wrong amount.           *)
(***************************************************************************)
EXTENDS Merchant, TLC

CONSTANT laptop

MCProducts == {laptop}
MCStock == [p \in MCProducts |-> 1]
MCOneUnit == [MCProducts -> {1}]
MCCost == [b \in Baskets |-> b[laptop]]
MCSymmetry ==
  Permutations(CreateCalls) \cup Permutations(ConfirmCalls)
    \cup Permutations(Mandates) \cup Permutations(PaymentIds)

\* Events no action and no property of the run "merchant" reads.
MCUnread == {"ORDER_REJECTED", "PAYMENT_REJECTED", "INVENTORY_RELEASED"}

\* How a call ended, what a confirm call that ended had asked for and the
\* events above decide no guard and no property of that run: states that
\* differ in nothing else take the same steps, and one of them will do.
MCView ==
  <<[c \in Calls |-> IF pc[c] \in Ended THEN "ended" ELSE pc[c]],
    [c \in {d \in DOMAIN request : d \in CreateCalls \/ Running(d)} |-> request[c]],
    [c \in CreateCalls |-> SelectSeq(trail[c], LAMBDA event : event \notin MCUnread)],
    nonces, orders, payments, restarts, inventoryVars>>
=============================================================================
