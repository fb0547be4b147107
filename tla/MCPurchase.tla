----------------------------- MODULE MCPurchase -----------------------------
(***************************************************************************)
(* One purchase with two attempts for each of its messages, as the client  *)
(* makes them, over a merchant with one unit in stock.                     *)
(***************************************************************************)
EXTENDS Purchase, TLC

CONSTANTS laptop, p1, m1

MCProducts == {laptop}
MCStock == [p \in MCProducts |-> 1]
MCBaskets == [MCProducts -> {1}]
MCCost == [b \in Baskets |-> b[laptop]]
MCAttempts == [p \in Purchases |-> Calls]
MCMandateOf == [p \in Purchases |-> m1]
MCBasketOf == [p \in Purchases |-> CHOOSE b \in Baskets : TRUE]
MCSymmetry == Permutations(CreateCalls) \cup Permutations(ConfirmCalls)
=============================================================================
