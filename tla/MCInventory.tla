---------------------------- MODULE MCInventory ----------------------------
(***************************************************************************)
(* Two products, one of them with a single unit, and three reservations    *)
(* whose baskets overlap in both products.                                 *)
(***************************************************************************)
EXTENDS Inventory

CONSTANTS laptop, mouse

MCProducts == {laptop, mouse}
MCStock == [p \in MCProducts |-> IF p = laptop THEN 1 ELSE 3]
\* Up to one laptop and up to two mice, at least one item.
MCBaskets == {b \in [MCProducts -> 0 .. 2] : b[laptop] <= 1 /\ \E p \in MCProducts : b[p] > 0}
=============================================================================
