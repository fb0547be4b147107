------------------------------ MODULE MCBasket ------------------------------
(***************************************************************************)
(* A headphone, a case and a speaker that are add-ons for it, the speaker  *)
(* out of scope of a mandate for audio.  Two other orders compete for the  *)
(* stock, one for a headphone and one for a case.                          *)
(***************************************************************************)
EXTENDS Basket, TLC

CONSTANTS headphone, case, speaker, audio, accessories, home

MCProducts == {headphone, case, speaker}
MCPrice == (headphone :> 2) @@ (case :> 1) @@ (speaker :> 3)
MCCategory == (headphone :> audio) @@ (case :> accessories) @@ (speaker :> home)
MCUpsellFor == (headphone :> {}) @@ (case :> {headphone, speaker}) @@ (speaker :> {headphone})
MCStock == (headphone :> 3) @@ (case :> 1) @@ (speaker :> 1)
MCBaskets ==
  {[p \in MCProducts |-> IF p = headphone THEN 2 ELSE 0],
   [p \in MCProducts |-> IF p = case THEN 1 ELSE 0]}
MCBudgets == {NoBudget, 4, 24, 55}
MCInferred == {-1, 3, 9}
MCQuantities == {0, 2, 12}
=============================================================================
