------------------------------ MODULE MCLedger ------------------------------
(***************************************************************************)
(* Two processes of the merchant during a rolling deployment, one caller   *)
(* in the old process and the others in the new one.                       *)
(***************************************************************************)
EXTENDS LedgerReads, TLC

CONSTANTS old, new, first

MCLedgerOf == [c \in Callers |-> IF c = first THEN old ELSE new]
MCSymmetry == Permutations(Callers \ {first})
=============================================================================
