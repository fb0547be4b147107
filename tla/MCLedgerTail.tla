---------------------------- MODULE MCLedgerTail ----------------------------
(***************************************************************************)
(* The instance of MCLedger without an audit, for the loss of rows.        *)
(***************************************************************************)
EXTENDS Ledger, TLC

CONSTANTS old, new, first

MCLedgerOf == [c \in Callers |-> IF c = first THEN old ELSE new]
MCSymmetry == Permutations(Callers \ {first})
=============================================================================
