-------------------------------- MODULE Deal --------------------------------
(***************************************************************************)
(* What buyer and merchant together promise the user: a purchase is        *)
(* charged at most once, its goods are sold to it only after the charge,   *)
(* and it is reported completed only after the sale.  A purchase may stop  *)
(* after any of these.                                                     *)
(***************************************************************************)
CONSTANTS Purchases,     \* purchases of the user
          PaymentIds     \* payments the gateway may come to know

VARIABLES charges,       \* the payments made for each purchase
          delivered,     \* purchases whose goods are on record as sold
          completed      \* purchases reported completed

dealVars == <<charges, delivered, completed>>

Init ==
  /\ charges = [p \in Purchases |-> {}]
  /\ delivered = {}
  /\ completed = {}

Charge(p, y) ==
  /\ charges[p] = {}
  /\ charges' = [charges EXCEPT ![p] = {y}]
  /\ UNCHANGED <<delivered, completed>>

Deliver(p) ==
  /\ charges[p] # {}
  /\ delivered' = delivered \cup {p}
  /\ UNCHANGED <<charges, completed>>

Complete(p) ==
  /\ p \in delivered
  /\ completed' = completed \cup {p}
  /\ UNCHANGED <<charges, delivered>>

Next ==
  \E p \in Purchases :
    \/ \E y \in PaymentIds : Charge(p, y)
    \/ Deliver(p)
    \/ Complete(p)

Spec == Init /\ [][Next]_dealVars
=============================================================================
