------------------------------- MODULE Books -------------------------------
(***************************************************************************)
(* What the ledger and the gateway can show of the trade, long after the   *)
(* process that did it is gone: a transaction is granted under a mandate   *)
(* of its own, is then paid, and its goods are then sold.  Nothing on the  *)
(* books is ever taken back.                                               *)
(***************************************************************************)
CONSTANTS Transactions,  \* transactions of the merchant
          Mandates       \* spending mandates

VARIABLES granted,       \* the mandate of each transaction that got one
          paid,          \* transactions paid in full
          sold           \* transactions whose goods are on record as sold

booksVars == <<granted, paid, sold>>

Init ==
  /\ granted = <<>>
  /\ paid = {}
  /\ sold = {}

\* A mandate is good for one transaction.
Grant(t, m) ==
  /\ t \notin DOMAIN granted
  /\ \A s \in DOMAIN granted : granted[s] # m
  /\ granted' = [s \in DOMAIN granted \cup {t} |-> IF s = t THEN m ELSE granted[s]]
  /\ UNCHANGED <<paid, sold>>

Pay(t) ==
  /\ t \in DOMAIN granted
  /\ paid' = paid \cup {t}
  /\ UNCHANGED <<granted, sold>>

Sell(t) ==
  /\ t \in paid
  /\ sold' = sold \cup {t}
  /\ UNCHANGED <<granted, paid>>

Next ==
  \/ \E t \in Transactions, m \in Mandates : Grant(t, m)
  \/ \E t \in Transactions : Pay(t) \/ Sell(t)

Spec == Init /\ [][Next]_booksVars
=============================================================================
