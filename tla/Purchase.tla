------------------------------ MODULE Purchase ------------------------------
(***************************************************************************)
(* Purchases from the first to the last call (buyer_agent/agent/           *)
(* buyer_core.py, purchase_stream) over the A2A client, composed with the  *)
(* merchant.  Each call of the merchant is one attempt to post a message:  *)
(* it may be lost, delayed beyond the buyer's patience, or answered too    *)
(* late, and is then posted again while attempts are left.  What leads to  *)
(* the basket is module Basket.                                            *)
(***************************************************************************)
EXTENDS Merchant

CONSTANTS Purchases,   \* runs of purchase_stream
          Attempts,    \* the calls each purchase has for its two messages
          MandateOf,   \* the mandate each purchase mints
          BasketOf     \* the basket each purchase authorizes

ASSUME AttemptsAssumption ==
  /\ Attempts \in [Purchases -> SUBSET Calls]
  /\ \A p, q \in Purchases : p # q => Attempts[p] \cap Attempts[q] = {}
ASSUME MandatesAssumption ==
  /\ MandateOf \in [Purchases -> Mandates]
  /\ \A p, q \in Purchases : MandateOf[p] = MandateOf[q] => p = q
  /\ BasketOf \in [Purchases -> Baskets]
ASSUME PricesAssumption == \A b \in Baskets : Cost[b] \in Amounts

VARIABLES stage,       \* how far each purchase has come
          posted,      \* attempts made and not turned away
          awaited,     \* the attempt each purchase waits for
          chosen,      \* the order each purchase was told of
          paid,        \* the payment each purchase was told of
          reports      \* the buyer's own final audit events

buyerVars == <<stage, posted, awaited, chosen, paid, reports>>
purchaseVars == <<buyerVars, merchantVars>>

Outcomes == {"completed", "awaiting_payment", "failed", "raised", "abandoned"}

Stages ==
  {"idle", "ordering", "paying", "confirming", "completing", "failing"} \cup Outcomes

\* The attempts a purchase has left for the message it is about to post.
Left(p) ==
  (Attempts[p] \ posted) \cap (IF stage[p] = "ordering" THEN CreateCalls ELSE ConfirmCalls)

Move(p, s) == stage' = [stage EXCEPT ![p] = s]

Told(f, p, x) == [q \in DOMAIN f \cup {p} |-> IF q = p THEN x ELSE f[q]]

Waits(p) == p \in DOMAIN awaited

NoLongerWaits(p) == awaited' = [q \in DOMAIN awaited \ {p} |-> awaited[q]]

-----------------------------------------------------------------------------
(* The buyer *)

\* PURCHASE_REQUESTED is recorded outside the try block; then the basket is
\* found, or not.
Decide(p) ==
  /\ stage[p] = "idle"
  /\ \/ Move(p, "ordering") \/ Move(p, "failing")
     \/ AuditMayFail /\ Move(p, "raised")
  /\ UNCHANGED <<posted, awaited, chosen, paid, reports, merchantVars>>

\* _post(): the first attempt, or another one after an error of the transport.
Post(p) ==
  /\ stage[p] \in {"ordering", "confirming"}
  /\ \E c \in Left(p) :
       /\ posted' = posted \cup {c}
       /\ awaited' = Told(awaited, p, c)
  /\ UNCHANGED <<stage, chosen, paid, reports, merchantVars>>

\* Mutant of GiveUp: no timeout, the last attempt waits for its call to end.
GiveUpLate(p) ==
  /\ stage[p] \in {"ordering", "confirming"}
  /\ Waits(p) /\ Left(p) = {} /\ pc[awaited[p]] \in Ended
  /\ Move(p, "failing")
  /\ NoLongerWaits(p)
  /\ UNCHANGED <<posted, chosen, paid, reports, merchantVars>>

\* The last attempt got no answer: AgentUnavailableError.
GiveUp(p) ==
  /\ stage[p] \in {"ordering", "confirming"}
  /\ Waits(p) /\ Left(p) = {}
  /\ Move(p, "failing")
  /\ NoLongerWaits(p)
  /\ UNCHANGED <<posted, chosen, paid, reports, merchantVars>>

\* Mutant of TurnedAway: the attempt is made again and not counted.
TurnedAwayAgain(p) ==
  /\ AuditMayFail
  /\ Waits(p) /\ pc[awaited[p]] = "idle"
  /\ posted' = posted \ {awaited[p]}
  /\ NoLongerWaits(p)
  /\ UNCHANGED <<stage, chosen, paid, reports, merchantVars>>

\* A2A_REQUEST is not recorded: the handler is not entered, the answer is an
\* error.
TurnedAway(p) ==
  /\ AuditMayFail
  /\ Waits(p) /\ pc[awaited[p]] = "idle"
  /\ posted' = posted \ {awaited[p]}
  /\ Move(p, "failing")
  /\ NoLongerWaits(p)
  /\ UNCHANGED <<chosen, paid, reports, merchantVars>>

\* The answer is an error.  So it is when the handler succeeded and its
\* A2A_RESPONSE event is not recorded.
Refused(p) ==
  /\ Waits(p)
  /\ \/ pc[awaited[p]] \in {"rejected", "raised"}
     \/ AuditMayFail /\ pc[awaited[p]] = "returned"
  /\ Move(p, "failing")
  /\ NoLongerWaits(p)
  /\ UNCHANGED <<posted, chosen, paid, reports, merchantVars>>

\* With auto_pay the purchase goes on, else the user is to pay.
OrderAnswered(p) ==
  /\ stage[p] = "ordering" /\ Waits(p) /\ pc[awaited[p]] = "returned"
  /\ chosen' = Told(chosen, p, awaited[p])
  /\ Move(p, "paying") \/ Move(p, "awaiting_payment")
  /\ NoLongerWaits(p)
  /\ UNCHANGED <<posted, paid, reports, merchantVars>>

\* Mutant of SimulatePayment: the payment is not kept.
SimulateForgotten(p) ==
  /\ stage[p] = "paying"
  /\ \E y \in PaymentIds : Pay(chosen[p], y, Amount(chosen[p]), "captured")
  /\ Move(p, "confirming")
  /\ UNCHANGED <<posted, awaited, chosen, paid, reports>>

\* Mutant of SimulatePayment: an answer that is lost is asked for again.
SimulateAgain(p) ==
  /\ stage[p] = "paying"
  /\ \E y \in PaymentIds :
       /\ chosen[p] \in DOMAIN orders
       /\ Pay(chosen[p], y, Amount(chosen[p]), "captured")
       /\ \/ Move(p, "confirming") /\ paid' = Told(paid, p, y)
          \/ UNCHANGED <<stage, paid>>
  /\ UNCHANGED <<posted, awaited, chosen, reports>>

\* simulate_payment(): one attempt; the payment may be made although the
\* answer is lost.  The simulator forgets its orders when the merchant does.
SimulatePayment(p) ==
  /\ stage[p] = "paying"
  /\ \/ \E y \in PaymentIds :
          /\ chosen[p] \in DOMAIN orders
          /\ Pay(chosen[p], y, Amount(chosen[p]), "captured")
          /\ \/ Move(p, "confirming") /\ paid' = Told(paid, p, y)
             \/ Move(p, "failing") /\ UNCHANGED paid
     \/ Move(p, "failing") /\ UNCHANGED <<paid, merchantVars>>
  /\ UNCHANGED <<posted, awaited, chosen, reports>>

\* Mutant of ConfirmAnswered: an answer is not looked at for an error.
AnsweredAnyhow(p) ==
  /\ stage[p] = "confirming" /\ Waits(p)
  /\ pc[awaited[p]] \in {"returned", "rejected", "raised"}
  /\ Move(p, "completing")
  /\ NoLongerWaits(p)
  /\ UNCHANGED <<posted, chosen, paid, reports, merchantVars>>

ConfirmAnswered(p) ==
  /\ stage[p] = "confirming" /\ Waits(p) /\ pc[awaited[p]] = "returned"
  /\ Move(p, "completing")
  /\ NoLongerWaits(p)
  /\ UNCHANGED <<posted, chosen, paid, reports, merchantVars>>

\* A final event is recorded, or LedgerError is raised, with or without it.
Report(p, event, onDone, onError) ==
  LET recorded == [reports EXCEPT ![p] = @ \cup {event}]
  IN  \/ Move(p, onDone) /\ reports' = recorded
      \/ AuditMayFail /\ Move(p, onError) /\ reports' \in {reports, recorded}

Complete(p) ==
  /\ stage[p] = "completing"
  /\ Report(p, "PURCHASE_COMPLETED", "completed", "failing")
  /\ UNCHANGED <<posted, awaited, chosen, paid, merchantVars>>

\* The except clauses; an error of the ledger leaves the generator.
Fail(p) ==
  /\ stage[p] = "failing"
  /\ Report(p, "PURCHASE_FAILED", "failed", "raised")
  /\ UNCHANGED <<posted, awaited, chosen, paid, merchantVars>>

\* The client of the event stream is gone: the generator is closed at a yield
\* and no except clause runs.
Abandon(p) ==
  /\ stage[p] \in {"ordering", "paying", "confirming"}
  /\ ~ Waits(p)
  /\ Move(p, "abandoned")
  /\ UNCHANGED <<posted, awaited, chosen, paid, reports, merchantVars>>

BuyerStep(p) ==
  \/ Decide(p) \/ Post(p) \/ GiveUp(p) \/ TurnedAway(p) \/ Refused(p) \/ OrderAnswered(p)
  \/ SimulatePayment(p) \/ ConfirmAnswered(p) \/ Complete(p) \/ Fail(p)

-----------------------------------------------------------------------------
(* The merchant, which sees what was posted *)

\* create_order with the mandate and the basket of the purchase.  The mandate
\* may have expired by the time the message arrives.
DeliverOrder(p, c) ==
  /\ c \in Attempts[p] \cap posted
  /\ \E inTime \in BOOLEAN : ValidateAs(c, MandateOf[p], BasketOf[p], inTime, TRUE)
  /\ UNCHANGED buyerVars

\* confirm_payment with the order and the payment the buyer was told of.
DeliverConfirmation(p, k) ==
  /\ k \in Attempts[p] \cap posted
  /\ IF chosen[p] \in DOMAIN orders
     THEN LookUpOrder(k) /\ request'[k] = [order |-> chosen[p], payment |-> paid[p]]
     ELSE RefuseOrder(k)
  /\ UNCHANGED buyerVars

\* A step of the merchant on its own.  The simulator sends no webhooks.
MerchantStep ==
  /\ \/ \E c \in CreateCalls : CreateStep(c)
     \/ \E k \in ConfirmCalls : ConfirmStep(k)
     \/ Restart
  /\ UNCHANGED buyerVars

-----------------------------------------------------------------------------

PurchaseInit ==
  /\ Init
  /\ stage = [p \in Purchases |-> "idle"]
  /\ posted = {}
  /\ awaited = <<>>
  /\ chosen = <<>>
  /\ paid = <<>>
  /\ reports = [p \in Purchases |-> {}]

PurchaseNext ==
  \/ \E p \in Purchases : BuyerStep(p) \/ Abandon(p)
  \/ \E p \in Purchases, c \in CreateCalls : DeliverOrder(p, c)
  \/ \E p \in Purchases, k \in ConfirmCalls : DeliverConfirmation(p, k)
  \/ MerchantStep

\* A purchase that was requested runs on: it waits no longer than its timeout.
BuyerFairness == \A p \in Purchases : WF_purchaseVars(BuyerStep(p))

PurchaseSpec == PurchaseInit /\ [][PurchaseNext]_purchaseVars

LivePurchaseSpec == PurchaseSpec /\ BuyerFairness

-----------------------------------------------------------------------------
(* Properties *)

\* Orders, payments and reports belong to purchases that came that far
\* (buyer_core.py 333-442).
PurchaseTypeOK ==
  /\ stage \in [Purchases -> Stages]
  /\ posted \subseteq Calls
  /\ DOMAIN awaited \subseteq Purchases
  /\ \A p \in DOMAIN awaited : awaited[p] \in Attempts[p] \cap posted
  /\ DOMAIN paid \subseteq DOMAIN chosen /\ DOMAIN chosen \subseteq Purchases
  /\ \A p \in DOMAIN chosen : chosen[p] \in Attempts[p] \cap CreateCalls
  /\ \A p \in DOMAIN paid : paid[p] \in PaymentIds
  /\ \A p \in Purchases : stage[p] \in {"confirming", "completing"} => p \in DOMAIN paid
  /\ reports \in [Purchases -> SUBSET {"PURCHASE_COMPLETED", "PURCHASE_FAILED"}]

\* For a purchase reported completed the merchant has committed stock and the
\* payment is captured in full, whatever was lost, repeated or restarted on the
\* way (buyer_core.py 375-405, merchant_core.py 386-452).  TRANSACTION_CONFIRMED
\* may be missing: its write fails, the answer is lost, and the second attempt
\* finds the order confirmed.
CompletedIsConfirmed ==
  \A p \in Purchases :
    stage[p] \in {"completing", "completed"} \/ "PURCHASE_COMPLETED" \in reports[p] =>
      /\ Audited(chosen[p], "INVENTORY_COMMITTED")
      /\ Paid(chosen[p])

\* No two payments are for orders of one purchase (buyer_core.py 367).
ChargedOnce ==
  \A p \in Purchases : \A x, y \in DOMAIN payments :
    payments[x].order \in Attempts[p] /\ payments[y].order \in Attempts[p] => x = y

\* However often its message is posted, and however late it arrives, a purchase
\* gets one order and is charged once (a2a_client.py 138-171, ap2.py 239-240,
\* buyer_core.py 367).
OneOrderPerPurchase ==
  /\ ChargedOnce
  /\ \A p \in Purchases : \A c, d \in Attempts[p] \cap CreateCalls :
       Audited(c, "INVENTORY_RESERVED") /\ Audited(d, "INVENTORY_RESERVED") => c = d

\* The deal as payments, trails and the buyer's reports show it.
Struck == INSTANCE Deal WITH
  charges <- [p \in Purchases |-> {y \in DOMAIN payments : payments[y].order \in Attempts[p]}],
  delivered <- {p \in Purchases :
                  \E c \in Attempts[p] \cap CreateCalls : Audited(c, "INVENTORY_COMMITTED")},
  completed <- {p \in Purchases : "PURCHASE_COMPLETED" \in reports[p]}

\* One charge, then the sale, then the report of success, for every purchase
\* and in this order across both agents, whatever messages, answers, ledger
\* writes and processes are lost in between; nothing of it is taken back
\* (buyer_core.py 333-405, merchant_core.py 386-452).
KeepsDeal == Struck!Spec

\* The stages a purchase may have left.
Remaining(s) ==
  CASE s = "idle"       -> 6 [] s = "ordering"   -> 5 [] s = "paying"  -> 4
    [] s = "confirming" -> 3 [] s = "completing" -> 2 [] s = "failing" -> 1
    [] OTHER            -> 0

\* Purchase p comes nearer to its end, or stays where it is with every attempt
\* counted and a new one for each new wait.
Counted(p) ==
  \/ Remaining(stage'[p]) < Remaining(stage[p])
  \/ /\ stage'[p] = stage[p]
     /\ Attempts[p] \cap posted \subseteq posted'
     /\ \/ p \in DOMAIN awaited' => Waits(p) /\ awaited'[p] = awaited[p]
        \/ Attempts[p] \cap posted # Attempts[p] \cap posted'

AllCounted == \A p \in Purchases : Counted(p)

\* No purchase goes round in circles: no step takes a stage back, or an
\* attempt within a stage, so its retries run out whatever the merchant answers
\* (a2a_client.py 138-171, buyer_core.py 175-442).
RetriesAreCounted == [][AllCounted]_purchaseVars

\* A purchase that was begun ends with an outcome or an error, whatever is
\* lost (buyer_core.py 149, 175-442; a2a_client.py 142-171).
PurchaseEnds == \A p \in Purchases : stage[p] # "idle" ~> stage[p] \in Outcomes

-----------------------------------------------------------------------------
(* What the documents say and the code does not keep *)

\* "A reservation is committed only after payment verification, and released
\* on any failure" (README 168): once a purchase has failed and none of its
\* messages is under way, it holds no stock.
FailedHoldsNothing ==
  \A p \in Purchases :
    /\ stage[p] = "failed"
    /\ \A c \in Attempts[p] \cap posted : pc[c] \in Ended
    => Attempts[p] \cap Open = {}
=============================================================================
