--------------------------- MODULE PurchaseProofs ---------------------------
(***************************************************************************)
(* Proofs about Purchase, for any number of purchases and attempts: the    *)
(* composition behaves, for the merchant, as module Merchant says, so what *)
(* is proved there holds here; and a purchase is charged once.             *)
(***************************************************************************)
EXTENDS Purchase, TrailProofs

-----------------------------------------------------------------------------
(* The composed system implements the merchant *)

\* A buyer touches the merchant's world by paying only.
LEMMA BuyerPaysOnly ==
  ASSUME TypeOK, AnnouncedOnly, NEW p \in Purchases, BuyerStep(p) \/ Abandon(p)
  PROVE  [Next]_merchantVars
<1>1. CASE SimulatePayment(p) /\ ~ UNCHANGED merchantVars
  <2>1. PICK y \in PaymentIds :
          /\ chosen[p] \in DOMAIN orders
          /\ Pay(chosen[p], y, Amount(chosen[p]), "captured")
    BY <1>1 DEF SimulatePayment
  <2> DEFINE o == chosen[p]
  <2>2. o \in CreateCalls /\ pc[o] \in AfterOrder
    BY <2>1 DEF TypeOK, StoresOK, Pay, AnnouncedOnly
  <2>3. request[o].items \in Baskets
    BY <2>2 DEF TypeOK, CallsOK, AfterOrder, Ended
  <2>4. Amount(o) \in Amounts
    BY <2>3, PricesAssumption DEF Amount
  <2>5. "captured" \in PaymentStatus
    BY DEF PaymentStatus
  <2>6. Pay(o, y, Amount(o), "captured")
    BY <2>1
  <2> QED
    <3> HIDE DEF o
    <3> QED BY <2>2, <2>4, <2>5, <2>6 DEF Next
<1>2. CASE UNCHANGED merchantVars
  BY <1>2
<1>3. SimulatePayment(p) \/ UNCHANGED merchantVars
  BY DEF BuyerStep, Decide, Post, GiveUp, TurnedAway, Refused, OrderAnswered, ConfirmAnswered,
         Complete,
         Fail, Abandon
<1> QED BY <1>1, <1>2, <1>3

\* Every step of the composition is a step of the merchant, or none.
LEMMA PurchaseStepIsMerchantStep ==
  TypeOK /\ AnnouncedOnly /\ [PurchaseNext]_purchaseVars => [Next]_merchantVars
<1> SUFFICES ASSUME TypeOK, AnnouncedOnly, [PurchaseNext]_purchaseVars
             PROVE  [Next]_merchantVars
  OBVIOUS
<1>1. ASSUME NEW p \in Purchases, BuyerStep(p) \/ Abandon(p) PROVE [Next]_merchantVars
  BY <1>1, BuyerPaysOnly
<1>2. ASSUME NEW p \in Purchases, NEW c \in CreateCalls, DeliverOrder(p, c)
      PROVE  [Next]_merchantVars
  <2>1. MandateOf[p] \in Mandates /\ BasketOf[p] \in Baskets
    BY MandatesAssumption
  <2>2. PICK inTime \in BOOLEAN : ValidateAs(c, MandateOf[p], BasketOf[p], inTime, TRUE)
    BY <1>2 DEF DeliverOrder
  <2>3. Validate(c)
    BY <2>1, <2>2 DEF Validate
  <2> QED BY <2>3 DEF Next
<1>3. ASSUME NEW p \in Purchases, NEW k \in ConfirmCalls, DeliverConfirmation(p, k)
      PROVE  [Next]_merchantVars
  <2>1. LookUpOrder(k) \/ RefuseOrder(k)
    BY <1>3 DEF DeliverConfirmation
  <2> QED BY <2>1 DEF Next
<1>4. ASSUME MerchantStep PROVE [Next]_merchantVars
  BY <1>4 DEF MerchantStep, Next
<1>5. ASSUME UNCHANGED purchaseVars PROVE [Next]_merchantVars
  BY <1>5 DEF purchaseVars
<1> QED BY <1>1, <1>2, <1>3, <1>4, <1>5 DEF PurchaseNext

\* With buyers that lose answers, repeat messages and give up, the merchant
\* still behaves as module Merchant specifies (buyer_core.py 333-442 against
\* merchant_core.py 191-498).
THEOREM PurchasesImplementMerchant == PurchaseSpec => Spec
<1>1. PurchaseInit => Init BY DEF PurchaseInit
<1>2. TypeOK /\ AnnouncedOnly /\ [PurchaseNext]_purchaseVars => [Next]_merchantVars
  BY PurchaseStepIsMerchantStep
<1>3. TypeOK /\ [Next]_merchantVars => TypeOK' BY TypeStep
<1>4. TypeOK /\ AnnouncedOnly /\ [Next]_merchantVars => AnnouncedOnly' BY AnnouncedOnlyStep
<1>5. Init => TypeOK /\ AnnouncedOnly BY TypeInit, PaidInit
<1> QED BY <1>1, <1>2, <1>3, <1>4, <1>5, PTL DEF PurchaseSpec, Spec

\* So no number of competing purchases oversells a product or loses a unit.
THEOREM PurchasesNeverOversell == PurchaseSpec => [](NoOversell /\ StockConserved)
BY PurchasesImplementMerchant, MerchantNeverOversells, PTL

-----------------------------------------------------------------------------
(* A purchase is charged once *)

\* The stages before the payment.
Unpaid == {"idle", "ordering", "paying"}

\* A purchase waits for attempts of its own and was told of an order of its
\* own.
OwnOrders ==
  /\ DOMAIN stage = Purchases
  /\ \A p \in DOMAIN awaited : p \in Purchases => awaited[p] \in Attempts[p]
  /\ \A p \in DOMAIN chosen : p \in Purchases => chosen[p] \in Attempts[p]
  /\ \A p \in Purchases : stage[p] = "paying" => p \in DOMAIN chosen

\* Nothing is paid for a purchase before it pays.
PaidLast ==
  \A p \in Purchases : stage[p] \in Unpaid =>
    \A y \in DOMAIN payments : payments[y].order \notin Attempts[p]

ChargeInv == OwnOrders /\ PaidLast /\ ChargedOnce

LEMMA ChargeInvInit == PurchaseInit => ChargeInv
BY DEF PurchaseInit, Init, ChargeInv, OwnOrders, PaidLast, ChargedOnce

\* The same payments, for the same orders.
SamePayments ==
  /\ DOMAIN payments' = DOMAIN payments
  /\ \A y \in DOMAIN payments : payments'[y].order = payments[y].order

\* Captures apart, a step of the merchant leaves the payments alone.
LEMMA MerchantKeepsPayments ==
  ASSUME TypeOK,
         \/ MerchantStep
         \/ \E p \in Purchases, c \in CreateCalls : DeliverOrder(p, c)
         \/ \E p \in Purchases, k \in ConfirmCalls : DeliverConfirmation(p, k)
  PROVE  SamePayments /\ UNCHANGED buyerVars
<1>1. UNCHANGED buyerVars
  BY DEF MerchantStep, DeliverOrder, DeliverConfirmation
<1>2. ASSUME NEW k \in ConfirmCalls, CapturePayment(k) PROVE SamePayments
  <2> DEFINE y == request[k].payment
  <2>1. \/ payments' = payments
        \/ payments' = [payments EXCEPT ![y] = [@ EXCEPT !.status = "captured"]]
    BY <1>2 DEF CapturePayment
  <2>2. \A x \in DOMAIN payments :
          payments[x] \in [order : CreateCalls, amount : Amounts, status : PaymentStatus]
    BY DEF TypeOK, StoresOK
  <2>3. \A x \in DOMAIN payments :
          [payments[x] EXCEPT !.status = "captured"].order = payments[x].order
    BY <2>2
  <2> QED
    <3> HIDE DEF y
    <3> QED BY <2>1, <2>3 DEF SamePayments
<1>3. UNCHANGED payments => SamePayments
  BY DEF SamePayments
<1>4. ASSUME NEW k \in ConfirmCalls, ConfirmStep(k) PROVE SamePayments
  BY <1>2, <1>3, <1>4
     DEF ConfirmStep, AuditRefusal, VerifyPayment, AuditVerified, CommitStock,
         AuditCommitted, MarkConfirmed, AuditConfirmed, ReleaseStock, MarkFailed,
         AuditReleased, AuditRejected, OtherThanInventory
<1>5. ASSUME NEW c \in CreateCalls, CreateStep(c) PROVE UNCHANGED payments
  BY <1>5 DEF CreateStep, AuditValidated, CheckItems, ReserveStock, AuditReserved, PlaceOrder,
         AuditOrdered, UndoReservation, AuditUndone, AuditFailure, OtherThanInventory
<1>6. CASE MerchantStep
  BY <1>1, <1>3, <1>4, <1>5, <1>6 DEF MerchantStep, Restart
<1>7. CASE \E p \in Purchases, c \in CreateCalls : DeliverOrder(p, c)
  BY <1>1, <1>3, <1>7 DEF DeliverOrder, ValidateAs
<1>8. CASE \E p \in Purchases, k \in ConfirmCalls : DeliverConfirmation(p, k)
  BY <1>1, <1>3, <1>8 DEF DeliverConfirmation, LookUpOrder, RefuseOrder, OtherThanInventory
<1> QED BY <1>6, <1>7, <1>8

\* While the payments stay, nobody may return to the stages before paying.
LEMMA ChargeFrame ==
  ASSUME ChargeInv, SamePayments, OwnOrders',
         \A p \in Purchases : stage'[p] \in Unpaid => stage[p] \in Unpaid
  PROVE  ChargeInv'
<1>1. PaidLast'
  BY DEF ChargeInv, PaidLast, SamePayments
<1>2. ChargedOnce'
  BY DEF ChargeInv, ChargedOnce, SamePayments
<1> QED BY <1>1, <1>2 DEF ChargeInv

\* A step of the buyer other than the payment.
LEMMA BuyerStepKeepsCharge ==
  ASSUME ChargeInv, NEW p \in Purchases, BuyerStep(p) \/ Abandon(p), ~ SimulatePayment(p)
  PROVE  ChargeInv'
<1>1. SamePayments
  BY DEF SamePayments, BuyerStep, Decide, Post, GiveUp, TurnedAway, Refused, OrderAnswered,
         ConfirmAnswered, Complete, Fail, Abandon, merchantVars
<1>2. \/ stage' = stage
      \/ stage[p] = "idle" /\ stage' = [stage EXCEPT ![p] = "ordering"]
      \/ stage[p] = "ordering" /\ p \in DOMAIN chosen' /\ stage' = [stage EXCEPT ![p] = "paying"]
      \/ \E s : s \notin Unpaid /\ stage' = [stage EXCEPT ![p] = s]
  BY DEF BuyerStep, Decide, Post, GiveUp, TurnedAway, Refused, OrderAnswered, ConfirmAnswered,
         Complete,
         Fail, Abandon, Move, Report, Unpaid, Told
<1>3. \A q \in Purchases : stage'[q] \in Unpaid => stage[q] \in Unpaid
  BY <1>2 DEF ChargeInv, OwnOrders, Unpaid
<1>4. \/ awaited' = awaited
      \/ \E c \in Attempts[p] : awaited' = Told(awaited, p, c)
      \/ NoLongerWaits(p)
  BY DEF BuyerStep, Decide, Post, Left, GiveUp, TurnedAway, Refused, OrderAnswered, ConfirmAnswered,
         Complete, Fail, Abandon
<1>5. chosen' = chosen \/ (Waits(p) /\ chosen' = Told(chosen, p, awaited[p]))
  BY DEF BuyerStep, Decide, Post, GiveUp, TurnedAway, Refused, OrderAnswered, ConfirmAnswered,
         Complete, Fail, Abandon
<1>6. \A q \in DOMAIN awaited' : q \in Purchases => awaited'[q] \in Attempts[q]
  BY <1>4 DEF ChargeInv, OwnOrders, Told, NoLongerWaits
<1>7. \A q \in DOMAIN chosen' : q \in Purchases => chosen'[q] \in Attempts[q]
  BY <1>5 DEF ChargeInv, OwnOrders, Told, Waits
<1>8. DOMAIN chosen \subseteq DOMAIN chosen'
  BY <1>5 DEF Told
<1>9. /\ DOMAIN stage' = Purchases
      /\ \A q \in Purchases : stage'[q] = "paying" => q \in DOMAIN chosen'
  BY <1>2, <1>8 DEF ChargeInv, OwnOrders, Unpaid
<1>10. OwnOrders'
  BY <1>6, <1>7, <1>9 DEF OwnOrders
<1> QED BY <1>1, <1>3, <1>10, ChargeFrame

\* The payment is for an order of the purchase, and the purchase does not pay
\* again.
LEMMA PaymentKeepsCharge ==
  ASSUME ChargeInv, NEW p \in Purchases, SimulatePayment(p)
  PROVE  ChargeInv'
<1>1. /\ stage[p] = "paying" /\ UNCHANGED <<awaited, chosen>>
      /\ \E s : s \notin Unpaid /\ stage' = [stage EXCEPT ![p] = s]
  BY DEF SimulatePayment, Move, Unpaid
<1>2. OwnOrders'
  BY <1>1 DEF ChargeInv, OwnOrders, Unpaid
<1>3. \A q \in Purchases : stage'[q] \in Unpaid => q # p /\ stage[q] \in Unpaid
  BY <1>1 DEF ChargeInv, OwnOrders
<1>4. CASE UNCHANGED merchantVars
  BY <1>2, <1>3, <1>4, ChargeFrame DEF SamePayments, merchantVars
<1>5. CASE \E y \in PaymentIds : Pay(chosen[p], y, Amount(chosen[p]), "captured")
  <2>1. PICK y \in PaymentIds : Pay(chosen[p], y, Amount(chosen[p]), "captured")
    BY <1>5
  <2>2. /\ DOMAIN payments' = DOMAIN payments \cup {y} /\ y \notin DOMAIN payments
        /\ payments'[y].order = chosen[p]
        /\ \A x \in DOMAIN payments : payments'[x].order = payments[x].order
    BY <2>1 DEF Pay
  <2>3. chosen[p] \in Attempts[p]
    BY <1>1 DEF ChargeInv, OwnOrders
  <2>4. \A q \in Purchases : q # p => chosen[p] \notin Attempts[q]
    BY <2>3, AttemptsAssumption
  <2>5. PaidLast'
    BY <1>3, <2>2, <2>4 DEF ChargeInv, PaidLast
  <2>6. \A x \in DOMAIN payments : payments[x].order \notin Attempts[p]
    BY <1>1 DEF ChargeInv, PaidLast, Unpaid
  <2>7. ChargedOnce'
    BY <2>2, <2>4, <2>6 DEF ChargeInv, ChargedOnce
  <2> QED BY <1>2, <2>5, <2>7 DEF ChargeInv
<1> QED BY <1>4, <1>5 DEF SimulatePayment

LEMMA ChargeInvStep ==
  TypeOK /\ ChargeInv /\ [PurchaseNext]_purchaseVars => ChargeInv'
<1> SUFFICES ASSUME TypeOK, ChargeInv, [PurchaseNext]_purchaseVars PROVE ChargeInv'
  OBVIOUS
<1>1. ASSUME NEW p \in Purchases, BuyerStep(p) \/ Abandon(p) PROVE ChargeInv'
  BY <1>1, BuyerStepKeepsCharge, PaymentKeepsCharge
<1>2. CASE SamePayments /\ UNCHANGED buyerVars
  <2>1. OwnOrders' BY <1>2 DEF ChargeInv, OwnOrders, buyerVars
  <2> QED BY <1>2, <2>1, ChargeFrame DEF buyerVars
<1>3. CASE UNCHANGED purchaseVars
  BY <1>2, <1>3 DEF SamePayments, purchaseVars, merchantVars
<1> QED BY <1>1, <1>2, <1>3, MerchantKeepsPayments DEF PurchaseNext

\* However its messages are lost, repeated and delayed, no purchase is charged
\* twice (buyer_core.py 367, a2a_client.py 233-245).
THEOREM PurchaseIsChargedOnce == PurchaseSpec => []ChargedOnce
<1>1. PurchaseSpec => []TypeOK
  BY PurchasesImplementMerchant, MerchantTypes, PTL
<1>2. TypeOK /\ ChargeInv /\ [PurchaseNext]_purchaseVars => ChargeInv' BY ChargeInvStep
<1>3. ChargeInv => ChargedOnce BY DEF ChargeInv
<1> QED BY <1>1, <1>2, <1>3, ChargeInvInit, PTL DEF PurchaseSpec

\* With a durable nonce store the mandates of purchases are spent once, too.
THEOREM PurchasesSpendMandatesOnce ==
  ASSUME NoncesDurable
  PROVE  PurchaseSpec => []MandateSpentOnce
BY PurchasesImplementMerchant, MandateIsSpentOnce, PTL
-----------------------------------------------------------------------------
(* What a purchase knows is true at the merchant *)

\* A purchase waits for an attempt at the message it is about to have answered.
WaitsOK ==
  \A p \in DOMAIN awaited :
    \/ stage[p] = "ordering" /\ awaited[p] \in CreateCalls
    \/ stage[p] = "confirming" /\ awaited[p] \in ConfirmCalls

\* From the payment on a purchase knows its order.
OrderKnown == \A p \in Purchases : stage[p] = "paying" => p \in DOMAIN chosen

\* The order and the confirmation a purchase posts are what it authorized and
\* what it was told of.
MessagesOK ==
  \A p \in Purchases :
    /\ \A c \in Attempts[p] \cap CreateCalls \cap DOMAIN request :
         request[c].mandate = MandateOf[p]
    /\ \A k \in Attempts[p] \cap ConfirmCalls :
         k \in posted \cup DOMAIN request => stage[p] \notin Unpaid /\ p \in DOMAIN paid
    /\ \A k \in Attempts[p] \cap ConfirmCalls \cap DOMAIN request :
         request[k].order = chosen[p]

Completing(p) ==
  stage[p] \in {"completing", "completed"} \/ "PURCHASE_COMPLETED" \in reports[p]

\* A purchase that counts itself completed has a settled order.
CompletedOK ==
  \A p \in Purchases : Completing(p) =>
    stage[p] \notin Unpaid /\ p \in DOMAIN chosen /\ Settled(chosen[p])

PurchaseInv == PurchaseTypeOK /\ WaitsOK /\ OrderKnown /\ MessagesOK /\ CompletedOK

LEMMA PurchaseInvInit == PurchaseInit => PurchaseInv
<1> SUFFICES ASSUME PurchaseInit PROVE PurchaseInv
  OBVIOUS
<1>1. /\ stage = [p \in Purchases |-> "idle"] /\ posted = {}
      /\ DOMAIN awaited = {} /\ DOMAIN chosen = {} /\ DOMAIN paid = {}
      /\ reports = [p \in Purchases |-> {}] /\ DOMAIN request = {}
  BY DEF PurchaseInit, Init
<1>2. PurchaseTypeOK
  BY <1>1 DEF PurchaseTypeOK, Stages
<1> QED BY <1>1, <1>2 DEF PurchaseInv, WaitsOK, OrderKnown, MessagesOK, CompletedOK, Completing,
           Unpaid

\* Settled orders stay settled while merchant and buyers go on.
LEMMA StillSettled ==
  ASSUME MerchantInv, [Next]_merchantVars, CompletedOK, NEW p \in Purchases, Completing(p)
  PROVE  p \in DOMAIN chosen /\ \A o \in CreateCalls : o = chosen[p] => Settled(o)'
<1>1. p \in DOMAIN chosen /\ Settled(chosen[p])
  BY DEF CompletedOK
<1>2. \A o \in CreateCalls : Settled(o) => Settled(o)'
  BY SettledStays
<1> QED BY <1>1, <1>2

\* A purchase's decisions keep what is settled, as long as nobody completes
\* or is told of another order.
LEMMA CompletedFrame ==
  ASSUME MerchantInv, [Next]_merchantVars, CompletedOK,
         \A p \in Purchases : Completing(p)' =>
           /\ Completing(p) /\ stage'[p] \notin Unpaid
           /\ p \in DOMAIN chosen' /\ chosen'[p] = chosen[p]
  PROVE  CompletedOK'
<1> SUFFICES ASSUME NEW p \in Purchases, Completing(p)'
             PROVE  (stage[p] \notin Unpaid /\ p \in DOMAIN chosen /\ Settled(chosen[p]))'
  BY DEF CompletedOK
<1>1. PICK o \in CreateCalls : o = chosen[p] /\ Settled(o)'
  BY StillSettled DEF CompletedOK, Settled
<1>2. Settled(chosen[p])'
  BY <1>1 DEF Settled, Audited, Paid, Amount
<1> QED BY <1>2 DEF Unpaid

\* The buyer's half of a step: one purchase moves, and its messages are kept.
\* The stage changes to one of the stages the code has.
LEMMA StageMoves ==
  ASSUME PurchaseInv, NEW p \in Purchases, BuyerStep(p) \/ Abandon(p)
  PROVE  /\ \E s \in Stages : stage' = [stage EXCEPT ![p] = s]
         /\ request' = request
         /\ \A q \in Purchases : stage[q] \notin Unpaid => stage'[q] \notin Unpaid
<1>0. stage \in [Purchases -> Stages] BY DEF PurchaseInv, PurchaseTypeOK
<1>1. stage' = stage => stage' = [stage EXCEPT ![p] = stage[p]]
  BY <1>0
<1>2. \E s \in Stages : stage' = [stage EXCEPT ![p] = s]
  BY <1>0, <1>1
     DEF BuyerStep, Decide, Post, GiveUp, TurnedAway, Refused, OrderAnswered, SimulatePayment,
         ConfirmAnswered, Complete, Fail, Abandon, Move, Report, Stages, Outcomes
<1>3. stage[p] \notin Unpaid => stage'[p] \notin Unpaid
  BY <1>0 DEF BuyerStep, Decide, Post, GiveUp, TurnedAway, Refused, OrderAnswered,
         SimulatePayment, ConfirmAnswered, Complete, Fail, Abandon, Move, Report, Unpaid,
         PurchaseInv, PurchaseTypeOK
<1>4. request' = request
  BY DEF BuyerStep, Decide, Post, GiveUp, TurnedAway, Refused, OrderAnswered, SimulatePayment,
         ConfirmAnswered, Complete, Fail, Abandon, Pay, merchantVars
<1> QED BY <1>0, <1>2, <1>3, <1>4

LEMMA DecideKeeps ==
  ASSUME PurchaseInv, MerchantInv, [Next]_merchantVars, NEW p \in Purchases,
         Decide(p) \/ Abandon(p)
  PROVE  PurchaseInv'
<1> USE DEF PurchaseInv
<1>0. stage \in [Purchases -> Stages] BY DEF PurchaseTypeOK
<1>1. /\ UNCHANGED <<posted, awaited, chosen, paid, reports, request>>
      /\ ~ Waits(p)
      /\ \/ stage[p] = "idle"
         \/ stage[p] \in {"ordering", "paying", "confirming"}
      /\ \/ stage[p] = "idle" /\ stage' = [stage EXCEPT ![p] = "ordering"]
         \/ \E s \in {"failing", "raised", "abandoned"} : stage' = [stage EXCEPT ![p] = s]
  BY <1>0 DEF Decide, Abandon, Move, merchantVars, Waits, WaitsOK
<1>2. \A q \in Purchases \ {p} : stage'[q] = stage[q]
  BY <1>0, <1>1
<1>3. stage'[p] \in {"ordering", "failing", "raised", "abandoned"}
      /\ (stage'[p] = "ordering" => stage[p] = "idle")
  BY <1>0, <1>1
<1>4. stage' \in [Purchases -> Stages]
  BY <1>0, <1>1 DEF Stages, Outcomes
<1>5. PurchaseTypeOK'
  BY <1>1, <1>2, <1>3, <1>4 DEF PurchaseTypeOK
<1>6. WaitsOK'
  BY <1>1, <1>2 DEF WaitsOK, Waits, PurchaseTypeOK
<1>7. OrderKnown'
  BY <1>1, <1>2, <1>3 DEF OrderKnown
<1>8. MessagesOK'
  BY <1>1, <1>2, <1>3 DEF MessagesOK, Unpaid
<1>9. CompletedOK'
  <2>1. \A q \in Purchases : Completing(q)' => Completing(q) /\ stage'[q] \notin Unpaid
    BY <1>1, <1>2, <1>3 DEF Completing, CompletedOK, Unpaid
  <2> QED BY <1>1, <2>1, CompletedFrame DEF CompletedOK
<1> QED BY <1>5, <1>6, <1>7, <1>8, <1>9

LEMMA PostKeeps ==
  ASSUME PurchaseInv, MerchantInv, [Next]_merchantVars, NEW p \in Purchases, Post(p)
  PROVE  PurchaseInv'
<1> USE DEF PurchaseInv
<1>1. PICK c \in Left(p) : /\ posted' = posted \cup {c}
                           /\ awaited' = Told(awaited, p, c)
  BY DEF Post
<1>2. /\ UNCHANGED <<stage, chosen, paid, reports, request>>
      /\ stage[p] \in {"ordering", "confirming"}
  BY DEF Post, merchantVars
<1>3. /\ c \in Attempts[p] /\ c \in Calls
      /\ stage[p] = "ordering" => c \in CreateCalls
      /\ stage[p] = "confirming" => c \in ConfirmCalls
  BY <1>2 DEF Left, Calls
<1>4. /\ DOMAIN awaited' = DOMAIN awaited \cup {p} /\ awaited'[p] = c
      /\ \A q \in DOMAIN awaited \ {p} : awaited'[q] = awaited[q]
  BY <1>1 DEF Told
<1>5. PurchaseTypeOK'
  BY <1>1, <1>2, <1>3, <1>4 DEF PurchaseTypeOK
<1>6. WaitsOK'
  BY <1>2, <1>3, <1>4 DEF WaitsOK
<1>7. OrderKnown'
  BY <1>2 DEF OrderKnown
<1>8. MessagesOK'
  <2>1. \A q \in Purchases : c \in Attempts[q] => q = p
    BY <1>3, AttemptsAssumption
  <2>2. c \in ConfirmCalls => stage[p] = "confirming" /\ p \in DOMAIN paid
    BY <1>2, <1>3, CallsAssumption DEF PurchaseTypeOK
  <2> QED BY <1>1, <1>2, <2>1, <2>2 DEF MessagesOK, Unpaid
<1>9. CompletedOK'
  BY <1>2, CompletedFrame DEF Completing, CompletedOK
<1> QED BY <1>5, <1>6, <1>7, <1>8, <1>9

LEMMA DropKeeps ==
  ASSUME PurchaseInv, MerchantInv, [Next]_merchantVars, NEW p \in Purchases,
         GiveUp(p) \/ TurnedAway(p) \/ Refused(p)
  PROVE  PurchaseInv'
<1> USE DEF PurchaseInv
<1>0. stage \in [Purchases -> Stages] BY DEF PurchaseTypeOK
<1>1. /\ UNCHANGED <<chosen, paid, reports, request>>
      /\ Waits(p)
      /\ stage' = [stage EXCEPT ![p] = "failing"]
      /\ posted' = posted \/ posted' = posted \ {awaited[p]}
      /\ NoLongerWaits(p)
  BY DEF GiveUp, TurnedAway, Refused, Move, merchantVars
<1>2. \A q \in Purchases \ {p} : stage'[q] = stage[q]
  BY <1>0, <1>1
<1>3. stage'[p] = "failing" BY <1>0, <1>1
<1>4. stage' \in [Purchases -> Stages]
  BY <1>0, <1>1 DEF Stages
<1>5. /\ DOMAIN awaited' = DOMAIN awaited \ {p}
      /\ \A q \in DOMAIN awaited' : awaited'[q] = awaited[q]
  BY <1>1 DEF NoLongerWaits
<1>6. \A q \in DOMAIN awaited' : awaited[q] # awaited[p]
  BY <1>1, <1>5, AttemptsAssumption DEF PurchaseTypeOK, Waits
<1>7. PurchaseTypeOK'
  BY <1>1, <1>2, <1>3, <1>4, <1>5, <1>6 DEF PurchaseTypeOK
<1>8. WaitsOK'
  BY <1>2, <1>5 DEF WaitsOK, PurchaseTypeOK
<1>9. OrderKnown'
  BY <1>1, <1>2, <1>3 DEF OrderKnown
<1>10. MessagesOK'
  BY <1>1, <1>2, <1>3 DEF MessagesOK, Unpaid
<1>11. CompletedOK'
  <2>1. \A q \in Purchases : Completing(q)' => Completing(q) /\ stage'[q] \notin Unpaid
    BY <1>1, <1>2, <1>3 DEF Completing, CompletedOK, Unpaid
  <2> QED BY <1>1, <2>1, CompletedFrame DEF CompletedOK
<1> QED BY <1>7, <1>8, <1>9, <1>10, <1>11

LEMMA OrderAnsweredKeeps ==
  ASSUME PurchaseInv, MerchantInv, [Next]_merchantVars, NEW p \in Purchases, OrderAnswered(p)
  PROVE  PurchaseInv'
<1> USE DEF PurchaseInv
<1>0. stage \in [Purchases -> Stages] BY DEF PurchaseTypeOK
<1>1. /\ UNCHANGED <<posted, paid, reports, request>>
      /\ stage[p] = "ordering" /\ p \in DOMAIN awaited
      /\ \E s \in {"paying", "awaiting_payment"} : stage' = [stage EXCEPT ![p] = s]
      /\ chosen' = Told(chosen, p, awaited[p])
      /\ NoLongerWaits(p)
  BY DEF OrderAnswered, Move, merchantVars, Waits
<1>2. /\ \A q \in Purchases \ {p} : stage'[q] = stage[q]
      /\ stage'[p] \in {"paying", "awaiting_payment"}
  BY <1>0, <1>1
<1>3. stage' \in [Purchases -> Stages]
  BY <1>0, <1>1 DEF Stages, Outcomes
<1>4. /\ DOMAIN awaited' = DOMAIN awaited \ {p}
      /\ \A q \in DOMAIN awaited' : awaited'[q] = awaited[q]
  BY <1>1 DEF NoLongerWaits
<1>5. /\ DOMAIN chosen' = DOMAIN chosen \cup {p} /\ chosen'[p] = awaited[p]
      /\ \A q \in DOMAIN chosen \ {p} : chosen'[q] = chosen[q]
  BY <1>1 DEF Told
<1>6. awaited[p] \in Attempts[p] \cap CreateCalls
  BY <1>1 DEF WaitsOK, PurchaseTypeOK
<1>7. PurchaseTypeOK'
  BY <1>1, <1>2, <1>3, <1>4, <1>5, <1>6 DEF PurchaseTypeOK
<1>8. WaitsOK'
  BY <1>2, <1>4 DEF WaitsOK, PurchaseTypeOK
<1>9. OrderKnown'
  BY <1>2, <1>5 DEF OrderKnown
<1>10. MessagesOK'
  <2>1. \A q \in Purchases : q \in DOMAIN paid => q \in DOMAIN chosen
    BY DEF PurchaseTypeOK
  <2> QED BY <1>1, <1>2, <1>5, <2>1 DEF MessagesOK, Unpaid
<1>11. CompletedOK'
  <2>1. ~ Completing(p)
    BY <1>1 DEF CompletedOK, Unpaid
  <2>2. ~ Completing(p)'
    BY <1>1, <1>2, <2>1 DEF Completing
  <2>3. \A q \in Purchases : Completing(q)' =>
          Completing(q) /\ stage'[q] \notin Unpaid /\ q \in DOMAIN chosen' /\ chosen'[q] = chosen[q]
    BY <1>1, <1>2, <1>5, <2>2 DEF Completing, CompletedOK, Unpaid
  <2> QED BY <2>3, CompletedFrame
<1> QED BY <1>7, <1>8, <1>9, <1>10, <1>11

LEMMA PaymentKeeps ==
  ASSUME PurchaseInv, MerchantInv, [Next]_merchantVars, NEW p \in Purchases, SimulatePayment(p)
  PROVE  PurchaseInv'
<1> USE DEF PurchaseInv
<1>0. stage \in [Purchases -> Stages] BY DEF PurchaseTypeOK
<1>1. /\ UNCHANGED <<posted, awaited, chosen, reports, request>>
      /\ stage[p] = "paying"
      /\ \/ \E y \in PaymentIds : /\ stage' = [stage EXCEPT ![p] = "confirming"]
                                   /\ paid' = Told(paid, p, y)
         \/ stage' = [stage EXCEPT ![p] = "failing"] /\ paid' = paid
  BY DEF SimulatePayment, Move, Pay, merchantVars
<1>2. /\ \A q \in Purchases \ {p} : stage'[q] = stage[q]
      /\ stage'[p] \in {"confirming", "failing"}
  BY <1>0, <1>1
<1>3. stage' \in [Purchases -> Stages]
  BY <1>0, <1>1 DEF Stages
<1>4. /\ DOMAIN paid \subseteq DOMAIN paid' /\ DOMAIN paid' \subseteq DOMAIN paid \cup {p}
      /\ \A q \in DOMAIN paid' : paid'[q] \in PaymentIds
      /\ stage'[p] = "confirming" => p \in DOMAIN paid'
  <2>1. CASE stage' = [stage EXCEPT ![p] = "failing"] /\ paid' = paid
    BY <1>0, <2>1 DEF PurchaseTypeOK
  <2>2. CASE \E y \in PaymentIds : paid' = Told(paid, p, y)
    BY <2>2 DEF PurchaseTypeOK, Told
  <2> QED BY <1>1, <2>1, <2>2
<1>5. p \in DOMAIN chosen BY <1>1 DEF OrderKnown
<1>6. PurchaseTypeOK'
  BY <1>1, <1>2, <1>3, <1>4, <1>5 DEF PurchaseTypeOK
<1>7. WaitsOK'
  BY <1>1, <1>2 DEF WaitsOK, PurchaseTypeOK
<1>8. OrderKnown'
  BY <1>1, <1>2 DEF OrderKnown
<1>9. MessagesOK'
  BY <1>1, <1>2, <1>4 DEF MessagesOK, Unpaid
<1>10. CompletedOK'
  <2>1. \A q \in Purchases : Completing(q)' => Completing(q) /\ stage'[q] \notin Unpaid
    BY <1>1, <1>2 DEF Completing, CompletedOK, Unpaid
  <2> QED BY <1>1, <2>1, CompletedFrame DEF CompletedOK
<1> QED BY <1>6, <1>7, <1>8, <1>9, <1>10
LEMMA ConfirmAnsweredKeeps ==
  ASSUME PurchaseInv, MerchantInv, SettledInv, [Next]_merchantVars, NEW p \in Purchases,
         ConfirmAnswered(p)
  PROVE  PurchaseInv'
<1> USE DEF PurchaseInv
<1>0. stage \in [Purchases -> Stages] BY DEF PurchaseTypeOK
<1>1. /\ UNCHANGED <<posted, chosen, paid, reports, merchantVars>>
      /\ stage[p] = "confirming" /\ p \in DOMAIN awaited /\ pc[awaited[p]] = "returned"
      /\ stage' = [stage EXCEPT ![p] = "completing"]
      /\ NoLongerWaits(p)
  BY DEF ConfirmAnswered, Move, Waits
<1>2. /\ \A q \in Purchases \ {p} : stage'[q] = stage[q]
      /\ stage'[p] = "completing"
  BY <1>0, <1>1
<1>3. stage' \in [Purchases -> Stages]
  BY <1>0, <1>1 DEF Stages
<1>4. /\ DOMAIN awaited' = DOMAIN awaited \ {p}
      /\ \A q \in DOMAIN awaited' : awaited'[q] = awaited[q]
  BY <1>1 DEF NoLongerWaits
<1>5. PurchaseTypeOK'
  BY <1>1, <1>2, <1>3, <1>4 DEF PurchaseTypeOK
<1>6. WaitsOK'
  BY <1>2, <1>4 DEF WaitsOK, PurchaseTypeOK
<1>7. OrderKnown'
  BY <1>1, <1>2 DEF OrderKnown
<1>8. MessagesOK'
  BY <1>1, <1>2 DEF MessagesOK, Unpaid, merchantVars
<1>9. CompletedOK'
  <2>1. awaited[p] \in ConfirmCalls \cap Attempts[p]
    BY <1>1 DEF WaitsOK, PurchaseTypeOK
  <2>2. /\ awaited[p] \in DOMAIN request /\ Settled(request[awaited[p]].order)
        /\ request[awaited[p]].order = chosen[p]
    BY <1>1, <2>1 DEF SettledInv, MessagesOK
  <2>3. p \in DOMAIN chosen
    BY <1>1 DEF PurchaseTypeOK
  <2>4. \A o : Settled(o)' <=> Settled(o)
    BY <1>1 DEF Settled, Audited, Paid, Amount, merchantVars
  <2>5. \A q \in Purchases \ {p} : Completing(q)' => Completing(q)
    BY <1>1, <1>2 DEF Completing
  <2> QED BY <1>1, <1>2, <2>2, <2>3, <2>4, <2>5 DEF CompletedOK, Unpaid
<1> QED BY <1>5, <1>6, <1>7, <1>8, <1>9

LEMMA ReportKeeps ==
  ASSUME PurchaseInv, MerchantInv, [Next]_merchantVars, NEW p \in Purchases,
         Complete(p) \/ Fail(p)
  PROVE  PurchaseInv'
<1> USE DEF PurchaseInv
<1>0. stage \in [Purchases -> Stages]
      /\ reports \in [Purchases -> SUBSET {"PURCHASE_COMPLETED", "PURCHASE_FAILED"}]
  BY DEF PurchaseTypeOK
<1>1. /\ UNCHANGED <<posted, awaited, chosen, paid, request>>
      /\ stage[p] \in {"completing", "failing"}
      /\ \E s \in {"completed", "failing", "failed", "raised"} :
           /\ stage' = [stage EXCEPT ![p] = s]
           /\ s = "completed" => stage[p] = "completing"
      /\ \E event \in {"PURCHASE_COMPLETED", "PURCHASE_FAILED"} :
           /\ reports' \in {reports, [reports EXCEPT ![p] = @ \cup {event}]}
           /\ event = "PURCHASE_COMPLETED" => stage[p] = "completing"
  BY DEF Complete, Fail, Report, Move, merchantVars
<1>2. /\ \A q \in Purchases \ {p} : stage'[q] = stage[q] /\ reports'[q] = reports[q]
      /\ stage'[p] \in {"completed", "failing", "failed", "raised"}
      /\ Completing(p)' => Completing(p)
  BY <1>0, <1>1 DEF Completing
<1>3. stage' \in [Purchases -> Stages]
      /\ reports' \in [Purchases -> SUBSET {"PURCHASE_COMPLETED", "PURCHASE_FAILED"}]
  BY <1>0, <1>1 DEF Stages, Outcomes
<1>4. PurchaseTypeOK'
  BY <1>1, <1>2, <1>3 DEF PurchaseTypeOK
<1>5. WaitsOK'
  BY <1>1, <1>2 DEF WaitsOK, PurchaseTypeOK
<1>6. OrderKnown'
  BY <1>1, <1>2 DEF OrderKnown
<1>7. MessagesOK'
  BY <1>1, <1>2 DEF MessagesOK, Unpaid
<1>8. CompletedOK'
  <2>1. \A q \in Purchases : Completing(q)' => Completing(q) /\ stage'[q] \notin Unpaid
    BY <1>1, <1>2 DEF Completing, CompletedOK, Unpaid
  <2> QED BY <1>1, <2>1, CompletedFrame DEF CompletedOK
<1> QED BY <1>4, <1>5, <1>6, <1>7, <1>8

\* The merchant's half: the buyers wait, the messages delivered are theirs.
LEMMA MerchantHalfKeeps ==
  ASSUME PurchaseInv, MerchantInv, [Next]_merchantVars, UNCHANGED buyerVars, MessagesOK'
  PROVE  PurchaseInv'
<1> USE DEF PurchaseInv
<1>1. UNCHANGED <<stage, posted, awaited, chosen, paid, reports>> BY DEF buyerVars
<1>2. PurchaseTypeOK' BY <1>1 DEF PurchaseTypeOK
<1>3. WaitsOK' BY <1>1 DEF WaitsOK
<1>4. OrderKnown' BY <1>1 DEF OrderKnown
<1>5. CompletedOK' BY <1>1, CompletedFrame DEF Completing, CompletedOK
<1> QED BY <1>2, <1>3, <1>4, <1>5

LEMMA DeliveryKeepsMessages ==
  ASSUME PurchaseInv, MerchantInv, UNCHANGED buyerVars,
         \/ UNCHANGED request
         \/ \E p \in Purchases, c \in CreateCalls : DeliverOrder(p, c)
         \/ \E p \in Purchases, k \in ConfirmCalls : DeliverConfirmation(p, k)
  PROVE  MessagesOK'
<1> USE DEF PurchaseInv
<1>0. UNCHANGED <<stage, posted, chosen, paid>> BY DEF buyerVars
<1>1. CASE UNCHANGED request
  BY <1>0, <1>1 DEF MessagesOK
<1>2. ASSUME NEW p \in Purchases, NEW c \in CreateCalls, DeliverOrder(p, c) PROVE MessagesOK'
  <2>1. /\ c \in Attempts[p] /\ c \notin ConfirmCalls
        /\ DOMAIN request' = DOMAIN request \cup {c}
        /\ request'[c].mandate = MandateOf[p]
        /\ \A x \in DOMAIN request \ {c} : request'[x] = request[x]
    BY <1>2, CallsAssumption DEF DeliverOrder, ValidateAs, Begin
  <2>2. \A q \in Purchases : c \in Attempts[q] => q = p
    BY <2>1, AttemptsAssumption
  <2> QED BY <1>0, <2>1, <2>2 DEF MessagesOK
<1>3. ASSUME NEW p \in Purchases, NEW k \in ConfirmCalls, DeliverConfirmation(p, k)
      PROVE  MessagesOK'
  <2>1. k \in Attempts[p] \cap posted /\ k \notin CreateCalls
    BY <1>3, CallsAssumption DEF DeliverConfirmation
  <2>2. \/ UNCHANGED request
        \/ /\ DOMAIN request' = DOMAIN request \cup {k}
           /\ request'[k].order = chosen[p]
           /\ \A x \in DOMAIN request \ {k} : request'[x] = request[x]
    <3>1. CASE RefuseOrder(k) BY <3>1 DEF RefuseOrder, OtherThanInventory
    <3>2. CASE LookUpOrder(k) /\ request'[k] = [order |-> chosen[p], payment |-> paid[p]]
      <4>1. \E asked : request' = [x \in DOMAIN request \cup {k} |->
                                     IF x = k THEN asked ELSE request[x]]
        BY <3>2 DEF LookUpOrder, Begin
      <4>2. request'[k].order = chosen[p] BY <3>2
      <4> QED BY <4>1, <4>2
    <3> QED BY <1>3, <3>1, <3>2 DEF DeliverConfirmation
  <2>3. \A q \in Purchases : k \in Attempts[q] => q = p
    BY <2>1, AttemptsAssumption
  <2> QED BY <1>0, <1>1, <2>1, <2>2, <2>3 DEF MessagesOK
<1> QED BY <1>1, <1>2, <1>3

LEMMA PurchaseInvStep ==
  MerchantInv /\ SettledInv /\ PurchaseInv /\ [PurchaseNext]_purchaseVars => PurchaseInv'
<1> SUFFICES ASSUME MerchantInv, SettledInv, PurchaseInv, [PurchaseNext]_purchaseVars
             PROVE  PurchaseInv'
  OBVIOUS
<1>1. [Next]_merchantVars BY PurchaseStepIsMerchantStep DEF MerchantInv
<1>2. ASSUME NEW p \in Purchases, BuyerStep(p) \/ Abandon(p) PROVE PurchaseInv'
  BY <1>1, <1>2, DecideKeeps, PostKeeps, DropKeeps, OrderAnsweredKeeps, PaymentKeeps,
     ConfirmAnsweredKeeps, ReportKeeps DEF BuyerStep
<1>3. CASE UNCHANGED buyerVars /\ UNCHANGED request
  BY <1>1, <1>3, DeliveryKeepsMessages, MerchantHalfKeeps
<1>4. CASE \/ \E p \in Purchases, c \in CreateCalls : DeliverOrder(p, c)
           \/ \E p \in Purchases, k \in ConfirmCalls : DeliverConfirmation(p, k)
  <2>1. UNCHANGED buyerVars BY <1>4 DEF DeliverOrder, DeliverConfirmation
  <2> QED BY <1>1, <1>4, <2>1, DeliveryKeepsMessages, MerchantHalfKeeps
<1>5. MerchantStep => UNCHANGED buyerVars /\ UNCHANGED request
  BY CreateStepMoves, ConfirmStepMoves DEF MerchantStep, Restart, MerchantInv
<1>6. UNCHANGED purchaseVars => UNCHANGED buyerVars /\ UNCHANGED request
  BY DEF purchaseVars, merchantVars
<1> QED BY <1>2, <1>3, <1>4, <1>5, <1>6 DEF PurchaseNext

LEMMA PurchaseInvHolds == PurchaseSpec => [](MerchantInv /\ PurchaseInv)
<1>1. PurchaseSpec => [](MerchantInv /\ SettledInv)
  BY PurchasesImplementMerchant, SettledHolds, PTL
<1>2. MerchantInv /\ SettledInv /\ PurchaseInv /\ [PurchaseNext]_purchaseVars => PurchaseInv'
  BY PurchaseInvStep
<1> QED BY <1>1, <1>2, PurchaseInvInit, PTL DEF PurchaseSpec

\* What a purchase waits for and was told of is its own, whatever is lost
\* (buyer_core.py 333-442).
THEOREM PurchaseTypes == PurchaseSpec => []PurchaseTypeOK
<1>1. PurchaseInv => PurchaseTypeOK BY DEF PurchaseInv
<1> QED BY <1>1, PurchaseInvHolds, PTL

\* A purchase reported completed has its stock on record as sold and its payment
\* captured in full, for any number of purchases, attempts, lost answers and
\* restarts (buyer_core.py 375-405, merchant_core.py 386-452).
THEOREM CompletedIsSettled == PurchaseSpec => []CompletedIsConfirmed
<1>1. PurchaseInv => CompletedIsConfirmed
  BY DEF PurchaseInv, CompletedOK, Completing, CompletedIsConfirmed, Settled, Paid
<1> QED BY <1>1, PurchaseInvHolds, PTL

\* With a durable nonce store only one of the attempts to post an order
\* reserves stock, and the purchase is charged once
\* (a2a_client.py 138-171, ap2.py 239-240, buyer_core.py 367).
THEOREM PurchaseGetsOneOrder ==
  ASSUME NoncesDurable
  PROVE  PurchaseSpec => []OneOrderPerPurchase
<1>1. PurchaseSpec => []MandateInv
  <2>1. TypeOK /\ MandateInv /\ [Next]_merchantVars => MandateInv' BY MandateInvStep
  <2> QED BY <2>1, MandateInvInit, MerchantTypes, PurchasesImplementMerchant, PTL DEF Spec
<1>2. MerchantInv /\ PurchaseInv /\ MandateInv /\ ChargedOnce => OneOrderPerPurchase
  <2> SUFFICES ASSUME MerchantInv, PurchaseInv, MandateInv,
                      NEW p \in Purchases, NEW c \in Attempts[p] \cap CreateCalls,
                      NEW d \in Attempts[p] \cap CreateCalls,
                      Audited(c, "INVENTORY_RESERVED"), Audited(d, "INVENTORY_RESERVED")
               PROVE  c = d
    BY DEF OneOrderPerPurchase
  <2>1. <<"MANDATE_VALIDATED", "INVENTORY_RESERVED">> \in Pipeline BY DEF Pipeline
  <2>2. \A x \in CreateCalls : Audited(x, "INVENTORY_RESERVED") => Spent(x)
    <3> SUFFICES ASSUME NEW x \in CreateCalls, Audited(x, "INVENTORY_RESERVED") PROVE Spent(x)
      OBVIOUS
    <3>1. PICK i \in DOMAIN trail[x] : trail[x][i] = "INVENTORY_RESERVED"
      BY DEF Audited
    <3>2. PICK j \in 1 .. i - 1 : trail[x][j] = "MANDATE_VALIDATED"
      BY <2>1, <3>1 DEF MerchantInv, TrailInv, TrailFollowsPipeline
    <3>3. trail[x] \in Seq(Events) BY DEF MerchantInv, TypeOK, StoresOK
    <3>4. j \in DOMAIN trail[x] BY <3>1, <3>2, <3>3
    <3> QED BY <3>2, <3>4 DEF Audited, Spent
  <2>3. \A x \in {c, d} : x \in DOMAIN request /\ request[x].mandate = MandateOf[p]
    BY <2>2 DEF MandateInv, MerchantInv, TypeOK, CallsOK, PurchaseInv, MessagesOK
  <2> QED BY <2>2, <2>3 DEF MandateInv
<1> QED BY <1>1, <1>2, PurchaseInvHolds, PurchaseIsChargedOnce, PTL

-----------------------------------------------------------------------------
(* Buyer and merchant keep the deal *)

\* What holds of purchases and merchant when their steps are read as steps of
\* the deal.
DealInv == MerchantInv /\ ChargeInv /\ PurchaseInv

\* The payments made for purchase p, and whether its goods are on record as sold.
ChargesOf(p) == {y \in DOMAIN payments : payments[y].order \in Attempts[p]}
SoldTo(p) == \E c \in Attempts[p] \cap CreateCalls : Audited(c, "INVENTORY_COMMITTED")
Reported(p) == "PURCHASE_COMPLETED" \in reports[p]

\* A step under which no purchase is charged, delivered or completed.
LEMMA DealStutters ==
  ASSUME \A p \in Purchases : ChargesOf(p)' = ChargesOf(p),
         \A p \in Purchases : SoldTo(p)' <=> SoldTo(p),
         \A p \in Purchases : Reported(p)' <=> Reported(p)
  PROVE  UNCHANGED Struck!dealVars
<1>1. [p \in Purchases |-> ChargesOf(p)]' = [p \in Purchases |-> ChargesOf(p)]
  OBVIOUS
<1>2. {p \in Purchases : SoldTo(p)}' = {p \in Purchases : SoldTo(p)}
  OBVIOUS
<1>3. {p \in Purchases : Reported(p)}' = {p \in Purchases : Reported(p)}
  OBVIOUS
<1> QED BY <1>1, <1>2, <1>3 DEF Struck!dealVars, ChargesOf, SoldTo, Reported

\* Charges and sales are read off the payments and the trails.
LEMMA SameCharges ==
  SamePayments => \A p \in Purchases : ChargesOf(p)' = ChargesOf(p)
BY DEF SamePayments, ChargesOf

LEMMA SameSales ==
  UNCHANGED trail => \A p \in Purchases : SoldTo(p)' <=> SoldTo(p)
BY DEF SoldTo, Audited

\* A step of the merchant delivers to the purchase whose order it serves.
LEMMA MerchantDeals ==
  ASSUME DealInv, [Next]_merchantVars, SamePayments, UNCHANGED buyerVars
  PROVE  [Struck!Next]_(Struck!dealVars)
<1>0. MerchantInv /\ StoresOK
  BY DEF DealInv, MerchantInv, TypeOK
<1>1. /\ \A p \in Purchases : ChargesOf(p)' = ChargesOf(p)
      /\ \A p \in Purchases : Reported(p)' <=> Reported(p)
  BY SameCharges DEF Reported, buyerVars
<1>2. CASE UNCHANGED trail
  BY <1>1, <1>2, SameSales, DealStutters
<1>3. ASSUME NEW t \in CreateCalls, NEW event \in Events,
             trail' = [trail EXCEPT ![t] = Append(@, event)],
             event = "INVENTORY_COMMITTED" => Paid(t)
      PROVE  [Struck!Next]_(Struck!dealVars)
  <2>1. \A d \in CreateCalls : Audited(d, "INVENTORY_COMMITTED")' <=>
          Audited(d, "INVENTORY_COMMITTED") \/ (d = t /\ event = "INVENTORY_COMMITTED")
    BY <1>0, <1>3, AppendedOnly DEF Events
  <2>2. \A p \in Purchases : SoldTo(p)' <=>
          SoldTo(p) \/ (t \in Attempts[p] /\ event = "INVENTORY_COMMITTED")
    BY <1>3, <2>1 DEF SoldTo
  <2>3. CASE event = "INVENTORY_COMMITTED" /\ \E p \in Purchases : t \in Attempts[p]
    <3>1. PICK p \in Purchases : t \in Attempts[p] BY <2>3
    <3>2. \A q \in Purchases : SoldTo(q)' <=> SoldTo(q) \/ q = p
      BY <2>2, <2>3, <3>1, AttemptsAssumption
    <3>3. {q \in Purchases : SoldTo(q)}' = {q \in Purchases : SoldTo(q)} \cup {p}
      BY <3>2
    <3>4. ChargesOf(p) # {} BY <1>3, <2>3, <3>1 DEF Paid, ChargesOf
    <3>5. /\ [q \in Purchases |-> ChargesOf(q)]' = [q \in Purchases |-> ChargesOf(q)]
          /\ {q \in Purchases : Reported(q)}' = {q \in Purchases : Reported(q)}
      BY <1>1
    <3>6. Struck!Deliver(p)
      BY <3>3, <3>4, <3>5 DEF Struck!Deliver, ChargesOf, SoldTo, Reported
    <3> QED BY <3>6 DEF Struck!Next
  <2>4. CASE ~ (event = "INVENTORY_COMMITTED" /\ \E p \in Purchases : t \in Attempts[p])
    BY <1>1, <2>2, <2>4, DealStutters
  <2> QED BY <2>3, <2>4
<1>4. \A k \in ConfirmCalls : pc[k] = "committed" => Paid(request[k].order)
  BY <1>0 DEF MerchantInv, PaidInv, PastVerification
<1> QED BY <1>0, <1>2, <1>3, <1>4, TrailMoves DEF MerchantInv

\* The payment is the first for its purchase.
LEMMA PaymentDeals ==
  ASSUME DealInv, NEW p \in Purchases, SimulatePayment(p)
  PROVE  [Struck!Next]_(Struck!dealVars)
<1>1. stage[p] = "paying" /\ UNCHANGED <<chosen, reports>>
  BY DEF SimulatePayment
<1>2. \A q \in Purchases : Reported(q)' <=> Reported(q)
  BY <1>1 DEF Reported
<1>3. CASE UNCHANGED merchantVars
  BY <1>2, <1>3, SameCharges, SameSales, DealStutters DEF SamePayments, merchantVars
<1>4. CASE \E y \in PaymentIds : Pay(chosen[p], y, Amount(chosen[p]), "captured")
  <2>1. PICK y \in PaymentIds : Pay(chosen[p], y, Amount(chosen[p]), "captured")
    BY <1>4
  <2>2. /\ DOMAIN payments' = DOMAIN payments \cup {y} /\ y \notin DOMAIN payments
        /\ payments'[y].order = chosen[p]
        /\ \A x \in DOMAIN payments : payments'[x].order = payments[x].order
        /\ UNCHANGED trail
    BY <2>1 DEF Pay
  <2>3. chosen[p] \in Attempts[p]
    BY <1>1 DEF DealInv, ChargeInv, OwnOrders
  <2>4. \A q \in Purchases : q # p => chosen[p] \notin Attempts[q]
    BY <2>3, AttemptsAssumption
  <2>5. ChargesOf(p) = {}
    BY <1>1 DEF DealInv, ChargeInv, PaidLast, Unpaid, ChargesOf
  <2>6. \A q \in Purchases : ChargesOf(q)' = IF q = p THEN {y} ELSE ChargesOf(q)
    BY <2>2, <2>3, <2>4, <2>5 DEF ChargesOf
  <2>7. [q \in Purchases |-> ChargesOf(q)]' = [[q \in Purchases |-> ChargesOf(q)] EXCEPT ![p] = {y}]
    BY <2>6
  <2>8. /\ {q \in Purchases : SoldTo(q)}' = {q \in Purchases : SoldTo(q)}
        /\ {q \in Purchases : Reported(q)}' = {q \in Purchases : Reported(q)}
    BY <1>2, <2>2, SameSales
  <2>9. Struck!Charge(p, y)
    BY <2>5, <2>7, <2>8 DEF Struck!Charge, ChargesOf, SoldTo, Reported
  <2> QED BY <2>9 DEF Struck!Next
<1> QED BY <1>3, <1>4 DEF SimulatePayment

\* A purchase reports itself completed after the sale.
LEMMA ReportDeals ==
  ASSUME DealInv, NEW p \in Purchases, Complete(p) \/ Fail(p)
  PROVE  [Struck!Next]_(Struck!dealVars)
<1>0. reports \in [Purchases -> SUBSET {"PURCHASE_COMPLETED", "PURCHASE_FAILED"}]
  BY DEF DealInv, PurchaseInv, PurchaseTypeOK
<1>1. UNCHANGED merchantVars
  BY DEF Complete, Fail
<1>2. /\ \A q \in Purchases : ChargesOf(q)' = ChargesOf(q)
      /\ \A q \in Purchases : SoldTo(q)' <=> SoldTo(q)
  BY <1>1, SameCharges, SameSales DEF SamePayments, merchantVars
<1>3. \/ UNCHANGED reports
      \/ stage[p] = "completing" /\ reports' = [reports EXCEPT ![p] = @ \cup {"PURCHASE_COMPLETED"}]
      \/ reports' = [reports EXCEPT ![p] = @ \cup {"PURCHASE_FAILED"}]
  BY DEF Complete, Fail, Report
<1>4. CASE stage[p] = "completing"
           /\ reports' = [reports EXCEPT ![p] = @ \cup {"PURCHASE_COMPLETED"}]
  <2>1. /\ p \in DOMAIN chosen /\ Settled(chosen[p])
        /\ chosen[p] \in Attempts[p] \cap CreateCalls
    BY <1>4 DEF DealInv, PurchaseInv, PurchaseTypeOK, CompletedOK, Completing
  <2>2. SoldTo(p) BY <2>1 DEF Settled, SoldTo
  <2>3. \A q \in Purchases : Reported(q)' <=> Reported(q) \/ q = p
    BY <1>0, <1>4 DEF Reported
  <2>4. {q \in Purchases : Reported(q)}' = {q \in Purchases : Reported(q)} \cup {p}
    BY <2>3
  <2>5. /\ [q \in Purchases |-> ChargesOf(q)]' = [q \in Purchases |-> ChargesOf(q)]
        /\ {q \in Purchases : SoldTo(q)}' = {q \in Purchases : SoldTo(q)}
    BY <1>2
  <2>6. Struck!Complete(p)
    BY <2>2, <2>4, <2>5 DEF Struck!Complete, ChargesOf, SoldTo, Reported
  <2> QED BY <2>6 DEF Struck!Next
<1>5. CASE UNCHANGED reports \/ reports' = [reports EXCEPT ![p] = @ \cup {"PURCHASE_FAILED"}]
  <2>1. \A q \in Purchases : Reported(q)' <=> Reported(q)
    BY <1>0, <1>5 DEF Reported
  <2> QED BY <1>2, <2>1, DealStutters
<1> QED BY <1>3, <1>4, <1>5

\* Every step of buyers and merchant is a step of the deal or leaves it alone.
LEMMA DealStep ==
  DealInv /\ [PurchaseNext]_purchaseVars => [Struck!Next]_(Struck!dealVars)
<1> SUFFICES ASSUME DealInv, [PurchaseNext]_purchaseVars
             PROVE  [Struck!Next]_(Struck!dealVars)
  OBVIOUS
<1>0. TypeOK /\ [Next]_merchantVars
  BY PurchaseStepIsMerchantStep DEF DealInv, MerchantInv
<1>1. CASE SamePayments /\ UNCHANGED buyerVars
  BY <1>0, <1>1, MerchantDeals
<1>2. CASE UNCHANGED merchantVars /\ UNCHANGED reports
  BY <1>2, SameCharges, SameSales, DealStutters DEF SamePayments, Reported, merchantVars
<1>3. ASSUME NEW p \in Purchases, BuyerStep(p) \/ Abandon(p)
      PROVE  [Struck!Next]_(Struck!dealVars)
  BY <1>2, <1>3, PaymentDeals, ReportDeals
     DEF BuyerStep, Decide, Post, GiveUp, TurnedAway, Refused, OrderAnswered, ConfirmAnswered,
         Abandon
<1>4. CASE UNCHANGED purchaseVars
  BY <1>2, <1>4 DEF purchaseVars, buyerVars
<1> QED BY <1>0, <1>1, <1>3, <1>4, MerchantKeepsPayments DEF PurchaseNext

\* Nothing is charged, sold or reported to begin with.
LEMMA DealInit == PurchaseInit => Struck!Init
<1> SUFFICES ASSUME PurchaseInit PROVE Struck!Init
  OBVIOUS
<1>1. /\ DOMAIN payments = {} /\ \A c \in CreateCalls : DOMAIN trail[c] = {}
      /\ reports = [p \in Purchases |-> {}]
  BY DEF PurchaseInit, Init
<1>2. \A p \in Purchases : ChargesOf(p) = {} /\ ~ SoldTo(p) /\ ~ Reported(p)
  BY <1>1 DEF ChargesOf, SoldTo, Reported, Audited
<1> QED BY <1>2 DEF Struck!Init, ChargesOf, SoldTo, Reported

\* For any number of purchases and attempts, and whatever messages, answers,
\* ledger writes and merchant processes are lost, a purchase is charged at most
\* once, its goods are sold after the charge and its success is reported after
\* the sale; no step of either agent takes any of it back.  No durable nonce
\* store is needed for this (buyer_core.py 333-405, merchant_core.py 386-452).
THEOREM PurchasesKeepDeal == PurchaseSpec => KeepsDeal
<1>1. PurchaseSpec => []ChargeInv
  <2>1. TypeOK /\ ChargeInv /\ [PurchaseNext]_purchaseVars => ChargeInv' BY ChargeInvStep
  <2> QED BY <2>1, ChargeInvInit, PurchasesImplementMerchant, MerchantTypes, PTL DEF PurchaseSpec
<1>2. PurchaseSpec => []DealInv
  BY <1>1, PurchaseInvHolds, PTL DEF DealInv
<1>3. DealInv /\ [PurchaseNext]_purchaseVars => [Struck!Next]_(Struck!dealVars) BY DealStep
<1> QED BY <1>2, <1>3, DealInit, PTL DEF PurchaseSpec, KeepsDeal, Struck!Spec

\* The merchant keeps the books for purchases over the A2A client, too
\* (a2a_client.py 138-171, merchant_core.py 226).
THEOREM PurchasesKeepBooks ==
  ASSUME NoncesDurable
  PROVE  PurchaseSpec => KeepsBooks
BY PurchasesImplementMerchant, MerchantKeepsBooks, PTL

\* With messages posted twice, delivered late or not at all, stock is sold for
\* paid orders only, confirmed orders are sold, no hold is without an owner and
\* the trails are in order (a2a_client.py 138-171, merchant_core.py 197-452).
THEOREM PurchasesKeepMerchantInvariants ==
  PurchaseSpec =>
    [](PaidBeforeCommit /\ ConfirmedIsCommitted /\ NoOrphanHold /\ TrailFollowsPipeline)
BY PurchasesImplementMerchant, SoldIsPaid, ConfirmedIsSold, HoldsHaveOwners, TrailIsInOrder, PTL

\* What purchases do to the stock is what the abstract pool admits
\* (inventory_service.py 46-107).
THEOREM PurchasesUsePool == PurchaseSpec => ImplementsPool
BY PurchasesImplementMerchant, MerchantUsesInventory, InventoryImplementsPool, PTL DEF UsesInventory

-----------------------------------------------------------------------------
(* Retries run out *)

\* The other purchases are not concerned.
LEMMA OthersCounted ==
  ASSUME PurchaseInv, NEW p \in Purchases, BuyerStep(p) \/ Abandon(p),
         NEW q \in Purchases, q # p
  PROVE  Counted(q)
<1>1. stage'[q] = stage[q]
  BY StageMoves DEF PurchaseInv, PurchaseTypeOK
<1>2. \/ posted' = posted
      \/ \E c \in Attempts[p] : posted' = posted \cup {c}
      \/ \E c \in Attempts[p] : posted' = posted \ {c}
  BY DEF BuyerStep, Decide, Post, Left, GiveUp, TurnedAway, Refused, OrderAnswered,
         SimulatePayment, ConfirmAnswered, Complete, Fail, Abandon, Waits, PurchaseInv,
         PurchaseTypeOK
<1>3. Attempts[q] \cap posted \subseteq posted'
  BY <1>2, AttemptsAssumption
<1>4. \/ awaited' = awaited \/ NoLongerWaits(p)
      \/ \E c : awaited' = Told(awaited, p, c)
  BY DEF BuyerStep, Decide, Post, GiveUp, TurnedAway, Refused, OrderAnswered,
         SimulatePayment, ConfirmAnswered, Complete, Fail, Abandon
<1>5. q \in DOMAIN awaited' => Waits(q) /\ awaited'[q] = awaited[q]
  BY <1>4 DEF NoLongerWaits, Told, Waits
<1> QED BY <1>1, <1>3, <1>5 DEF Counted

\* A step of the purchase itself.
LEMMA OwnCounted ==
  ASSUME PurchaseInv, NEW p \in Purchases, BuyerStep(p) \/ Abandon(p)
  PROVE  Counted(p)
<1>0. stage \in [Purchases -> Stages]
  BY DEF PurchaseInv, PurchaseTypeOK
<1>1. CASE Post(p)
  <2>1. PICK c \in Left(p) : posted' = posted \cup {c} BY <1>1 DEF Post
  <2>2. c \in Attempts[p] /\ c \notin posted BY <2>1 DEF Left
  <2> QED BY <1>1, <2>1, <2>2 DEF Post, Counted
<1>2. CASE Decide(p)
  <2>1. stage[p] = "idle" /\ stage'[p] \in {"ordering", "failing", "raised"}
    BY <1>0, <1>2 DEF Decide, Move
  <2> QED BY <2>1 DEF Counted, Remaining
<1>3. CASE GiveUp(p) \/ TurnedAway(p) \/ Refused(p)
  <2>1. stage[p] \in {"ordering", "confirming"} /\ stage'[p] = "failing"
    BY <1>0, <1>3 DEF GiveUp, TurnedAway, Refused, Move, Waits, PurchaseInv, WaitsOK
  <2> QED BY <2>1 DEF Counted, Remaining
<1>4. CASE OrderAnswered(p)
  <2>1. stage[p] = "ordering" /\ stage'[p] \in {"paying", "awaiting_payment"}
    BY <1>0, <1>4 DEF OrderAnswered, Move
  <2> QED BY <2>1 DEF Counted, Remaining
<1>5. CASE SimulatePayment(p)
  <2>1. stage[p] = "paying" /\ stage'[p] \in {"confirming", "failing"}
    BY <1>0, <1>5 DEF SimulatePayment, Move
  <2> QED BY <2>1 DEF Counted, Remaining
<1>6. CASE ConfirmAnswered(p) \/ Complete(p) \/ Fail(p)
  <2>1. \/ stage[p] = "confirming" /\ stage'[p] = "completing"
        \/ stage[p] = "completing" /\ stage'[p] \in {"completed", "failing"}
        \/ stage[p] = "failing" /\ stage'[p] \in {"failed", "raised"}
    BY <1>0, <1>6 DEF ConfirmAnswered, Complete, Fail, Report, Move
  <2> QED BY <2>1 DEF Counted, Remaining
<1>7. CASE Abandon(p)
  <2>1. stage[p] \in {"ordering", "paying", "confirming"} /\ stage'[p] = "abandoned"
    BY <1>0, <1>7 DEF Abandon, Move
  <2> QED BY <2>1 DEF Counted, Remaining
<1> QED BY <1>1, <1>2, <1>3, <1>4, <1>5, <1>6, <1>7 DEF BuyerStep

\* Whatever the merchant answers and whatever is lost, a purchase makes each of
\* its attempts once and passes each of its stages once: the safety half of
\* PurchaseEnds, for any number of purchases and attempts (a2a_client.py
\* 138-171, buyer_core.py 175-442).
THEOREM PurchaseRetriesRunOut == PurchaseSpec => RetriesAreCounted
<1>1. ASSUME PurchaseInv, [PurchaseNext]_purchaseVars PROVE \A q \in Purchases : Counted(q)
  <2>1. CASE UNCHANGED buyerVars
    BY <2>1 DEF buyerVars, Counted, Waits
  <2>2. ASSUME NEW p \in Purchases, BuyerStep(p) \/ Abandon(p)
        PROVE  \A q \in Purchases : Counted(q)
    BY <1>1, <2>2, OthersCounted, OwnCounted
  <2> QED BY <1>1, <2>1, <2>2
          DEF PurchaseNext, DeliverOrder, DeliverConfirmation, MerchantStep, purchaseVars
<1>2. PurchaseInv /\ [PurchaseNext]_purchaseVars
        => [AllCounted]_purchaseVars
  BY <1>1 DEF AllCounted
<1> QED BY <1>2, PurchaseInvHolds, PTL DEF PurchaseSpec, RetriesAreCounted
=============================================================================
