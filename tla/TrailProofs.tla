----------------------------- MODULE TrailProofs -----------------------------
(***************************************************************************)
(* Proof that the audit trail of a transaction tells its steps in the      *)
(* order of the pipeline, whichever writes the ledger refuses and however  *)
(* many confirm calls and webhooks append to it; of what a confirmation    *)
(* that returned stands for; and that trails and gateway together keep the *)
(* books of module Books.                                                  *)
(***************************************************************************)
EXTENDS ConfirmationProofs

\* What a call has put on record when it stands at a step.
CreateTrail(c) ==
  /\ pc[c] \in {"pricing", "reserving", "reserved", "ordering", "ordered"}
       => Audited(c, "MANDATE_VALIDATED")
  /\ pc[c] \in {"ordering", "ordered"} => Audited(c, "INVENTORY_RESERVED")

ConfirmTrail(k) ==
  /\ pc[k] \in {"committing", "committed", "marking", "confirmed"}
       => Audited(request[k].order, "PAYMENT_VERIFIED")
  /\ pc[k] \in {"marking", "confirmed"} => Audited(request[k].order, "INVENTORY_COMMITTED")

TrailInv ==
  /\ TrailFollowsPipeline
  /\ \A c \in CreateCalls : CreateTrail(c)
  /\ \A k \in ConfirmCalls : ConfirmTrail(k)

-----------------------------------------------------------------------------

\* Every event that must follow another.
LEMMA PipelineSteps ==
  \A event : \A step \in Pipeline : event = step[2] =>
    \/ event = "INVENTORY_RESERVED" /\ step[1] = "MANDATE_VALIDATED"
    \/ event = "ORDER_CREATED" /\ step[1] = "INVENTORY_RESERVED"
    \/ event = "PAYMENT_VERIFIED" /\ step[1] = "ORDER_CREATED"
    \/ event = "INVENTORY_COMMITTED" /\ step[1] = "PAYMENT_VERIFIED"
    \/ event = "TRANSACTION_CONFIRMED" /\ step[1] = "INVENTORY_COMMITTED"
BY DEF Pipeline

\* Appending an event after what it depends on keeps the trail in order.
LEMMA Appended ==
  ASSUME StoresOK, NEW t \in CreateCalls, NEW event \in Events,
         trail' = [trail EXCEPT ![t] = Append(@, event)]
  PROVE  /\ \A d \in CreateCalls, e \in Events : Audited(d, e) => Audited(d, e)'
         /\ Audited(t, event)'
         /\ (TrailFollowsPipeline /\ \A step \in Pipeline : event = step[2] => Audited(t, step[1]))
              => TrailFollowsPipeline'
<1>1. trail \in [CreateCalls -> Seq(Events)] /\ trail[t] \in Seq(Events)
  BY DEF StoresOK
<1> DEFINE n == Len(trail[t])
<1>2. /\ n \in Nat /\ DOMAIN trail[t] = 1 .. n
      /\ trail'[t] = Append(trail[t], event)
      /\ \A d \in CreateCalls : d # t => trail'[d] = trail[d]
  BY <1>1
<1>3. /\ DOMAIN trail'[t] = 1 .. n + 1
      /\ trail'[t][n + 1] = event
      /\ \A i \in 1 .. n : trail'[t][i] = trail[t][i]
  BY <1>1, <1>2
<1> HIDE DEF n
<1>4. \A d \in CreateCalls, e \in Events : Audited(d, e) => Audited(d, e)'
  BY AppendedOnly
<1>5. Audited(t, event)'
  BY AppendedOnly
<1>6. ASSUME TrailFollowsPipeline, \A step \in Pipeline : event = step[2] => Audited(t, step[1])
      PROVE  TrailFollowsPipeline'
  <2>1. ASSUME NEW d \in CreateCalls, NEW i \in DOMAIN trail'[d], NEW step \in Pipeline,
               trail'[d][i] = step[2]
        PROVE  \E j \in 1 .. i - 1 : trail'[d][j] = step[1]
    <3>1. CASE d # t
      BY <1>2, <1>6, <2>1, <3>1 DEF TrailFollowsPipeline
    <3>2. CASE d = t /\ i \in 1 .. n
      <4>1. PICK j \in 1 .. i - 1 : trail[t][j] = step[1]
        BY <1>2, <1>3, <1>6, <2>1, <3>2 DEF TrailFollowsPipeline
      <4>2. j \in 1 .. n BY <1>2, <3>2
      <4> QED BY <1>3, <3>2, <4>1, <4>2
    <3>3. CASE d = t /\ i = n + 1
      <4>1. PICK j \in 1 .. n : trail[t][j] = step[1]
        BY <1>2, <1>3, <1>6, <2>1, <3>3 DEF Audited
      <4> QED BY <1>2, <1>3, <3>3, <4>1
    <3> QED BY <1>2, <1>3, <2>1, <3>1, <3>2, <3>3
  <2> QED BY <2>1 DEF TrailFollowsPipeline
<1> QED BY <1>4, <1>5, <1>6

\* The trail is kept in order and loses nothing.
TrailGrows ==
  /\ TrailFollowsPipeline'
  /\ \A d \in CreateCalls, e \in Events : Audited(d, e) => Audited(d, e)'

LEMMA Quiet ==
  TrailInv /\ UNCHANGED trail => TrailGrows
BY DEF TrailInv, TrailGrows, TrailFollowsPipeline, Audited

LEMMA AuditInOrder ==
  ASSUME TypeOK, TrailInv, NEW t \in CreateCalls, NEW event \in Events, NEW c, NEW s, NEW e,
         Audit(c, t, event, s, e),
         \A step \in Pipeline : event = step[2] => Audited(t, step[1])
  PROVE  /\ TrailGrows
         /\ (Goto(c, s) /\ Audited(t, event)') \/ Goto(c, e)
<1>1. StoresOK /\ TrailFollowsPipeline BY DEF TypeOK, TrailInv
<1>2. UNCHANGED trail \/ trail' = [trail EXCEPT ![t] = Append(@, event)]
  BY DEF Audit
<1>3. TrailGrows
  BY <1>1, <1>2, Quiet, Appended DEF TrailGrows
<1>4. Goto(c, e) \/ (Goto(c, s) /\ trail' = [trail EXCEPT ![t] = Append(@, event)])
  BY DEF Audit
<1> QED BY <1>1, <1>3, <1>4, Appended

LEMMA CreateStepTrail ==
  ASSUME TypeOK, TrailInv, NEW c \in CreateCalls, CreateStep(c)
  PROVE  TrailGrows /\ CreateTrail(c)'
<1>0. c \in Calls /\ DOMAIN pc = Calls /\ CreateTrail(c)
  BY DEF Calls, TypeOK, CallsOK, TrailInv
<1>1. ASSUME NEW event \in Events, NEW s, NEW e, Audit(c, c, event, s, e),
             \A step \in Pipeline : event = step[2] => Audited(c, step[1])
      PROVE  /\ TrailGrows
             /\ (pc'[c] = s /\ Audited(c, event)') \/ pc'[c] = e
  BY <1>0, <1>1, AuditInOrder DEF Goto
<1>2. CASE AuditValidated(c)
  <2>1. TrailGrows /\ ((pc'[c] = "pricing" /\ Audited(c, "MANDATE_VALIDATED")') \/ pc'[c] = "failing")
    BY <1>1, <1>2, PipelineSteps DEF AuditValidated, Events
  <2> QED BY <2>1 DEF CreateTrail
<1>3. CASE AuditReserved(c)
  <2>1. Audited(c, "MANDATE_VALIDATED") BY <1>0, <1>3 DEF AuditReserved, CreateTrail
  <2>2. TrailGrows /\ ((pc'[c] = "ordering" /\ Audited(c, "INVENTORY_RESERVED")') \/ pc'[c] = "undoing")
    BY <1>1, <1>3, <2>1, PipelineSteps DEF AuditReserved, Events
  <2> QED BY <2>1, <2>2 DEF CreateTrail, TrailGrows, Events
<1>4. CASE AuditOrdered(c)
  <2>1. Audited(c, "MANDATE_VALIDATED") /\ Audited(c, "INVENTORY_RESERVED")
    BY <1>0, <1>4 DEF AuditOrdered, CreateTrail
  <2>2. TrailGrows /\ pc'[c] \in {"returned", "undoing"}
    BY <1>1, <1>4, <2>1, PipelineSteps DEF AuditOrdered, Events
  <2> QED BY <2>1, <2>2 DEF CreateTrail, TrailGrows, Events
<1>5. CASE AuditUndone(c) \/ AuditFailure(c)
  <2>1. TrailGrows /\ pc'[c] \in {"failing", "rejected", "raised"}
    BY <1>1, <1>5, PipelineSteps DEF AuditUndone, AuditFailure, Events
  <2> QED BY <2>1 DEF CreateTrail
<1>6. CASE CheckItems(c) \/ ReserveStock(c) \/ PlaceOrder(c) \/ UndoReservation(c)
  <2>1. UNCHANGED trail
    BY <1>6 DEF CheckItems, ReserveStock, PlaceOrder, UndoReservation
  <2>2. CreateTrail(c)'
    BY <1>0, <1>6, <2>1 DEF CheckItems, ReserveStock, PlaceOrder, UndoReservation, Goto,
           CreateTrail, Audited
  <2> QED BY <2>1, <2>2, Quiet
<1> QED BY <1>2, <1>3, <1>4, <1>5, <1>6 DEF CreateStep

LEMMA ConfirmStepTrail ==
  ASSUME TypeOK, AnnouncedOnly, TrailInv, NEW k \in ConfirmCalls, ConfirmStep(k)
  PROVE  TrailGrows /\ ConfirmTrail(k)'
<1>0. k \in Calls /\ DOMAIN pc = Calls /\ ConfirmTrail(k) /\ UNCHANGED request
  BY ConfirmStepMoves DEF Calls, TypeOK, CallsOK, TrailInv
<1>a. CASE AuditRefusal(k)
  <2>1. pc'[k] \in {"rejected", "raised"}
    BY <1>0, <1>a DEF AuditRefusal, Audit, Goto
  <2>2. UNCHANGED trail => TrailGrows BY Quiet
  <2>3. ASSUME NEW t \in CreateCalls, Audit(k, t, "PAYMENT_REJECTED", "rejected", "raised")
        PROVE  TrailGrows
    BY <2>3, AuditInOrder, PipelineSteps DEF Events
  <2>4. TrailGrows BY <1>a, <2>2, <2>3 DEF AuditRefusal
  <2> QED BY <2>1, <2>4 DEF ConfirmTrail
<1> SUFFICES ASSUME ~ AuditRefusal(k) PROVE TrailGrows /\ ConfirmTrail(k)'
  BY <1>a
<1> DEFINE o == request[k].order
<1>r. k \in DOMAIN request /\ o \in CreateCalls
  BY DEF ConfirmStep, VerifyPayment, CapturePayment, AuditVerified, CommitStock,
         AuditCommitted, MarkConfirmed, AuditConfirmed, ReleaseStock, MarkFailed,
         AuditReleased, AuditRejected, TypeOK, CallsOK, ConfirmStates
<1>1. ASSUME NEW event \in Events, NEW s, NEW e, Audit(k, o, event, s, e),
             \A step \in Pipeline : event = step[2] => Audited(o, step[1])
      PROVE  /\ TrailGrows
             /\ (pc'[k] = s /\ Audited(o, event)') \/ pc'[k] = e
  BY <1>0, <1>r, <1>1, AuditInOrder DEF Goto
<1>2. CASE AuditVerified(k)
  <2>1. Audited(o, "ORDER_CREATED") BY <1>r DEF AnnouncedOnly, Announced
  <2>2. TrailGrows /\ ((pc'[k] = "committing" /\ Audited(o, "PAYMENT_VERIFIED")') \/ pc'[k] = "raised")
    BY <1>1, <1>2, <2>1, PipelineSteps DEF AuditVerified, Events
  <2> QED BY <1>0, <2>2 DEF ConfirmTrail, Audited
<1>3. CASE AuditCommitted(k)
  <2>1. Audited(o, "PAYMENT_VERIFIED") BY <1>0, <1>3 DEF AuditCommitted, ConfirmTrail
  <2>2. TrailGrows /\ ((pc'[k] = "marking" /\ Audited(o, "INVENTORY_COMMITTED")') \/ pc'[k] = "raised")
    BY <1>1, <1>3, <2>1, PipelineSteps DEF AuditCommitted, Events
  <2>3. Audited(o, "PAYMENT_VERIFIED")' BY <1>0, <1>r, <2>1, <2>2 DEF TrailGrows, Events
  <2> QED BY <1>0, <2>2, <2>3 DEF ConfirmTrail, Audited
<1>4. CASE AuditConfirmed(k)
  <2>1. Audited(o, "INVENTORY_COMMITTED") BY <1>0, <1>4 DEF AuditConfirmed, ConfirmTrail
  <2>2. TrailGrows /\ pc'[k] \in {"returned", "raised"}
    BY <1>1, <1>4, <2>1, PipelineSteps DEF AuditConfirmed, Events
  <2> QED BY <2>2 DEF ConfirmTrail
<1>5. CASE AuditReleased(k) \/ AuditRejected(k)
  <2>1. TrailGrows /\ pc'[k] \in {"failing", "rejected", "raised"}
    BY <1>1, <1>5, PipelineSteps DEF AuditReleased, AuditRejected, Events
  <2> QED BY <2>1 DEF ConfirmTrail
<1>6. CASE VerifyPayment(k) \/ CapturePayment(k) \/ CommitStock(k) \/ MarkConfirmed(k)
           \/ ReleaseStock(k) \/ MarkFailed(k)
  <2>1. UNCHANGED trail
    BY <1>6 DEF VerifyPayment, CapturePayment, CommitStock, MarkConfirmed, ReleaseStock, MarkFailed
  <2>2. \/ pc'[k] \in {"capturing", "verified", "releasing", "raised", "released", "failed"}
        \/ pc[k] = "committing" /\ pc'[k] = "committed"
        \/ pc[k] = "marking" /\ pc'[k] = "confirmed"
    BY <1>0, <1>6 DEF VerifyPayment, CapturePayment, CommitStock, MarkConfirmed, ReleaseStock,
           MarkFailed, Goto, Verdict
  <2>3. ConfirmTrail(k)'
    BY <1>0, <2>1, <2>2 DEF ConfirmTrail, Audited
  <2> QED BY <2>1, <2>3, Quiet
<1> QED BY <1>2, <1>3, <1>4, <1>5, <1>6 DEF ConfirmStep

\* No step takes an event back or puts one out of order.
LEMMA TrailStep ==
  TypeOK /\ AnnouncedOnly /\ TrailInv /\ [Next]_merchantVars => TrailGrows
<1> SUFFICES ASSUME TypeOK, AnnouncedOnly, TrailInv, [Next]_merchantVars PROVE TrailGrows
  OBVIOUS
<1>1. ASSUME NEW o \in CreateCalls, NEW y \in PaymentIds, NEW notice \in Notices,
             Webhook(o, y, notice)
      PROVE  TrailGrows
  <2>1. notice \in Events /\ Audited(o, "ORDER_CREATED")
        /\ trail' = [trail EXCEPT ![o] = Append(@, notice)]
    BY <1>1 DEF Webhook, Notices, Events, AnnouncedOnly, Announced
  <2>2. \A step \in Pipeline : notice = step[2] => Audited(o, step[1])
    BY <2>1, PipelineSteps DEF Notices
  <2> QED BY <2>1, <2>2, Appended DEF TrailGrows, TrailInv, TypeOK
<1>2. CASE UNCHANGED trail BY <1>2, Quiet
<1>3. CASE ~ UNCHANGED trail
  BY <1>1, <1>3, CreateStepTrail, ConfirmStepTrail
     DEF Next, Validate, ValidateAs, LookUpOrder, RefuseOrder, Pay, Restart, merchantVars
<1> QED BY <1>2, <1>3

LEMMA TrailInvStep ==
  TypeOK /\ AnnouncedOnly /\ TrailInv /\ [Next]_merchantVars => TrailInv'
<1> SUFFICES ASSUME TypeOK, AnnouncedOnly, TrailInv, [Next]_merchantVars PROVE TrailInv'
  OBVIOUS
<1>2. TrailGrows BY TrailStep
<1>3. ASSUME NEW c \in CreateCalls PROVE CreateTrail(c)'
  <2>1. CASE CreateStep(c) BY <2>1, CreateStepTrail
  <2>2. CASE pc'[c] = pc[c]
    BY <1>2, <2>2 DEF TrailInv, CreateTrail, TrailGrows, Events
  <2>3. CASE pc'[c] \notin (CreateStates \ {"validated", "failing"}) \cup {"returned"}
    BY <2>3 DEF CreateTrail, CreateStates
  <2> QED BY <2>1, <2>2, <2>3, CreateWalk
<1>4. ASSUME NEW k \in ConfirmCalls PROVE ConfirmTrail(k)'
  <2>1. CASE ConfirmStep(k) BY <2>1, ConfirmStepTrail
  <2>2. CASE /\ pc'[k] = pc[k] /\ request'[k] = request[k]
             /\ request[k].order \in CreateCalls
    BY <1>2, <2>2 DEF TrailInv, ConfirmTrail, TrailGrows, Events
  <2>3. CASE pc'[k] \notin ConfirmStates \ {"verifying", "refusing"}
    BY <2>3 DEF ConfirmTrail, ConfirmStates
  <2> QED BY <2>1, <2>2, <2>3, ConfirmWalk
<1> QED BY <1>2, <1>3, <1>4 DEF TrailInv, TrailGrows

LEMMA TrailInit == Init => TrailInv
<1> SUFFICES ASSUME Init PROVE TrailInv
  OBVIOUS
<1>1. \A c \in Calls : pc[c] = "idle" BY DEF Init
<1>2. \A c \in CreateCalls : DOMAIN trail[c] = {} BY DEF Init
<1> QED BY <1>1, <1>2 DEF TrailInv, TrailFollowsPipeline, CreateTrail, ConfirmTrail, Calls

\* In every trail each step of the pipeline comes after the one it depends on,
\* with any number of confirm calls and webhooks of one order, with every
\* subset of the ledger's writes refused, and across restarts.
THEOREM TrailIsInOrder == Spec => []TrailFollowsPipeline
<1>1. TypeOK /\ AnnouncedOnly /\ TrailInv /\ [Next]_merchantVars => TrailInv' BY TrailInvStep
<1>2. TrailInv => TrailFollowsPipeline BY DEF TrailInv
<1> QED BY <1>1, <1>2, TrailInit, AnnouncedOrders, MerchantTypes, PTL DEF Spec
-----------------------------------------------------------------------------
(* What a confirmation that returned stands for *)

\* Order o is paid in full and its stock is on record as sold.
Settled(o) == o \in CreateCalls /\ Audited(o, "INVENTORY_COMMITTED") /\ Paid(o)

\* Whoever is told that an order is confirmed is told of a settled order.
SettledInv ==
  /\ \A o \in DOMAIN orders : orders[o] = "confirmed" => Settled(o)
  /\ \A k \in ConfirmCalls : pc[k] = "returned" =>
       k \in DOMAIN request /\ Settled(request[k].order)

MerchantInv == TypeOK /\ AnnouncedOnly /\ PaidInv /\ TrailInv

\* Settled orders stay settled.
LEMMA SettledStays ==
  ASSUME MerchantInv, [Next]_merchantVars, NEW o \in CreateCalls, Settled(o)
  PROVE  Settled(o)'
<1>1. Paid(o)' BY PaidStays DEF Settled, MerchantInv
<1>2. Audited(o, "INVENTORY_COMMITTED")'
  BY TrailStep DEF Settled, MerchantInv, TrailGrows, Events
<1> QED BY <1>1, <1>2 DEF Settled

\* A call that is about to confirm, or has just confirmed, has settled its order.
LEMMA ConfirmerSettled ==
  ASSUME MerchantInv, NEW k \in ConfirmCalls, pc[k] \in {"marking", "confirmed"}
  PROVE  k \in DOMAIN request /\ Settled(request[k].order)
<1>1. k \in DOMAIN request /\ request[k].order \in CreateCalls
  BY DEF MerchantInv, TypeOK, CallsOK, ConfirmStates
<1>2. Audited(request[k].order, "INVENTORY_COMMITTED")
  BY DEF MerchantInv, TrailInv, ConfirmTrail
<1>3. Paid(request[k].order)
  BY DEF MerchantInv, PaidInv, PastVerification
<1> QED BY <1>1, <1>2, <1>3 DEF Settled

\* An order becomes confirmed by a confirm call only.
LEMMA OrdersConfirmed ==
  ASSUME MerchantInv, [Next]_merchantVars, NEW o \in DOMAIN orders', orders'[o] = "confirmed"
  PROVE  \/ o \in DOMAIN orders /\ orders[o] = "confirmed"
         \/ \E k \in ConfirmCalls : pc[k] = "marking" /\ request[k].order = o
<1>1. CASE \E k \in ConfirmCalls : MarkConfirmed(k) \/ MarkFailed(k)
  <2>1. PICK k \in ConfirmCalls : MarkConfirmed(k) \/ MarkFailed(k) BY <1>1
  <2> DEFINE t == request[k].order
  <2>2. \/ pc[k] = "marking" /\ orders' = [orders EXCEPT ![t] = "confirmed"]
        \/ orders' = [orders EXCEPT ![t] = "failed"]
    BY <2>1 DEF MarkConfirmed, MarkFailed
  <2> HIDE DEF t
  <2>3. o \in DOMAIN orders /\ (o # t => orders'[o] = orders[o])
    BY <2>2
  <2>4. o = t => pc[k] = "marking" BY <2>2, <2>3
  <2> QED BY <2>3, <2>4 DEF t
<1>2. CASE \E c \in CreateCalls : PlaceOrder(c)
  BY <1>2 DEF PlaceOrder
<1>3. CASE Restart
  BY <1>3 DEF Restart
<1>4. CASE UNCHANGED orders
  BY <1>4
<1>5. \A k \in ConfirmCalls : ConfirmStep(k) =>
        MarkConfirmed(k) \/ MarkFailed(k) \/ UNCHANGED orders
  BY DEF ConfirmStep, AuditRefusal, VerifyPayment, CapturePayment, AuditVerified, CommitStock,
         AuditCommitted, AuditConfirmed, ReleaseStock, AuditReleased, AuditRejected,
         OtherThanInventory
<1>6. \A c \in CreateCalls : CreateStep(c) => PlaceOrder(c) \/ UNCHANGED orders
  BY DEF CreateStep, AuditValidated, CheckItems, ReserveStock, AuditReserved,
         AuditOrdered, UndoReservation, AuditUndone, AuditFailure, OtherThanInventory
<1> QED BY <1>1, <1>2, <1>3, <1>4, <1>5, <1>6
        DEF Next, Validate, ValidateAs, LookUpOrder, RefuseOrder, Pay, Webhook,
            OtherThanInventory, merchantVars

\* A confirm call returns after it confirmed, or because the order is confirmed.
LEMMA ConfirmReturns ==
  ASSUME MerchantInv, [Next]_merchantVars, NEW k \in ConfirmCalls, pc'[k] = "returned"
  PROVE  \/ pc[k] = "returned" /\ (k \in DOMAIN request => request'[k] = request[k]
                                                      /\ k \in DOMAIN request')
         \/ pc[k] = "confirmed" /\ UNCHANGED request
         \/ \E o \in DOMAIN orders : /\ orders[o] = "confirmed"
                                    /\ k \in DOMAIN request' /\ request'[k].order = o
<1>0. k \in Calls /\ k \notin CreateCalls /\ DOMAIN pc = Calls
  BY CallsAssumption DEF Calls, MerchantInv, TypeOK, CallsOK
<1>1. ASSUME NEW c \in CreateCalls, Validate(c)
      PROVE  pc'[k] = pc[k] /\ (k \in DOMAIN request => request'[k] = request[k] /\ k \in DOMAIN request')
  BY <1>0, <1>1 DEF Validate, ValidateAs, Begin, Goto
<1>2. ASSUME NEW c \in CreateCalls, CreateStep(c) PROVE pc'[k] = pc[k] /\ request' = request
  BY <1>0, <1>2, CreateStepMoves DEF MerchantInv
<1>3. ASSUME NEW d \in ConfirmCalls, LookUpOrder(d) \/ RefuseOrder(d), d # k
      PROVE  pc'[k] = pc[k] /\ (k \in DOMAIN request => request'[k] = request[k] /\ k \in DOMAIN request')
  BY <1>0, <1>3 DEF LookUpOrder, RefuseOrder, Begin, Goto, OtherThanInventory
<1>4. ASSUME LookUpOrder(k)
      PROVE  \E o \in DOMAIN orders : /\ orders[o] = "confirmed"
                                    /\ k \in DOMAIN request' /\ request'[k].order = o
  BY <1>0, <1>4 DEF LookUpOrder, Begin, Goto, FirstStep
<1>5. ~ RefuseOrder(k)
  BY <1>0 DEF RefuseOrder, Goto
<1>6. ASSUME NEW d \in ConfirmCalls, ConfirmStep(d), d # k PROVE pc'[k] = pc[k] /\ request' = request
  BY <1>0, <1>6, ConfirmStepMoves DEF MerchantInv
<1>7. ASSUME ConfirmStep(k) PROVE pc[k] = "confirmed" /\ UNCHANGED request
  <2>1. UNCHANGED request BY <1>7, ConfirmStepMoves DEF MerchantInv
  <2>2. pc[k] = "confirmed"
    BY <1>0, <1>7 DEF ConfirmStep, AuditRefusal, VerifyPayment, CapturePayment, AuditVerified,
         CommitStock, AuditCommitted, MarkConfirmed, AuditConfirmed, ReleaseStock, MarkFailed,
         AuditReleased, AuditRejected, Audit, Goto, Verdict
  <2> QED BY <2>1, <2>2
<1>8. CASE Restart
  BY <1>0, <1>8 DEF Restart, Running, Ended
<1>9. CASE \/ \E c \in CreateCalls, y \in PaymentIds, amount \in Amounts,
                status \in PaymentStatus : Pay(c, y, amount, status)
           \/ \E c \in CreateCalls, y \in PaymentIds, n \in Notices : Webhook(c, y, n)
           \/ UNCHANGED merchantVars
  BY <1>9 DEF Pay, Webhook, OtherThanInventory, merchantVars
<1> QED BY <1>1, <1>2, <1>3, <1>4, <1>5, <1>6, <1>7, <1>8, <1>9 DEF Next

LEMMA SettledStep ==
  MerchantInv /\ SettledInv /\ [Next]_merchantVars => SettledInv'
<1> SUFFICES ASSUME MerchantInv, SettledInv, [Next]_merchantVars PROVE SettledInv'
  OBVIOUS
<1>1. ASSUME NEW o \in DOMAIN orders', orders'[o] = "confirmed" PROVE Settled(o)'
  <2>1. Settled(o) BY <1>1, OrdersConfirmed, ConfirmerSettled DEF SettledInv
  <2> QED BY <2>1, SettledStays DEF Settled
<1>2. ASSUME NEW k \in ConfirmCalls, pc'[k] = "returned"
      PROVE  k \in DOMAIN request' /\ Settled(request[k].order)'
  <2>1. k \in DOMAIN request' /\ Settled(request'[k].order)
    BY <1>2, ConfirmReturns, ConfirmerSettled DEF SettledInv
  <2>2. PICK o \in CreateCalls : o = request'[k].order /\ Settled(o)
    BY <2>1 DEF Settled
  <2>3. Settled(o)' BY <2>2, SettledStays
  <2> QED BY <2>1, <2>2, <2>3 DEF Settled, Audited, Paid, Amount
<1> QED BY <1>1, <1>2 DEF SettledInv

LEMMA SettledHolds == Spec => [](MerchantInv /\ SettledInv)
<1>1. Init => SettledInv
  BY DEF Init, SettledInv, Calls
<1>2. MerchantInv /\ SettledInv /\ [Next]_merchantVars => SettledInv' BY SettledStep
<1>3. TypeOK /\ AnnouncedOnly /\ TrailInv /\ [Next]_merchantVars => TrailInv' BY TrailInvStep
<1>4. TypeOK /\ AnnouncedOnly /\ PaidInv /\ [Next]_merchantVars => PaidInv' BY PaidInvStep
<1> QED BY <1>1, <1>2, <1>3, <1>4, PaidInit, TrailInit, AnnouncedOrders, MerchantTypes, PTL
        DEF Spec, MerchantInv

-----------------------------------------------------------------------------
(* Confirmations on the event loop *)

\* The steps of a confirm call from which the order may come to count as failed.
Unverified == {"verifying", "capturing", "releasing", "released"}

\* One confirm call runs at a time, and none works against a confirmed order.
LoopInv ==
  /\ \A k, d \in ConfirmCalls : Running(k) /\ Running(d) => k = d
  /\ \A k \in ConfirmCalls :
       pc[k] \in Unverified /\ request[k].order \in DOMAIN orders =>
         orders[request[k].order] # "confirmed"

\* How a confirm call comes to run: it has begun, alone, or it ran before.
LEMMA RunningMoves ==
  ASSUME TypeOK, [Next]_merchantVars, ConfirmCalls \subseteq OnEventLoop
  PROVE  \/ \E k \in ConfirmCalls :
              /\ LookUpOrder(k) \/ RefuseOrder(k)
              /\ \A d \in ConfirmCalls : ~ Running(d) /\ (d # k => ~ Running(d)')
         \/ \A d \in ConfirmCalls :
              /\ Running(d)' => Running(d)
              /\ pc'[d] \in Unverified =>
                   pc[d] \in Unverified /\ d \in DOMAIN request /\ request'[d] = request[d]
<1>0. /\ DOMAIN pc = Calls
      /\ \A d \in ConfirmCalls : d \in Calls /\ d \notin CreateCalls
      /\ \A d \in ConfirmCalls : pc[d] \in Unverified => d \in DOMAIN request
  BY CallsAssumption DEF Calls, TypeOK, CallsOK, Unverified, ConfirmStates
<1>1. ASSUME NEW k \in ConfirmCalls, LookUpOrder(k) \/ RefuseOrder(k)
      PROVE  \A d \in ConfirmCalls : ~ Running(d) /\ (d # k => ~ Running(d)')
  <2>1. \A d \in ConfirmCalls : ~ Running(d)
    BY <1>1 DEF LookUpOrder, RefuseOrder, MayBegin
  <2>2. \A d \in ConfirmCalls : d # k => pc'[d] = pc[d]
    BY <1>0, <1>1 DEF LookUpOrder, RefuseOrder, Begin, Goto
  <2> QED BY <2>1, <2>2 DEF Running
<1>2. ASSUME NEW c \in CreateCalls, Validate(c) \/ CreateStep(c), NEW d \in ConfirmCalls
      PROVE  pc'[d] = pc[d] /\ (d \in DOMAIN request => request'[d] = request[d])
  <2>1. CASE Validate(c)
    BY <1>0, <2>1 DEF Validate, ValidateAs, Begin, Goto
  <2>2. CASE CreateStep(c)
    BY <1>0, <2>2, CreateStepMoves
  <2> QED BY <1>2, <2>1, <2>2
<1>3. ASSUME NEW k \in ConfirmCalls, ConfirmStep(k), NEW d \in ConfirmCalls
      PROVE  /\ pc'[d] \in Unverified => pc[d] \in Unverified
             /\ Running(d)' => Running(d)
             /\ UNCHANGED request
  <2>1. pc[k] \in ConfirmStates /\ UNCHANGED request
        /\ \A e \in ConfirmCalls : e # k => pc'[e] = pc[e]
    BY <1>0, <1>3, ConfirmStepMoves
  <2>2. pc'[k] \in Unverified => pc[k] \in Unverified
    BY <1>0, <1>3 DEF ConfirmStep, AuditRefusal, VerifyPayment, CapturePayment, AuditVerified,
         CommitStock, AuditCommitted, MarkConfirmed, AuditConfirmed, ReleaseStock, MarkFailed,
         AuditReleased, AuditRejected, Audit, Goto, Unverified
  <2>3. Running(k) BY <2>1 DEF Running, ConfirmStates, Ended
  <2> QED BY <2>1, <2>2, <2>3 DEF Running
<1>4. ASSUME Restart, NEW d \in ConfirmCalls
      PROVE  ~ Running(d)' /\ pc'[d] \notin Unverified
  <2>1. pc'[d] = IF Running(d) THEN "lost" ELSE pc[d]
    BY <1>0, <1>4 DEF Restart
  <2> QED BY <2>1 DEF Running, Ended, Unverified
<1>5. ASSUME \/ \E c \in CreateCalls, y \in PaymentIds, amount \in Amounts,
                  status \in PaymentStatus : Pay(c, y, amount, status)
             \/ \E c \in CreateCalls, y \in PaymentIds, n \in Notices : Webhook(c, y, n)
             \/ UNCHANGED merchantVars
      PROVE  UNCHANGED <<pc, request>>
  BY <1>5 DEF Pay, Webhook, OtherThanInventory, merchantVars
<1>6. CASE \E k \in ConfirmCalls : LookUpOrder(k) \/ RefuseOrder(k)
  BY <1>1, <1>6
<1>7. CASE \E c \in CreateCalls : Validate(c) \/ CreateStep(c)
  BY <1>0, <1>2, <1>7 DEF Running
<1>8. CASE \E k \in ConfirmCalls : ConfirmStep(k)
  BY <1>0, <1>3, <1>8
<1>9. CASE Restart
  BY <1>4, <1>9
<1>10. CASE \/ \E c \in CreateCalls, y \in PaymentIds, amount \in Amounts,
                 status \in PaymentStatus : Pay(c, y, amount, status)
            \/ \E c \in CreateCalls, y \in PaymentIds, n \in Notices : Webhook(c, y, n)
            \/ UNCHANGED merchantVars
  BY <1>0, <1>5, <1>10 DEF Running
<1> QED BY <1>6, <1>7, <1>8, <1>9, <1>10 DEF Next

LEMMA LoopStep ==
  ASSUME MerchantInv, LoopInv, [Next]_merchantVars, ConfirmCalls \subseteq OnEventLoop
  PROVE  LoopInv'
<1>0. TypeOK BY DEF MerchantInv
<1>1. \A k, d \in ConfirmCalls : Running(k)' /\ Running(d)' => k = d
  BY <1>0, RunningMoves DEF LoopInv
<1>2. ASSUME NEW k \in ConfirmCalls, pc'[k] \in Unverified, request'[k].order \in DOMAIN orders'
      PROVE  orders'[request'[k].order] # "confirmed"
  <2>0. k \in Calls /\ DOMAIN pc = Calls
    BY <1>0 DEF Calls, TypeOK, CallsOK
  <2>1. CASE \E d \in ConfirmCalls : /\ LookUpOrder(d) \/ RefuseOrder(d)
              /\ \A e \in ConfirmCalls : ~ Running(e) /\ (e # d => ~ Running(e)')
    <3>1. Running(k)' BY <1>2 DEF Running, Unverified, Ended
    <3>2. LookUpOrder(k)
      BY <1>2, <2>0, <2>1, <3>1 DEF RefuseOrder, Goto, Unverified
    <3> QED BY <1>2, <2>0, <3>2 DEF LookUpOrder, Begin, Goto, FirstStep, Unverified
  <2>2. CASE pc[k] \in Unverified /\ request'[k] = request[k]
    <3>1. SUFFICES ASSUME orders'[request[k].order] = "confirmed" PROVE FALSE
      BY <2>2
    <3>2. CASE request[k].order \in DOMAIN orders /\ orders[request[k].order] = "confirmed"
      BY <2>2, <3>2 DEF LoopInv
    <3>3. ASSUME NEW d \in ConfirmCalls, pc[d] = "marking" PROVE FALSE
      <4>1. Running(d) /\ Running(k)
        BY <2>2, <3>3 DEF Running, Unverified, Ended
      <4>2. d = k BY <4>1 DEF LoopInv
      <4> QED BY <2>2, <3>3, <4>2 DEF Unverified
    <3> QED BY <1>2, <2>2, <3>1, <3>2, <3>3, OrdersConfirmed
  <2> QED BY <1>0, <1>2, <2>1, <2>2, RunningMoves
<1> QED BY <1>1, <1>2 DEF LoopInv

LEMMA ConfirmedStays ==
  ASSUME MerchantInv, SettledInv, LoopInv, [Next]_merchantVars, restarts' = restarts,
         NEW o \in DOMAIN orders, orders[o] = "confirmed"
  PROVE  orders'[o] = "confirmed"
<1>1. pc[o] # "ordering"
  BY DEF SettledInv, Settled, Paid, MerchantInv, AnnouncedOnly, AfterOrder, Ended
<1>2. CASE \E c \in CreateCalls : PlaceOrder(c)
  BY <1>1, <1>2 DEF PlaceOrder
<1>3. ASSUME NEW k \in ConfirmCalls, MarkConfirmed(k) \/ MarkFailed(k)
      PROVE  orders'[o] = "confirmed"
  <2> DEFINE t == request[k].order
  <2>1. \/ orders' = [orders EXCEPT ![t] = "confirmed"]
        \/ pc[k] = "released" /\ orders' = [orders EXCEPT ![t] = "failed"]
    BY <1>3 DEF MarkConfirmed, MarkFailed
  <2>2. pc[k] = "released" => t # o
    BY DEF LoopInv, Unverified
  <2> HIDE DEF t
  <2> QED BY <2>1, <2>2
<1>4. CASE UNCHANGED orders
  BY <1>4
<1>5. ~ Restart
  BY DEF Restart, MerchantInv, TypeOK, StoresOK
<1>6. \A k \in ConfirmCalls : ConfirmStep(k) =>
        MarkConfirmed(k) \/ MarkFailed(k) \/ UNCHANGED orders
  BY DEF ConfirmStep, AuditRefusal, VerifyPayment, CapturePayment, AuditVerified, CommitStock,
         AuditCommitted, AuditConfirmed, ReleaseStock, AuditReleased, AuditRejected,
         OtherThanInventory
<1>7. \A c \in CreateCalls : CreateStep(c) => PlaceOrder(c) \/ UNCHANGED orders
  BY DEF CreateStep, AuditValidated, CheckItems, ReserveStock, AuditReserved,
         AuditOrdered, UndoReservation, AuditUndone, AuditFailure, OtherThanInventory
<1> QED BY <1>2, <1>3, <1>4, <1>5, <1>6, <1>7
        DEF Next, Validate, ValidateAs, LookUpOrder, RefuseOrder, Pay, Webhook,
            OtherThanInventory, merchantVars

\* When all confirmations come over the event loop, a confirmed order stays
\* confirmed as long as the process lives.  Threads may break it: two_outcomes.
THEOREM ConfirmedStaysConfirmed ==
  ASSUME ConfirmCalls \subseteq OnEventLoop
  PROVE  Spec => ConfirmedIsFinal
<1>1. Init => LoopInv
  BY DEF Init, LoopInv, Running, Unverified, Calls
<1>2. MerchantInv /\ LoopInv /\ [Next]_merchantVars => LoopInv' BY LoopStep
<1>3. MerchantInv /\ SettledInv /\ LoopInv /\ [Next]_merchantVars =>
        [restarts' = restarts =>
           \A o \in DOMAIN orders : orders[o] = "confirmed" => orders'[o] = "confirmed"]_merchantVars
  BY ConfirmedStays
<1> QED BY <1>1, <1>2, <1>3, SettledHolds, PTL DEF Spec, ConfirmedIsFinal

-----------------------------------------------------------------------------
(* What the records show of the trade: the merchant keeps the books *)

\* What holds of the merchant when its steps are read as entries in the books.
BooksInv == MerchantInv /\ MandateInv

\* A transaction on the books keeps its request.
LEMMA GrantedStay ==
  ASSUME BooksInv, [Next]_merchantVars, NEW c \in CreateCalls, Spent(c)
  PROVE  request'[c] = request[c]
<1>1. pc[c] # "idle" /\ c \in DOMAIN request /\ c \notin ConfirmCalls
  BY CallsAssumption DEF BooksInv, MandateInv, MerchantInv, TypeOK, CallsOK
<1>2. ASSUME NEW d \in CreateCalls, Validate(d) PROVE request'[c] = request[c]
  BY <1>1, <1>2 DEF Validate, ValidateAs, MayBegin, Begin
<1>3. ASSUME NEW k \in ConfirmCalls, LookUpOrder(k) \/ RefuseOrder(k)
      PROVE  request'[c] = request[c]
  BY <1>1, <1>3 DEF LookUpOrder, RefuseOrder, Begin, OtherThanInventory
<1>4. \A d \in CreateCalls : CreateStep(d) => UNCHANGED request
  BY CreateStepMoves DEF BooksInv, MerchantInv
<1>5. \A k \in ConfirmCalls : ConfirmStep(k) => UNCHANGED request
  BY ConfirmStepMoves DEF BooksInv, MerchantInv
<1> QED BY <1>2, <1>3, <1>4, <1>5 DEF Next, Pay, Webhook, Restart, OtherThanInventory, merchantVars

\* The payments at most one order gains make it paid.
LEMMA PaidMoves ==
  ASSUME MerchantInv, [Next]_merchantVars
  PROVE  \/ \A o \in CreateCalls : Paid(o)' <=> Paid(o)
         \/ \E x \in CreateCalls :
              /\ Announced(x)
              /\ \A o \in CreateCalls : Paid(o)' <=> Paid(o) \/ o = x
<1>0. /\ TypeOK /\ AnnouncedOnly
      /\ payments \in [DOMAIN payments ->
                      [order : CreateCalls, amount : Amounts, status : PaymentStatus]]
  BY DEF MerchantInv, TypeOK, StoresOK
<1>1. \A o \in CreateCalls : Paid(o) => Paid(o)'
  BY <1>0, PaidStays
<1>2. /\ \A y \in DOMAIN payments :
           payments[y].order \in CreateCalls /\ Announced(payments[y].order)
      /\ \A o \in CreateCalls : Announced(o) => Amount(o)' = Amount(o)
  BY <1>0, AnnouncedStays DEF AnnouncedOnly, Amount
<1>3. ASSUME NEW x \in CreateCalls, Announced(x),
             \A y \in DOMAIN payments' :
               \/ payments'[y].order = x
               \/ y \in DOMAIN payments /\ payments'[y] = payments[y]
      PROVE  \A o \in CreateCalls : Paid(o)' => Paid(o) \/ o = x
  <2> SUFFICES ASSUME NEW o \in CreateCalls, Paid(o)', o # x PROVE Paid(o)
    OBVIOUS
  <2>1. PICK y \in DOMAIN payments' : /\ payments'[y].order = o
                                      /\ payments'[y].status = "captured"
                                      /\ payments'[y].amount = Amount(o)'
    BY DEF Paid
  <2> QED BY <1>2, <1>3, <2>1 DEF Paid
<1>4. ASSUME NEW x \in CreateCalls, Announced(x),
             \A o \in CreateCalls : Paid(o)' => Paid(o) \/ o = x
      PROVE  \/ \A o \in CreateCalls : Paid(o)' <=> Paid(o)
             \/ \A o \in CreateCalls : Paid(o)' <=> Paid(o) \/ o = x
  BY <1>1, <1>4
<1>5. CASE UNCHANGED payments
  <2>1. \A o \in CreateCalls : Paid(o)' => Paid(o)
    BY <1>2, <1>5 DEF Paid
  <2> QED BY <1>1, <2>1
<1>6. CASE \E z \in DOMAIN payments :
             payments' = [payments EXCEPT ![z] = [@ EXCEPT !.status = "captured"]]
  <2>1. PICK z \in DOMAIN payments :
           payments' = [payments EXCEPT ![z] = [@ EXCEPT !.status = "captured"]]
    BY <1>6
  <2>2. \A y \in DOMAIN payments' :
               \/ payments'[y].order = payments[z].order
               \/ y \in DOMAIN payments /\ payments'[y] = payments[y]
    BY <1>0, <2>1
  <2> QED BY <1>2, <1>3, <1>4, <2>2
<1>7. CASE \E o \in CreateCalls, y \in PaymentIds, amount \in Amounts,
              status \in PaymentStatus : Pay(o, y, amount, status)
  <2>1. PICK o \in CreateCalls, y \in PaymentIds, amount \in Amounts, status \in PaymentStatus :
          Pay(o, y, amount, status)
    BY <1>7
  <2>2. \A z \in DOMAIN payments' :
               \/ payments'[z].order = o
               \/ z \in DOMAIN payments /\ payments'[z] = payments[z]
    BY <2>1 DEF Pay
  <2>3. Announced(o) BY <2>1 DEF Pay
  <2> QED BY <1>3, <1>4, <2>2, <2>3
<1>8. CASE \E z : z \notin DOMAIN payments
             /\ payments' = [payments EXCEPT ![z] = [@ EXCEPT !.status = "captured"]]
  BY <1>0, <1>5, <1>8
<1> QED BY <1>0, <1>5, <1>6, <1>7, <1>8, PaymentsMove

\* Whoever may be paid for has a mandate on the books.
LEMMA AnnouncedIsGranted ==
  ASSUME MerchantInv, NEW x \in CreateCalls, Announced(x)
  PROVE  Audited(x, "MANDATE_VALIDATED")
<1>1. \A i \in DOMAIN trail[x] : i \in Nat /\ \A j \in 1 .. i - 1 : j \in DOMAIN trail[x]
  <2>1. trail[x] \in Seq(Events) BY DEF MerchantInv, TypeOK, StoresOK
  <2> QED BY <2>1
<1>2. ASSUME NEW step \in Pipeline, Audited(x, step[2]) PROVE Audited(x, step[1])
  BY <1>1, <1>2 DEF MerchantInv, TrailInv, TrailFollowsPipeline, Audited
<1>3. /\ <<"MANDATE_VALIDATED", "INVENTORY_RESERVED">> \in Pipeline
      /\ <<"INVENTORY_RESERVED", "ORDER_CREATED">> \in Pipeline
  BY DEF Pipeline
<1>4. Audited(x, "INVENTORY_RESERVED") BY <1>2, <1>3 DEF Announced
<1> QED BY <1>2, <1>3, <1>4

\* Each step of the merchant puts at most one thing on the books, and only
\* what the books admit.
LEMMA BooksStep ==
  BooksInv /\ [Next]_merchantVars => [Kept!Next]_(Kept!booksVars)
<1> SUFFICES ASSUME BooksInv, [Next]_merchantVars PROVE [Kept!Next]_(Kept!booksVars)
  OBVIOUS
<1> DEFINE G == {d \in CreateCalls : Audited(d, "MANDATE_VALIDATED")}
           granted == [c \in G |-> request[c].mandate]
           paid == {o \in CreateCalls : Paid(o)}
           sold == {o \in CreateCalls : Audited(o, "INVENTORY_COMMITTED")}
<1>0. TypeOK /\ StoresOK /\ MerchantInv /\ MandateInv
  BY DEF BooksInv, MerchantInv, TypeOK
<1>1. "MANDATE_VALIDATED" \in Events /\ "INVENTORY_COMMITTED" \in Events
  BY DEF Events
<1>2. \A c \in G : request'[c] = request[c]
  BY GrantedStay DEF Spent
<1>3. G' = G => granted' = granted
  BY <1>2
<1>4. CASE UNCHANGED trail
  <2>1. G' = G /\ sold' = sold
    BY <1>4 DEF Audited
  <2>2. CASE \A o \in CreateCalls : Paid(o)' <=> Paid(o)
    <3>1. paid' = paid BY <2>2
    <3> QED BY <1>3, <2>1, <3>1 DEF Kept!booksVars
  <2>3. ASSUME NEW x \in CreateCalls, Announced(x),
               \A o \in CreateCalls : Paid(o)' <=> Paid(o) \/ o = x
        PROVE  Kept!Pay(x)
    <3>1. x \in G BY <1>0, <2>3, AnnouncedIsGranted
    <3>2. paid' = paid \cup {x} BY <2>3
    <3> QED BY <1>3, <2>1, <3>1, <3>2 DEF Kept!Pay
  <2> QED BY <1>0, <2>2, <2>3, PaidMoves DEF Kept!Next
<1>5. CASE ~ UNCHANGED trail
  <2>1. PICK t \in CreateCalls, event \in Events :
          /\ UNCHANGED <<request, payments>>
          /\ trail' = [trail EXCEPT ![t] = Append(@, event)]
          /\ event = "MANDATE_VALIDATED" => pc[t] = "validated"
          /\ event = "INVENTORY_COMMITTED" => Paid(t)
    <3>1. \A k \in ConfirmCalls : pc[k] = "committed" => Paid(request[k].order)
      BY <1>0 DEF MerchantInv, PaidInv, PastVerification
    <3> QED BY <1>0, <1>5, <3>1, TrailMoves
  <2>2. \A d \in CreateCalls, e \in Events :
          Audited(d, e)' <=> Audited(d, e) \/ (d = t /\ e = event)
    BY <1>0, <2>1, AppendedOnly
  <2>3. paid' = paid
    BY <2>1 DEF Paid, Amount
  <2>4. CASE event = "MANDATE_VALIDATED"
    <3>1. sold' = sold /\ G' = G \cup {t}
      BY <1>1, <2>2, <2>4
    <3>2. CASE t \in G
      <4>1. G' = G BY <3>1, <3>2
      <4> QED BY <1>3, <2>3, <3>1, <4>1 DEF Kept!booksVars
    <3>3. CASE t \notin G
      <4>1. Spent(t) /\ \A s \in G : Spent(s)
        BY <2>1, <2>4 DEF Spent
      <4>2. PICK m \in Mandates : m = request[t].mandate
        BY <1>0, <4>1 DEF MandateInv, TypeOK, CallsOK
      <4>3. \A s \in G : granted[s] # m
        BY <1>0, <3>3, <4>1, <4>2 DEF MandateInv
      <4>4. granted' = [s \in G \cup {t} |-> IF s = t THEN m ELSE granted[s]]
        <5>1. granted' = [s \in G \cup {t} |-> request[s].mandate]
          BY <2>1, <3>1
        <5> QED BY <4>2, <5>1
      <4>5. Kept!Grant(t, m)
        BY <2>3, <3>1, <3>3, <4>3, <4>4 DEF Kept!Grant
      <4> QED BY <4>5 DEF Kept!Next
    <3> QED BY <3>2, <3>3
  <2>5. CASE event = "INVENTORY_COMMITTED"
    <3>1. G' = G /\ sold' = sold \cup {t}
      BY <1>1, <2>2, <2>5
    <3>2. t \in paid BY <2>1, <2>5
    <3>3. Kept!Sell(t)
      BY <1>3, <2>3, <3>1, <3>2 DEF Kept!Sell
    <3> QED BY <3>3 DEF Kept!Next
  <2>6. CASE event \notin {"MANDATE_VALIDATED", "INVENTORY_COMMITTED"}
    <3>1. G' = G /\ sold' = sold
      BY <1>1, <2>2, <2>6
    <3> QED BY <1>3, <2>3, <3>1 DEF Kept!booksVars
  <2> QED BY <2>4, <2>5, <2>6
<1> QED BY <1>4, <1>5

\* Nothing is on the books to begin with.
LEMMA BooksInit == Init => Kept!Init
<1> SUFFICES ASSUME Init PROVE Kept!Init
  OBVIOUS
<1>1. \A c \in CreateCalls : DOMAIN trail[c] = {} BY DEF Init
<1>2. DOMAIN payments = {} BY DEF Init
<1>3. /\ {d \in CreateCalls : Audited(d, "MANDATE_VALIDATED")} = {}
      /\ {d \in CreateCalls : Audited(d, "INVENTORY_COMMITTED")} = {}
      /\ {o \in CreateCalls : Paid(o)} = {}
  BY <1>1, <1>2 DEF Audited, Paid
<1> DEFINE G == {d \in CreateCalls : Audited(d, "MANDATE_VALIDATED")}
<1>4. [c \in G |-> request[c].mandate] = <<>>
  BY <1>3
<1> QED BY <1>3, <1>4 DEF Kept!Init

\* With a durable nonce store what the trails and the gateway have on record is
\* at all times what the books admit: one mandate, one transaction; a payment
\* for a granted transaction; a sale of a paid one; and no restart, refused
\* ledger write or lost answer takes any of it back
\* (merchant_core.py 226, 389-425, ap2.py 60-122).
THEOREM MerchantKeepsBooks ==
  ASSUME NoncesDurable
  PROVE  Spec => KeepsBooks
<1>1. TypeOK /\ MandateInv /\ [Next]_merchantVars => MandateInv' BY MandateInvStep
<1>2. Spec => []MandateInv
  BY <1>1, MandateInvInit, MerchantTypes, PTL DEF Spec
<1>3. BooksInv /\ [Next]_merchantVars => [Kept!Next]_(Kept!booksVars) BY BooksStep
<1> QED BY <1>2, <1>3, BooksInit, SettledHolds, PTL DEF Spec, BooksInv, KeepsBooks, Kept!Spec
=============================================================================
