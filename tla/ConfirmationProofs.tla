------------------------- MODULE ConfirmationProofs -------------------------
(***************************************************************************)
(* Proofs about confirm_payment and the orders it settles: what is sold is *)
(* paid, what counts as confirmed is sold, and no hold is left without an  *)
(* owner, for any number of calls on any mixture of threads and event      *)
(* loop, whatever the ledger and the gateway lose.                         *)
(***************************************************************************)
EXTENDS MerchantProofs

-----------------------------------------------------------------------------
(* What the program counters say about orders, payments and stock *)

\* Where a create call stands once its order is announced.
AfterOrder == {"undoing", "undone", "failing"} \cup Ended

\* An order is announced by the last event of a create call that goes well, and
\* only announced orders are paid for or asked to be confirmed.
AnnouncedOnly ==
  /\ \A c \in CreateCalls : Announced(c) => pc[c] \in AfterOrder
  /\ \A k \in ConfirmCalls \cap DOMAIN request : Announced(request[k].order)
  /\ \A y \in DOMAIN payments : Announced(payments[y].order)

PastVerification == {"verified", "committing", "committed", "marking", "confirmed"}

\* A call that is past the verification confirms a paid order, and stock left
\* the shelf for paid orders only.
PaidInv ==
  /\ \A k \in ConfirmCalls :
       pc[k] = "capturing" => Matches(request[k].payment, request[k].order)
  /\ \A k \in ConfirmCalls : pc[k] \in PastVerification => Paid(request[k].order)
  /\ \A o \in committed : Paid(o)

\* Where a create call may stand that holds stock.
MayHold(c) ==
  \/ pc[c] \in {"reserved", "ordering", "undoing"}
  \/ pc[c] \in {"ordered", "returned"} /\ c \in DOMAIN orders /\ orders[c] = "created"

\* A call about to set a status has settled the reservation before, and an
\* order's stock is held while it can still be confirmed.
HoldInv ==
  /\ \A k \in ConfirmCalls : pc[k] \in {"committed", "marking"} => request[k].order \in committed
  /\ \A k \in ConfirmCalls : pc[k] = "released" => request[k].order \notin Open
  /\ \A o \in DOMAIN orders : orders[o] = "confirmed" => o \in committed
  /\ \A c \in CreateCalls : pc[c] = "ordered" => c \in DOMAIN orders /\ orders[c] = "created"
  /\ \A r \in Open : r \in CreateCalls /\ MayHold(r)

-----------------------------------------------------------------------------
(* How calls and requests move *)

\* A step of a create call moves this call only and leaves requests and
\* payments alone.
LEMMA CreateStepMoves ==
  ASSUME TypeOK, NEW c \in CreateCalls, CreateStep(c)
  PROVE  /\ pc[c] \in CreateStates
         /\ \E s \in CreateStates \cup Ended : pc' = [pc EXCEPT ![c] = s]
         /\ UNCHANGED <<request, payments, nonces, restarts>>
BY DEF CreateStep, AuditValidated, CheckItems, ReserveStock, AuditReserved, PlaceOrder,
       AuditOrdered, UndoReservation, AuditUndone, AuditFailure, OtherThanInventory,
       Audit, Goto, CreateStates, Ended

LEMMA ConfirmStepMoves ==
  ASSUME TypeOK, NEW k \in ConfirmCalls, ConfirmStep(k)
  PROVE  /\ pc[k] \in ConfirmStates
         /\ \E s \in ConfirmStates \cup Ended : pc' = [pc EXCEPT ![k] = s]
         /\ UNCHANGED <<request, nonces, restarts>>
BY DEF ConfirmStep, AuditRefusal, VerifyPayment, CapturePayment, AuditVerified, CommitStock,
       AuditCommitted, MarkConfirmed, AuditConfirmed, ReleaseStock, MarkFailed, AuditReleased,
       AuditRejected, Audit, Goto, Verdict, OtherThanInventory, ConfirmStates, Ended

\* An appended event is the only thing a trail gains.
LEMMA AppendedOnly ==
  ASSUME StoresOK, NEW t \in CreateCalls, NEW event \in Events,
         trail' = [trail EXCEPT ![t] = Append(@, event)]
  PROVE  \A d \in CreateCalls, e \in Events :
           Audited(d, e)' <=> Audited(d, e) \/ (d = t /\ e = event)
<1>1. trail \in [CreateCalls -> Seq(Events)] /\ trail[t] \in Seq(Events)
  BY DEF StoresOK
<1> DEFINE n == Len(trail[t])
<1>2. /\ n \in Nat /\ DOMAIN trail[t] = 1 .. n
      /\ trail'[t] = Append(trail[t], event)
      /\ \A d \in CreateCalls : d # t => trail'[d] = trail[d]
  BY <1>1
<1>3. /\ DOMAIN trail'[t] = 1 .. n + 1
      /\ trail'[t][n + 1] = event
      /\ \A i \in 1 .. n : trail'[t][i] = trail[t][i]
  BY <1>1, <1>2
<1> HIDE DEF n
<1>4. n + 1 \in 1 .. n + 1 /\ \A i \in 1 .. n + 1 : i \in 1 .. n \/ i = n + 1
  BY <1>2
<1>5. \A d \in CreateCalls, e \in Events : Audited(d, e)' => Audited(d, e) \/ (d = t /\ e = event)
  BY <1>2, <1>3, <1>4 DEF Audited
<1>6. \A d \in CreateCalls, e \in Events : Audited(d, e) => Audited(d, e)'
  BY <1>2, <1>3 DEF Audited
<1>7. Audited(t, event)'
  BY <1>3, <1>4 DEF Audited
<1> QED BY <1>5, <1>6, <1>7

\* A step puts at most one event on record.  Mandate, order and sale are each
\* recorded by one action, and whoever writes to a trail does nothing else that
\* anybody outside can see.
LEMMA TrailMoves ==
  ASSUME TypeOK, [Next]_merchantVars
  PROVE  \/ UNCHANGED trail
         \/ /\ UNCHANGED <<request, payments>>
            /\ \E t \in CreateCalls, event \in Events :
                 /\ trail' = [trail EXCEPT ![t] = Append(@, event)]
                 /\ event = "MANDATE_VALIDATED" => pc[t] = "validated"
                 /\ event = "ORDER_CREATED" => AuditOrdered(t)
                 /\ event = "INVENTORY_COMMITTED" =>
                      \E k \in ConfirmCalls : pc[k] = "committed" /\ request[k].order = t
<1> DEFINE Writes == /\ UNCHANGED <<request, payments>>
                     /\ \E t \in CreateCalls, event \in Events :
                          /\ trail' = [trail EXCEPT ![t] = Append(@, event)]
                          /\ event = "MANDATE_VALIDATED" => pc[t] = "validated"
                          /\ event = "ORDER_CREATED" => AuditOrdered(t)
                          /\ event = "INVENTORY_COMMITTED" =>
                               \E k \in ConfirmCalls : pc[k] = "committed" /\ request[k].order = t
<1>1. ASSUME NEW c, NEW t \in CreateCalls, NEW event \in Events, NEW s, NEW e,
             Audit(c, t, event, s, e), UNCHANGED <<request, payments>>,
             event = "MANDATE_VALIDATED" => pc[t] = "validated",
             event = "ORDER_CREATED" => AuditOrdered(t),
             event = "INVENTORY_COMMITTED" =>
               \E k \in ConfirmCalls : pc[k] = "committed" /\ request[k].order = t
      PROVE  UNCHANGED trail \/ Writes
  BY <1>1 DEF Audit
<1> HIDE DEF Writes
<1>2. ASSUME NEW c \in CreateCalls, CreateStep(c) PROVE UNCHANGED trail \/ Writes
  <2>1. CASE \/ AuditValidated(c) \/ AuditReserved(c) \/ AuditOrdered(c)
             \/ AuditUndone(c) \/ AuditFailure(c)
    BY <1>1, <2>1 DEF AuditValidated, AuditReserved, AuditOrdered, AuditUndone, AuditFailure,
           OtherThanInventory, Events
  <2> QED BY <1>2, <2>1 DEF CreateStep, CheckItems, ReserveStock, PlaceOrder, UndoReservation
<1>3. ASSUME NEW k \in ConfirmCalls, ConfirmStep(k) PROVE UNCHANGED trail \/ Writes
  <2>1. CASE \/ AuditVerified(k) \/ AuditCommitted(k) \/ AuditConfirmed(k)
             \/ AuditReleased(k) \/ AuditRejected(k)
    <3>1. request[k].order \in CreateCalls
      BY <2>1 DEF AuditVerified, AuditCommitted, AuditConfirmed, AuditReleased, AuditRejected,
             TypeOK, CallsOK, ConfirmStates
    <3> QED BY <1>1, <2>1, <3>1
            DEF AuditVerified, AuditCommitted, AuditConfirmed, AuditReleased, AuditRejected,
                OtherThanInventory, Events
  <2>2. CASE AuditRefusal(k)
    BY <1>1, <2>2 DEF AuditRefusal, OtherThanInventory, Events
  <2> QED BY <1>3, <2>1, <2>2 DEF ConfirmStep, VerifyPayment, CapturePayment, CommitStock,
           MarkConfirmed, ReleaseStock, MarkFailed
<1>4. ASSUME NEW o \in CreateCalls, NEW y \in PaymentIds, NEW notice \in Notices,
             Webhook(o, y, notice)
      PROVE  Writes
  BY <1>4 DEF Writes, Webhook, OtherThanInventory, Notices, Events
<1>5. UNCHANGED trail \/ Writes
  BY <1>2, <1>3, <1>4
     DEF Next, Validate, ValidateAs, LookUpOrder, RefuseOrder, Pay, Restart, merchantVars
<1> QED BY <1>5 DEF Writes

\* What is on record stays there; an order is announced by its own create call.
LEMMA AnnouncedMoves ==
  ASSUME TypeOK, [Next]_merchantVars, NEW o \in CreateCalls
  PROVE  /\ Announced(o) => Announced(o)'
         /\ Announced(o)' => Announced(o) \/ AuditOrdered(o)
<1>1. CASE UNCHANGED trail
  BY <1>1 DEF Announced, Audited
<1>2. CASE ~ UNCHANGED trail
  <2>1. PICK t \in CreateCalls, event \in Events :
          /\ trail' = [trail EXCEPT ![t] = Append(@, event)]
          /\ event = "ORDER_CREATED" => AuditOrdered(t)
    BY <1>2, TrailMoves
  <2>2. Audited(o, "ORDER_CREATED")' <=>
          Audited(o, "ORDER_CREATED") \/ (o = t /\ "ORDER_CREATED" = event)
    BY <2>1, AppendedOnly DEF TypeOK, Events
  <2> QED BY <2>1, <2>2 DEF Announced
<1> QED BY <1>1, <1>2

\* The create call of an announced order places no order and holds no new
\* stock any more, and keeps its request.
LEMMA AnnouncedStays ==
  ASSUME TypeOK, AnnouncedOnly, [Next]_merchantVars, NEW o \in CreateCalls, Announced(o)
  PROVE  /\ Announced(o)'
         /\ pc[o] \in AfterOrder /\ pc'[o] \in AfterOrder
         /\ o \in DOMAIN request /\ request'[o] = request[o]
<1>0. /\ pc[o] \in AfterOrder /\ o \in DOMAIN request
      /\ DOMAIN pc = Calls /\ o \in Calls /\ o \notin ConfirmCalls
  BY CallsAssumption DEF AnnouncedOnly, AfterOrder, Ended, TypeOK, CallsOK, Calls
<1>a. Announced(o)' BY AnnouncedMoves
<1>1. CASE \E c \in CreateCalls : Validate(c)
  <2>1. PICK c \in CreateCalls : Validate(c) BY <1>1
  <2>2. c # o BY <1>0, <2>1 DEF Validate, ValidateAs, MayBegin, AfterOrder, Ended
  <2> QED BY <1>0, <1>a, <2>1, <2>2 DEF Validate, ValidateAs, Begin, Goto
<1>2. CASE \E c \in CreateCalls : CreateStep(c)
  <2>1. PICK c \in CreateCalls : CreateStep(c) BY <1>2
  <2>2. UNCHANGED request /\ \E s \in CreateStates \cup Ended : pc' = [pc EXCEPT ![c] = s]
    BY <2>1, CreateStepMoves
  <2>3. c = o => pc'[o] \in AfterOrder
    BY <1>0, <2>1 DEF CreateStep, AuditValidated, CheckItems, ReserveStock, AuditReserved,
           PlaceOrder, AuditOrdered, UndoReservation, AuditUndone, AuditFailure, Audit, Goto,
           AfterOrder, Ended
  <2> QED BY <1>0, <1>a, <2>2, <2>3
<1>3. CASE \E k \in ConfirmCalls : LookUpOrder(k) \/ RefuseOrder(k)
  BY <1>0, <1>a, <1>3 DEF LookUpOrder, RefuseOrder, Begin, Goto, OtherThanInventory
<1>4. CASE \E k \in ConfirmCalls : ConfirmStep(k)
  <2>1. PICK k \in ConfirmCalls : ConfirmStep(k) BY <1>4
  <2>2. UNCHANGED request /\ \E s : pc' = [pc EXCEPT ![k] = s]
    BY <2>1, ConfirmStepMoves
  <2> QED BY <1>0, <1>a, <2>1, <2>2
<1>5. CASE Restart
  <2>1. pc'[o] = IF Running(o) THEN "lost" ELSE pc[o] BY <1>0, <1>5 DEF Restart
  <2> QED BY <1>0, <1>a, <1>5, <2>1 DEF Restart, AfterOrder, Ended
<1>6. CASE \/ \E c \in CreateCalls, y \in PaymentIds, amount \in Amounts,
                status \in PaymentStatus : Pay(c, y, amount, status)
           \/ \E c \in CreateCalls, y \in PaymentIds, n \in Notices : Webhook(c, y, n)
           \/ UNCHANGED merchantVars
  BY <1>0, <1>a, <1>6 DEF Pay, Webhook, OtherThanInventory, merchantVars
<1> QED BY <1>1, <1>2, <1>3, <1>4, <1>5, <1>6 DEF Next

\* Only captures and new payments change what the gateway knows.
LEMMA PaymentsMove ==
  ASSUME TypeOK, [Next]_merchantVars
  PROVE  \/ UNCHANGED payments
         \/ \E k \in ConfirmCalls :
              payments' = [payments EXCEPT ![request[k].payment] =
                             [@ EXCEPT !.status = "captured"]]
         \/ \E o \in CreateCalls, y \in PaymentIds, amount \in Amounts,
               status \in PaymentStatus : Pay(o, y, amount, status)
<1>1. CASE \E c \in CreateCalls : Validate(c) \/ CreateStep(c)
  BY <1>1, CreateStepMoves DEF Validate, ValidateAs
<1>2. CASE \E k \in ConfirmCalls : LookUpOrder(k) \/ RefuseOrder(k)
  BY <1>2 DEF LookUpOrder, RefuseOrder, OtherThanInventory
<1>3. CASE \E k \in ConfirmCalls : CapturePayment(k)
  BY <1>3 DEF CapturePayment
<1>4. CASE \E k \in ConfirmCalls : ConfirmStep(k) /\ ~ CapturePayment(k)
  BY <1>4 DEF ConfirmStep, AuditRefusal, VerifyPayment, AuditVerified, CommitStock,
         AuditCommitted, MarkConfirmed, AuditConfirmed, ReleaseStock, MarkFailed,
         AuditReleased, AuditRejected, OtherThanInventory
<1>5. CASE Restart \/ UNCHANGED merchantVars
  BY <1>5 DEF Restart, merchantVars
<1>6. CASE \E c \in CreateCalls, y \in PaymentIds, n \in Notices : Webhook(c, y, n)
  BY <1>6 DEF Webhook, OtherThanInventory
<1> QED BY <1>1, <1>2, <1>3, <1>4, <1>5, <1>6 DEF Next

\* Payments are never taken back: they keep order and amount, and a captured
\* one stays captured.
LEMMA PaymentsStay ==
  ASSUME TypeOK, [Next]_merchantVars, NEW y \in DOMAIN payments
  PROVE  /\ y \in DOMAIN payments'
         /\ payments'[y].order = payments[y].order
         /\ payments'[y].amount = payments[y].amount
         /\ payments[y].status = "captured" => payments'[y].status = "captured"
<1>0. payments \in [DOMAIN payments ->
                      [order : CreateCalls, amount : Amounts, status : PaymentStatus]]
  BY DEF TypeOK, StoresOK
<1>1. CASE UNCHANGED payments
  BY <1>1
<1>2. CASE \E k \in ConfirmCalls :
             payments' = [payments EXCEPT ![request[k].payment] =
                            [@ EXCEPT !.status = "captured"]]
  <2>1. \E z : payments' = [payments EXCEPT ![z] = [@ EXCEPT !.status = "captured"]]
    BY <1>2
  <2> QED BY <1>0, <2>1
<1>3. CASE \E o \in CreateCalls, x \in PaymentIds, amount \in Amounts,
              status \in PaymentStatus : Pay(o, x, amount, status)
  BY <1>3 DEF Pay
<1> QED BY <1>1, <1>2, <1>3, PaymentsMove

LEMMA PaymentsComeByPay ==
  ASSUME TypeOK, [Next]_merchantVars, NEW y \in DOMAIN payments', y \notin DOMAIN payments
  PROVE  \E o \in CreateCalls, amount \in Amounts, status \in PaymentStatus :
           Pay(o, y, amount, status)
<1>1. DOMAIN payments' # DOMAIN payments
  OBVIOUS
<1>2. PICK o \in CreateCalls, x \in PaymentIds, amount \in Amounts, status \in PaymentStatus :
         Pay(o, x, amount, status)
  BY <1>1, PaymentsMove
<1>3. x = y
  BY <1>2 DEF Pay
<1> QED BY <1>2, <1>3

-----------------------------------------------------------------------------
(* Only announced orders are paid for and confirmed *)

LEMMA AnnouncedOnlyStep ==
  TypeOK /\ AnnouncedOnly /\ [Next]_merchantVars => AnnouncedOnly'
<1> SUFFICES ASSUME TypeOK, AnnouncedOnly, [Next]_merchantVars PROVE AnnouncedOnly'
  OBVIOUS
<1>0. ASSUME NEW c \in CreateCalls, Announced(c)' PROVE pc'[c] \in AfterOrder
  <2>1. CASE Announced(c) BY <2>1, AnnouncedStays
  <2>2. CASE AuditOrdered(c)
    <3>1. c \in Calls /\ DOMAIN pc = Calls BY DEF Calls, TypeOK, CallsOK
    <3> QED BY <2>2, <3>1 DEF AuditOrdered, Audit, Goto, AfterOrder, Ended
  <2> QED BY <1>0, <2>1, <2>2, AnnouncedMoves
<1>1. ASSUME NEW k \in ConfirmCalls \cap DOMAIN request'
      PROVE  Announced(request[k].order)'
  <2>1. CASE k \in DOMAIN request /\ request'[k] = request[k]
    <3>1. PICK o \in CreateCalls : o = request[k].order /\ Announced(o)
      BY <2>1 DEF AnnouncedOnly, TypeOK, CallsOK
    <3>2. Announced(o)' BY <3>1, AnnouncedStays
    <3> QED BY <2>1, <3>1, <3>2
  <2>2. CASE \E o \in DOMAIN orders, y \in PaymentIds :
               Announced(o) /\ request'[k] = [order |-> o, payment |-> y]
    <3>1. PICK o \in DOMAIN orders, y \in PaymentIds :
             Announced(o) /\ request'[k] = [order |-> o, payment |-> y]
      BY <2>2
    <3>2. o \in CreateCalls BY DEF TypeOK, StoresOK
    <3>3. Announced(o)' BY <3>1, <3>2, AnnouncedStays
    <3> QED BY <3>1, <3>3
  <2>3. \/ k \in DOMAIN request /\ request'[k] = request[k]
        \/ \E o \in DOMAIN orders, y \in PaymentIds :
               Announced(o) /\ request'[k] = [order |-> o, payment |-> y]
    <3>1. CASE \E c \in CreateCalls : Validate(c)
      BY <1>1, <3>1, CallsAssumption DEF Validate, ValidateAs, Begin
    <3>2. CASE \E d \in ConfirmCalls : LookUpOrder(d)
      BY <1>1, <3>2 DEF LookUpOrder, Begin
    <3>3. CASE UNCHANGED request
      BY <1>1, <3>3
    <3>4. UNCHANGED request \/ (\E c \in CreateCalls : Validate(c))
             \/ \E d \in ConfirmCalls : LookUpOrder(d)
      BY CreateStepMoves, ConfirmStepMoves
         DEF Next, merchantVars, RefuseOrder, Pay, Webhook, Restart, OtherThanInventory
    <3> QED BY <3>1, <3>2, <3>3, <3>4
  <2> QED BY <2>1, <2>2, <2>3
<1>2. ASSUME NEW y \in DOMAIN payments'
      PROVE  Announced(payments[y].order)'
  <2>1. CASE y \in DOMAIN payments
    <3>1. PICK o \in CreateCalls : o = payments[y].order /\ Announced(o)
      BY <2>1 DEF AnnouncedOnly, TypeOK, StoresOK
    <3>2. Announced(o)' BY <3>1, AnnouncedStays
    <3> QED BY <2>1, <3>1, <3>2, PaymentsStay
  <2>2. CASE y \notin DOMAIN payments
    <3>1. PICK o \in CreateCalls, amount \in Amounts, status \in PaymentStatus :
             Pay(o, y, amount, status)
      BY <1>2, <2>2, PaymentsComeByPay
    <3>2. Announced(o)' BY <3>1, AnnouncedStays DEF Pay
    <3> QED BY <3>1, <3>2 DEF Pay
  <2> QED BY <2>1, <2>2
<1> QED BY <1>0, <1>1, <1>2 DEF AnnouncedOnly

-----------------------------------------------------------------------------
(* Stock is sold for paid orders only *)

LEMMA PaidStays ==
  ASSUME TypeOK, AnnouncedOnly, [Next]_merchantVars, NEW o \in CreateCalls, Paid(o)
  PROVE  Paid(o)'
<1>1. PICK y \in DOMAIN payments : /\ payments[y].order = o
                                   /\ payments[y].status = "captured"
                                   /\ payments[y].amount = Amount(o)
  BY DEF Paid
<1>2. Announced(o) BY <1>1 DEF AnnouncedOnly
<1>3. Amount(o)' = Amount(o) BY <1>2, AnnouncedStays DEF Amount
<1> QED BY <1>1, <1>3, PaymentsStay DEF Paid

\* Who is past the verification was there before, or comes from it with a
\* captured payment of the right order and amount.
LEMMA VerifiedIsPaid ==
  ASSUME TypeOK, PaidInv, NEW k \in ConfirmCalls, ConfirmStep(k),
         pc'[k] \in PastVerification \cup {"capturing"}
  PROVE  \/ pc[k] \in PastVerification /\ pc'[k] \in PastVerification
         \/ pc'[k] \in PastVerification /\ Paid(request[k].order)'
         \/ /\ pc'[k] = "capturing"
            /\ Matches(request[k].payment, request[k].order)
<1>0. k \in Calls /\ DOMAIN pc = Calls BY DEF Calls, TypeOK, CallsOK
<1> DEFINE y == request[k].payment
           o == request[k].order
<1>1. CASE VerifyPayment(k)
  <2>1. PICK signed \in BOOLEAN, reached \in BOOLEAN : pc'[k] = Verdict(o, y, signed, reached)
    BY <1>0, <1>1 DEF VerifyPayment, Goto
  <2>2. Matches(y, o) /\ pc'[k] \in {"capturing", "verified"}
    BY <2>1 DEF Verdict, PastVerification
  <2>3. pc'[k] = "verified" => payments[y].status = "captured"
    BY <2>1 DEF Verdict
  <2>4. UNCHANGED <<payments, request>>
    BY <1>1 DEF VerifyPayment, OtherThanInventory
  <2>5. Matches(y, o) /\ payments[y].status = "captured" => Paid(o)'
    BY <2>4 DEF Matches, Paid, Amount
  <2> QED BY <2>2, <2>3, <2>5 DEF PastVerification
<1>2. CASE CapturePayment(k)
  <2>1. pc[k] = "capturing" /\ UNCHANGED request
    BY <1>2 DEF CapturePayment
  <2>2. Matches(y, o) BY <2>1 DEF PaidInv
  <2>3. pc'[k] # "releasing" => payments' = [payments EXCEPT ![y] = [@ EXCEPT !.status = "captured"]]
    BY <1>0, <1>2 DEF CapturePayment, Goto
  <2>4. payments \in [DOMAIN payments ->
                      [order : CreateCalls, amount : Amounts, status : PaymentStatus]]
    BY DEF TypeOK, StoresOK
  <2>5. y \in DOMAIN payments /\ payments[y].order = o /\ payments[y].amount = Amount(o)
    BY <2>2 DEF Matches
  <2>6. Amount(o)' = Amount(o) BY <2>1 DEF Amount
  <2>7. pc'[k] # "releasing" => /\ y \in DOMAIN payments'
                                /\ payments'[y].order = o
                                /\ payments'[y].amount = Amount(o)
                                /\ payments'[y].status = "captured"
    <3> HIDE DEF y, o
    <3> QED BY <2>3, <2>4, <2>5
  <2>8. pc'[k] = "verified"
    BY <1>0, <1>2 DEF CapturePayment, Goto, PastVerification
  <2> QED BY <2>1, <2>6, <2>7, <2>8 DEF Paid, PastVerification
<1>3. CASE pc[k] \notin {"verifying", "capturing"}
  BY <1>0, <1>3 DEF ConfirmStep, AuditRefusal, VerifyPayment, CapturePayment, AuditVerified,
         CommitStock, AuditCommitted, MarkConfirmed, AuditConfirmed, ReleaseStock, MarkFailed,
         AuditReleased, AuditRejected, Audit, Goto, PastVerification
<1>4. pc[k] = "verifying" => VerifyPayment(k)
  BY DEF ConfirmStep, AuditRefusal, VerifyPayment, CapturePayment, AuditVerified,
         CommitStock, AuditCommitted, MarkConfirmed, AuditConfirmed, ReleaseStock, MarkFailed,
         AuditReleased, AuditRejected
<1>5. pc[k] = "capturing" => CapturePayment(k)
  BY DEF ConfirmStep, AuditRefusal, VerifyPayment, CapturePayment, AuditVerified,
         CommitStock, AuditCommitted, MarkConfirmed, AuditConfirmed, ReleaseStock, MarkFailed,
         AuditReleased, AuditRejected
<1> QED BY <1>1, <1>2, <1>3, <1>4, <1>5

\* A confirm call that is past its first step got there by itself.
LEMMA ConfirmWalk ==
  ASSUME TypeOK, [Next]_merchantVars, NEW k \in ConfirmCalls,
         pc'[k] \in ConfirmStates \ {"verifying", "refusing"}
  PROVE  /\ ~ Restart
         /\ k \in DOMAIN request
         /\ request[k].order \in CreateCalls
         /\ \/ ConfirmStep(k)
            \/ pc'[k] = pc[k] /\ request'[k] = request[k]
<1>0. k \in Calls /\ k \notin CreateCalls /\ DOMAIN pc = Calls
  BY CallsAssumption DEF Calls, TypeOK, CallsOK
<1>1. ~ Restart
  BY <1>0 DEF Restart, Running, Ended, ConfirmStates
<1> DEFINE Stayed == pc'[k] = pc[k] /\ request'[k] = request[k]
<1>a. pc'[k] = pc[k] => k \in DOMAIN request
  BY DEF TypeOK, CallsOK
<1>2. ASSUME NEW c \in CreateCalls, Validate(c) \/ CreateStep(c) PROVE Stayed
  <2>1. pc'[k] = pc[k]
    BY <1>0, <1>2, CreateStepMoves DEF Validate, ValidateAs, Begin, Goto
  <2> QED BY <1>0, <1>a, <1>2, <2>1, CreateStepMoves DEF Validate, ValidateAs, Begin
<1>3. ASSUME NEW d \in ConfirmCalls, LookUpOrder(d) \/ RefuseOrder(d) PROVE Stayed
  <2>1. d # k
    BY <1>0, <1>3 DEF LookUpOrder, RefuseOrder, Begin, Goto, FirstStep, ConfirmStates
  <2>2. pc'[k] = pc[k]
    BY <1>0, <1>3, <2>1 DEF LookUpOrder, RefuseOrder, Begin, Goto
  <2> QED BY <1>a, <1>3, <2>1, <2>2 DEF LookUpOrder, RefuseOrder, Begin, OtherThanInventory
<1>4. ASSUME NEW d \in ConfirmCalls, d # k, ConfirmStep(d) PROVE Stayed
  BY <1>0, <1>4, ConfirmStepMoves
<1>5. ASSUME \/ \E c \in CreateCalls, y \in PaymentIds, amount \in Amounts,
                  status \in PaymentStatus : Pay(c, y, amount, status)
             \/ \E c \in CreateCalls, y \in PaymentIds, n \in Notices : Webhook(c, y, n)
             \/ UNCHANGED merchantVars
      PROVE  Stayed
  BY <1>5 DEF Pay, Webhook, OtherThanInventory, merchantVars
<1>6. ConfirmStep(k) \/ Stayed
  BY <1>1, <1>2, <1>3, <1>4, <1>5 DEF Next
<1>7. pc[k] \in ConfirmStates \ {"refusing"}
  <2>1. CASE ConfirmStep(k)
    <3>1. pc[k] \in ConfirmStates BY <2>1, ConfirmStepMoves
    <3>2. AuditRefusal(k) => pc'[k] \in Ended
      BY <1>0 DEF AuditRefusal, Audit, Goto, Ended
    <3>3. ~ AuditRefusal(k) BY <3>2 DEF Ended, ConfirmStates
    <3> QED BY <2>1, <3>1, <3>3
            DEF ConfirmStep, VerifyPayment, CapturePayment, AuditVerified, CommitStock,
                AuditCommitted, MarkConfirmed, AuditConfirmed, ReleaseStock, MarkFailed,
                AuditReleased, AuditRejected
  <2> QED BY <1>6, <2>1
<1> QED BY <1>1, <1>6, <1>7 DEF TypeOK, CallsOK

\* Stock is sold by confirm calls that stand before the commit.
LEMMA SoldByConfirm ==
  ASSUME TypeOK, [Next]_merchantVars, NEW o \in committed', o \notin committed
  PROVE  \E k \in ConfirmCalls : /\ pc[k] = "committing" /\ k \in DOMAIN request
                                 /\ request[k].order = o
<1>1. CASE \E k \in ConfirmCalls : CommitStock(k)
  <2>1. PICK k \in ConfirmCalls : CommitStock(k) BY <1>1
  <2>2. pc[k] = "committing" /\ committed' \subseteq committed \cup {request[k].order}
    BY <2>1 DEF CommitStock, Commit, inventoryVars
  <2>3. k \in DOMAIN request BY <2>2 DEF TypeOK, CallsOK, ConfirmStates
  <2> QED BY <2>2, <2>3
<1>2. CASE \E k \in ConfirmCalls : ConfirmStep(k) /\ ~ CommitStock(k)
  BY <1>2 DEF ConfirmStep, AuditRefusal, VerifyPayment, CapturePayment, AuditVerified,
         AuditCommitted, MarkConfirmed, AuditConfirmed, ReleaseStock, MarkFailed,
         AuditReleased, AuditRejected, Release, inventoryVars
<1>3. CASE \E c \in CreateCalls : CreateStep(c)
  BY <1>3 DEF CreateStep, AuditValidated, CheckItems, ReserveStock, AuditReserved, PlaceOrder,
         AuditOrdered, UndoReservation, AuditUndone, AuditFailure, Reserve, Release,
         inventoryVars
<1>4. CASE UNCHANGED committed \/ Restart
  BY <1>4 DEF Restart, Reseed
<1> QED BY <1>1, <1>2, <1>3, <1>4
        DEF Next, Validate, ValidateAs, LookUpOrder, RefuseOrder, Pay, Webhook,
            merchantVars, inventoryVars

LEMMA PaidInvStep ==
  TypeOK /\ AnnouncedOnly /\ PaidInv /\ [Next]_merchantVars => PaidInv'
<1> SUFFICES ASSUME TypeOK, AnnouncedOnly, PaidInv, [Next]_merchantVars PROVE PaidInv'
  OBVIOUS
<1>1. ASSUME NEW o \in CreateCalls, Paid(o) PROVE Paid(o)'
  BY <1>1, PaidStays
<1>2. ASSUME NEW k \in ConfirmCalls, pc'[k] \in PastVerification \cup {"capturing"}
      PROVE  /\ pc'[k] = "capturing" => Matches(request[k].payment, request[k].order)'
             /\ pc'[k] \in PastVerification => Paid(request[k].order)'
  <2>1. /\ k \in DOMAIN request /\ request[k].order \in CreateCalls
        /\ ConfirmStep(k) \/ (pc'[k] = pc[k] /\ request'[k] = request[k])
    BY <1>2, ConfirmWalk DEF PastVerification, ConfirmStates
  <2>2. Announced(request[k].order) BY <2>1 DEF AnnouncedOnly
  <2>3. request'[k] = request[k] BY <2>1, ConfirmStepMoves
  <2>4. Matches(request[k].payment, request[k].order)
          => Matches(request[k].payment, request[k].order)'
    BY <2>1, <2>2, <2>3, PaymentsStay, AnnouncedStays DEF Matches, Amount
  <2>5. Paid(request[k].order) => Paid(request[k].order)'
    BY <1>1, <2>1, <2>3 DEF Paid, Amount
  <2>6. CASE ConfirmStep(k)
    BY <1>2, <2>4, <2>5, <2>6, VerifiedIsPaid DEF PaidInv, PastVerification
  <2>7. CASE pc'[k] = pc[k] /\ request'[k] = request[k]
    BY <1>2, <2>4, <2>5, <2>7 DEF PaidInv
  <2> QED BY <2>1, <2>6, <2>7
<1>3. ASSUME NEW o \in committed' PROVE Paid(o)'
  <2>1. Paid(o)
    BY <1>3, SoldByConfirm DEF PaidInv, PastVerification
  <2>2. o \in CreateCalls BY <2>1 DEF Paid, TypeOK, StoresOK
  <2> QED BY <1>1, <2>1, <2>2
<1> QED BY <1>2, <1>3 DEF PaidInv

LEMMA PaidInit == Init => AnnouncedOnly /\ PaidInv
<1> SUFFICES ASSUME Init PROVE AnnouncedOnly /\ PaidInv
  OBVIOUS
<1>1. DOMAIN request = {} /\ DOMAIN payments = {} /\ committed = {}
  BY DEF Init, InventoryInit
<1>2. \A k \in ConfirmCalls : pc[k] = "idle"
  BY DEF Init, Calls
<1>3. \A c \in CreateCalls : ~ Announced(c)
  BY DEF Init, Announced, Audited
<1> QED BY <1>1, <1>2, <1>3 DEF AnnouncedOnly, PaidInv, PastVerification

\* Only orders whose ORDER_CREATED event is on record are ever paid or confirmed.
THEOREM AnnouncedOrders == Spec => []AnnouncedOnly
<1>1. TypeOK /\ AnnouncedOnly /\ [Next]_merchantVars => AnnouncedOnly' BY AnnouncedOnlyStep
<1> QED BY <1>1, PaidInit, MerchantTypes, PTL DEF Spec

\* No unit leaves the shelf for an order nobody has paid in full, however many
\* confirm calls, late answers and restarts there are.
THEOREM SoldIsPaid == Spec => []PaidBeforeCommit
<1>1. TypeOK /\ AnnouncedOnly /\ PaidInv /\ [Next]_merchantVars => PaidInv' BY PaidInvStep
<1>2. PaidInv => PaidBeforeCommit BY DEF PaidInv, PaidBeforeCommit, Paid
<1> QED BY <1>1, <1>2, PaidInit, AnnouncedOrders, MerchantTypes, PTL DEF Spec

-----------------------------------------------------------------------------
(* No hold without an owner, no confirmation without a sale *)

\* Who is in progress as a create call got there by itself.
LEMMA CreateWalk ==
  ASSUME TypeOK, [Next]_merchantVars, NEW c \in CreateCalls,
         pc'[c] \in (CreateStates \ {"validated", "failing"}) \cup {"returned"}
  PROVE  CreateStep(c) \/ pc'[c] = pc[c]
<1>0. c \in Calls /\ c \notin ConfirmCalls /\ DOMAIN pc = Calls
  BY CallsAssumption DEF Calls, TypeOK, CallsOK
<1>1. ASSUME NEW d \in CreateCalls, Validate(d) PROVE pc'[c] = pc[c]
  BY <1>0, <1>1 DEF Validate, ValidateAs, Begin, Goto, CreateStates
<1>2. ASSUME NEW d \in CreateCalls, d # c, CreateStep(d) PROVE pc'[c] = pc[c]
  BY <1>0, <1>2, CreateStepMoves
<1>3. ASSUME NEW k \in ConfirmCalls, LookUpOrder(k) \/ RefuseOrder(k) \/ ConfirmStep(k)
      PROVE  pc'[c] = pc[c]
  BY <1>0, <1>3, ConfirmStepMoves DEF LookUpOrder, RefuseOrder, Begin, Goto
<1>4. CASE Restart
  BY <1>0, <1>4 DEF Restart, CreateStates
<1>5. ASSUME \/ \E o \in CreateCalls, y \in PaymentIds, amount \in Amounts,
                  status \in PaymentStatus : Pay(o, y, amount, status)
             \/ \E o \in CreateCalls, y \in PaymentIds, n \in Notices : Webhook(o, y, n)
             \/ UNCHANGED merchantVars
      PROVE  pc'[c] = pc[c]
  BY <1>5 DEF Pay, Webhook, merchantVars
<1> QED BY <1>1, <1>2, <1>3, <1>4, <1>5 DEF Next

\* A create step changes orders and holds of its own transaction only, and it
\* holds stock only where it may.
LEMMA CreateStepHolds ==
  ASSUME TypeOK, HoldInv, NEW c \in CreateCalls, CreateStep(c)
  PROVE  /\ committed' = committed
         /\ \A r \in Open' : r # c => r \in Open
         /\ c \in Open' => MayHold(c)' /\ (c \in Open \/ pc[c] = "reserving")
         /\ pc'[c] = "ordered" => c \in DOMAIN orders' /\ orders'[c] = "created"
         /\ \A o \in DOMAIN orders' :
              \/ o = c /\ orders'[o] = "created"
              \/ o \in DOMAIN orders /\ orders'[o] = orders[o]
         /\ \A o \in DOMAIN orders : o # c => o \in DOMAIN orders' /\ orders'[o] = orders[o]
<1>0. c \in Calls /\ DOMAIN pc = Calls
  BY DEF Calls, TypeOK, CallsOK
<1>1. CASE ReserveStock(c)
  BY <1>0, <1>1 DEF ReserveStock, Reserve, Open, Goto, OtherThanInventory, inventoryVars,
         HoldInv, MayHold
<1>2. CASE UndoReservation(c)
  BY <1>0, <1>2 DEF UndoReservation, Release, Open, Goto, OtherThanInventory
<1>3. CASE PlaceOrder(c)
  BY <1>0, <1>3 DEF PlaceOrder, Open, Goto, inventoryVars, MayHold
<1>4. CASE AuditReserved(c)
  BY <1>0, <1>4 DEF AuditReserved, Audit, Open, Goto, OtherThanInventory, inventoryVars, MayHold
<1>5. CASE AuditOrdered(c)
  BY <1>0, <1>5 DEF AuditOrdered, Audit, Open, Goto, OtherThanInventory, inventoryVars, MayHold,
         HoldInv
<1>6. CASE AuditValidated(c) \/ CheckItems(c) \/ AuditUndone(c) \/ AuditFailure(c)
  <2>1. c \notin Open BY <1>6 DEF AuditValidated, CheckItems, AuditUndone, AuditFailure,
                                  HoldInv, MayHold
  <2> QED BY <1>0, <1>6, <2>1 DEF AuditValidated, CheckItems, AuditUndone, AuditFailure, Audit,
             Open, Goto, OtherThanInventory, inventoryVars
<1> QED BY <1>1, <1>2, <1>3, <1>4, <1>5, <1>6 DEF CreateStep

\* A confirm step settles the hold of its order before it says so.
LEMMA ConfirmStepHolds ==
  ASSUME TypeOK, HoldInv, NEW k \in ConfirmCalls, ConfirmStep(k)
  PROVE  /\ committed \subseteq committed' /\ Open' \subseteq Open
         /\ pc'[k] \in {"committed", "marking"} => request[k].order \in committed'
         /\ pc'[k] = "released" => request[k].order \notin Open'
         /\ DOMAIN orders' = DOMAIN orders
         /\ \A o \in DOMAIN orders :
              \/ orders'[o] = orders[o]
              \/ o = request[k].order /\ orders'[o] = "confirmed" /\ o \in committed'
              \/ o = request[k].order /\ orders'[o] = "failed" /\ o \notin Open'
<1>0. k \in Calls /\ DOMAIN pc = Calls
  BY DEF Calls, TypeOK, CallsOK
<1>1. CASE CommitStock(k)
  BY <1>0, <1>1 DEF CommitStock, Commit, Open, Goto, OtherThanInventory, inventoryVars
<1>2. CASE ReleaseStock(k)
  BY <1>0, <1>2 DEF ReleaseStock, Release, Open, Goto, OtherThanInventory
<1>3. CASE MarkConfirmed(k)
  BY <1>0, <1>3 DEF MarkConfirmed, Open, Goto, inventoryVars, HoldInv
<1>4. CASE MarkFailed(k)
  BY <1>0, <1>4 DEF MarkFailed, Open, Goto, inventoryVars, HoldInv
<1>5. CASE AuditCommitted(k)
  BY <1>0, <1>5 DEF AuditCommitted, Audit, Open, Goto, OtherThanInventory, inventoryVars, HoldInv
<1>6. CASE VerifyPayment(k)
  <2>1. pc'[k] \in {"capturing", "verified", "releasing"}
    BY <1>0, <1>6 DEF VerifyPayment, Goto, Verdict
  <2> QED BY <1>6, <2>1 DEF VerifyPayment, Open, OtherThanInventory, inventoryVars
<1>7. CASE AuditRefusal(k) \/ CapturePayment(k) \/ AuditVerified(k) \/ AuditConfirmed(k)
           \/ AuditReleased(k) \/ AuditRejected(k)
  BY <1>0, <1>7 DEF AuditRefusal, CapturePayment, AuditVerified, AuditConfirmed,
         AuditReleased, AuditRejected, Audit, Open, Goto, OtherThanInventory, inventoryVars
<1> QED BY <1>1, <1>2, <1>3, <1>4, <1>5, <1>6, <1>7 DEF ConfirmStep

\* Only create and confirm calls move holds, sales and orders, until a restart
\* forgets them all.
LEMMA OthersKeepHolds ==
  ASSUME TypeOK, [Next]_merchantVars,
         ~ \E c \in CreateCalls : CreateStep(c), ~ \E k \in ConfirmCalls : ConfirmStep(k)
  PROVE  \/ committed' = committed /\ Open' = Open /\ orders' = orders
         \/ Open' = {} /\ DOMAIN orders' = {} /\ Restart
<1>1. CASE Restart
  BY <1>1 DEF Restart, Reseed, Open
<1>2. CASE ~ Restart
  BY <1>2 DEF Next, Validate, ValidateAs, LookUpOrder, RefuseOrder, Pay, Webhook, Open,
              OtherThanInventory, merchantVars, inventoryVars
<1> QED BY <1>1, <1>2

LEMMA HoldInvStep ==
  TypeOK /\ AnnouncedOnly /\ HoldInv /\ [Next]_merchantVars => HoldInv'
<1> SUFFICES ASSUME TypeOK, AnnouncedOnly, HoldInv, [Next]_merchantVars PROVE HoldInv'
  OBVIOUS
<1>1. CASE \E c \in CreateCalls : CreateStep(c)
  <2>1. PICK c \in CreateCalls : CreateStep(c) BY <1>1
  <2>2. /\ committed' = committed
        /\ \A r \in Open' : r # c => r \in Open
        /\ c \in Open' => MayHold(c)' /\ (c \in Open \/ pc[c] = "reserving")
        /\ pc'[c] = "ordered" => c \in DOMAIN orders' /\ orders'[c] = "created"
        /\ \A o \in DOMAIN orders' :
             \/ o = c /\ orders'[o] = "created"
             \/ o \in DOMAIN orders /\ orders'[o] = orders[o]
        /\ \A o \in DOMAIN orders : o # c => o \in DOMAIN orders' /\ orders'[o] = orders[o]
    BY <2>1, CreateStepHolds
  <2>3. UNCHANGED request /\ c \notin ConfirmCalls
        /\ \A d \in Calls : d # c => pc'[d] = pc[d]
    BY <2>1, CreateStepMoves, CallsAssumption DEF TypeOK, CallsOK
  <2>4. ASSUME NEW k \in ConfirmCalls
        PROVE  /\ pc'[k] \in {"committed", "marking"} => request'[k].order \in committed'
               /\ pc'[k] = "released" => request'[k].order \notin Open'
    <3>1. pc'[k] = pc[k] BY <2>3 DEF Calls
    <3>2. pc[k] = "released" => k \in DOMAIN request
      BY DEF TypeOK, CallsOK, ConfirmStates
    <3>3. pc[k] = "released" => request[k].order # c \/ pc[c] # "reserving"
      BY <3>2 DEF AnnouncedOnly, AfterOrder, Ended
    <3> QED BY <2>2, <2>3, <3>1, <3>3 DEF HoldInv
  <2>5. \A o \in DOMAIN orders' : orders'[o] = "confirmed" => o \in committed'
    BY <2>2 DEF HoldInv
  <2>6. \A d \in CreateCalls : pc'[d] = "ordered" => d \in DOMAIN orders' /\ orders'[d] = "created"
    BY <2>2, <2>3 DEF HoldInv, Calls
  <2>7. \A r \in Open' : r \in CreateCalls /\ MayHold(r)'
    BY <2>2, <2>3 DEF HoldInv, MayHold, Calls
  <2> QED BY <2>4, <2>5, <2>6, <2>7 DEF HoldInv
<1>2. CASE \E k \in ConfirmCalls : ConfirmStep(k)
  <2>1. PICK k \in ConfirmCalls : ConfirmStep(k) BY <1>2
  <2>2. /\ committed \subseteq committed' /\ Open' \subseteq Open
        /\ pc'[k] \in {"committed", "marking"} => request[k].order \in committed'
        /\ pc'[k] = "released" => request[k].order \notin Open'
        /\ DOMAIN orders' = DOMAIN orders
        /\ \A o \in DOMAIN orders :
             \/ orders'[o] = orders[o]
             \/ o = request[k].order /\ orders'[o] = "confirmed" /\ o \in committed'
             \/ o = request[k].order /\ orders'[o] = "failed" /\ o \notin Open'
    BY <2>1, ConfirmStepHolds
  <2>3. /\ UNCHANGED request /\ k \notin CreateCalls
        /\ \A d \in Calls : d # k => pc'[d] = pc[d]
        /\ pc[k] \in ConfirmStates
    BY <2>1, ConfirmStepMoves, CallsAssumption DEF TypeOK, CallsOK
  <2>4. ASSUME NEW d \in ConfirmCalls
        PROVE  /\ pc'[d] \in {"committed", "marking"} => request'[d].order \in committed'
               /\ pc'[d] = "released" => request'[d].order \notin Open'
    BY <2>2, <2>3 DEF HoldInv, Calls
  <2>5. \A o \in DOMAIN orders' : orders'[o] = "confirmed" => o \in committed'
    BY <2>2 DEF HoldInv
  <2>6. \A c \in CreateCalls : pc'[c] = pc[c] BY <2>3 DEF Calls
  <2>7. ASSUME NEW c \in CreateCalls, pc[c] = "ordered"
        PROVE  c \in DOMAIN orders' /\ orders'[c] = "created"
    <3>1. c \in DOMAIN orders /\ orders[c] = "created" BY <2>7 DEF HoldInv
    <3>2. CASE AuditRefusal(k)
      BY <2>2, <3>1, <3>2 DEF AuditRefusal, OtherThanInventory
    <3>3. CASE ~ AuditRefusal(k)
      <4>1. k \in DOMAIN request
        BY <2>1, <3>3 DEF ConfirmStep, VerifyPayment, CapturePayment, AuditVerified, CommitStock,
           AuditCommitted, MarkConfirmed, AuditConfirmed, ReleaseStock, MarkFailed,
           AuditReleased, AuditRejected, TypeOK, CallsOK, ConfirmStates
      <4>2. c # request[k].order BY <2>7, <4>1 DEF AnnouncedOnly, AfterOrder, Ended
      <4> QED BY <2>2, <3>1, <4>2
    <3> QED BY <3>2, <3>3
  <2>8. ASSUME NEW r \in Open' PROVE r \in CreateCalls /\ MayHold(r)'
    <3>1. r \in Open /\ r \in CreateCalls /\ MayHold(r) /\ r \notin committed'
      BY <2>2 DEF HoldInv, Open
    <3> QED BY <2>2, <2>6, <3>1 DEF MayHold
  <2> QED BY <2>4, <2>5, <2>6, <2>7, <2>8 DEF HoldInv
<1>3. CASE ~ (\E c \in CreateCalls : CreateStep(c)) /\ ~ (\E k \in ConfirmCalls : ConfirmStep(k))
  <2>1. CASE committed' = committed /\ Open' = Open /\ orders' = orders /\ ~ Restart
    <3>1. ASSUME NEW k \in ConfirmCalls
          PROVE  /\ pc'[k] \in {"committed", "marking"} => request'[k].order \in committed'
                 /\ pc'[k] = "released" => request'[k].order \notin Open'
      BY <1>3, <2>1, ConfirmWalk DEF HoldInv, ConfirmStates
    <3>2. \A c \in CreateCalls : pc'[c] = "ordered" => pc[c] = "ordered"
      BY <1>3, CreateWalk DEF CreateStates
    <3>3. ASSUME NEW r \in Open' PROVE r \in CreateCalls /\ MayHold(r)'
      <4>1. r \in CreateCalls /\ MayHold(r) BY <2>1 DEF HoldInv
      <4>2. pc'[r] = pc[r]
        <5>1. r \in Calls /\ r \notin ConfirmCalls /\ DOMAIN pc = Calls
          BY <4>1, CallsAssumption DEF Calls, TypeOK, CallsOK
        <5>2. pc[r] # "idle" BY <4>1 DEF MayHold
        <5> QED BY <1>3, <2>1, <5>1, <5>2
                DEF Next, Validate, ValidateAs, MayBegin, LookUpOrder, RefuseOrder, Begin, Goto,
                    Pay, Webhook, OtherThanInventory, merchantVars
      <4> QED BY <2>1, <4>1, <4>2 DEF MayHold
    <3> QED BY <2>1, <3>1, <3>2, <3>3 DEF HoldInv
  <2>2. CASE Open' = {} /\ DOMAIN orders' = {} /\ Restart
    <3>1. \A c \in Calls : pc'[c] \in Ended \cup {"idle"}
      BY <2>2 DEF Restart, Running, Ended
    <3> QED BY <2>2, <3>1 DEF HoldInv, Ended, Calls
  <2>3. (committed' = committed /\ Open' = Open /\ orders' = orders /\ ~ Restart)
        \/ (Open' = {} /\ DOMAIN orders' = {} /\ Restart)
    BY <1>3, OthersKeepHolds DEF Restart, Reseed, Open
  <2> QED BY <2>1, <2>2, <2>3
<1> QED BY <1>1, <1>2, <1>3

LEMMA HoldInit == Init => HoldInv
BY CallsAssumption DEF Init, InventoryInit, HoldInv, Open, MayHold, Calls

LEMMA HoldsHold == Spec => []HoldInv
<1>1. TypeOK /\ AnnouncedOnly /\ HoldInv /\ [Next]_merchantVars => HoldInv' BY HoldInvStep
<1> QED BY <1>1, HoldInit, AnnouncedOrders, MerchantTypes, PTL DEF Spec

\* What the merchant calls confirmed has its stock committed, with two confirm
\* calls of one order, or a failing ledger, at any point in between.
THEOREM ConfirmedIsSold == Spec => []ConfirmedIsCommitted
<1>1. HoldInv => ConfirmedIsCommitted BY DEF HoldInv, ConfirmedIsCommitted
<1> QED BY <1>1, HoldsHold, PTL

\* A unit that is held is held by a running call or for an order that can still
\* be confirmed: no failure of the ledger or the gateway leaks a hold.
THEOREM HoldsHaveOwners == Spec => []NoOrphanHold
<1>1. HoldInv => NoOrphanHold
  BY DEF HoldInv, MayHold, NoOrphanHold, Running, Ended
<1> QED BY <1>1, HoldsHold, PTL
=============================================================================
