--------------------------- MODULE MerchantProofs ---------------------------
(***************************************************************************)
(* Proofs about Merchant, for any number of calls, mandates, payments and  *)
(* restarts, with and without failures of the ledger and the gateway.      *)
(***************************************************************************)
EXTENDS Merchant, InventoryProofs

-----------------------------------------------------------------------------
(* Types *)

\* A call that has a request moves on to a state of its kind.
LEMMA CreateMoves ==
  ASSUME CallsOK, NEW c \in CreateCalls, pc[c] # "idle",
         NEW s \in CreateStates \cup Ended, Goto(c, s), UNCHANGED request
  PROVE  CallsOK'
<1>1. c \in Calls /\ c \notin ConfirmCalls
  BY CallsAssumption DEF Calls
<1>2. pc' = [pc EXCEPT ![c] = s] /\ DOMAIN pc = Calls
  BY DEF Goto, CallsOK
<1> QED BY <1>1, <1>2 DEF CallsOK

LEMMA ConfirmMoves ==
  ASSUME CallsOK, NEW k \in ConfirmCalls, NEW s \in ConfirmStates \cup Ended,
         k \in DOMAIN request \/ s \in Ended \cup {"refusing"},
         s \notin ConfirmStates \/ s \notin Ended,
         Goto(k, s), UNCHANGED request
  PROVE  CallsOK'
<1>1. k \in Calls /\ k \notin CreateCalls
  BY CallsAssumption DEF Calls
<1>2. pc' = [pc EXCEPT ![k] = s] /\ DOMAIN pc = Calls
  BY DEF Goto, CallsOK
<1> QED BY <1>1, <1>2 DEF CallsOK

LEMMA TypeInit == Init => TypeOK
BY BoundsAssumption DEF Init, TypeOK, CallsOK, StoresOK, Calls, Ended, CreateStates,
                          ConfirmStates, Events

\* An audit call moves its caller to one of two states and appends at most one
\* event.
LEMMA AuditKeeps ==
  ASSUME StoresOK, NEW t \in CreateCalls, NEW event \in Events, NEW c, NEW s, NEW e,
         Audit(c, t, event, s, e), UNCHANGED <<nonces, orders, payments, restarts>>
  PROVE  StoresOK' /\ (Goto(c, s) \/ Goto(c, e))
<1>1. trail \in [CreateCalls -> Seq(Events)] BY DEF StoresOK
<1>2. trail[t] \in Seq(Events) BY <1>1
<1>3. Append(trail[t], event) \in Seq(Events) BY <1>2
<1>4. trail' = trail \/ trail' = [trail EXCEPT ![t] = Append(trail[t], event)]
  BY DEF Audit
<1>5. trail' \in [CreateCalls -> Seq(Events)] BY <1>1, <1>3, <1>4
<1> QED BY <1>5 DEF Audit, StoresOK

LEMMA CreateStepTypes ==
  ASSUME TypeOK, NEW c \in CreateCalls, CreateStep(c)
  PROVE  TypeOK'
<1> USE DEF TypeOK
<1>0. UNCHANGED request
  BY DEF CreateStep, AuditValidated, CheckItems, ReserveStock, AuditReserved, PlaceOrder,
         AuditOrdered, UndoReservation, AuditUndone, AuditFailure, OtherThanInventory
<1>1. ASSUME AuditValidated(c) PROVE TypeOK'
  BY <1>0, <1>1, AuditKeeps, CreateMoves
     DEF AuditValidated, OtherThanInventory, Events, CreateStates, Ended
<1>2. ASSUME CheckItems(c) PROVE TypeOK'
  <2>1. CallsOK' BY <1>0, <1>2, CreateMoves DEF CheckItems, CreateStates
  <2> QED BY <1>2, <2>1 DEF CheckItems, OtherThanInventory, StoresOK
<1>3. ASSUME ReserveStock(c) PROVE TypeOK'
  <2>1. CallsOK' BY <1>0, <1>3, CreateMoves DEF ReserveStock, CreateStates
  <2> QED BY <1>3, <2>1 DEF ReserveStock, OtherThanInventory, StoresOK
<1>4. ASSUME AuditReserved(c) PROVE TypeOK'
  BY <1>0, <1>4, AuditKeeps, CreateMoves
     DEF AuditReserved, OtherThanInventory, Events, CreateStates
<1>5. ASSUME PlaceOrder(c) PROVE TypeOK'
  <2>1. CallsOK' BY <1>0, <1>5, CreateMoves DEF PlaceOrder, CreateStates
  <2>2. /\ DOMAIN orders' \subseteq CreateCalls
        /\ orders' \in [DOMAIN orders' -> {"created", "confirmed", "failed"}]
    BY <1>5 DEF PlaceOrder, StoresOK
  <2> QED BY <1>5, <2>1, <2>2 DEF PlaceOrder, StoresOK
<1>6. ASSUME AuditOrdered(c) PROVE TypeOK'
  BY <1>0, <1>6, AuditKeeps, CreateMoves
     DEF AuditOrdered, OtherThanInventory, Events, CreateStates, Ended
<1>7. ASSUME UndoReservation(c) PROVE TypeOK'
  <2>1. CallsOK' BY <1>0, <1>7, CreateMoves DEF UndoReservation, CreateStates
  <2> QED BY <1>7, <2>1 DEF UndoReservation, OtherThanInventory, StoresOK
<1>8. ASSUME AuditUndone(c) PROVE TypeOK'
  BY <1>0, <1>8, AuditKeeps, CreateMoves
     DEF AuditUndone, OtherThanInventory, Events, CreateStates, Ended
<1>9. ASSUME AuditFailure(c) PROVE TypeOK'
  BY <1>0, <1>9, AuditKeeps, CreateMoves
     DEF AuditFailure, OtherThanInventory, Events, CreateStates, Ended
<1> QED BY <1>1, <1>2, <1>3, <1>4, <1>5, <1>6, <1>7, <1>8, <1>9 DEF CreateStep

LEMMA ConfirmStepTypes ==
  ASSUME TypeOK, NEW k \in ConfirmCalls, ConfirmStep(k)
  PROVE  TypeOK'
<1> USE DEF TypeOK
<1>0. UNCHANGED request
  BY DEF ConfirmStep, AuditRefusal, VerifyPayment, CapturePayment, AuditVerified, CommitStock,
         AuditCommitted, MarkConfirmed, AuditConfirmed, ReleaseStock, MarkFailed,
         AuditReleased, AuditRejected, OtherThanInventory
<1>a. ASSUME AuditRefusal(k) PROVE TypeOK'
  <2>1. Goto(k, "rejected") \/ Goto(k, "raised")
    BY <1>a DEF AuditRefusal, Audit
  <2>2. CallsOK' BY <1>0, <2>1, ConfirmMoves DEF ConfirmStates, Ended
  <2>3. UNCHANGED <<nonces, orders, payments, restarts>>
    BY <1>a DEF AuditRefusal, OtherThanInventory
  <2>4. CASE UNCHANGED trail
    BY <2>2, <2>3, <2>4 DEF StoresOK
  <2>5. CASE \E t \in CreateCalls : Audit(k, t, "PAYMENT_REJECTED", "rejected", "raised")
    BY <2>2, <2>3, <2>5, AuditKeeps DEF Events
  <2> QED BY <1>a, <2>4, <2>5 DEF AuditRefusal
<1> SUFFICES ASSUME ~ AuditRefusal(k) PROVE TypeOK'
  BY <1>a
<1>r. k \in DOMAIN request /\ request[k].order \in CreateCalls
      /\ request[k].payment \in PaymentIds
  <2>1. pc[k] \in ConfirmStates \ {"refusing"}
    BY DEF ConfirmStep, VerifyPayment, CapturePayment, AuditVerified, CommitStock,
           AuditCommitted, MarkConfirmed, AuditConfirmed, ReleaseStock, MarkFailed,
           AuditReleased, AuditRejected, ConfirmStates
  <2> QED BY <2>1 DEF CallsOK
<1>1. ASSUME VerifyPayment(k) PROVE TypeOK'
  <2>1. \E signed, reached \in BOOLEAN :
          Goto(k, Verdict(request[k].order, request[k].payment, signed, reached))
    BY <1>1 DEF VerifyPayment
  <2>2. \A o, y, signed, reached :
          Verdict(o, y, signed, reached) \in {"capturing", "verified", "releasing"}
    BY DEF Verdict
  <2>3. PICK s \in {"capturing", "verified", "releasing"} : Goto(k, s)
    BY <2>1, <2>2
  <2>4. CallsOK' BY <1>0, <1>r, <2>3, ConfirmMoves DEF ConfirmStates, Ended
  <2> QED BY <1>1, <2>4 DEF VerifyPayment, OtherThanInventory, StoresOK
<1>2. ASSUME CapturePayment(k) PROVE TypeOK'
  <2>1. CallsOK' BY <1>0, <1>r, <1>2, ConfirmMoves DEF CapturePayment, ConfirmStates, Ended
  <2> DEFINE y == request[k].payment
             Payment == [order : CreateCalls, amount : Amounts, status : PaymentStatus]
  <2>2. payments \in [DOMAIN payments -> Payment] /\ DOMAIN payments \subseteq PaymentIds
    BY DEF StoresOK
  <2>3. \/ payments' = payments
        \/ payments' = [payments EXCEPT ![y] = [@ EXCEPT !.status = "captured"]]
    BY <1>2 DEF CapturePayment
  <2>4. \A pay \in Payment : [pay EXCEPT !.status = "captured"] \in Payment
    BY DEF PaymentStatus
  <2>5. payments' \in [DOMAIN payments' -> Payment] /\ DOMAIN payments' \subseteq PaymentIds
    <3> HIDE DEF y, Payment
    <3> QED BY <2>2, <2>3, <2>4
  <2> QED BY <1>2, <2>1, <2>5 DEF CapturePayment, StoresOK
<1>3. ASSUME AuditVerified(k) PROVE TypeOK'
  BY <1>0, <1>r, <1>3, AuditKeeps, ConfirmMoves
     DEF AuditVerified, OtherThanInventory, Events, ConfirmStates, Ended
<1>4. ASSUME CommitStock(k) PROVE TypeOK'
  <2>1. CallsOK' BY <1>0, <1>r, <1>4, ConfirmMoves DEF CommitStock, ConfirmStates, Ended
  <2> QED BY <1>4, <2>1 DEF CommitStock, OtherThanInventory, StoresOK
<1>5. ASSUME AuditCommitted(k) PROVE TypeOK'
  BY <1>0, <1>r, <1>5, AuditKeeps, ConfirmMoves
     DEF AuditCommitted, OtherThanInventory, Events, ConfirmStates, Ended
<1>6. ASSUME MarkConfirmed(k) PROVE TypeOK'
  <2>1. CallsOK' BY <1>0, <1>r, <1>6, ConfirmMoves DEF MarkConfirmed, ConfirmStates, Ended
  <2> QED BY <1>6, <2>1 DEF MarkConfirmed, StoresOK
<1>7. ASSUME AuditConfirmed(k) PROVE TypeOK'
  BY <1>0, <1>r, <1>7, AuditKeeps, ConfirmMoves
     DEF AuditConfirmed, OtherThanInventory, Events, ConfirmStates, Ended
<1>8. ASSUME ReleaseStock(k) PROVE TypeOK'
  <2>1. CallsOK' BY <1>0, <1>r, <1>8, ConfirmMoves DEF ReleaseStock, ConfirmStates, Ended
  <2> QED BY <1>8, <2>1 DEF ReleaseStock, OtherThanInventory, StoresOK
<1>9. ASSUME MarkFailed(k) PROVE TypeOK'
  <2>1. CallsOK' BY <1>0, <1>r, <1>9, ConfirmMoves DEF MarkFailed, ConfirmStates, Ended
  <2> QED BY <1>9, <2>1 DEF MarkFailed, StoresOK
<1>10. ASSUME AuditReleased(k) PROVE TypeOK'
  BY <1>0, <1>r, <1>10, AuditKeeps, ConfirmMoves
     DEF AuditReleased, OtherThanInventory, Events, ConfirmStates, Ended
<1>11. ASSUME AuditRejected(k) PROVE TypeOK'
  BY <1>0, <1>r, <1>11, AuditKeeps, ConfirmMoves
     DEF AuditRejected, OtherThanInventory, Events, ConfirmStates, Ended
<1> QED BY <1>1, <1>2, <1>3, <1>4, <1>5, <1>6, <1>7, <1>8, <1>9, <1>10, <1>11
        DEF ConfirmStep

\* A call that begins brings a request of its kind.
LEMMA Begins ==
  ASSUME CallsOK, NEW c \in Calls, pc[c] = "idle", NEW asked, NEW s, Begin(c, asked, s),
         c \in CreateCalls => /\ s \in CreateStates
                              /\ asked.mandate \in Mandates /\ asked.items \in Baskets,
         c \in ConfirmCalls => /\ s \in ConfirmStates \cup Ended
                               /\ asked.order \in CreateCalls /\ asked.payment \in PaymentIds
  PROVE  CallsOK'
<1>1. CreateCalls \cap ConfirmCalls = {} /\ Calls = CreateCalls \cup ConfirmCalls
  BY CallsAssumption DEF Calls
<1>2. pc' = [pc EXCEPT ![c] = s] /\ DOMAIN pc = Calls
  BY DEF Begin, Goto, CallsOK
<1>3. request' = [x \in DOMAIN request \cup {c} |-> IF x = c THEN asked ELSE request[x]]
  BY DEF Begin
<1>4. s \in CreateStates \cup ConfirmStates \cup Ended
  BY <1>1
<1> QED BY <1>1, <1>2, <1>3, <1>4 DEF CallsOK

LEMMA TypeStep == TypeOK /\ [Next]_merchantVars => TypeOK'
<1> SUFFICES ASSUME TypeOK, [Next]_merchantVars PROVE TypeOK'
  OBVIOUS
<1> USE DEF TypeOK
<1>1. ASSUME NEW c \in CreateCalls, Validate(c) PROVE TypeOK'
  <2>1. PICK m \in Mandates, items \in Baskets, genuine \in BOOLEAN, ownBuyer \in BOOLEAN :
          /\ Begin(c, [mandate |-> m, items |-> items],
                   IF Accepts(m, genuine) /\ ownBuyer THEN "validated" ELSE "failing")
          /\ nonces' = IF Accepts(m, genuine) THEN nonces \cup {m} ELSE nonces
    BY <1>1 DEF Validate, ValidateAs
  <2>2. CallsOK'
    <3>1. c \in Calls /\ c \notin ConfirmCalls /\ pc[c] = "idle"
      BY <1>1, CallsAssumption DEF Validate, ValidateAs, MayBegin, Calls
    <3> QED BY <2>1, <3>1, Begins DEF CreateStates
  <2>3. nonces' \subseteq Mandates BY <2>1 DEF StoresOK
  <2> QED BY <1>1, <2>2, <2>3 DEF Validate, ValidateAs, StoresOK
<1>2. ASSUME NEW c \in CreateCalls, CreateStep(c) PROVE TypeOK'
  BY <1>2, CreateStepTypes
<1>3. ASSUME NEW k \in ConfirmCalls, LookUpOrder(k) PROVE TypeOK'
  <2>1. PICK o \in DOMAIN orders, y \in PaymentIds :
          Begin(k, [order |-> o, payment |-> y], FirstStep(o))
    BY <1>3 DEF LookUpOrder
  <2>2. k \in Calls /\ k \notin CreateCalls /\ pc[k] = "idle"
    BY <1>3, CallsAssumption DEF LookUpOrder, MayBegin, Calls
  <2>3. CallsOK'
    BY <2>1, <2>2, Begins DEF FirstStep, ConfirmStates, Ended, StoresOK
  <2> QED BY <1>3, <2>3 DEF LookUpOrder, StoresOK
<1>4. ASSUME NEW k \in ConfirmCalls, RefuseOrder(k) PROVE TypeOK'
  <2>1. CallsOK'
    BY <1>4, ConfirmMoves DEF RefuseOrder, OtherThanInventory, ConfirmStates, Ended
  <2> QED BY <1>4, <2>1 DEF RefuseOrder, OtherThanInventory, StoresOK
<1>5. ASSUME NEW k \in ConfirmCalls, ConfirmStep(k) PROVE TypeOK'
  BY <1>5, ConfirmStepTypes
<1>6. ASSUME NEW o \in CreateCalls, NEW y \in PaymentIds, NEW amount \in Amounts,
             NEW status \in PaymentStatus, Pay(o, y, amount, status)
      PROVE  TypeOK'
  <2>1. /\ DOMAIN payments' \subseteq PaymentIds
        /\ payments' \in [DOMAIN payments' ->
                     [order : CreateCalls, amount : Amounts, status : PaymentStatus]]
    BY <1>6 DEF Pay, StoresOK
  <2> QED BY <1>6, <2>1 DEF Pay, CallsOK, StoresOK
<1>7. ASSUME Restart PROVE TypeOK'
  <2>1. CallsOK'
    <3>1. pc' = [c \in Calls |-> IF Running(c) THEN "lost" ELSE pc[c]]
      BY <1>7 DEF Restart
    <3>2. \A c \in Calls : pc'[c] \in Ended \cup {"idle"}
      BY <3>1 DEF Running, Ended
    <3>3. \A c \in Calls : pc'[c] \notin {"idle"} => pc[c] # "idle"
      BY <3>1 DEF Running
    <3>4. \A c \in Calls : pc'[c] \notin ConfirmStates
      BY <3>2 DEF ConfirmStates, Ended
    <3>5. UNCHANGED request BY <1>7 DEF Restart
    <3> QED BY <3>1, <3>2, <3>3, <3>4, <3>5 DEF CallsOK, Calls
  <2> QED BY <1>7, <2>1, BoundsAssumption DEF Restart, StoresOK
<1>8. ASSUME NEW o \in CreateCalls, NEW y \in PaymentIds, NEW notice \in Notices,
             Webhook(o, y, notice)
      PROVE  TypeOK'
  <2>1. trail \in [CreateCalls -> Seq(Events)] /\ notice \in Events
    BY DEF StoresOK, Notices, Events
  <2>2. trail' = [trail EXCEPT ![o] = Append(trail[o], notice)]
    BY <1>8 DEF Webhook
  <2>3. trail' \in [CreateCalls -> Seq(Events)]
    BY <2>1, <2>2
  <2>4. UNCHANGED <<pc, request, nonces, orders, payments, restarts>>
    BY <1>8 DEF Webhook, OtherThanInventory
  <2> QED BY <2>3, <2>4 DEF CallsOK, StoresOK
<1>9. ASSUME UNCHANGED merchantVars PROVE TypeOK'
  BY <1>9 DEF merchantVars, CallsOK, StoresOK
<1> QED BY <1>1, <1>2, <1>3, <1>4, <1>5, <1>6, <1>7, <1>8, <1>9 DEF Next

\* Every reachable state is of the declared shape, whatever fails and however
\* often the process is restarted.
THEOREM MerchantTypes == Spec => []TypeOK
<1>1. TypeOK /\ [Next]_merchantVars => TypeOK' BY TypeStep
<1> QED BY <1>1, TypeInit, PTL DEF Spec

-----------------------------------------------------------------------------
(* The handlers use the inventory as its specification allows *)

LEMMA CreateUsesInventory ==
  ASSUME TypeOK, NEW c \in CreateCalls, CreateStep(c)
  PROVE  InventoryNext \/ UNCHANGED inventoryVars
<1>1. c \in ReservationIds
  BY CallsAssumption
<1>2. CASE ReserveStock(c)
  <2>1. request[c].items \in Baskets BY <1>2 DEF ReserveStock, TypeOK, CallsOK
  <2> QED BY <1>1, <1>2, <2>1 DEF ReserveStock, InventoryNext
<1>3. CASE UndoReservation(c)
  BY <1>1, <1>3 DEF UndoReservation, InventoryNext
<1> QED BY <1>2, <1>3 DEF CreateStep, AuditValidated, CheckItems, AuditReserved, PlaceOrder,
           AuditOrdered, AuditUndone, AuditFailure

LEMMA ConfirmUsesInventory ==
  ASSUME TypeOK, NEW k \in ConfirmCalls, ConfirmStep(k)
  PROVE  InventoryNext \/ UNCHANGED inventoryVars
<1>1. CASE CommitStock(k) \/ ReleaseStock(k)
  <2>1. k \in DOMAIN request
    BY <1>1 DEF CommitStock, ReleaseStock, TypeOK, CallsOK, ConfirmStates
  <2>2. request[k].order \in ReservationIds
    BY <2>1, CallsAssumption DEF TypeOK, CallsOK
  <2> QED BY <1>1, <2>2 DEF CommitStock, ReleaseStock, InventoryNext
<1> QED BY <1>1 DEF ConfirmStep, AuditRefusal, VerifyPayment, CapturePayment, AuditVerified,
           AuditCommitted, MarkConfirmed, AuditConfirmed, MarkFailed, AuditReleased,
           AuditRejected

LEMMA InventoryStep ==
  TypeOK /\ [Next]_merchantVars => [InventoryNext]_inventoryVars
<1> SUFFICES ASSUME TypeOK, [Next]_merchantVars
             PROVE  InventoryNext \/ UNCHANGED inventoryVars
  OBVIOUS
<1>1. CASE \E c \in CreateCalls : Validate(c) \/ CreateStep(c)
  BY <1>1, CreateUsesInventory DEF Validate, ValidateAs
<1>2. CASE \E k \in ConfirmCalls : LookUpOrder(k) \/ RefuseOrder(k) \/ ConfirmStep(k)
  BY <1>2, ConfirmUsesInventory DEF LookUpOrder, RefuseOrder
<1>3. CASE \E o \in CreateCalls, y \in PaymentIds, amount \in Amounts,
             status \in PaymentStatus : Pay(o, y, amount, status)
  BY <1>3 DEF Pay
<1>4. CASE Restart
  BY <1>4 DEF Restart, InventoryNext
<1>5. CASE \E o \in CreateCalls, y \in PaymentIds, notice \in Notices : Webhook(o, y, notice)
  BY <1>5 DEF Webhook
<1>6. CASE UNCHANGED merchantVars
  BY <1>6 DEF merchantVars
<1> QED BY <1>1, <1>2, <1>3, <1>4, <1>5, <1>6 DEF Next

\* However the handlers of any number of calls interleave, fail and are cut
\* off, each of their steps is one operation of the inventory or none.
THEOREM MerchantUsesInventory == Spec => UsesInventory
<1>1. Init => InventoryInit BY DEF Init
<1>2. TypeOK /\ [Next]_merchantVars => [InventoryNext]_inventoryVars BY InventoryStep
<1> QED BY <1>1, <1>2, MerchantTypes, PTL DEF Spec, UsesInventory, InventorySpec

\* So no interleaving of handlers oversells a product or loses a unit.
THEOREM MerchantNeverOversells == Spec => [](NoOversell /\ StockConserved)
BY MerchantUsesInventory, NothingIsOversold, NoUnitIsLost, PTL DEF UsesInventory

-----------------------------------------------------------------------------
(* A mandate is spent once *)

\* Transaction c got past the nonce check.
Spent(c) == pc[c] = "validated" \/ Audited(c, "MANDATE_VALIDATED")

\* The nonce of a spent mandate stays in the store, and no two transactions
\* spent the same one.
MandateInv ==
  /\ \A c \in CreateCalls : Spent(c) => pc[c] # "idle" /\ request[c].mandate \in nonces
  /\ \A c, d \in CreateCalls :
       Spent(c) /\ Spent(d) /\ request[c].mandate = request[d].mandate => c = d

LEMMA MandateInvInit == Init => MandateInv
BY CallsAssumption DEF Init, MandateInv, Spent, Audited, Calls

\* Any step under which no transaction becomes spent, none is forgotten and
\* requests and nonces stay.
LEMMA MandateFrame ==
  ASSUME MandateInv, nonces \subseteq nonces', UNCHANGED request,
         \A c \in CreateCalls : Spent(c)' => Spent(c),
         \A c \in CreateCalls : pc[c] # "idle" => pc'[c] # "idle"
  PROVE  MandateInv'
BY DEF MandateInv

\* An event in a trail spends no mandate unless it says so.
LEMMA EventSpends ==
  ASSUME TypeOK, NEW t \in CreateCalls, NEW event,
         trail' = trail \/ trail' = [trail EXCEPT ![t] = Append(trail[t], event)],
         event = "MANDATE_VALIDATED" => Spent(t)
  PROVE  \A x \in CreateCalls : Audited(x, "MANDATE_VALIDATED")' => Spent(x)
<1> SUFFICES ASSUME NEW x \in CreateCalls, Audited(x, "MANDATE_VALIDATED")'
             PROVE  Spent(x)
  OBVIOUS
<1>1. trail[t] \in Seq(Events) /\ DOMAIN trail = CreateCalls
  BY DEF TypeOK, StoresOK
<1>2. CASE trail'[x] = trail[x]
  BY <1>2 DEF Spent, Audited
<1>3. CASE x = t /\ trail'[x] = Append(trail[t], event)
  <2>1. PICK i \in DOMAIN Append(trail[t], event) :
          Append(trail[t], event)[i] = "MANDATE_VALIDATED"
    BY <1>3 DEF Audited
  <2>2. (i \in DOMAIN trail[t] /\ trail[t][i] = "MANDATE_VALIDATED")
           \/ event = "MANDATE_VALIDATED"
    BY <1>1, <2>1
  <2> QED BY <1>3, <2>2 DEF Spent, Audited
<1> QED BY <1>1, <1>2, <1>3

LEMMA AuditSpends ==
  ASSUME TypeOK, NEW t \in CreateCalls, NEW event, NEW c \in Calls,
         NEW s, NEW e, s \notin {"validated", "idle"}, e \notin {"validated", "idle"},
         Audit(c, t, event, s, e), event = "MANDATE_VALIDATED" => Spent(t)
  PROVE  /\ \A x \in CreateCalls : Spent(x)' => Spent(x)
         /\ \A x \in CreateCalls : pc[x] # "idle" => pc'[x] # "idle"
<1>1. pc' = [pc EXCEPT ![c] = s] \/ pc' = [pc EXCEPT ![c] = e]
  BY DEF Audit, Goto
<1>2. DOMAIN pc = Calls /\ CreateCalls \subseteq Calls
  BY DEF TypeOK, CallsOK, Calls
<1>a. trail' = trail \/ trail' = [trail EXCEPT ![t] = Append(trail[t], event)]
  BY DEF Audit
<1>3. \A x \in CreateCalls : Audited(x, "MANDATE_VALIDATED")' => Spent(x)
  BY <1>a, EventSpends
<1>4. \A x \in CreateCalls : pc'[x] = "validated" => pc[x] = "validated"
  BY <1>1, <1>2
<1>5. \A x \in CreateCalls : pc[x] # "idle" => pc'[x] # "idle"
  BY <1>1, <1>2
<1> QED BY <1>3, <1>4, <1>5 DEF Spent

LEMMA QuietStep ==
  ASSUME TypeOK, UNCHANGED trail,
         \A c \in CreateCalls : pc'[c] = "validated" => pc[c] = "validated"
  PROVE  \A c \in CreateCalls : Spent(c)' => Spent(c)
BY DEF Spent, Audited

LEMMA CreateStepSpends ==
  ASSUME TypeOK, MandateInv, NEW c \in CreateCalls, CreateStep(c)
  PROVE  MandateInv'
<1>0. nonces' = nonces /\ request' = request
  BY DEF CreateStep, AuditValidated, CheckItems, ReserveStock, AuditReserved, PlaceOrder,
         AuditOrdered, UndoReservation, AuditUndone, AuditFailure, OtherThanInventory
<1>1. c \in Calls /\ DOMAIN pc = Calls /\ CreateCalls \subseteq Calls
  BY DEF Calls, TypeOK, CallsOK
<1>2. CASE AuditValidated(c)
  <2>1. Spent(c) BY <1>2 DEF AuditValidated, Spent
  <2> QED BY <1>0, <1>1, <1>2, <2>1, AuditSpends, MandateFrame DEF AuditValidated
<1>3. CASE AuditReserved(c)
  BY <1>0, <1>1, <1>3, AuditSpends, MandateFrame DEF AuditReserved
<1>4. CASE AuditOrdered(c)
  BY <1>0, <1>1, <1>4, AuditSpends, MandateFrame DEF AuditOrdered
<1>5. CASE AuditUndone(c)
  BY <1>0, <1>1, <1>5, AuditSpends, MandateFrame DEF AuditUndone
<1>6. CASE AuditFailure(c)
  BY <1>0, <1>1, <1>6, AuditSpends, MandateFrame DEF AuditFailure
<1>7. CASE CheckItems(c) \/ ReserveStock(c) \/ PlaceOrder(c) \/ UndoReservation(c)
  <2>1. UNCHANGED trail
    BY <1>7 DEF CheckItems, ReserveStock, PlaceOrder, UndoReservation
  <2>2. \E s : s \notin {"validated", "idle"} /\ pc' = [pc EXCEPT ![c] = s]
    BY <1>7 DEF CheckItems, ReserveStock, PlaceOrder, UndoReservation, Goto
  <2>3. /\ \A x \in CreateCalls : pc'[x] = "validated" => pc[x] = "validated"
        /\ \A x \in CreateCalls : pc[x] # "idle" => pc'[x] # "idle"
    BY <1>1, <2>2
  <2> QED BY <1>0, <2>1, <2>3, QuietStep, MandateFrame
<1> QED BY <1>2, <1>3, <1>4, <1>5, <1>6, <1>7 DEF CreateStep

LEMMA ConfirmStepSpends ==
  ASSUME TypeOK, MandateInv, NEW k \in ConfirmCalls, ConfirmStep(k)
  PROVE  MandateInv'
<1>0. nonces' = nonces /\ request' = request
  BY DEF ConfirmStep, AuditRefusal, VerifyPayment, CapturePayment, AuditVerified, CommitStock,
         AuditCommitted, MarkConfirmed, AuditConfirmed, ReleaseStock, MarkFailed,
         AuditReleased, AuditRejected, OtherThanInventory
<1>1. k \in Calls /\ k \notin CreateCalls
  BY CallsAssumption DEF Calls
<1>a. \E s \in ConfirmStates \cup Ended : pc' = [pc EXCEPT ![k] = s]
  BY DEF ConfirmStep, AuditRefusal, VerifyPayment, CapturePayment, AuditVerified, CommitStock,
         AuditCommitted, MarkConfirmed, AuditConfirmed, ReleaseStock, MarkFailed,
         AuditReleased, AuditRejected, Audit, Goto, Verdict, ConfirmStates, Ended
<1>2. \A x \in CreateCalls : pc'[x] = pc[x]
  BY <1>1, <1>a DEF TypeOK, CallsOK
<1>3. ASSUME NEW event \in Events \ {"MANDATE_VALIDATED"}, NEW s, NEW e,
             s \notin {"validated", "idle"}, e \notin {"validated", "idle"},
             Audit(k, request[k].order, event, s, e), request[k].order \in CreateCalls
      PROVE  MandateInv'
  BY <1>0, <1>1, <1>3, AuditSpends, MandateFrame
<1>4. CASE UNCHANGED trail
  BY <1>0, <1>2, <1>4, QuietStep, MandateFrame
<1>5. ASSUME NEW t \in CreateCalls, Audit(k, t, "PAYMENT_REJECTED", "rejected", "raised")
      PROVE  MandateInv'
  BY <1>0, <1>1, <1>5, AuditSpends, MandateFrame
<1>6. CASE AuditVerified(k) \/ AuditCommitted(k) \/ AuditConfirmed(k)
           \/ AuditReleased(k) \/ AuditRejected(k)
  <2>1. request[k].order \in CreateCalls
    BY <1>6 DEF AuditVerified, AuditCommitted, AuditConfirmed, AuditReleased, AuditRejected,
                TypeOK, CallsOK, ConfirmStates
  <2> QED BY <1>3, <1>6, <2>1
          DEF AuditVerified, AuditCommitted, AuditConfirmed, AuditReleased, AuditRejected,
              Events
<1> QED BY <1>4, <1>5, <1>6 DEF ConfirmStep, AuditRefusal, VerifyPayment, CapturePayment,
           CommitStock, MarkConfirmed, ReleaseStock, MarkFailed

LEMMA ValidateSpends ==
  ASSUME TypeOK, MandateInv, NEW c \in CreateCalls, Validate(c)
  PROVE  MandateInv'
<1>1. PICK m \in Mandates, items \in Baskets, genuine \in BOOLEAN, ownBuyer \in BOOLEAN :
        /\ Begin(c, [mandate |-> m, items |-> items],
                 IF Accepts(m, genuine) /\ ownBuyer THEN "validated" ELSE "failing")
        /\ nonces' = IF Accepts(m, genuine) THEN nonces \cup {m} ELSE nonces
  BY DEF Validate, ValidateAs
<1>2. pc[c] = "idle" /\ UNCHANGED trail /\ c \in Calls /\ DOMAIN pc = Calls
  BY DEF Validate, ValidateAs, MayBegin, Calls, TypeOK, CallsOK
<1>3. ~ Spent(c) BY <1>2 DEF MandateInv
<1>4. ASSUME NEW d \in CreateCalls, d # c
      PROVE  Spent(d)' => /\ Spent(d) /\ d \in DOMAIN request
                          /\ request'[d] = request[d]
                          /\ pc'[d] = pc[d]
  <2>1. pc'[d] = pc[d]
    BY <1>1, <1>2, <1>4 DEF Begin, Goto, Calls
  <2>2. Spent(d)' => Spent(d)
    BY <1>2, <2>1 DEF Spent, Audited
  <2>3. Spent(d) => d \in DOMAIN request
    BY DEF MandateInv, TypeOK, CallsOK
  <2> QED BY <1>1, <1>4, <2>1, <2>2, <2>3 DEF Begin
<1>5. request'[c].mandate = m
  BY <1>1 DEF Begin
<1>6. nonces \subseteq nonces' BY <1>1
<1>7. Spent(c)' => m \notin nonces /\ m \in nonces' /\ pc'[c] # "idle"
  <2>1. ~ Audited(c, "MANDATE_VALIDATED")' BY <1>2, <1>3 DEF Spent, Audited
  <2>2. pc'[c] = IF Accepts(m, genuine) /\ ownBuyer THEN "validated" ELSE "failing"
    BY <1>1, <1>2 DEF Begin, Goto
  <2> QED BY <1>1, <2>1, <2>2 DEF Spent, Accepts
<1>8. \A d \in CreateCalls : Spent(d)' => pc'[d] # "idle" /\ request'[d].mandate \in nonces'
  BY <1>4, <1>5, <1>6, <1>7 DEF MandateInv
<1>9. \A d \in CreateCalls \ {c} : Spent(d)' => request'[d].mandate \in nonces
  BY <1>4 DEF MandateInv
<1>10. ASSUME NEW d \in CreateCalls, NEW e \in CreateCalls, Spent(d)', Spent(e)',
              request'[d].mandate = request'[e].mandate
       PROVE  d = e
  BY <1>4, <1>5, <1>7, <1>9, <1>10 DEF MandateInv
<1> QED BY <1>8, <1>10 DEF MandateInv

LEMMA MandateInvStep ==
  ASSUME NoncesDurable
  PROVE  TypeOK /\ MandateInv /\ [Next]_merchantVars => MandateInv'
<1> SUFFICES ASSUME TypeOK, MandateInv, [Next]_merchantVars PROVE MandateInv'
  OBVIOUS
<1>1. ASSUME NEW c \in CreateCalls, Validate(c) PROVE MandateInv'
  BY <1>1, ValidateSpends
<1>2. ASSUME NEW c \in CreateCalls, CreateStep(c) PROVE MandateInv'
  BY <1>2, CreateStepSpends
<1>3. ASSUME NEW k \in ConfirmCalls, LookUpOrder(k) \/ RefuseOrder(k) PROVE MandateInv'
  <2>1. k \notin CreateCalls /\ CreateCalls \subseteq Calls
    BY CallsAssumption DEF Calls
  <2>2. \E s : pc' = [pc EXCEPT ![k] = s]
    BY <1>3 DEF LookUpOrder, RefuseOrder, Begin, Goto
  <2>3. \A c \in CreateCalls : pc'[c] = pc[c]
    BY <2>1, <2>2 DEF TypeOK, CallsOK
  <2>4. \A c \in CreateCalls : Spent(c)' => Spent(c)
    BY <1>3, <2>3, QuietStep DEF LookUpOrder, RefuseOrder
  <2>5. \A c \in CreateCalls : Spent(c) => c \in DOMAIN request
    BY DEF MandateInv, TypeOK, CallsOK
  <2>6. \A c \in DOMAIN request \cap CreateCalls : request'[c] = request[c]
    BY <1>3, <2>1 DEF LookUpOrder, RefuseOrder, Begin, OtherThanInventory
  <2>7. nonces' = nonces
    BY <1>3 DEF LookUpOrder, RefuseOrder, OtherThanInventory
  <2> QED BY <2>3, <2>4, <2>5, <2>6, <2>7 DEF MandateInv
<1>4. ASSUME NEW k \in ConfirmCalls, ConfirmStep(k) PROVE MandateInv'
  BY <1>4, ConfirmStepSpends
<1>5. ASSUME NEW o \in CreateCalls, NEW y \in PaymentIds, NEW amount \in Amounts,
             NEW status \in PaymentStatus, Pay(o, y, amount, status)
      PROVE  MandateInv'
  BY <1>5, QuietStep, MandateFrame DEF Pay
<1>6. ASSUME Restart PROVE MandateInv'
  <2>1. \A c \in CreateCalls : pc'[c] = IF Running(c) THEN "lost" ELSE pc[c]
    BY <1>6 DEF Restart, Calls
  <2>2. /\ \A c \in CreateCalls : pc'[c] = "validated" => pc[c] = "validated"
        /\ \A c \in CreateCalls : pc[c] # "idle" => pc'[c] # "idle"
    BY <2>1 DEF Running
  <2> QED BY <1>6, <2>2, QuietStep, MandateFrame DEF Restart
<1>7. ASSUME NEW o \in CreateCalls, NEW y \in PaymentIds, NEW notice \in Notices,
             Webhook(o, y, notice)
      PROVE  MandateInv'
  <2>1. UNCHANGED <<pc, request, nonces>> BY <1>7 DEF Webhook, OtherThanInventory
  <2>2. o \in CreateCalls /\ (notice = "MANDATE_VALIDATED" => Spent(o))
    BY <1>7 DEF Notices
  <2>3. trail' = [trail EXCEPT ![o] = Append(trail[o], notice)]
    BY <1>7 DEF Webhook
  <2>5. \A c \in CreateCalls : Audited(c, "MANDATE_VALIDATED")' => Spent(c)
    BY TypeOK, <2>2, <2>3, EventSpends
  <2>4. \A c \in CreateCalls : Spent(c)' => Spent(c)
    BY <2>1, <2>5 DEF Spent
  <2> QED BY <2>1, <2>4, MandateFrame
<1>8. ASSUME UNCHANGED merchantVars PROVE MandateInv'
  BY <1>8, QuietStep, MandateFrame DEF merchantVars
<1> QED BY <1>1, <1>2, <1>3, <1>4, <1>5, <1>6, <1>7, <1>8 DEF Next

\* With a nonce store that outlives the process, no two transactions ever
\* spend the same mandate, however calls interleave and fail.
THEOREM MandateIsSpentOnce ==
  ASSUME NoncesDurable
  PROVE  Spec => []MandateSpentOnce
<1>1. TypeOK /\ MandateInv /\ [Next]_merchantVars => MandateInv' BY MandateInvStep
<1>2. MandateInv => MandateSpentOnce BY DEF MandateInv, MandateSpentOnce, Spent
<1> QED BY <1>1, <1>2, MandateInvInit, MerchantTypes, PTL DEF Spec
=============================================================================
