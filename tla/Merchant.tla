------------------------------ MODULE Merchant ------------------------------
(***************************************************************************)
(* MerchantAgent (merchant_agent/agent/merchant_core.py): create_order and *)
(* confirm_payment as running calls.  One call is one request handler.     *)
(* The REST endpoints are plain functions and run on a thread pool, so two *)
(* calls interleave between any two accesses to shared state; the A2A and  *)
(* MCP endpoints are coroutines that never await inside the handler, so    *)
(* the calls in OnEventLoop exclude one another.                           *)
(*                                                                         *)
(* A create call stands for the reservation it makes and the order it      *)
(* registers, whose ids are fresh, and for its part in a transaction.  The *)
(* id of a transaction is the client's: when a client names one for two    *)
(* calls, the ledger merges their parts, each of them in its own order.    *)
(***************************************************************************)
EXTENDS Inventory, Sequences

CONSTANTS CreateCalls,   \* calls of create_order
          ConfirmCalls,  \* calls of confirm_payment
          OnEventLoop,   \* the calls that arrive over A2A or MCP
          Mandates,      \* spending mandates, one nonce each
          PaymentIds,    \* payments the gateway may come to know
          Amounts,       \* amounts a buyer may pay
          Cost,          \* catalogue total of a basket
          AuditMayFail,  \* may the ledger refuse an append (LedgerError)?
          GatewayMayFail,\* may a call to Razorpay fail or lose its answer?
          NoncesDurable, \* SQLite nonce store (TRUE) or the in-memory one
          MaxRestarts,   \* bound on the restarts of the merchant process
          MaxNotices     \* bound on the notices of payment in a trail

ASSUME CallsAssumption ==
  /\ CreateCalls \subseteq ReservationIds
  /\ CreateCalls \cap ConfirmCalls = {}
ASSUME CostAssumption == Cost \in [Baskets -> Nat]
ASSUME BoundsAssumption == MaxRestarts \in Nat /\ MaxNotices \in Nat

VARIABLES pc,        \* where each call stands
          request,   \* what each call that has begun asks for
          nonces,    \* nonces consumed, as the mandates they belong to
          orders,    \* _orders: order -> status
          payments,  \* the gateway's payments: id -> order, amount, status
          trail,     \* audit events on record about each create call, in order
          restarts

merchantVars == <<pc, request, nonces, orders, payments, trail, restarts, inventoryVars>>

Calls == CreateCalls \cup ConfirmCalls

\* "returned": a result; "rejected": an error the audit trail knows of;
\* "raised": an error it does not; "lost": cut off by a restart.
Ended == {"returned", "rejected", "raised", "lost"}

CreateStates ==
  {"validated", "pricing", "reserving", "reserved", "ordering", "ordered",
   "undoing", "undone", "failing"}
ConfirmStates ==
  {"verifying", "capturing", "verified", "committing", "committed", "marking",
   "confirmed", "releasing", "released", "failed", "failing", "refusing"}
Events ==
  {"MANDATE_VALIDATED", "INVENTORY_RESERVED", "ORDER_CREATED", "ORDER_REJECTED",
   "PAYMENT_VERIFIED", "INVENTORY_COMMITTED", "TRANSACTION_CONFIRMED",
   "INVENTORY_RELEASED", "PAYMENT_REJECTED", "A2A_RESPONSE"}
PaymentStatus == {"authorized", "captured", "failed"}

Running(c) == pc[c] \notin Ended \cup {"idle"}

\* The event loop runs one handler at a time.
MayBegin(c) ==
  /\ pc[c] = "idle"
  /\ c \in OnEventLoop => \A d \in OnEventLoop : ~ Running(d)

Goto(c, s) == pc' = [pc EXCEPT ![c] = s]

Begin(c, asked, s) ==
  /\ Goto(c, s)
  /\ request' = [x \in DOMAIN request \cup {c} |-> IF x = c THEN asked ELSE request[x]]

\* _audit(): the event is recorded for transaction t, or LedgerError is raised.
\* A remote ledger may have taken the event whose write it failed to confirm.
Audit(c, t, event, onDone, onError) ==
  LET recorded == [trail EXCEPT ![t] = Append(@, event)]
  IN  \/ Goto(c, onDone) /\ trail' = recorded
      \/ AuditMayFail /\ Goto(c, onError) /\ trail' \in {trail, recorded}

Audited(t, event) == \E i \in DOMAIN trail[t] : trail[t][i] = event

\* Order o is known outside the merchant: the answer names it, and before that
\* the ORDER_CREATED event, which anybody may read.
Announced(o) == Audited(o, "ORDER_CREATED")

Amount(o) == Cost[request[o].items]

OtherThanInventory == <<request, nonces, orders, payments, restarts>>

-----------------------------------------------------------------------------
(* create_order *)

\* Mutant of Accepts: a used nonce is not noticed.
AcceptsReplay(m, genuine) == genuine

\* Signature, expiry and ceiling are in order and the nonce is new.
Accepts(m, genuine) == genuine /\ m \notin nonces

\* validate(consume_nonce=True): an invalid mandate is refused before its
\* nonce is touched, a used nonce is a replay.  A mandate of another buyer is
\* refused after its nonce is gone.
ValidateAs(c, m, items, genuine, ownBuyer) ==
  /\ MayBegin(c)
  /\ Begin(c, [mandate |-> m, items |-> items],
           IF Accepts(m, genuine) /\ ownBuyer THEN "validated" ELSE "failing")
  /\ nonces' = IF Accepts(m, genuine) THEN nonces \cup {m} ELSE nonces
  /\ UNCHANGED <<orders, payments, trail, restarts, inventoryVars>>

Validate(c) ==
  \E m \in Mandates, items \in Baskets, genuine, ownBuyer \in BOOLEAN :
    ValidateAs(c, m, items, genuine, ownBuyer)

AuditValidated(c) ==
  /\ pc[c] = "validated"
  /\ Audit(c, c, "MANDATE_VALIDATED", "pricing", "failing")
  /\ UNCHANGED <<OtherThanInventory, inventoryVars>>

\* _resolve_items, require() per product and enforce(): the items are refused,
\* short of stock or outside the mandate, or pass.  Nothing is held yet.
CheckItems(c) ==
  /\ pc[c] = "pricing"
  /\ \E allowed \in BOOLEAN :
       Goto(c, IF allowed /\ CanReserve(request[c].items) THEN "reserving" ELSE "failing")
  /\ UNCHANGED <<trail, OtherThanInventory, inventoryVars>>

ReserveStock(c) ==
  /\ pc[c] = "reserving"
  /\ \/ Reserve(c, request[c].items) /\ Goto(c, "reserved")
     \/ ~ CanReserve(request[c].items) /\ Goto(c, "failing") /\ UNCHANGED inventoryVars
  /\ UNCHANGED <<trail, OtherThanInventory>>

\* Mutant of AuditReserved: the id of the reservation is noted only after the
\* event, so the except clause does not know it.
AuditReservedFirst(c) ==
  /\ pc[c] = "reserved"
  /\ Audit(c, c, "INVENTORY_RESERVED", "ordering", "failing")
  /\ UNCHANGED <<OtherThanInventory, inventoryVars>>

AuditReserved(c) ==
  /\ pc[c] = "reserved"
  /\ Audit(c, c, "INVENTORY_RESERVED", "ordering", "undoing")
  /\ UNCHANGED <<OtherThanInventory, inventoryVars>>

\* payments.create_order() and the entry in _orders; a total of zero is refused.
PlaceOrder(c) ==
  /\ pc[c] = "ordering"
  /\ \/ /\ Amount(c) > 0
        /\ orders' = [x \in DOMAIN orders \cup {c} |-> IF x = c THEN "created" ELSE orders[x]]
        /\ Goto(c, "ordered")
     \/ /\ GatewayMayFail \/ Amount(c) = 0
        /\ Goto(c, "undoing")
        /\ UNCHANGED orders
  /\ UNCHANGED <<request, nonces, payments, trail, restarts, inventoryVars>>

AuditOrdered(c) ==
  /\ pc[c] = "ordered"
  /\ Audit(c, c, "ORDER_CREATED", "returned", "undoing")
  /\ UNCHANGED <<OtherThanInventory, inventoryVars>>

\* The except clause: what was reserved is released, then the failure is
\* recorded.  An order already registered stays in _orders.
UndoReservation(c) ==
  /\ pc[c] = "undoing"
  /\ Release(c)
  /\ Goto(c, "undone")
  /\ UNCHANGED <<trail, OtherThanInventory>>

AuditUndone(c) ==
  /\ pc[c] = "undone"
  /\ Audit(c, c, "INVENTORY_RELEASED", "failing", "raised")
  /\ UNCHANGED <<OtherThanInventory, inventoryVars>>

AuditFailure(c) ==
  /\ pc[c] = "failing" /\ c \in CreateCalls
  /\ Audit(c, c, "ORDER_REJECTED", "rejected", "raised")
  /\ UNCHANGED <<OtherThanInventory, inventoryVars>>

CreateStep(c) ==
  \/ AuditValidated(c) \/ CheckItems(c) \/ ReserveStock(c) \/ AuditReserved(c)
  \/ PlaceOrder(c) \/ AuditOrdered(c)
  \/ UndoReservation(c) \/ AuditUndone(c) \/ AuditFailure(c)

-----------------------------------------------------------------------------
(* confirm_payment *)

\* Mutant of FirstStep: a confirmed order is verified again.
FirstStepAlways(o) == "verifying"

\* Mutant of FirstStep: any order that was settled is answered from the record.
FirstStepSettled(o) == IF orders[o] = "created" THEN "verifying" ELSE "returned"

\* A confirmed order is answered from the record, without verification.
FirstStep(o) == IF orders[o] = "confirmed" THEN "returned" ELSE "verifying"

\* The client names an order it knows of and some payment id.  An order left
\* behind by a create call that failed after ORDER_CREATED is one of them.
LookUpOrder(k) ==
  /\ MayBegin(k)
  /\ \E o \in DOMAIN orders, y \in PaymentIds :
       /\ Announced(o)
       /\ Begin(k, [order |-> o, payment |-> y], FirstStep(o))
  /\ UNCHANGED <<nonces, orders, payments, trail, restarts, inventoryVars>>

\* An order id this process does not know, or a foreign transaction id.
RefuseOrder(k) ==
  /\ MayBegin(k)
  /\ Goto(k, "refusing")
  /\ UNCHANGED <<trail, OtherThanInventory, inventoryVars>>

\* That failure is recorded under the transaction id of the request, be it the
\* id of a transaction here or of none.
AuditRefusal(k) ==
  /\ pc[k] = "refusing"
  /\ \/ \E t \in CreateCalls : Audit(k, t, "PAYMENT_REJECTED", "rejected", "raised")
     \/ /\ Goto(k, "rejected") \/ (AuditMayFail /\ Goto(k, "raised"))
        /\ UNCHANGED trail
  /\ UNCHANGED <<OtherThanInventory, inventoryVars>>

\* Mutant of Matches: the amount is not compared.
MatchesOrder(y, o) == y \in DOMAIN payments /\ payments[y].order = o

\* The payment exists, is for this order and of its amount.
Matches(y, o) ==
  /\ y \in DOMAIN payments
  /\ payments[y].order = o
  /\ payments[y].amount = Amount(o)

\* verify_payment() up to the status check.  Only the gateway can sign the
\* pair of an order and a payment made for it.
Verdict(o, y, signed, reached) ==
  IF signed /\ reached /\ Matches(y, o)
  THEN CASE payments[y].status = "authorized" -> "capturing"
         [] payments[y].status = "captured"   -> "verified"
         [] OTHER                             -> "releasing"
  ELSE "releasing"

VerifyPayment(k) ==
  /\ pc[k] = "verifying"
  /\ \E signed, reached \in BOOLEAN :
       /\ signed => /\ request[k].payment \in DOMAIN payments
                    /\ payments[request[k].payment].order = request[k].order
       /\ ~ reached => GatewayMayFail
       /\ Goto(k, Verdict(request[k].order, request[k].payment, signed, reached))
  /\ UNCHANGED <<trail, OtherThanInventory, inventoryVars>>

\* An authorized payment is captured first.  The answer may get lost, with or
\* without the capture having taken place.
CapturePayment(k) ==
  /\ pc[k] = "capturing"
  /\ \/ /\ payments' = [payments EXCEPT ![request[k].payment].status = "captured"]
        /\ \/ Goto(k, "verified")
           \/ GatewayMayFail /\ Goto(k, "releasing")
     \/ GatewayMayFail /\ Goto(k, "releasing") /\ UNCHANGED payments
  /\ UNCHANGED <<request, nonces, orders, trail, restarts, inventoryVars>>

\* Mutant of AuditVerified: an error of the ledger is swallowed.
AuditVerifiedOrNot(k) ==
  /\ pc[k] = "verified"
  /\ Audit(k, request[k].order, "PAYMENT_VERIFIED", "committing", "committing")
  /\ UNCHANGED <<OtherThanInventory, inventoryVars>>

AuditVerified(k) ==
  /\ pc[k] = "verified"
  /\ Audit(k, request[k].order, "PAYMENT_VERIFIED", "committing", "raised")
  /\ UNCHANGED <<OtherThanInventory, inventoryVars>>

\* Mutant of CommitStock: an error of commit() is swallowed.
CommitStockOrNot(k) ==
  /\ pc[k] = "committing"
  /\ \/ Commit(request[k].order)
     \/ CommitRaises(request[k].order) /\ UNCHANGED inventoryVars
  /\ Goto(k, "committed")
  /\ UNCHANGED <<trail, OtherThanInventory>>

\* Outside the try block: an error of commit() leaves the handler as it is.
CommitStock(k) ==
  /\ pc[k] = "committing"
  /\ \/ Commit(request[k].order) /\ Goto(k, "committed")
     \/ CommitRaises(request[k].order) /\ Goto(k, "raised") /\ UNCHANGED inventoryVars
  /\ UNCHANGED <<trail, OtherThanInventory>>

AuditCommitted(k) ==
  /\ pc[k] = "committed"
  /\ Audit(k, request[k].order, "INVENTORY_COMMITTED", "marking", "raised")
  /\ UNCHANGED <<OtherThanInventory, inventoryVars>>

MarkConfirmed(k) ==
  /\ pc[k] = "marking"
  /\ orders' = [orders EXCEPT ![request[k].order] = "confirmed"]
  /\ Goto(k, "confirmed")
  /\ UNCHANGED <<request, nonces, payments, trail, restarts, inventoryVars>>

AuditConfirmed(k) ==
  /\ pc[k] = "confirmed"
  /\ Audit(k, request[k].order, "TRANSACTION_CONFIRMED", "returned", "raised")
  /\ UNCHANGED <<OtherThanInventory, inventoryVars>>

\* Mutant of ReleaseStock: the units go back to the shelf as well.
ReleaseToShelf(k) ==
  /\ pc[k] = "releasing"
  /\ stock' = [p \in Products |-> stock[p] + reservations[request[k].order][p]]
  /\ released' = released \cup {request[k].order}
  /\ Goto(k, "released")
  /\ UNCHANGED <<reservations, committed, trail, OtherThanInventory>>

\* Mutant of ReleaseStock: the hold is forgotten.
ForgetRelease(k) ==
  /\ pc[k] = "releasing"
  /\ Goto(k, "released")
  /\ UNCHANGED <<trail, OtherThanInventory, inventoryVars>>

\* The except clause of the verification.
ReleaseStock(k) ==
  /\ pc[k] = "releasing"
  /\ Release(request[k].order)
  /\ Goto(k, "released")
  /\ UNCHANGED <<trail, OtherThanInventory>>

\* Mutant of MarkFailed: a status no other code knows.
MarkCancelled(k) ==
  /\ pc[k] = "released"
  /\ orders' = [orders EXCEPT ![request[k].order] = "cancelled"]
  /\ Goto(k, "failed")
  /\ UNCHANGED <<request, nonces, payments, trail, restarts, inventoryVars>>

MarkFailed(k) ==
  /\ pc[k] = "released"
  /\ orders' = [orders EXCEPT ![request[k].order] = "failed"]
  /\ Goto(k, "failed")
  /\ UNCHANGED <<request, nonces, payments, trail, restarts, inventoryVars>>

AuditReleased(k) ==
  /\ pc[k] = "failed"
  /\ Audit(k, request[k].order, "INVENTORY_RELEASED", "failing", "raised")
  /\ UNCHANGED <<OtherThanInventory, inventoryVars>>

AuditRejected(k) ==
  /\ pc[k] = "failing" /\ k \in ConfirmCalls
  /\ Audit(k, request[k].order, "PAYMENT_REJECTED", "rejected", "raised")
  /\ UNCHANGED <<OtherThanInventory, inventoryVars>>

ConfirmStep(k) ==
  \/ AuditRefusal(k) \/ VerifyPayment(k) \/ CapturePayment(k)
  \/ AuditVerified(k) \/ CommitStock(k) \/ AuditCommitted(k)
  \/ MarkConfirmed(k) \/ AuditConfirmed(k)
  \/ ReleaseStock(k) \/ MarkFailed(k) \/ AuditReleased(k) \/ AuditRejected(k)

-----------------------------------------------------------------------------
(* The buyer at the gateway, and the merchant process *)

\* simulate_payment(), or a checkout at Razorpay, which knows its orders even
\* when the merchant has forgotten them: any amount and outcome.
Pay(o, y, amount, status) ==
  /\ Announced(o)
  /\ y \notin DOMAIN payments
  /\ payments' = [x \in DOMAIN payments \cup {y} |->
                    IF x = y THEN [order |-> o, amount |-> amount, status |-> status]
                    ELSE payments[x]]
  /\ UNCHANGED <<pc, request, nonces, orders, trail, restarts, inventoryVars>>

Notices == {"PAYMENT_VERIFIED", "A2A_RESPONSE"}

\* handle_webhook(): Razorpay reports on a payment, late and repeatedly if need
\* be.  A capture is recorded as PAYMENT_VERIFIED without being verified; what
\* concerns an order unknown here is recorded under an id of its own.
Webhook(o, y, notice) ==
  /\ o \in DOMAIN orders
  /\ y \in DOMAIN payments /\ payments[y].order = o
  /\ notice = "PAYMENT_VERIFIED" => payments[y].status = "captured"
  /\ Cardinality({i \in DOMAIN trail[o] : trail[o][i] \in Notices}) < MaxNotices
  /\ trail' = [trail EXCEPT ![o] = Append(@, notice)]
  /\ UNCHANGED <<pc, OtherThanInventory, inventoryVars>>

\* A new process: orders, reservations and stock were in memory only, the
\* ledger is not, the nonces are if the SQLite store holds them.  Calls in
\* progress are cut off.
Restart ==
  /\ restarts < MaxRestarts
  /\ restarts' = restarts + 1
  /\ Reseed
  /\ orders' = <<>>
  /\ nonces' = IF NoncesDurable THEN nonces ELSE {}
  /\ pc' = [c \in Calls |-> IF Running(c) THEN "lost" ELSE pc[c]]
  /\ UNCHANGED <<request, payments, trail>>

-----------------------------------------------------------------------------

Init ==
  /\ InventoryInit
  /\ pc = [c \in Calls |-> "idle"]
  /\ request = <<>>
  /\ nonces = {}
  /\ orders = <<>>
  /\ payments = <<>>
  /\ trail = [c \in CreateCalls |-> <<>>]
  /\ restarts = 0

Next ==
  \/ \E c \in CreateCalls : Validate(c) \/ CreateStep(c)
  \/ \E k \in ConfirmCalls : LookUpOrder(k) \/ RefuseOrder(k) \/ ConfirmStep(k)
  \/ \E o \in CreateCalls, y \in PaymentIds, amount \in Amounts, status \in PaymentStatus :
       Pay(o, y, amount, status)
  \/ \E o \in CreateCalls, y \in PaymentIds, notice \in Notices : Webhook(o, y, notice)
  \/ Restart

Spec == Init /\ [][Next]_merchantVars

\* A handler that was entered runs on; nobody has to send a request.
Fairness ==
  /\ \A c \in CreateCalls : WF_merchantVars(CreateStep(c))
  /\ \A k \in ConfirmCalls : WF_merchantVars(ConfirmStep(k))

LiveSpec == Spec /\ Fairness

-----------------------------------------------------------------------------
(* Properties *)

\* Calls stand where their kind of call can stand, and whoever is past its
\* first step has a request.
CallsOK ==
  /\ pc \in [Calls -> CreateStates \cup ConfirmStates \cup Ended \cup {"idle"}]
  /\ \A c \in CreateCalls : pc[c] \in CreateStates \cup Ended \cup {"idle"}
  /\ \A c \in CreateCalls : pc[c] # "idle" => c \in DOMAIN request
  /\ \A k \in ConfirmCalls : pc[k] \in ConfirmStates \ {"refusing"} => k \in DOMAIN request
  /\ DOMAIN request \subseteq Calls
  /\ \A c \in CreateCalls \cap DOMAIN request :
       request[c].mandate \in Mandates /\ request[c].items \in Baskets
  /\ \A k \in ConfirmCalls \cap DOMAIN request :
       request[k].order \in CreateCalls /\ request[k].payment \in PaymentIds

\* What the merchant, the gateway and the ledger store.
StoresOK ==
  /\ nonces \subseteq Mandates
  /\ DOMAIN orders \subseteq CreateCalls
  /\ orders \in [DOMAIN orders -> {"created", "confirmed", "failed"}]
  /\ DOMAIN payments \subseteq PaymentIds
  /\ payments \in [DOMAIN payments ->
                     [order : CreateCalls, amount : Amounts, status : PaymentStatus]]
  /\ trail \in [CreateCalls -> Seq(Events)]
  /\ restarts \in 0 .. MaxRestarts

\* Calls, requests, orders and payments are of the shapes the code gives them.
TypeOK == CallsOK /\ StoresOK

\* A mandate pays for one transaction: no two transactions that got past the
\* nonce check spend the same mandate, restarts included (ap2.py 60-122,
\* merchant_core.py 226).
MandateSpentOnce ==
  \A c, d \in CreateCalls :
    /\ Audited(c, "MANDATE_VALIDATED") /\ Audited(d, "MANDATE_VALIDATED")
    /\ request[c].mandate = request[d].mandate
    => c = d

\* Stock is held only for a create call that is still running or for an order
\* that can still be confirmed (merchant_core.py 315-322, 397-399).
NoOrphanHold ==
  \A r \in Open : Running(r) \/ (r \in DOMAIN orders /\ orders[r] = "created")

\* Somebody has paid order o in full.
Paid(o) ==
  \E y \in DOMAIN payments :
    /\ payments[y].order = o
    /\ payments[y].status = "captured"
    /\ payments[y].amount = Amount(o)

\* Stock leaves the shelf only for an order somebody has paid in full
\* (merchant_core.py 389-421, razorpay_service.py 283-330).
PaidBeforeCommit == \A o \in committed : Paid(o)

\* The steps of the pipeline, each with the one it must follow.
Pipeline ==
  {<<"MANDATE_VALIDATED", "INVENTORY_RESERVED">>,
   <<"INVENTORY_RESERVED", "ORDER_CREATED">>,
   <<"ORDER_CREATED", "PAYMENT_VERIFIED">>,
   <<"PAYMENT_VERIFIED", "INVENTORY_COMMITTED">>,
   <<"INVENTORY_COMMITTED", "TRANSACTION_CONFIRMED">>}

\* In the audit trail of a transaction no step appears before the step it
\* depends on, even when several calls confirm one order and ledger writes
\* fail (merchant_core.py 3-10).
TrailFollowsPipeline ==
  \A c \in CreateCalls : \A i \in DOMAIN trail[c] : \A step \in Pipeline :
    trail[c][i] = step[2] => \E j \in 1 .. i - 1 : trail[c][j] = step[1]

\* An order counts as confirmed only when its stock is committed
\* (merchant_core.py 421-428).
ConfirmedIsCommitted ==
  \A o \in DOMAIN orders : orders[o] = "confirmed" => o \in committed

\* Every step of the merchant is at most one operation of the inventory, so
\* its guarantees (no oversell, conservation of stock) carry over.
UsesInventory == InventorySpec

\* The books of the trade: what the trails and the gateway have on record.
Kept == INSTANCE Books WITH
  Transactions <- CreateCalls,
  granted <- [c \in {d \in CreateCalls : Audited(d, "MANDATE_VALIDATED")} |-> request[c].mandate],
  paid <- {o \in CreateCalls : Paid(o)},
  sold <- {o \in CreateCalls : Audited(o, "INVENTORY_COMMITTED")}

\* Whatever calls race, ledger writes fail or restarts happen, the records show
\* a mandate spent once, then the payment, then the sale, and lose none of
\* them (merchant_core.py 226, 389-425, ap2.py 60-122).
KeepsBooks == Kept!Spec

\* On the event loop a confirmed order stays confirmed until the process ends:
\* a later call answers from the record (merchant_core.py 386-387, 399, 428).
ConfirmedIsFinal ==
  [][ restarts' = restarts =>
        \A o \in DOMAIN orders : orders[o] = "confirmed" => orders'[o] = "confirmed"
    ]_merchantVars

\* The verification of call k succeeded, but its event was refused by the
\* ledger: the order is left as it was, for a later call to settle.
LeftOpen(k) ==
  /\ AuditMayFail /\ pc[k] = "raised"
  /\ request[k].order \in DOMAIN orders /\ orders[request[k].order] = "created"

\* Once a confirm call has taken up an order, the stock held for it is sold or
\* given back, with one exception: a LedgerError at the PAYMENT_VERIFIED audit,
\* outside the try block, leaves the hold as it was, on an order that can still
\* be confirmed (merchant_core.py 389-428, the exception at 408).
HoldsSettle ==
  \A k \in ConfirmCalls :
    pc[k] = "verifying" ~>
      k \in DOMAIN request /\ (request[k].order \notin Open \/ LeftOpen(k))

-----------------------------------------------------------------------------
(* What the documents say and the code does not keep *)

\* "Stock is checked and reserved before a Razorpay order is created, which
\* closes the 'payment succeeded but stock was gone' window" (README 168,
\* inventory_service.py 3-6): a payment that was verified finds its stock.
VerifiedPaymentHasStock ==
  \A o \in CreateCalls : Audited(o, "PAYMENT_VERIFIED") => o \notin released

\* "A reservation is either committed (payment verified) or released (anything
\* failed)" (inventory_service.py 5-6), and the trail says which.
TrailNamesOneOutcome ==
  \A o \in CreateCalls :
    ~ (Audited(o, "INVENTORY_COMMITTED") /\ Audited(o, "INVENTORY_RELEASED"))
=============================================================================
