# Verification of the agentic commerce system

TLA+ modules, TLC runs and TLAPS proofs for the two-agent shop in this
repository: a buyer agent turns a request into a bounded spending mandate,
selects a product and orders it over A2A messages; a merchant agent checks the
mandate, reserves stock, creates a payment order, verifies the payment, commits
the stock, and records every step in a hash-chained ledger.

All line numbers refer to the source at this commit. The modules are about
*control*: who may act when, what fails half way, what is lost, repeated or
forgotten. Names, texts, embeddings and signatures are abstract values.

## 1. The system and its parts

| Component | State it keeps | Operations | Hard behaviour |
|---|---|---|---|
| `inventory_service` | reservations (in memory), flags `committed`, `released` | `reserve`, `commit`, `release`, `check`, `require` | concurrent reservations, repeated commit or release |
| `catalog_service` | products and stock counts (in memory, seeded from a file) | `search`, `build_upsell_offer`, `adjust_inventory` | the clamp at zero; stock that others hold |
| `ap2` | consumed nonces (SQLite or memory) | `create_mandate`, `validate`, `authorize`, `enforce` | replay, restart, limits that two agents compute |
| `razorpay_service` | the gateway's orders and payments | `create_order`, `verify_payment` with capture, `simulate_payment` | a capture whose answer is lost |
| `merchant_core` | `_orders` (in memory) | `create_order`, `confirm_payment`, `handle_webhook`, `quote` | handlers that interleave, failures between any two steps, restart |
| merchant endpoints | none | REST (thread pool), A2A and MCP (event loop) | which handlers may overlap |
| `ledger` | rows of one table per chain (SQLite or DynamoDB), a lock per object | `append`, `verify_integrity`, `read_all`, `read_by_transaction` | several processes on one chain, stale heads, writes whose answer is lost, changes behind its back |
| `buyer_core` | one purchase in progress | `purchase_stream`, `purchase` | model answers, its own failures, an abandoned stream |
| `a2a_client` | a pooled HTTP client | `send`, `_post` with retries, `simulate_payment` | messages posted twice, answers that come late or never |
| buyer endpoints | none | `/purchase`, `/purchase/stream` | the reader goes away |
| `embedding_service`, `bedrock_service` | vectors in memory and in one JSON file | `embed_documents`, `embed_query`, the file cache, `_call` with retries | two processes on one file, a crash in the middle of a save, a model that fails or answers one vector short |
| MCP tools, UCP, completion models, configuration | none | reads | none that changes the state above |

How they interact: the buyer sends A2A messages to the merchant, one at a time
per purchase; the merchant calls inventory, mandates, gateway and ledger inside
a handler; the gateway calls back with webhooks; both agents append to the
ledger, each to a chain of its own. The merchant's REST handlers are plain
functions, so the framework runs them in parallel threads; its A2A and MCP
handlers are coroutines that never await, so they run one at a time.

What makes each component correct is stated in section 4, the hazards the
properties were chosen for are listed in `PROJECT.json`.

## 2. The modules

```
StockPool <--implements-- Inventory <--EXTENDS-- Merchant <--EXTENDS-- Purchase
                              ^---EXTENDS-- Basket
Books <--implements-- Merchant        Deal <--implements-- Purchase
AppendOnlyLog <--implements-- Ledger <--EXTENDS-- LedgerReads
EmbeddingCache

InventoryProofs <-- MerchantProofs <-- ConfirmationProofs <-- TrailProofs <-- PurchaseProofs
BasketProofs, LedgerProofs, EmbeddingProofs
MCInventory, MCMerchant, MCPurchase, MCBasket, MCLedger, MCLedgerTail, MCEmbedding
```

**Inventory** models `inventory_service.py` and the stock counts of the
catalogue. `reservations` is `_reservations`; the two flags of a `Reservation`
are the sets `committed` and `released`; `stock` is `Product.inventory`.
Every method runs under one `RLock`, so it is one action. A method that raises
changes nothing; when it raises is an operator (`CanReserve`, `CommitRaises`)
its callers branch on. `Reseed` is a new process.

**StockPool** is the abstract promise: each unit is free, held by one booking or
sold to one booking. `ImplementsPool` maps `free` to what `available()` reports
and the flags to phases.

**Merchant** models `create_order` and `confirm_payment` as running calls with a
program counter. A step of a call ends at each access to shared state: a nonce,
an inventory method, an entry of `_orders`, the gateway, an audit event. Every
`_audit()` may raise `LedgerError` where `AuditMayFail` says so, with or without
the event having been recorded, and `onError` says where the code goes then: into
the except clause (`create_order`) or out of the handler (`confirm_payment`
outside its try block). `OnEventLoop` names the calls that come over A2A and
exclude one another. `Pay` is the buyer at the gateway, `Webhook` is
`handle_webhook`, `Restart` loses what is in memory. `trail` is what the ledger
records per transaction. The code makes a fresh id for each reservation and each order and takes
that of the transaction from the client; the call that makes the order stands for all
three. Whoever pays or confirms must have learnt of the order, and what tells of it is its
ORDER_CREATED event (`Announced`): also of one that was recorded although its writer got an
error, so that an order whose stock was given back at once can be paid and confirmed.

**Books** is the abstract promise of the merchant, in terms of what outlives its
process: a transaction is granted under a mandate of its own (MANDATE_VALIDATED
in its trail), is then paid in full (the gateway's payments), and its goods are
then sold (INVENTORY_COMMITTED). Nothing on the books is taken back.

**Basket** models what the buyer decides before it orders: reading the request
(`Interpret`), search and selection, quote and add-on, its own authorization,
and the merchant's checks. Whatever a language model answers is an arbitrary
choice; the clamps and gates around it are the code. Other customers use the
inventory at the same time. Budgets are in tenths of a minor unit, so that
`ToMinor` can round them as `to_minor()` does.

**Purchase** models a purchase from its first call to its outcome. Each call of
the merchant is one attempt to post a message (`Post`); the buyer may stop
waiting at any time and post again, the attempt may be lost, or arrive
(`DeliverOrder`, `DeliverConfirmation`) when nobody waits for it any more.
`TurnedAway` and the second half of `Refused` are the A2A handler's own audit
events failing before and after the merchant's work.
`SimulatePayment` has one attempt and may have taken effect when it fails.
`Complete` and `Fail` are the final audit events of the buyer, `Abandon` the
closing of the generator at a `yield`.

**Deal** is the abstract promise of both agents to the user: charged at most once,
then delivered, then reported completed. A deal may stop after any of these; that
it does not always go on is the subject of `failed_purchase`.

**Ledger** models one chain of `AuditLedger`: several objects (processes) with a
lock each, a table whose key is the sequence number, conditional writes, heads
read from a replica, lost answers, and changes to the table by somebody else.
SHA-256 is taken as injective: a hash is the list of what was hashed.
**AppendOnlyLog** is its abstract promise, and what `Audit` of module Merchant takes
for granted: an event whose writer was answered is in the log, one whose writer
got an error is there at once or never. A request that DynamoDB executes only after
its caller has given up on it is left out of both.

**LedgerReads** adds an audit, GET `/ledger/verify`, that runs while others append:
`ReadPage` is one query of `read_all()`, from a replica that may lack the newest
rows; `Answer` is `verify_integrity()` on what was read. A page as large as the
table is the single query of SQLite.

**EmbeddingCache** models `embed_documents()` over the file cache: `Look` finds
what is cached, `CallModel` and `CallFails` are the calls to the model, `Remember`
and `WriteFile` are `set()`, which saves the whole cache after each
vector by truncating the file and writing it anew. Processes start and stop at
any point, and a start may find the file intact and yet fail to read it (`Load`).
`saved` is a history variable: the keys that were saved in full and have met no
mishap since. A vector is named by the model and the text it was computed from.

The name of the code's function for each definition, with its lines, is in the
`map` of `PROJECT.json`. Definitions commented "Mutant of X" are plausible bugs;
no specification uses them. They show that the properties can fail.

## 3. The runs

| Run | Configuration | States | What it shows |
|---|---|---|---|
| `inventory` | 3 reservations, 2 products, 5 baskets | 2,336 | no oversell, no unit lost, outcomes final, implements StockPool |
| `merchant` | 2 orders of 1 unit at a stock of 1, 2 confirmations on the thread pool, payments of right and wrong amount, ledger and gateway failures, webhooks, a restart | 396,006 (under symmetry and a view) | mandates are spent once, no hold without an owner, the trail keeps the order of the pipeline, stock is sold only for a captured payment of the right amount and order, handlers use the inventory as specified, the records implement Books |
| `merchant_loop` | 1 order, 2 confirmations, one handler at a time, ledger and gateway failures, a restart, fairness | 824,233 | a confirmed order stays confirmed; what is taken up for confirmation settles, or is left open by a ledger error at one place |
| `basket` | 3 products, 2 other orders, models answering anything, budgets that round up, down and to nothing | 36,784 | ceilings hold, buyer and merchant agree, shortage has a cause |
| `purchase` | 1 purchase, 2 attempts per message, all failures, a restart, fairness | 151,990 | one order, one charge, completed means confirmed; implements Deal; retries are counted; every purchase ends |
| `ledger` | 4 appends, 2 processes, stale heads, lost writes, 1 changed row, audits in pages of 2 rows | 1,180,661 (under symmetry) | the chain verifies until it is changed and never after, unless the newest rows were deleted or the last was rewritten with its hash; append-only; an audit among appends raises no false alarm and misses no earlier change |
| `embedding` | 2 processes, 2 models, 2 attempts, fairness | 394,611 | searches get vectors of their own text and model, a saved vector is not paid for again until a mishap with the file, searches end |
| `gone_stock` | 1 order, 2 confirmations | violation | a verified payment whose stock was given back |
| `two_outcomes` | 1 order, 2 confirmations in threads | violation | one trail says committed and released |
| `replay_after_restart` | in-memory nonces, a restart | violation | a spent mandate is accepted again |
| `ledger_tail_loss` | newest rows lost, or the last one rewritten with its hash | violation | `verify_integrity()` accepts a truncated or rewritten end of the chain |
| `failed_purchase` | 1 purchase, no other fault than lost answers | violation | a failed purchase keeps its hold |

`CHECK_DEADLOCK FALSE` stands wherever the system really stops: the bounded
number of calls has been made and nothing is left to do. `inventory` never
stops, so deadlock is checked there.

The run `merchant` identifies states by `MCView`, which leaves out how a call that
ended had ended, what a confirm call that ended had asked for, and the events
ORDER_REJECTED, PAYMENT_REJECTED and INVENTORY_RELEASED. No guard and no property of
that run reads any of these (guards ask whether a call is in `Ended`), nor does what a
step writes to the rest of the state depend on them, so two states with one view have
steps to states with one view and satisfy the same properties. The other runs use no
view, and the theorems do not depend on it.

### Bounds, and why they are enough

- *Two orders and two confirmations* are what the interleaving hazards need: two
  transactions compete for stock or a mandate, or two calls confirm one order.
  Two orders of one unit each at a stock of one cannot both be served. A unit costs
  one; a payment of two is one of the wrong amount.
- *Two products, three baskets' worth of overlap* in `inventory`: a basket can be
  short in one product and not in the other, and three reservations let a third
  take what a release gave back.
- *One restart* separates every pair of steps once. The second restart of a call
  would find it already cut off. `MaxNotices` bounds the webhooks per trail;
  one is enough to have a notice before, between and after any two steps.
- *Two attempts* are the client's default (`max_retries`). Prices, budgets and
  quantities in `basket` lie on both sides of every comparison: below one and
  above ten, budgets under and over the platform ceiling, an add-on that fits
  alone but not with the product, one out of scope.
- *Four appends*, two objects: collisions need two, a change below a valid
  prefix and an append after it need four. Pages of two make an audit of four
  rows take two or three queries, and appends fall between them.
- *Two processes, two models* in `embedding`: one process loads what the other
  saved, with the same model and with another; a batch of two texts makes a
  save fall between two vectors, and shares a text with the other batch.

### Fairness

`Fairness` (Merchant) is weak fairness of the steps of a handler that has begun:
a thread or coroutine that was entered runs on, and none of its steps waits for
another party. Nobody is assumed to *send* a request. `BuyerFairness` is weak
fairness of a purchase's steps: the generator is driven by its request handler
and each wait is bounded by the HTTP timeout, after which it posts again or gives
up. No fairness is assumed of deliveries, so any message may be lost. A restart
may cut a merchant's handler off; `HoldsSettle` holds then because the hold is
gone with the process. `LiveEmbeddingSpec` is weak fairness of a search that was
begun: it runs in one coroutine, and every call to the model has a timeout. A
process may still stop at any point, which ends its search.

## 4. The properties

Inventory: `NoOversell` (open reservations never promise more than the shelf
has), `StockConserved` (every unit that left the shelf belongs to exactly one
committed reservation, so the clamp in `adjust_inventory` never hides a loss),
`SettledIsFinal`, `ImplementsPool`.

Merchant: `PaidBeforeCommit`, `ConfirmedIsCommitted`, `MandateSpentOnce`,
`NoOrphanHold` (a hold belongs to a running call or to an order that can still
be confirmed), `TrailFollowsPipeline`, `UsesInventory`, `ConfirmedIsFinal` (on
the event loop only: on the thread pool a late bad confirmation overwrites the
status, see `two_outcomes`), `HoldsSettle` (an order that was taken up for confirmation
ends with its hold sold or given back; the exception is a `LedgerError` at the
PAYMENT_VERIFIED audit, `merchant_core.py:408`, outside the try block, after which the
hold is left on an order that only another confirmation can settle). `KeepsBooks`: the records implement
Books. It says of whole histories, restarts included, what the invariants say of
states: no grant, payment or sale is lost, and each comes in its turn.

Basket: `WithinCeilings`, `ChecksAgree` (no nonce is spent on an order that its
own mandate must refuse), `ShortForACause`.

Purchase: `CompletedIsConfirmed`, `OneOrderPerPurchase`, `KeepsDeal` (buyer and
merchant together implement Deal), `RetriesAreCounted` (no step takes a purchase
back to an earlier stage, or uncounts an attempt of its present stage),
`PurchaseEnds`.

Ledger: `ChainIntact`, `DamageLocated`, `RecordedIsVouched` (both for every change that
some row left in the table speaks against, which the newest rows deleted, or the last one
rewritten with its hash, are not),
`CollisionsAreForeign`, `AppendsOnly` (until somebody changes the table, every step
is a step of AppendOnlyLog or leaves it alone); of an audit `NoFalseAlarm` (no broken chain
is reported that nobody changed, however far apart the replicas are that answer)
and `AuditCovers` (what was changed in that way before it began is found, what was confirmed
before it began has been read; only for pages from up-to-date replicas).

Embeddings: `OwnVectors` (a product is ranked by the vector of its own text under
the model in use, whatever the cache file went through), `NeverPaidTwice` (of what was
saved in full, unless since then another process shared the file, a start could not
read it, or a save was cut off or failed), `SearchEnds`.

Each has a mutant of the code that breaks it in its own run.

### Where the code and the documents disagree

1. `gone_stock`: a confirmation that fails releases the stock, but a later one of
   the same order still verifies and captures; `commit()` then raises outside
   the try block. `README.md:168` claims that this window is closed.
2. `two_outcomes`: two REST confirmations of one order; the failing one records
   INVENTORY_RELEASED although the reservation was committed, and sets the
   status to `failed`.
3. `replay_after_restart`: with the DynamoDB ledger the nonce store is in memory,
   against `README.md:417`.
4. `ledger_tail_loss`: deleting the newest rows, or rewriting the last one together with
   its hash, goes unnoticed, against `ledger.py:8-9` and `README.md:184`.
5. `failed_purchase`: after a lost answer the buyer reports failure and the
   order's hold stays, against `README.md:168`, "released on any failure".

Met while modelling and not given a run:

- A `LedgerError` at the PAYMENT_VERIFIED audit (`merchant_core.py:408`) leaves
  `confirm_payment` with the payment captured, the order `created` and its hold open,
  against `README.md:168`, "released on any failure". `HoldsSettle` states the exception
  (`LeftOpen`). An error at the events after it finds the stock sold already.
- The answer to a capture is lost (`razorpay_service.py:319`): the buyer has paid, the
  merchant gives the stock back. `gone_stock` has this among its causes; a buyer who does
  not confirm again is spoken of by no document and no property.

- A positive budget below half a minor unit rounds to 0 and is then treated as no
  budget (`buyer_core.py:529` against the docstring in 528). `WithinCeilings`
  therefore speaks of budgets from half a unit on; below, only the platform
  ceiling holds.
- A confirmed order is confirmed again with whatever payment id the request
  names (`merchant_core.py:386-387`).
- "Persisted cache so restarts do not re-pay for embeddings"
  (`embedding_service.py:47`) does not hold when two processes share the file,
  each overwriting what the other saved, nor after a crash between truncating
  and writing it, nor when an intact file cannot be read at start (`OSError`, lines 55-57):
  the process then starts with nothing, pays again, and its first save overwrites what was
  there. `NeverPaidTwice` states what is left.
- The DynamoDB ledger reads a trail by transaction id only (`ledger.py:310-318`),
  while the deployment gives both agents one table; the SQLite ledger filters by
  chain. A trail in AWS so mixes the merchant's and the buyer's rows.

## 5. What is proved

All theorems hold for every value of the constants that satisfies the named
assumptions of the modules: any number of products, calls, purchases,
callers and restarts. TLC evaluates those assumptions in the runs.

**InventoryProofs.** `InventoryTypes`, `NothingIsOversold`, `NoUnitIsLost`.
None of them is inductive alone: that `commit()` subtracts
without meeting the clamp needs `NoOversell`, and that needs the outcome sets to
be disjoint and finitely many open reservations. The invariant `InventoryInv`
conjoins these. Sums over reservations are sizes of sets of units, so the
lemmas about them are about cardinalities. `InventorySettledIsFinal` and
`InventoryImplementsPool` (initial states, and each action to its abstract one or
a stutter) follow from it.

**MerchantProofs.** `MerchantTypes`: `TypeOK` is inductive; one lemma for each
kind of call, one step for each action. `MerchantUsesInventory`: in typed states
each step of the merchant is at most one inventory operation, hence
`MerchantNeverOversells` from the theorem about the inventory.
`MandateIsSpentOnce` assumes `NoncesDurable`, which `replay_after_restart` shows
to be necessary; its invariant `MandateInv` adds that the nonce of every
spent mandate is in the store, also between the check and the audit event.

**ConfirmationProofs.** `AnnouncedOnly`: who pays or confirms does so for an announced
order, and the create call of an announced order is past placing it (`AfterOrder`), so
that its request no longer changes. `SoldIsPaid` (`PaidBeforeCommit`): `PaidInv` says that every
call past the verification works on an order paid in full, which stays so because
payments are only added and captured. `ConfirmedIsSold` and `HoldsHaveOwners`
(`NoOrphanHold`): `HoldInv` ties each program counter to the reservation it has
settled, and each open reservation to a call or order that can still settle it.

**TrailProofs.** `TrailIsInOrder` (`TrailFollowsPipeline`): the trail only grows, and
`TrailInv` says what is on record at each program counter. `ConfirmedStaysConfirmed`
(`ConfirmedIsFinal`) assumes that all confirmations come over the event loop, as
the run does and as `two_outcomes` shows to be necessary: `LoopInv` adds that one
of them runs at a time and that none works against a confirmed order.
`MerchantKeepsBooks` (`KeepsBooks`): each step of the merchant is one entry in the
books or none. It rests on the types, on what is on record at each program counter,
on `PaidInv` and on `MandateInv`, and so assumes `NoncesDurable`: a mandate that is
spent again after a restart would be granted twice.

**PurchaseProofs.** `PurchasesImplementMerchant`: each step of the composition is
a step of the merchant or leaves it alone, so every theorem about the merchant
carries over (`PurchasesNeverOversell`, `PurchasesSpendMandatesOnce`).
`PurchaseIsChargedOnce` is the payment half of `OneOrderPerPurchase`: before a
purchase has paid, no payment is for one of its orders, and it never returns to
that stage (`ChargeInv`). `PurchaseTypes`, `CompletedIsSettled`
(`CompletedIsConfirmed`) and `PurchaseGetsOneOrder` follow from what a buyer knows
about the merchant at each stage (`PurchaseInv`) and, for the last, from
`MandateIsSpentOnce`, hence from `NoncesDurable`. `PurchasesKeepDeal` (`KeepsDeal`)
needs no durable nonces: a replayed mandate makes a second order, but the buyer pays
for one. Its invariant `DealInv` conjoins `ChargeInv` and `PurchaseInv`.
`PurchasesKeepBooks`, `PurchasesKeepMerchantInvariants` and `PurchasesUsePool` carry
the merchant's theorems over to messages that are repeated, late or lost.
`PurchaseRetriesRunOut` (`RetriesAreCounted`) is the safety half of `PurchaseEnds`:
the stages left and the attempts left form a measure that no step increases.

**BasketProofs.** `BasketTypes`, `OrdersStayWithinCeilings`, `BuyerAndMerchantAgree` and
`ShortageHasACause` from one invariant, `DecisionInv`, which records for each
stage what the checks passed so far have established about product, add-on and
mandate.

**LedgerProofs.** `ChainStaysIntact`: whatever heads are read, the conditional
write keeps the numbers contiguous, because a link to an older row claims a
number that is taken. `LedgerIsAppendOnly` (`AppendsOnly`): each write is one `Record`
or `Refuse` of AppendOnlyLog, so that what Merchant assumes of an audit write is what
Ledger does. `LedgerTypes`;
`LockKeepsNumbersApart` (`CollisionsAreForeign`) from the exclusion of the lock.
`DamageIsLocated`: `DamageInv` says where the chain is broken for good, at the row
that was changed, at the one after it, or, when a row was deleted, at either,
depending on whether an append from a stale head has taken its number: the row
after still vouches for the event that was there, and no other append has that
event. `VerifiedHoldsRecorded` (`RecordedIsVouched`) follows. `AuditsOnlyRead`: the
ledger with audits implements the ledger without. `NoAuditCriesWolf`
(`NoFalseAlarm`): what an audit has read is always a beginning of the chain.
`AuditsCoverThePast` (`AuditCovers`) is about audits during which the table may be
changed, so that what was read may never have been in the table at one time.
`AuditInv` says that it then holds every event confirmed when the audit began, or a
row that gives the change away; it needs `AtMostOneGap`, that only the number of a
deleted row is ever free below the highest one, for an append that fills the gap while
the audit is past it.
All are about specifications in which rows may be changed, moved or deleted from
the middle; under `LossySpec`, where the newest rows may vanish and the last one may be
rewritten with its hash, the chain still verifies afterwards, as `ledger_tail_loss` shows.

**EmbeddingProofs.** `EmbeddingTypes`, `SearchesUseOwnVectors` (`OwnVectors`) and
`SavedIsNotPaidAgain` (`NeverPaidTwice`): whatever is in a memory or in the file is
under its own key, the vectors received belong to the pending places in order, and
while something is known to be saved (`saved` is not empty), one process at most is up,
it has all of that in its memory, and so does the file unless it is being written.

**Only model-checked.** The liveness properties, `HoldsSettle`, `PurchaseEnds` and
`SearchEnds`: the prover does not handle fairness. The properties of the five
runs that expect a violation are false, and the code is as the runs show. Every
other property of a run is a theorem.

## 6. What is left out

- Signatures, hashes and similarity scores: a mandate is genuine or not, a
  payment signed for its order or not, a search result any of the matches.
- The trails of two create calls that share a transaction id, which clients choose
  (`routes.py:268`, `a2a_handler.py:127`), are kept apart: merged they would hold the same
  events in the same order.
- An order whose ORDER_CREATED event was never recorded stays in `_orders`, and its id is
  told to nobody: the model keeps it, and nobody pays or confirms it.
- Blanks around the category a model answers: `create_mandate()` strips them (`ap2.py:159`),
  the search does not (`catalog_service.py:70`), and so finds no product.
- Currencies and product scopes of mandates: the buyer sets neither, and every
  product is in one currency.
- The buyer's intermediate audit events, whose failure ends a purchase as any
  other failure of `Decide` does, and the merchant's INVENTORY_CHECKED.
- The ranking of search results by cosine similarity (floats) and the local
  provider, a pure function; a cache file that two processes wrote into each
  other and that is nevertheless well-formed JSON.
- `read_by_transaction()` of the ledger: the trail is shown to callers and decides
  nothing. `close()` of the pooled HTTP client: nothing calls it.
- Request parsing, JSON-RPC error codes, MCP and UCP views, prompts, logging,
  redaction, configuration, deployment: no state of their own.

## 7. Plan

Done: every module named in section 2. What could be added:

1. Purchase: two purchases that compete for one unit, and the checkout of an
   order that awaits payment. With the failures of the present run the instance
   is beyond TLC; the theorems already hold for any number of purchases.
2. A proof that Merchant needs no more of an audit write than AppendOnlyLog gives,
   with the ledger's module composed into Merchant; now the two are
   connected by the abstract module only.
