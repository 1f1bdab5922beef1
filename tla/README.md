# Shop backend: TLA+ models, checks and proofs

This directory models the parts of the shop backend whose correctness depends on
what happens *between* two statements: online payments, the sweep that finishes
them, the stock they reserve, sales and their cancellation, what customers owe,
sessions in Redis, the bulk import of products and the pages of a list. It holds
TLA+ modules, the TLC configurations that check them on small instances, and
proofs for all instances, checked by TLAPS. `PROJECT.json` maps every definition
to the lines it stands for and lists runs, mutants, findings, hazards and
theorems.

    tlc -workers 2 -config MCRace.cfg MCOnlinePayment     # check one run
    tlapm OnlinePaymentProofs.tla                         # check the proofs

## 1. The system

| Component | State it keeps | Operations | Works with |
|---|---|---|---|
| Online payments (`payment_usecase.go`, `payment_repository.go`, `midtrans_gateway.go`) | `payments` rows: status pending / settling / success / failed / expired, `stock_reserved`, `transaction_id`, frozen items and amounts | charge (QRIS, VA), Midtrans notification, the reconciliation sweep every two minutes, status query; tells the buyer the result by push | products (reserve, restock), sales (creates one per settled payment), Midtrans, push notifications |
| Sales (`transaction_usecase.go`, `transaction_repository.go`) | `transactions` and their details, soft-deleted; one live row per invoice number | sale in cash, by transfer, on credit (hutang), prepaid; cancellation; reports | products, debts, payments |
| Debts (`debt_usecase.go`, `debt_repository.go`) | `debts` (total, remaining, open or closed), `debt_payments` | manual debt, payment with idempotency key, delete | customers, sales |
| Customers | `customers`, soft-deleted | add, update, delete (not with an open debt) | debts, by a shared row lock |
| Products (`product_usecase.go`, `product_repository.go`) | `products`: stock to two decimals, prices, type, SKU (unique among rows that are not deleted) | add, bulk import, update, manual stock change, delete; locked and changed by every sale | sales, payments |
| Bulk import (`product_sheet.go`, `AddBulkProduct`) | none: a file, the SKUs it read, a report | parse, look up the SKUs that exist, insert the rest in one transaction, report | products |
| Pagination (`pagination.go`) | none: the cursor is in the client's hands | one page of products, transactions, debts, customers | every list |
| Transaction retry (`retry.go`) | none | runs a transaction up to three times on serialization failure, deadlock and unique violation | every repository |
| Users and sessions (`user_usecase.go`, `session_repository.go`) | users; in Redis an access key and a refresh key per token pair | register, login, refresh, logout, authentication | Redis, users |
| Device tokens (`fcm_usecase.go`) | `device_tokens` | register, detach, notify and prune | payments, logout |
| The rest | | reports as PDF, rate limiter, handlers, CLI, migrations | |

Concurrency: every HTTP request is a goroutine (fiber in prefork mode: several
processes, so only PostgreSQL and Redis synchronize anything); one goroutine
sweeps. PostgreSQL runs at READ COMMITTED, so two statements of one transaction
may see different commits and only `FOR UPDATE`, `FOR SHARE`, foreign keys and
unique indexes keep requests apart. Redis calls have nothing around them.
Midtrans is called outside transactions; its notifications come late, twice, out
of order or not at all.

What makes it hard, and what correctness means:

* *Payments.* Stock is taken when the charge is made and must be sold or put back
  exactly once, whoever finishes the order. A paid order ends with its sale; a sale
  of an online order is always paid; a finished order stays finished; nothing is
  reserved for ever.
* *Sweep.* Every payment on a list gets its turn although a list is cut at 50; a
  buyer is told the result that stands, once, although the closure that finds it
  may be run again with the variables its first run has set.
* *Sales.* One live sale per invoice; cancelling gives goods (and debt) back once,
  and never the sale of a paid online order.
* *Stock.* It accounts for every sale and reservation that stands, to the cent, in
  every order of sales, failures and cancellations; row locks are taken in an order
  that makes no circle.
* *Debts.* One open debt per customer; the balance is the total less the
  instalments; a payment is recorded once per key and its receipt can be replayed;
  a closed debt stays closed; nobody is deleted with an open debt.
* *Sessions.* A refresh token works once; logout ends what it names; a failed Redis
  call costs a bounded amount of damage.
* *Import.* Its report accounts for every row of the file, once; imports with SKUs
  in common do not block each other.
* *Pages.* A walk through a list neither repeats nor skips what was there all along.

The hazards, each at its line with the properties aimed at it, are in
`PROJECT.json` under `hazards`.

## 2. Modules

| Module | What it is |
|---|---|
| `GoodsReservation` | the abstract promise: goods leave the shelf once per invoice |
| `OnlinePayment` | charge, notification, settlement, sweep, counter sale, cancellation, at the grain of transactions and gateway calls; refines `GoodsReservation` |
| `OnlinePaymentProofs` | its type correctness, inductive invariant and safety theorems |
| `OnlinePaymentRefinement` | that `OnlinePayment` implements `GoodsReservation`, proved, and that its stock adds up |
| `Sweep`, `SweepProofs` | the sweep's two lists and their order, retried closures, what buyers are told |
| `CreditBook` | the abstract promise: what customers owe is a book with one entry per request |
| `DebtLedger`, `DebtLedgerProofs` | debts, sales on credit, instalments, deletes, at the grain of statements and row locks; implements `CreditBook` |
| `Shelf`, `ShelfProofs` | the stock of several products under row locks: lines, rounding, retyping, deadlocks |
| `Sessions`, `SessionsProofs` | logins, refreshes and logouts, one Redis call at a time |
| `Catalogue`, `CatalogueProofs` | products' rows: bulk import, single inserts, and the walk through their pages |
| `FoldLemmas` | what sums over a finite set and folds over a sequence are, for all the proofs |
| `MCOnlinePayment`, `MCSweep`, `MCDebtLedger`, `MCShelf`, `MCSessions`, `MCCatalogue` | their TLC instances |

How they fit together. `OnlinePayment` says what happens to one order, and assumes
that the sweep takes every order up again and again; `Sweep` shows that it does.
`OnlinePayment` takes the goods of an order in one step; `Shelf` shows what that
step is, lock by lock and line by line, and that it can only be made to wait in a
circle by one kind of transaction. `DebtLedger` is the debt half of a sale on
credit, of which `Shelf` and `OnlinePayment` model the goods; a module that needs to
know what customers owe, and not how requests wait for one another, can take
`CreditBook` in its place.

### OnlinePayment

One product, of which invoice `i` takes `Qty[i]`. A variable is a table or a
column (`stock`, `price`, `payment`, `sale`), the gateway's view of each order
(`gateway`), or the locals of the request each worker is in the middle of
(`worker`, with a program counter). One action is one database transaction, one
unlocked read, or one gateway call:

| pc | Action | Code |
|---|---|---|
| idle | `BuildOrder` | `buildOrder`, `resolveOrderID`: price frozen, stock looked at, no lock |
| reserve | `Reserve`, `ReserveRefused` | `CreateWithReservation` |
| charge | `ChargeAccepted`, `ChargeRefused`, `ChargeResponseLost` | `gatewayCharge` |
| fail | `FailPayment` | `failPayment` |
| idle, verify | `HandleNotification`, `CheckStatus`, `CheckStatusFailed` | `HandleNotification`, and the sweep's status call |
| apply | `ApplyAuthoritativeStatus` | the transaction of `applyAuthoritativeStatus` |
| load, lookup, create, mark | `Load`, `SaleFound`, `SaleMissing`, `AddPrepaidTransaction`, `AddUnreservedTransaction`, `MarkSuccess` | `finalizeSettlement`, `ensureTransaction` |
| idle | `SweepSettling`, `SweepStale` | `ReconcileStalePayments`, one payment at a time |
| idle, delete | `AssertDeletable`, `DeleteTransaction` | `assertTransactionDeletable`, then the rest of `DeleteTransaction` |

`Abort` is a crash or a database error at any of these points. `CounterSale` is
one transaction. `BuyerPays` and `GatewayCloses` are the outside world.

Abstracted: several products per order (locked in id order), quantities with
decimals, fees and amounts other than the unit price, users, the fields of the
gateway's answer, push notifications. `SyncSettle` says whether a charge may come
back already settled, `LostResponse` whether an accepted charge may be reported
as an error. A charge whose answer was lost can be settled only synchronously,
because its buyer never got the code (`"unseen"`). A stale payment is modelled by
what its age implies: its request is over and the gateway no longer waits
(`IsStale`).

### DebtLedger

Row locks follow from program counters: a worker at `open` or `save` shares the
customer's lock, one at `save` or `record` holds its debt's. What a statement read
under a lock stays in `worker` until it is written, so a lock that is not taken
shows as a lost update. The unique indexes are the conditions of `InsertDebt` and
`RecordPayment`; when they refuse, `Retry` rolls back and starts again, as
`runTxDB` does. `reply` is the answer a worker gave to its last payment; it is
what the replay properties compare. `DeleteTransaction` is two steps because its
check of the instalments precedes its lock; `DeleteDebt` and `DeleteCustomer` are
one, because what they read cannot change under the locks they hold.

Abstracted: the goods of a sale (they are in `OnlinePayment`), due dates, names,
users, and clients' reasons for sending a request again.

### Sweep

The orders are those the sweep is there for: pending past their expiry, or
settling. `place` is the rank of each payment by `updated_at`; `ListOf` is the
query with its ORDER BY and LIMIT, `ToTheBack` what `tx.Save` and `Touch` do to
the rank. `part` and `todo` are where `ReconcileStalePayments` stands in its two
lists; `worker` is the order each worker is in the middle of, with the two
variables (`final`, `claimed`) that the closures of `UpdateWithLock` set and that
keep their values when `runTxDB` runs the closure again. `fate` is what the
outside will say: the gateway's last word, a word `mapInternalStatus` does not
know, no answer, or a settlement whose sale is refused each time.

| Action | Code |
|---|---|
| `ListPendingFinalization`, `ListStalePending`, `ListFails`, `TakeUp` | `ReconcileStalePayments` and its two queries |
| `CheckStatus`, `HandleNotification` | the gateway call of either caller |
| `Apply`, `ApplyRetries`, `ApplyFails` | the transaction of `applyAuthoritativeStatus`: committed, rolled back and run again, failed for good |
| `Reload`, `EnsureTransaction`, `TouchSale`, `MarkSuccess`, `MarkRetries` | `finalizeSettlement` |
| `Touch` | the touch of a payment the second list failed on |
| `Tell` | `notifyPaymentResult` |

An answer of "pending" is saved too, which is what sends a payment nobody can help
to the back of its list.

### Shelf

A product has a stock, a type, and may be deleted. A transaction is `worker[w]`:
its operation, its lines, the products it still wants to lock (`wants`), the lines
whose foreign keys it still has to check (`shares`). `LockProductsOrdered` takes
one row lock at a time, the smallest id first; `ShareProduct` is the key-share
lock of an INSERT, in the order of the lines. `DecrementStock` and
`IncrementStock` work through the lines as the loops of the repository do, one
`Take` or `Put` a line.
Amounts are in half cents, because the stock is kept in cents and a client may
order any fraction: `RoundStock` may go either way on half a cent, as the float
that stands for it happens to lie. `DeadlockDetected` is PostgreSQL's 40P01 and
the retry that follows.

| Action | Code |
|---|---|
| `Sell`, `CommitSale` | `CreateTransaction` |
| `CreateWithReservation`, `CommitReservation` | `buildOrder`, `CreateWithReservation` |
| `Refused` | the errors of `decrementStock`, and a taken invoice |
| `UpdateWithLock`, `PutBack` | the restock of a failed or expired order |
| `AddPrepaidTransaction`, `CommitPrepaid` | the sale of a settled order, which moves no stock |
| `DeleteTransaction`, `PutBack`, `AlreadyGone` | the cancellation of a sale |
| `UpdateStockWithLock`, `UpdateProductWithLock`, `DeleteProduct` | one product at a time |

### Sessions

`access` and `refresh` are the keys in Redis, named by the token pair they belong
to. Every Redis call is a step; it may succeed, fail, or fail after it took effect
(`PopFails` and its like). `GenerateTokenPair` issues a pair, `Pop`, `LoadUser`,
`DropOld`, `SetAccess`, `SetRefresh` and `Undo` are the calls of `RefreshToken`
and `issueSession`, `DeleteAccess` and `DeleteRefresh` those of `Logout`, and
`Expire` is the time to live. `origin` names the login each pair descends from.

`Logout(w, p, q)` comes with the access token of `p`, which `Auth` found live, and
names the refresh token of `q`, of no pair or of any the client was given: the code
compares the two nowhere. `closed` and `revoked` remember what the successful ones came
with. Likewise either key of a pair may expire first, since the configuration only asks
that both times to live are positive. A refresh key that goes alone, by the clock or by a
logout with the access token of another pair, leaves an access key behind on purpose:
`spared` remembers those, and `DamageBounded` does not count them as left over.

### Catalogue

`product` is the table by id: a row is pending while the transaction that
inserted it is open. `importer` is the request each goroutine is in the middle of.

| Action | Code |
|---|---|
| `AddBulk` with `ParseProducts` | `AddBulkProductShopWithLock`, `ParseProducts`: blank, unreadable, duplicate and invalid rows |
| `CheckExisting` | the lookup before the transaction, and the sort by SKU |
| `Open`, `Insert`, `Commit`, `Retry` | the transaction of `AddBulkProduct`: ON CONFLICT DO NOTHING waits for a row that may yet be rolled back |
| `AddProduct` | `POST /products` |
| `Fails` | a refused row, a taken SKU, an error, a crash |
| `Report` | the answer |
| `DeleteProduct`, `Rename`, `Tick` | other requests, and time |
| `StartWalk`, `GetAllProduct` | one page after another: `keysetPage`, `TrimPage` |

That the number of rows a statement inserted is exact, on a rerun as well, is assumed
of gorm, which is not part of the repository: `AddBulkProduct` passes the same slice to
`CreateInBatches` again, with the ids gorm may have filled in during the attempt that
was rolled back, and takes `RowsAffected` for the count. `ReportAccounts` holds under
this assumption.

`GetAllProduct` takes one page: the first `Limit` of what lies beyond the cursor.
`walk` remembers what the client has been shown, what it is owed, and what it was
shown twice.

## 3. Runs

| Run | Instance | States | Shows |
|---|---|---|---|
| `race` | 1 order, 1 counter invoice, 2 handlers and the sweep, 2 prices, 1 fault, settling inside the charge call | 197 k | the safety properties of a payment, and the refinement, in every interleaving |
| `lost_sync` | 1 order, 1 counter invoice for the same last item, 2 handlers, both gateway options, 2 faults | 16 k | goods are sold only against a settled charge, even when its answer was lost |
| `live` | 2 orders, 1 handler and the sweep, lost responses, 1 fault, fairness | 16 k | charges resolve and settled charges are sold |
| `sweep` | 3 orders, lists of 1, 1 handler, 2 faults, fairness; three sets of fates | 117 k | every payment is taken up again and finished if it can be; buyers are told the truth, once |
| `shelf` | 3 products (1 digital), 2 sales, 1 order, carts in opposite orders with a product twice and half cents, 2 transactions, 1 edit, 1 crash | 768 k | the books balance, no circle without a prepaid sale |
| `catalogue` | 2 SKUs, 3 ids, 3 files, 2 importers, both orders of the walk, pages of 1, 2 times, 1 fault or deletion | 2.2 M | reports add up, imports do not block, walks are complete |
| `accounts` | 3 token pairs, 2 requests, 2 faults | 3.3 M | refresh tokens work once, logouts last whichever tokens they name, damage is bounded |
| `instalments` | 2 requests, 2 debts, 1 sale, 1 key, payments of 1 and 2, 1 crash | 1.2 M | the ledger's own properties; raises and payments do not overwrite each other, in either direction |
| `credit` | 2 requests, 1 sale and manual debts, 2 debts, 1 customer, a blank key, fairness | 218 k | one open debt, customers of open debts kept, every commit an entry of `CreditBook`, every request ends |

Why the bounds are enough.

* The conflicts are between two requests on one row, with the sweep as a third
  party; a second order or sale adds competition for stock or for the open debt;
  one crash can separate any two steps of one request, and what it leaves behind is
  then met by all others. The stock is below what is asked for, so refusals happen.
* `sweep`: with lists of one payment and three payments due, the payments the
  sweep can do nothing for outnumber a list, which is the case that starves; two
  faults let a step fail, and its retry too. The bounds of a list of 50 and of
  three orders play the same part: more payments than a list holds.
* `shelf`: two transactions make a circle if anything does; two of three products
  in either order, one of them twice, are what an unsorted cart is; the digital one
  is sold among others. `MaxEdits` counts corrections, retypings and deletions
  together.
* `catalogue`: two files with the same SKUs in opposite orders are what a circle
  of inserts needs. With pages of one product each of three rows is a page of its
  own, so every boundary between pages is met, and `MaxTime` 2 gives some rows the
  same `created_at`. `MaxTrouble` counts deleted and renamed rows, failed
  statements and crashes together.
* `accounts`: three pairs are a login, its refresh and one more of either, so a
  logout can name two pairs of one login or of two; two faults are what makes "at most one per fault" differ from "at most one".

`MaxTotal`, `MaxFaults`, `MaxEdits`, `MaxTime`, `MaxTrouble`, `Fates` and the
numbers of ids are the only bounds in guards. Deadlock is not checked where every
id may be used and every order finished, since the system then has nothing to do;
`sweep` never stops and is checked for deadlock too. `RequestEnds` says that no
request on the ledger waits for ever.

Every property of a passing run has a mutant: a plausible bug in a mapped
definition that makes TLC find the property violated. Mutants are the operators
whose comment starts with "Mutant".

### Findings

Each is a run that expects a violation of one property, and an entry in
`PROJECT.json` that quotes what the repository says.

| Run | What the code does |
|---|---|
| `collision` | a counter sale under the invoice of a pending order is taken for the order's sale; its reserved goods vanish |
| `cancel_race` | an instalment recorded between the check and the lock of `DeleteTransaction` no longer adds up |
| `replay_refused` | a payment sent again while the first is under way is refused, not replayed |

Other behaviour met while modelling, which no run singles out:

* `failPayment` overwrites a success: the charge settled at once, its response was
  lost, and a notification came first. `lost_sync` shows what still holds then; `race`
  loses no response, so its properties say nothing of such charges, and
  `TerminalIsFinal` is proved for charges whose response is not lost.
  `StockConservedAlways` covers lost responses of charges that did not settle inside
  the call; no run does.
* A replayed receipt carries the total of the debt as it is today, beside the balance of
  the day it was paid and the status that follows from that balance.
* A blank idempotency key is not looked up but must be unique: the second payment
  under one is refused. `credit` runs with it; `PaymentNotGivenUp` is proved for
  keys that are not blank.
* An item that cost nothing at charge time is booked at the price of the day, and a
  sale on credit of 0 opens a debt nobody can settle. `SaleWorthSubtotal` is proved
  for prices above 0 and `ClosedIsPaidOff` for amounts above 0; the runs use such
  values only.
* The sale of a prepaid order locks products in the order of its lines, not of
  their ids, through its foreign keys. `CirclesNeedPrepaid` says that this is the
  only way into a deadlock; PostgreSQL ends it and `runTxDB` tries again.
* A logout that races the refresh of its own token may end only the pair it named,
  and a failed detachment of the device is logged although the logout is answered
  with success.
* The first row of a SKU in a file counts, valid or not; a correct second one is a
  duplicate.

## 4. Fairness

`OnlinePayment`: weak fairness of every worker's next step (a goroutine that is
not aborted runs on); strong fairness of taking up each order in the sweep; weak
fairness of the gateway deciding a charge (Midtrans expires it). Nothing is
assumed of notifications or of `failPayment`'s success. An order whose request
crashed *before* the gateway knew of it is not covered: nothing in the code
resolves it (a hazard in `PROJECT.json`).

`Sweep`: weak fairness of the sweep's own next step (the ticker comes round for
ever) and of every worker's. Nothing is assumed of notifications. `TakenUp` and
`NobodyStarves` follow, and `TakenUp` is what justifies the strong fairness above:
what fails goes to the back of its list, so the rest comes first. It does so
because each failure either touches the payment or saves it; a payment whose touch
fails too, in every round, would keep its place, which takes infinitely many faults
and is what `MaxFaults` leaves out.

`DebtLedger`: strong fairness of every worker's step, because PostgreSQL queues
the requests that wait for a row lock.

## 5. Proofs

Every theorem is about `Spec` of its module, for any values of the constants that
satisfy the module's assumption; the assumptions say no more than that ids are
what they are (absent values are no ids, tables are finite, product ids and SKUs
are ordered as numbers, bounds and amounts are numbers). Where a theorem needs
more, it says so in an ASSUME of its own. Only what a
lock or a list ranges over is assumed finite (`Products`, `Skus` and `Ids`, and the
orders and handlers of the sweep); elsewhere the sums are over the rows that exist,
which the invariant shows to be finitely many.

### Sums and folds

`StockConserved`, `StockAccounted` and `NothingForgiven` speak of sums over a set
and of folds over a list, which the community modules define by recursion over
subsets. `FoldLemmas` proves what those are without the library's induction
theorems, whose operator parameter the provers cannot instantiate: an induction is
stated over a *set*, which is first-order. `CountUp` says that a set of numbers
that has 0 and, with each k below n, k + 1, has all of 0..n; `GrowSubset` that a
set of subsets of a finite set that has s whenever it has each s without one
element has them all. Both rest on a least counterexample. With them a function
that satisfies the recursion exists and is unique (`SumsUpExists`, `SumsUpSame`,
`FoldsLeftExists`), so CHOOSE picks it, and a sum is what the other lemmas say:
0 for the empty set, one term more than the sum without it (`SumWithout`, whichever
element CHOOSE takes first), the same for terms that are the same.

### OnlinePayment

* `TypeCorrect`: `Spec => []TypeOK`. The invariant adds to the types what a
  worker needs at each program counter (`TypeInv`: an order to work on, a sale to
  mark or delete), without which the steps are not typed.
* With `SafeSetting` (no invoice is both an online order and a counter invoice;
  a charge whose answer is lost did not settle inside the call: `collision` shows
  what happens without the first, and `failPayment` overwrites a success without
  the second): `PaidHasSaleAlways`, `SoldOnlyIfPaidAlways`,
  `PaidIsNotDroppedAlways`, `OnlineSaleIsKeptAlways`.
* With the same, and no lost responses: `TerminalIsFinalAlways`.
* With the same, and no price of 0: `SaleWorthSubtotalAlways`.
* With `SafeSetting`: `GoodsKeptAlways`, the refinement of `GoodsReservation`;
  `StockConservedAlways` and `NothingLostAlways`, for any number of orders and sales
  of any quantities.

The inductive invariant is `SafetyInv`. `OrderInv` ties each order's status to the
gateway's word and to its sale: settling and success only after settlement;
success points at its live sale; failed and expired only when the gateway will
not settle any more. `SaleInv` says that live sales of one invoice are one, and
that an online order's sale exists only for a claimed order. `WorkerInv` says what
a worker between two steps may rely on: whoever is about to create a sale works on
a claimed, settled order whose reservation it saw; whoever is about to fail an
order is the one request that charged it; whoever is about to delete a sale does
not hold an online one. That last part is what makes the unlocked check of
`assertTransactionDeletable` safe for online sales: an order is settling *before*
its sale exists, so the check refuses from the sale's first moment. None of the
properties is inductive by itself, because each breaks if a worker may carry
arbitrary locals into its next step. `PriceInv` adds that frozen prices, prices in
workers' hands and prices of online sales agree.

The refinement reads the phase of an invoice off the tables (`Phase`) and shows,
one lemma per action that moves goods, that the step is one of the abstract ones:
`Reserve` is `Hold`, `AddPrepaidTransaction` is `Sell`, a refused or expired
order's save is `Release`, `CounterSale` is `SellNow`, the delete is `Return`.
The invariant is what makes the rest stutters: `MarkSuccess` drops a reservation
whose goods are already sold, and `AddUnreservedTransaction`, which would take the
goods a second time, is never reached.

`Accounted`, the invariant behind the stock, is stated as two sums, one over the
orders that hold a reservation and one over the live sales, and that both sets are
finite; the sum in `StockConserved` is theirs. Each action that moves goods adds one
element to one set, takes one out, or moves one from the first to the second
(`AddPrepaidTransaction`), and leaves the other terms alone; `SafetyInv` is what
rules out the sale of one invoice replacing another's.

### Sweep

`TypeCorrect`, `ToldTheTruthHolds`, `ToldOnceHolds`. The invariant counts: what a
buyer has been told, and the workers that are about to tell it, are together at
most one more than the faults, and only if the status is final (`Paired`). Each
step either moves one unit of that sum from a worker to the buyer, or creates one
when it makes the status final, which happens once, or pays for one with a fault.
`WorkerFits` says that what a closure has captured agrees with the status whenever
somebody may act on it: a worker that carries "success" in `final` from an attempt
that was rolled back acts on it only if the payment is a success by then. Statuses
only move forward (`OrderFits`), which is what keeps what was told true.

### DebtLedger

`TypeCorrect`, `OneOpenDebtHolds`, `OpenDebtHasCustomerHolds`, `PaidOnceHolds`,
`SameBalanceHolds`, `ClosedStaysClosedHolds`, `NothingForgivenHolds`, the
refinement `BookKeptHolds`; `ClosedIsPaidOffHolds` for amounts above 0; `PaymentNotGivenUpHolds` for keys that are not blank and more than one
attempt. The invariant says what a request may rely on while it holds a lock: the
debt it read is the debt in the table until it writes it (so no update is lost),
the customer it shares is live until it has inserted its debt, and every receipt
given out agrees with the instalment that stands under its key. The last
theorem rests on the retry: a request that loses the unique index finds the row it
lost to when it starts again, because a recorded instalment is never removed
(`RecordedStays`).

`NothingForgiven` bounds what a debt no longer owes from both sides: by what was paid on
it, always, so no payment pays off a raise it never saw; and, while no sale of it was
cancelled, from below, so no raise brings back a balance that was paid in between. The
second bound needs the condition, because a reversal may leave less off the debt than
was paid (the clamp of the run `cancel_race`). `Forgiven` carries it with `Squares`, the
two bounds for one debt. A payment lowers the balance by its amount and lengthens the
fold by one instalment (`TotalAppended`). A raise moves total and balance together
because the worker that writes them read both under the lock it still holds. A
cancellation lowers both by what the sale was worth, each no further than 0, which can
only bring them closer together, and leaves a cancelled sale on its debt for good
(`CancelledStays`). That a sale, once cancelled, is not entered again under another debt
is what `Asked` is needed for here.

`BookKeptHolds` says that all of it is as if each request ran alone. The book reads
an account's stage off its state and status (`AccountIn`), a sale's off its row
(`CreditIn`), what was paid as the sum of the instalments and the keys that were used
as theirs. The write of each transaction is one entry (`InsertOpens`, `RaiseRaises`,
`RecordPays`, `DeleteTransactionStrikes`, `DeleteDebtDeletes`,
`DeleteCustomerLeaves`), and everything else, retries, refusals and replayed receipts
included, leaves the book alone. What makes the entry right is what the invariant says
of locks: a worker writes back sums it computed from a row it read earlier, and the
entry adds to the row as it is now. `Asked` is the rest: a request asks for the same
all along (`Lending`), one request at most is about to enter a sale, and no sale is on
a debt that was never inserted. An account the book has closed gets no further entry
but its reversals and its deletion, so `ClosedStaysClosed` follows from it too; the
theorem about it is kept because it names the property alone.

### Shelf

`TypeCorrect`, `StockAccountedHolds`, `DigitalUntouchedHolds`,
`CirclesNeedPrepaidHolds`.

* *Lines.* `DecrementStock` succeeds only if each of its lines does (`Taken`), and
  then the stock of a product follows one walk through the positions of the cart
  (`Walk`), which rounds once for each line with half a cent: it ends within that
  number of half cents of where the sum of the lines says. `PutBackIs` is the same
  for what goes back, provided the transaction holds every product of its lines.
* *Requests.* `ShelfInv` says that this is so: a release or a cancellation works on
  the lines of the invoice it has read, which nobody can change under it, and each
  of their products is locked already or still to be locked (`RequestOK`). For
  an order it is the payment's row lock that keeps others away; for a sale two
  cancellations may meet, and the second finds the invoice gone.
* *Books.* `Balanced`: for each product that kept its type, stock plus the goods out
  on invoices that stand, less corrections, is the first count up to a cent for each
  half cent rounded. A step writes one invoice (`OneInvoice`: only its term changes),
  and moves the stock by that invoice's lines (`GoodsMoved`). The bound is a cent
  and not half a cent because a sale rounds twice: the stock it takes and
  the quantity it records, in directions that are not tied to each other.
* *Circles.* `LockOrder`: whoever owns a product owns none that is larger than one
  it still wants. In a circle without a prepaid sale everyone waits for an owner, who
  wants something larger than it owns, so what each wants is less than what the next
  one wants; the set of products is finite and has a largest (`Largest`), and whoever
  wants it waits for nobody. The finite set's largest element comes from the
  well-foundedness of strict inclusion, not from induction.

### Sessions

`TypeCorrect`, `OneRefreshTokenHolds`, `LoggedOutStaysOutHolds`,
`LogoutEndsLoginHolds`, `SpentStaysSpentHolds`, `DamageBoundedHolds`. The invariant
is a chain: of all the pairs that descend from one login, at most one has not been
exchanged, and only the one request that exchanged the last may add the next. A refresh key that is
popped moves the chain into the one request that popped it. Nothing in it depends on
which tokens a logout names: what a successful one deleted belonged to pairs that were
delivered, and no request writes a key of a delivered pair.

`DamageBounded` needs a set that counts what is *about to* be left over as well:
`Strays` are the pairs whose key is stale with no request under way that will still
remove it, or that a request will leave behind whatever it does next. Each step adds
at most one pair to it and at most one login to those that were lost, and only with a
fault (`Bearable`, one lemma per action).

### Catalogue

All four properties of its run: `TypeCorrect`, `ReportAccountsHolds`,
`ImportsDontBlockHolds`, `WalkCompleteHolds`.

* *SKUs.* No two rows that are live or pending share one (`TableFits`): an insert
  that finds another row waits or passes it over.
* *Reports.* `Accounts` says where each row of the file is counted at each point
  of the request: with the rows read, the rows to insert, the rows inserted, the
  rows skipped. `Inserts` ties the count of inserted rows to the rows the
  transaction holds. The rows a file yields are as many as their SKUs because only
  the first of each counts (a bijection, `Parsed`).
* *Circles.* A request inserts in ascending order, so it holds SKUs before its
  next one; whoever waits for it wants less than it wants next. As on the shelf, a
  finite set of SKUs has a largest.
* *Walks.* What is owed lies beyond the cursor, what was shown does not
  (`WalkFits`). A page is a first part of what lies beyond, so the cursor moves past
  all it shows and nothing else; keys (time, id) are a strict order, which time alone
  is not. Rows that come are not owed, rows that go are owed no more, and neither
  moves a row from one side of the cursor to the other.

### Only model-checked

* Liveness: `SettledIsSold`, `ChargeResolves`, `NobodyStarves`, `TakenUp`,
  `RequestEnds`. The prover has no rule for fairness.

Every invariant and every action property that a passing run checks is proved.

## 6. Plan

Done: `GoodsReservation` and its refinement, `OnlinePayment`, `CreditBook` and its
refinement, `DebtLedger`,
`Sessions`, `Sweep`, `Shelf`, `Catalogue`, each with its proofs.

Left:

1. A composition of a sale on credit with stock and debt in one transaction, locks
   of customers, debts and products included.
2. An abstract specification of the shelf, a book with one atomic entry per
   transaction, and the proof that `Shelf` implements it.
3. Device tokens: logout, detachment and the pruning of tokens FCM reports gone.

## 7. Not modelled

* *Device tokens.* Each operation is one statement on one row, and a push is fire
  and forget. What may go wrong between a logout and a registration is a hazard.
* *Reports.* Queries that change nothing, and the layout of a document. Their
  queries have no common snapshot, which is a hazard no document speaks of.
* *HTTP, validation, middleware, configuration, migrations, logging.* They change
  no shared state; the rate limiter is a library; password hashing and token
  signatures are cryptography. Registration is one INSERT under a unique index.
* *Parsing.* How CSV and XLSX cells become text; a row is what becomes of it.
* *Retyped products.* `StockAccounted` leaves out a product whose type was changed:
  the code keeps no record of the type its goods were sold as, so a sale made before
  the change is given back, or not, by the type of the day.
* *Money and fees.* A sale has a unit price and goods have a count; fees, taxes and
  profits are computed once, from frozen values, and stored.
