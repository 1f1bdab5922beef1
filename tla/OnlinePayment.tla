---------------------------- MODULE OnlinePayment ----------------------------
(***************************************************************************)
(* An online order from its charge to its sale, as                         *)
(* internal/usecase/payment_usecase.go and the repositories under it run   *)
(* it.  Requests, Midtrans notifications and the reconciliation sweep work *)
(* on the same rows at the same time; a step of this module is one         *)
(* database transaction, one read outside a transaction, or one call to    *)
(* the payment gateway, because between two of those anything may happen.  *)
(*                                                                         *)
(* The lifecycle of one order:                                             *)
(*   reserve stock and insert the payment (pending)                        *)
(*   charge at the gateway; on an error, mark it failed and restock        *)
(*   when the gateway reports settlement: claim it (settling), create the  *)
(*   sale on another connection, then mark it success                      *)
(*   when it reports deny or expire: mark it and restock                   *)
(***************************************************************************)
EXTENDS Integers, FiniteSets, FiniteSetsExt

CONSTANTS
    Orders,         \* invoice numbers asked for by online charges
    Counter,        \* invoice numbers typed at the counter (POST /transactions)
    Handlers,       \* request goroutines
    Sweeper,        \* the goroutine that runs ReconcileStalePayments
    SaleIds,        \* ids a row of the transactions table can get
    Qty,            \* goods on each invoice (one product)
    InitialStock,   \* its stock at first
    Prices,         \* values its selling price takes
    SyncSettle,     \* whether the gateway may settle inside the charge call
    LostResponse,   \* whether an accepted charge may be reported as an error
    MaxFaults,      \* bound: crashes, database errors and failed CheckStatus calls
    NoOrder, NoSale \* absent values

Invoices == Orders \cup Counter
Workers  == Handlers \cup {Sweeper}

ASSUME PaymentAssumption ==
    /\ Sweeper \notin Handlers
    /\ Qty \in [Invoices -> Nat \ {0}]
    /\ InitialStock \in Nat
    /\ Prices # {} /\ Prices \subseteq Nat
    /\ SyncSettle \in BOOLEAN /\ LostResponse \in BOOLEAN
    /\ MaxFaults \in Nat
    /\ NoOrder \notin Orders /\ NoOrder \notin Counter
    /\ NoSale \notin SaleIds

VARIABLES
    stock,      \* products.stock
    price,      \* products.selling_price
    payment,    \* the payments table, by order_id
    sale,       \* the transactions table, by id
    gateway,    \* what Midtrans knows of each order
    worker,     \* the request each worker is in the middle of
    faults      \* faults so far

vars == <<stock, price, payment, sale, gateway, worker, faults>>

Terminal == {"success", "failed", "expired"}            \* isTerminalPaymentStatus
PaymentStatuses == {"none", "pending", "settling"} \cup Terminal

PaymentRows == [status : PaymentStatuses, reserved : BOOLEAN,
                trxID : SaleIds \cup {NoSale}, unitPrice : Nat]

SaleRows == [state : {"absent", "live", "deleted"}, inv : Invoices \cup {NoOrder},
             unitPrice : Nat]

(* "unseen" is a charge the gateway accepted but whose QR code or account   *)
(* number never reached a buyer: to Midtrans it is pending like any other,  *)
(* but nobody can pay it.                                                   *)
GatewayStates == {"none", "unseen", "pending", "settlement", "deny", "expire"}
GatewayWords  == {"none", "pending", "settlement", "deny", "expire"}

PCs == {"idle", "reserve", "charge", "fail", "verify", "apply", "load", "lookup",
        "create", "mark", "delete"}

WorkerStates == [pc : PCs, order : Orders \cup {NoOrder}, word : GatewayWords,
                 reserved : BOOLEAN, unitPrice : Nat, trxID : SaleIds \cup {NoSale}]

TypeOK ==
    /\ stock \in Nat
    /\ price \in Prices
    /\ payment \in [Orders -> PaymentRows]
    /\ sale \in [SaleIds -> SaleRows]
    /\ gateway \in [Orders -> GatewayStates]
    /\ worker \in [Workers -> WorkerStates]
    /\ faults \in 0..MaxFaults

At(p, o) == [pc |-> p, order |-> o, word |-> "none", reserved |-> FALSE,
             unitPrice |-> 0, trxID |-> NoSale]
Idle == At("idle", NoOrder)

Init ==
    /\ stock = InitialStock
    /\ price \in Prices
    /\ payment = [o \in Orders |-> [status |-> "none", reserved |-> FALSE,
                                    trxID |-> NoSale, unitPrice |-> 0]]
    /\ sale = [t \in SaleIds |-> [state |-> "absent", inv |-> NoOrder, unitPrice |-> 0]]
    /\ gateway = [o \in Orders |-> "none"]
    /\ worker = [w \in Workers |-> Idle]
    /\ faults = 0

-----------------------------------------------------------------------------
(* The helpers every path goes through. *)

Goto(w, s) == worker' = [worker EXCEPT ![w] = s]
Done(w)    == Goto(w, Idle)
In(w, p)   == worker[w].pc = p

(* The live sale of an invoice (CheckTransactionByNoInvoice; the unique     *)
(* index on no_invoice covers exactly these rows).                          *)
IsSaleOf(t, i) == sale[t].state = "live" /\ sale[t].inv = i
Sold(i) == \E t \in SaleIds : IsSaleOf(t, i)

Insert(t, i, p) ==
    /\ sale[t].state = "absent"
    /\ sale' = [sale EXCEPT ![t] = [state |-> "live", inv |-> i, unitPrice |-> p]]

(* Mutant: stock is taken without looking whether it is there.              *)
DeductBlindly(i) == stock' = stock - Qty[i]

(* decrementStock inside the transaction that needs the goods.              *)
Deduct(i) == stock >= Qty[i] /\ stock' = stock - Qty[i]

(* UpdateWithLock: the row is locked, changed and saved, and goods that the *)
(* row no longer reserves go back unless a sale has taken them.             *)
UpdateWithLock(o, row) ==
    /\ payment' = [payment EXCEPT ![o] = row]
    /\ stock' = IF payment[o].reserved /\ ~row.reserved /\ row.trxID = NoSale
                THEN stock + Qty[o]
                ELSE stock

(* Mutant: whatever is not a refusal counts as paid.                        *)
MapInternalStatusOptimistic(word) ==
    CASE word = "deny"   -> "failed"
      [] word = "expire" -> "expired"
      [] OTHER           -> "success"

MapInternalStatus(word) ==
    CASE word = "settlement" -> "success"
      [] word = "deny"       -> "failed"
      [] word = "expire"     -> "expired"
      [] OTHER               -> "pending"

(* Mutants: a refused order keeps its reservation; a settled one is called  *)
(* successful before it has a sale.                                         *)
AuthoritativeRowKeepsGoods(row, word) ==
    LET s == MapInternalStatus(word) IN
    CASE s = "success" -> [row EXCEPT !.status = "settling"]
      [] s = "pending" -> row
      [] OTHER         -> [row EXCEPT !.status = s]

AuthoritativeRowSkipsSettling(row, word) ==
    LET s == MapInternalStatus(word) IN
    CASE s = "success" -> [row EXCEPT !.status = "success"]
      [] s = "pending" -> row
      [] OTHER         -> [row EXCEPT !.status = s, !.reserved = FALSE]

(* The row applyAuthoritativeStatus saves.                                  *)
AuthoritativeRow(row, word) ==
    LET s == MapInternalStatus(word) IN
    CASE s = "success" -> [row EXCEPT !.status = "settling"]
      [] s = "pending" -> row
      [] OTHER         -> [row EXCEPT !.status = s, !.reserved = FALSE]

(* The row finalizeSettlement saves.                                        *)
SettledRow(row, t) ==
    [row EXCEPT !.status = "success", !.trxID = t, !.reserved = FALSE]

(* What Midtrans answers about an order, and the notifications it may have  *)
(* sent.  A notification may be delivered late, again, out of order or not  *)
(* at all.                                                                  *)
Reported(o) == IF gateway[o] = "unseen" THEN "pending" ELSE gateway[o]
Sent(o)     == IF gateway[o] = "none" THEN {} ELSE {"pending", Reported(o)}


-----------------------------------------------------------------------------
(* charge: POST /payments/qris and /payments/va.                            *)

(* The catalogue price is read and frozen, the stock looked at, and the     *)
(* order id looked up, each without a lock.                                 *)
BuildOrder(w, o) ==
    /\ w \in Handlers /\ In(w, "idle")
    /\ payment[o].status = "none"
    /\ stock >= Qty[o]
    /\ Goto(w, [At("reserve", o) EXCEPT !.unitPrice = price])
    /\ UNCHANGED <<stock, price, payment, sale, gateway, faults>>

(* Mutant: no unique index on order_id.                                     *)
ReserveTwice(w) ==
    LET o == worker[w].order IN
    /\ In(w, "reserve")
    /\ Deduct(o)
    /\ payment' = [payment EXCEPT ![o] =
            [status |-> "pending", reserved |-> TRUE, trxID |-> NoSale,
             unitPrice |-> worker[w].unitPrice]]
    /\ Goto(w, At("charge", o))
    /\ UNCHANGED <<price, sale, gateway, faults>>

(* CreateWithReservation: stock and payment row in one transaction; the     *)
(* unique index on order_id refuses a second row.                           *)
Reserve(w) ==
    LET o == worker[w].order IN
    /\ In(w, "reserve")
    /\ payment[o].status = "none"
    /\ Deduct(o)
    /\ payment' = [payment EXCEPT ![o] =
            [status |-> "pending", reserved |-> TRUE, trxID |-> NoSale,
             unitPrice |-> worker[w].unitPrice]]
    /\ Goto(w, At("charge", o))
    /\ UNCHANGED <<price, sale, gateway, faults>>

ReserveRefused(w) ==
    LET o == worker[w].order IN
    /\ In(w, "reserve")
    /\ payment[o].status # "none" \/ stock < Qty[o]
    /\ Done(w)
    /\ UNCHANGED <<stock, price, payment, sale, gateway, faults>>

(* The gateway takes the charge and the buyer gets the code to pay.  When   *)
(* it settles at once the request goes on to applyAuthoritativeStatus.      *)
ChargeAccepted(w) ==
    LET o == worker[w].order IN
    /\ In(w, "charge")
    /\ \/ /\ gateway' = [gateway EXCEPT ![o] = "pending"]
          /\ Done(w)
       \/ /\ SyncSettle
          /\ gateway' = [gateway EXCEPT ![o] = "settlement"]
          /\ Goto(w, [At("apply", o) EXCEPT !.word = "settlement"])
    /\ UNCHANGED <<stock, price, payment, sale, faults>>

(* The gateway refuses the charge, or is not reached.                       *)
ChargeRefused(w) ==
    /\ In(w, "charge")
    /\ Goto(w, At("fail", worker[w].order))
    /\ UNCHANGED <<stock, price, payment, sale, gateway, faults>>

(* The gateway takes the charge but the client reports an error: a timeout, *)
(* or a response that cannot be read.  The buyer never sees the code.       *)
ChargeResponseLost(w) ==
    LET o == worker[w].order IN
    /\ LostResponse
    /\ In(w, "charge")
    /\ \E g \in {"unseen"} \cup (IF SyncSettle THEN {"settlement"} ELSE {}) :
            gateway' = [gateway EXCEPT ![o] = g]
    /\ Goto(w, At("fail", o))
    /\ UNCHANGED <<stock, price, payment, sale, faults>>

(* failPayment does not look at the status it overwrites.                   *)
FailPayment(w) ==
    LET o == worker[w].order IN
    /\ In(w, "fail")
    /\ UpdateWithLock(o, [payment[o] EXCEPT !.status = "failed", !.reserved = FALSE])
    /\ Done(w)
    /\ UNCHANGED <<price, sale, gateway, faults>>

-----------------------------------------------------------------------------
(* HandleNotification and applyAuthoritativeStatus.                         *)

(* A notification for a known, unfinished order; any other is acknowledged  *)
(* and changes nothing.                                                     *)
HandleNotification(w, o) ==
    /\ w \in Handlers /\ In(w, "idle")
    /\ payment[o].status \notin Terminal \cup {"none"}
    /\ \E word \in Sent(o) : Goto(w, [At("verify", o) EXCEPT !.word = word])
    /\ UNCHANGED <<stock, price, payment, sale, gateway, faults>>

CheckStatus(w) ==
    LET o == worker[w].order IN
    /\ In(w, "verify")
    /\ gateway[o] # "none"
    /\ Goto(w, [At("apply", o) EXCEPT !.word = Reported(o)])
    /\ UNCHANGED <<stock, price, payment, sale, gateway, faults>>

(* Mutant: an order whose status cannot be read is taken for expired.       *)
CheckStatusFailedExpires(w) ==
    LET o == worker[w].order IN
    /\ In(w, "verify")
    /\ \/ gateway[o] = "none" /\ UNCHANGED faults
       \/ gateway[o] # "none" /\ faults < MaxFaults /\ faults' = faults + 1
    /\ Goto(w, [At("apply", o) EXCEPT !.word = "expire"])
    /\ UNCHANGED <<stock, price, payment, sale, gateway>>

(* The status call fails: always for an order the gateway does not know,    *)
(* otherwise as a fault.  A notification is then believed as it came; the   *)
(* sweep gives the order up until its next round.                           *)
CheckStatusFailed(w) ==
    LET o == worker[w].order IN
    /\ In(w, "verify")
    /\ \/ gateway[o] = "none" /\ UNCHANGED faults
       \/ gateway[o] # "none" /\ faults < MaxFaults /\ faults' = faults + 1
    /\ Goto(w, IF w = Sweeper THEN Idle ELSE [worker[w] EXCEPT !.pc = "apply"])
    /\ UNCHANGED <<stock, price, payment, sale, gateway>>

(* Mutant: the status under the lock is not looked at again.                *)
ApplyWithoutRecheck(w) ==
    LET o   == worker[w].order
        row == AuthoritativeRow(payment[o], worker[w].word)
    IN
    /\ In(w, "apply")
    /\ UpdateWithLock(o, row)
    /\ Goto(w, IF MapInternalStatus(worker[w].word) = "success"
               THEN At("load", o) ELSE Idle)
    /\ UNCHANGED <<price, sale, gateway, faults>>

(* The status is decided under the row lock.  A settlement claims the       *)
(* order and the worker goes on to finalizeSettlement.                      *)
ApplyAuthoritativeStatus(w) ==
    LET o   == worker[w].order
        row == AuthoritativeRow(payment[o], worker[w].word)
    IN
    /\ In(w, "apply")
    /\ IF payment[o].status \in Terminal
       THEN UNCHANGED <<payment, stock>> /\ Done(w)
       ELSE /\ UpdateWithLock(o, row)
            /\ Goto(w, IF MapInternalStatus(worker[w].word) = "success"
                       THEN At("load", o) ELSE Idle)
    /\ UNCHANGED <<price, sale, gateway, faults>>

-----------------------------------------------------------------------------
(* finalizeSettlement and ensureTransaction.                                *)

Load(w) ==
    LET o == worker[w].order
        p == payment[o]
    IN
    /\ In(w, "load")
    /\ Goto(w, IF p.status = "success" /\ p.trxID # NoSale
               THEN Idle
               ELSE [At("lookup", o) EXCEPT !.reserved = p.reserved,
                                            !.unitPrice = p.unitPrice])
    /\ UNCHANGED <<stock, price, payment, sale, gateway, faults>>

(* The order may already have its sale.                                     *)
SaleFound(w) ==
    LET o == worker[w].order IN
    /\ In(w, "lookup") \/ In(w, "create")
    /\ \E t \in SaleIds : /\ IsSaleOf(t, o)
                          /\ Goto(w, [At("mark", o) EXCEPT !.trxID = t])
    /\ UNCHANGED <<stock, price, payment, sale, gateway, faults>>

SaleMissing(w) ==
    /\ In(w, "lookup")
    /\ ~Sold(worker[w].order)
    /\ Goto(w, [worker[w] EXCEPT !.pc = "create"])
    /\ UNCHANGED <<stock, price, payment, sale, gateway, faults>>

(* Mutant: the sale is booked at today's price.                             *)
SalePriceOfToday(frozen) == price

(* The price a sale made from a payment is booked at: the frozen one when   *)
(* there is one.                                                            *)
SalePrice(frozen) == IF frozen > 0 THEN frozen ELSE price

(* AddPrepaidTransaction: the goods were taken at charge time.              *)
AddPrepaidTransaction(w) ==
    LET o == worker[w].order IN
    /\ In(w, "create") /\ worker[w].reserved
    /\ ~Sold(o)
    /\ \E t \in SaleIds : /\ Insert(t, o, SalePrice(worker[w].unitPrice))
                          /\ Goto(w, [At("mark", o) EXCEPT !.trxID = t])
    /\ UNCHANGED <<stock, price, payment, gateway, faults>>

(* AddTransaction, for a payment that was read without a reservation.       *)
AddUnreservedTransaction(w) ==
    LET o == worker[w].order IN
    /\ In(w, "create") /\ ~worker[w].reserved
    /\ ~Sold(o)
    /\ \/ /\ Deduct(o)
          /\ \E t \in SaleIds : /\ Insert(t, o, price)
                                /\ Goto(w, [At("mark", o) EXCEPT !.trxID = t])
       \/ /\ stock < Qty[o]
          /\ Done(w)
          /\ UNCHANGED <<stock, sale>>
    /\ UNCHANGED <<price, payment, gateway, faults>>

MarkSuccess(w) ==
    LET o == worker[w].order IN
    /\ In(w, "mark")
    /\ IF payment[o].status = "success" /\ payment[o].trxID # NoSale
       THEN UNCHANGED <<payment, stock>>
       ELSE UpdateWithLock(o, SettledRow(payment[o], worker[w].trxID))
    /\ Done(w)
    /\ UNCHANGED <<price, sale, gateway, faults>>

-----------------------------------------------------------------------------
(* ReconcileStalePayments.                                                  *)

(* Mutant: the sweep looks for successful payments without a sale.          *)
SweepSuccessOnly(o) ==
    /\ In(Sweeper, "idle")
    /\ payment[o].status = "success" /\ payment[o].trxID = NoSale
    /\ Goto(Sweeper, At("load", o))
    /\ UNCHANGED <<stock, price, payment, sale, gateway, faults>>

SweepSettling(o) ==
    /\ In(Sweeper, "idle")
    /\ payment[o].status = "settling"
    /\ Goto(Sweeper, At("load", o))
    /\ UNCHANGED <<stock, price, payment, sale, gateway, faults>>

(* An order is stale ten minutes after its charge expires, or a day after   *)
(* it was made: by then its charge request is over and the gateway has      *)
(* closed the charge.                                                       *)
IsStale(o) ==
    /\ payment[o].status = "pending"
    /\ gateway[o] \notin {"pending", "unseen"}
    /\ \A w \in Handlers : ~(worker[w].pc \in {"charge", "fail"} /\ worker[w].order = o)

SweepStale(o) ==
    /\ In(Sweeper, "idle")
    /\ IsStale(o)
    /\ Goto(Sweeper, At("verify", o))
    /\ UNCHANGED <<stock, price, payment, sale, gateway, faults>>

-----------------------------------------------------------------------------
(* The counter and the catalogue.                                           *)

(* POST /transactions, paid in cash: one transaction.                       *)
CounterSale(i) ==
    /\ ~Sold(i)
    /\ Deduct(i)
    /\ \E t \in SaleIds : Insert(t, i, price)
    /\ UNCHANGED <<price, payment, gateway, worker, faults>>

(* Mutant: only payments that already point at the sale forbid its delete.  *)
AssertDeletableByID(w, t) ==
    /\ w \in Handlers /\ In(w, "idle")
    /\ sale[t].state = "live"
    /\ \A o \in Orders : payment[o].status \in {"success", "settling"} =>
            payment[o].trxID # t
    /\ Goto(w, [Idle EXCEPT !.pc = "delete", !.trxID = t])
    /\ UNCHANGED <<stock, price, payment, sale, gateway, faults>>

(* DELETE /transactions: assertTransactionDeletable reads the payments      *)
(* before the delete takes any lock.                                        *)
AssertDeletable(w, t) ==
    /\ w \in Handlers /\ In(w, "idle")
    /\ sale[t].state = "live"
    /\ \A o \in Orders : payment[o].status \in {"success", "settling"} =>
            payment[o].trxID # t /\ o # sale[t].inv
    /\ Goto(w, [Idle EXCEPT !.pc = "delete", !.trxID = t])
    /\ UNCHANGED <<stock, price, payment, sale, gateway, faults>>

(* Mutant: the delete does not notice that the row is already gone.         *)
DeleteTransactionAgain(w) ==
    LET t == worker[w].trxID IN
    /\ In(w, "delete")
    /\ stock' = stock + Qty[sale[t].inv]
    /\ sale' = [sale EXCEPT ![t].state = "deleted"]
    /\ Done(w)
    /\ UNCHANGED <<price, payment, gateway, faults>>

(* The goods come back and the row is deleted; if the row was deleted       *)
(* meanwhile, everything is rolled back.                                    *)
DeleteTransaction(w) ==
    LET t == worker[w].trxID IN
    /\ In(w, "delete")
    /\ IF sale[t].state = "live"
       THEN /\ stock' = stock + Qty[sale[t].inv]
            /\ sale' = [sale EXCEPT ![t].state = "deleted"]
       ELSE UNCHANGED <<stock, sale>>
    /\ Done(w)
    /\ UNCHANGED <<price, payment, gateway, faults>>

UpdatePrice ==
    /\ price' \in Prices \ {price}
    /\ UNCHANGED <<stock, payment, sale, gateway, worker, faults>>

-----------------------------------------------------------------------------
(* The gateway and the buyer, and what can go wrong.                        *)

BuyerPays(o) ==
    /\ gateway[o] = "pending"
    /\ gateway' = [gateway EXCEPT ![o] = "settlement"]
    /\ UNCHANGED <<stock, price, payment, sale, worker, faults>>

GatewayCloses(o) ==
    /\ \/ gateway[o] = "pending" /\ gateway' = [gateway EXCEPT ![o] = "deny"]
       \/ gateway[o] \in {"pending", "unseen"} /\ gateway' = [gateway EXCEPT ![o] = "expire"]
    /\ UNCHANGED <<stock, price, payment, sale, worker, faults>>

(* A crash, or a database error: the transaction in progress is rolled back *)
(* and the worker does nothing more for this request.                       *)
Abort(w) ==
    /\ ~In(w, "idle")
    /\ faults < MaxFaults
    /\ faults' = faults + 1
    /\ Done(w)
    /\ UNCHANGED <<stock, price, payment, sale, gateway>>

-----------------------------------------------------------------------------

(* What a worker does once it has taken up a request.                       *)
Step(w) ==
    \/ Reserve(w) \/ ReserveRefused(w)
    \/ ChargeAccepted(w) \/ ChargeRefused(w) \/ ChargeResponseLost(w) \/ FailPayment(w)
    \/ CheckStatus(w) \/ CheckStatusFailed(w) \/ ApplyAuthoritativeStatus(w)
    \/ Load(w) \/ SaleFound(w) \/ SaleMissing(w)
    \/ AddPrepaidTransaction(w) \/ AddUnreservedTransaction(w) \/ MarkSuccess(w)
    \/ DeleteTransaction(w)

Next ==
    \/ \E w \in Workers : Step(w) \/ Abort(w)
    \/ \E w \in Workers, o \in Orders : BuildOrder(w, o) \/ HandleNotification(w, o)
    \/ \E w \in Workers, t \in SaleIds : AssertDeletable(w, t)
    \/ \E o \in Orders : SweepSettling(o) \/ SweepStale(o) \/ BuyerPays(o) \/ GatewayCloses(o)
    \/ \E i \in Counter : CounterSale(i)
    \/ UpdatePrice

Spec == Init /\ [][Next]_vars

(* A worker that has taken up a request runs on until it is done or aborts. *)
(* The sweep is a ticker over both lists, oldest first, and an order it     *)
(* fails on goes to the back: one that stays listed is taken up again and   *)
(* again.  The gateway decides every charge in the end.  Nothing is assumed *)
(* of notifications, which may all be lost.                                 *)
Fairness ==
    /\ \A w \in Workers : WF_vars(Step(w))
    /\ \A o \in Orders : SF_vars(SweepSettling(o)) /\ SF_vars(SweepStale(o))
    /\ \A o \in Orders : WF_vars(BuyerPays(o) \/ GatewayCloses(o))

FairSpec == Spec /\ Fairness

-----------------------------------------------------------------------------
(* Properties. *)

(* Every item that is not on the shelf is sold by one live sale, or still   *)
(* reserved by one order without a sale: CreateWithReservation, the prepaid *)
(* sale, the restock in UpdateWithLock and DeleteTransaction neither lose   *)
(* goods nor deduct them twice, in any interleaving.                        *)
StockConserved ==
    LET held == {o \in Orders : payment[o].reserved /\ ~Sold(o)}
        sold == {t \in SaleIds : sale[t].state = "live"}
    IN InitialStock = stock + MapThenSumSet(LAMBDA o : Qty[o], held)
                            + MapThenSumSet(LAMBDA t : Qty[sale[t].inv], sold)

(* Once every order has finished, what is not on the shelf is sold by live  *)
(* sales: no finished order keeps goods off the shelf, and none that was    *)
(* paid took them twice.                                                    *)
NothingLost ==
    (\A o \in Orders : payment[o].status \in Terminal \cup {"none"}) =>
        InitialStock = stock + MapThenSumSet(LAMBDA t : Qty[sale[t].inv],
                                             {t \in SaleIds : sale[t].state = "live"})

(* A payment the shop calls successful points at the live sale of its own   *)
(* order, so nothing deleted or refused what the buyer paid for.            *)
PaidHasSale ==
    \A o \in Orders : payment[o].status = "success" =>
        payment[o].trxID # NoSale /\ IsSaleOf(payment[o].trxID, o)

(* No goods are handed out for an online order the gateway did not settle,  *)
(* whichever of request, notification and sweep made the sale.              *)
SoldOnlyIfPaid ==
    \A o \in Orders : Sold(o) => gateway[o] = "settlement"

(* An order the buyer has paid for is never closed as failed or expired.    *)
PaidIsNotDropped ==
    \A o \in Orders : gateway[o] = "settlement" =>
        payment[o].status \notin {"failed", "expired"}

(* A sale made from an online payment is worth what the buyer was charged,  *)
(* however the catalogue price moved in between.                            *)
SaleWorthSubtotal ==
    \A o \in Orders : payment[o].status = "success" =>
        sale[payment[o].trxID].unitPrice = payment[o].unitPrice

(* A finished payment stays as it finished: a late charge response, an old  *)
(* notification or a slow sweep never reopens or overwrites it.             *)
TerminalIsFinal ==
    [][\A o \in Orders : payment[o].status \in Terminal =>
            /\ payment'[o].status = payment[o].status
            /\ payment'[o].trxID = payment[o].trxID]_vars

(* The sale of a settled online order is never cancelled, although the      *)
(* check that forbids it runs before the delete locks anything and the      *)
(* payment learns the sale's id only in a later transaction.                *)
OnlineSaleIsKept ==
    [][\A t \in SaleIds : sale[t].state = "live" /\ sale[t].inv \in Orders =>
            sale'[t].state = "live"]_vars

(* Goods leave the shelf once per invoice: the design implements            *)
(* GoodsReservation, reading "held" off the reservation flag and "sold" off *)
(* the transactions table.                                                  *)
Phase(i) ==
    CASE Sold(i) -> "sold"
      [] ~Sold(i) /\ i \in Orders /\ payment[i].reserved -> "held"
      [] ~Sold(i) /\ i \in Orders /\ ~payment[i].reserved ->
            IF payment[i].status = "none" THEN "absent" ELSE "released"
      [] OTHER ->
            IF \E t \in SaleIds : sale[t].inv = i THEN "released" ELSE "absent"

Goods == INSTANCE GoodsReservation WITH
            shelf <- stock, phase <- [i \in Invoices |-> Phase(i)]

GoodsKept == Goods!GoodsSpec

(* A settled charge becomes a sale in the end, through crashes, database    *)
(* errors and lost notifications.                                           *)
SettledIsSold ==
    \A o \in Orders : gateway[o] = "settlement" ~> payment[o].status = "success"

(* A charge the gateway took does not keep its goods off the shelf for      *)
(* ever: the payment finishes and the reservation with it.                  *)
ChargeResolves ==
    \A o \in Orders : gateway[o] # "none" ~>
        payment[o].status \in Terminal /\ ~payment[o].reserved

=============================================================================
