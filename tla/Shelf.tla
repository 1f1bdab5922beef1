-------------------------------- MODULE Shelf --------------------------------
(***************************************************************************)
(* The stock of several products, as internal/repository keeps it.  Sales, *)
(* reservations, releases and cancellations lock the rows of all their     *)
(* products in the order of the ids (lockProductsOrdered), one row at a    *)
(* time, and then change them in one transaction.  The sale of a prepaid   *)
(* order moves no stock, but the foreign key of its lines takes a shared   *)
(* lock on each product, in the order of the lines.  Single products are   *)
(* adjusted, retyped and deleted in between.  Amounts are counted in half  *)
(* cents: stock is kept in cents, a client may order any fraction.         *)
(***************************************************************************)
EXTENDS Integers, FiniteSets, Sequences, SequencesExt, FiniteSetsExt

CONSTANTS
    Products,      \* product ids, numbers in the order of the uuids
    Digital,       \* those that start as digital products
    Sales, Orders, \* ids of counter sales and of online orders
    Carts,         \* what is asked for: sequences of [product, qty]
    Workers,       \* goroutines with a database transaction each
    InitialStock,
    Deltas,        \* manual corrections of a stock
    MaxEdits,      \* bound: corrections, retypings and deletions
    MaxFaults,     \* bound: crashes
    NoWorker, NoInvoice

maxTxRetries == 3

ASSUME ShelfAssumption ==
    /\ Products \subseteq Nat /\ IsFiniteSet(Products) /\ Digital \subseteq Products
    /\ Carts \subseteq Seq([product : Products, qty : Nat])
    /\ Sales \cap Orders = {} /\ NoInvoice \notin Sales \cup Orders
    /\ NoWorker \notin Workers
    /\ InitialStock \in Nat /\ InitialStock % 2 = 0
    /\ Deltas \subseteq Int
    /\ MaxEdits \in Nat /\ MaxFaults \in Nat

VARIABLES
    stock,     \* products.stock
    digital,   \* products.product_type
    live,      \* products that are not soft-deleted
    invoice,   \* the sale or the reservation of an invoice
    owner,     \* the transaction that holds a product FOR UPDATE
    sharers,   \* those that hold it FOR KEY SHARE
    worker,    \* what each goroutine is doing
    adjusted,  \* history: the sum of the corrections of a product
    halves,    \* history: how often a half cent of it was rounded
    retyped,   \* history: products whose type was changed
    edits, faults

vars == <<stock, digital, live, invoice, owner, sharers, worker,
          adjusted, halves, retyped, edits, faults>>
locks == <<owner, sharers>>
history == <<adjusted, halves, retyped>>
Invoices == Sales \cup Orders
Ops == {"none", "sell", "reserve", "release", "prepaid", "cancel"}

Idle == [op |-> "none", inv |-> NoInvoice, lines |-> <<>>, wants |-> {},
         shares |-> <<>>, attempt |-> 0]

Init ==
    /\ stock = [p \in Products |-> InitialStock]
    /\ digital = Digital /\ live = Products
    /\ invoice = [i \in Invoices |-> [state |-> "none", lines |-> <<>>]]
    /\ owner = [p \in Products |-> NoWorker] /\ sharers = [p \in Products |-> {}]
    /\ worker = [w \in Workers |-> Idle]
    /\ adjusted = [p \in Products |-> 0] /\ halves = [p \in Products |-> 0]
    /\ retyped = {} /\ edits = 0 /\ faults = 0

-----------------------------------------------------------------------------
(* Amounts.                                                                 *)

(* math.Round(v * 100) / 100: half cents go up or down, as the float that   *)
(* stands for them happens to lie.                                          *)
RoundStock(v, up) == IF v % 2 = 0 THEN v ELSE IF up THEN v + 1 ELSE v - 1

(* numeric(8,2): the qty of a saved line.                                   *)
Recorded(lines) == [k \in DOMAIN lines |-> [lines[k] EXCEPT !.qty = @ + (@ % 2)]]

ProductsOf(lines) == {lines[k].product : k \in DOMAIN lines}
QtyOf(p, lines) ==
    MapThenSumSet(LAMBDA k : lines[k].qty, {k \in DOMAIN lines : lines[k].product = p})
HalvesOf(p, lines) ==
    Cardinality({k \in DOMAIN lines : lines[k].product = p /\ lines[k].qty % 2 = 1})

-----------------------------------------------------------------------------
(* Row locks.                                                               *)

IsFree(p, w)  == owner[p] \in {NoWorker, w} /\ sharers[p] \subseteq {w}
IsShareable(p, w) == owner[p] \in {NoWorker, w}
Held(w) == {p \in Products : owner[p] = w}

Unlock(w) ==
    /\ owner' = [p \in Products |-> IF owner[p] = w THEN NoWorker ELSE owner[p]]
    /\ sharers' = [p \in Products |-> sharers[p] \ {w}]

Becomes(w, s) == worker' = [worker EXCEPT ![w] = s]
Ends(w) == Becomes(w, Idle) /\ Unlock(w)

(* Only rows that are not deleted are locked for a decrement.               *)
Scoped(w) == worker[w].op \in {"sell", "reserve"}

Locking(w) == worker[w].op \in Ops \ {"none", "prepaid"}
Sharing(w) == worker[w].op = "prepaid"

(* Mutant: ORDER BY id is left out.                                         *)
LockProductsAnyOrder(w) ==
    /\ Locking(w)
    /\ \E p \in worker[w].wants :
        /\ \/ Scoped(w) /\ p \notin live /\ UNCHANGED owner
           \/ /\ Scoped(w) => p \in live
              /\ IsFree(p, w)
              /\ owner' = [owner EXCEPT ![p] = w]
        /\ Becomes(w, [worker[w] EXCEPT !.wants = @ \ {p}])
    /\ UNCHANGED <<stock, digital, live, invoice, sharers, history, edits, faults>>

(* SELECT ... WHERE id IN ? ORDER BY id FOR UPDATE, row by row.             *)
LockProductsOrdered(w) ==
    /\ Locking(w) /\ worker[w].wants # {}
    /\ LET p == Min(worker[w].wants) IN
        /\ \/ Scoped(w) /\ p \notin live /\ UNCHANGED owner
           \/ /\ Scoped(w) => p \in live
              /\ IsFree(p, w)
              /\ owner' = [owner EXCEPT ![p] = w]
        /\ Becomes(w, [worker[w] EXCEPT !.wants = @ \ {p}])
    /\ UNCHANGED <<stock, digital, live, invoice, sharers, history, edits, faults>>

(* fk_transactions_detail_product: INSERT checks each line's product.       *)
ShareProduct(w) ==
    /\ Sharing(w) /\ worker[w].shares # <<>>
    /\ LET p == Head(worker[w].shares).product IN
        /\ IsShareable(p, w)
        /\ sharers' = [sharers EXCEPT ![p] = @ \cup {w}]
    /\ Becomes(w, [worker[w] EXCEPT !.shares = Tail(@)])
    /\ UNCHANGED <<stock, digital, live, invoice, owner, history, edits, faults>>

-----------------------------------------------------------------------------
(* The change of the stock, under the locks.                                *)

(* Mutant: a line that cannot be served is left out.                        *)
TakeWhatIsThere(w, up, acc, l) ==
    LET p == l.product IN
    IF p \notin Held(w) \/ p \in digital \/ acc.stock[p] < l.qty THEN acc
    ELSE [acc EXCEPT !.stock[p] = RoundStock(@ - l.qty, up)]

(* Mutant: the amount is not looked at.                                     *)
TakeBlindly(w, up, acc, l) ==
    LET p == l.product IN
    IF ~acc.ok \/ p \notin Held(w) THEN [acc EXCEPT !.ok = FALSE]
    ELSE IF p \in digital THEN acc
    ELSE [acc EXCEPT !.stock[p] = RoundStock(@ - l.qty, up)]

(* One line of decrementStock: a product that is missing or short fails     *)
(* them all.                                                                *)
Take(w, up, acc, l) ==
    LET p == l.product IN
    IF ~acc.ok \/ p \notin Held(w) \/ (p \notin digital /\ acc.stock[p] < l.qty)
    THEN [acc EXCEPT !.ok = FALSE]
    ELSE IF p \in digital THEN acc
    ELSE [acc EXCEPT !.stock[p] = RoundStock(@ - l.qty, up)]

DecrementStock(w, up) ==
    FoldLeft(LAMBDA acc, l : Take(w, up, acc, l), [ok |-> TRUE, stock |-> stock],
             worker[w].lines)

(* Mutant: digital products are put back as well.                           *)
PutAll(w, up, acc, l) == [acc EXCEPT ![l.product] = RoundStock(@ + l.qty, up)]

(* One line of incrementStock: what is still physical goes back.            *)
Put(w, up, acc, l) ==
    LET p == l.product IN
    IF p \notin Held(w) \/ p \in digital THEN acc
    ELSE [acc EXCEPT ![p] = RoundStock(@ + l.qty, up)]

IncrementStock(w, up) ==
    FoldLeft(LAMBDA acc, l : Put(w, up, acc, l), stock, worker[w].lines)

Moved(lines) == halves' = [p \in Products |-> halves[p] + HalvesOf(p, lines)]

Ready(w, op) == worker[w].op = op /\ worker[w].wants = {} /\ worker[w].shares = <<>>

Rollback(w) ==
    /\ Ends(w)
    /\ UNCHANGED <<stock, digital, live, invoice, history, edits, faults>>

(* CreateTransaction and CreateWithReservation: goods and row together.     *)
Deduct(w, op, state, lines) ==
    LET i == worker[w].inv IN
    \E up \in BOOLEAN : LET took == DecrementStock(w, up) IN
        /\ Ready(w, op) /\ took.ok /\ invoice[i].state = "none"
        /\ stock' = took.stock
        /\ invoice' = [invoice EXCEPT ![i] = [state |-> state, lines |-> lines]]
        /\ Moved(worker[w].lines)
        /\ Ends(w)
        /\ UNCHANGED <<digital, live, adjusted, retyped, edits, faults>>

CommitSale(w) == Deduct(w, "sell", "sold", Recorded(worker[w].lines))
CommitReservation(w) == Deduct(w, "reserve", "held", worker[w].lines)

(* Short, missing, or the invoice is taken: nothing is kept.                *)
Refused(w) ==
    /\ Ready(w, "sell") \/ Ready(w, "reserve")
    /\ ~DecrementStock(w, TRUE).ok \/ invoice[worker[w].inv].state # "none"
    /\ Rollback(w)

(* The release of a reservation, and the cancellation of a sale unless      *)
(* another one has deleted the row first.                                   *)
PutBack(w, op) ==
    LET i == worker[w].inv IN
    /\ Ready(w, op) /\ invoice[i].state \in {"held", "sold"}
    /\ \E up \in BOOLEAN : stock' = IncrementStock(w, up)
    /\ invoice' = [invoice EXCEPT ![i].state = "gone"]
    /\ Moved(worker[w].lines)
    /\ Ends(w)
    /\ UNCHANGED <<digital, live, adjusted, retyped, edits, faults>>

AlreadyGone(w) ==
    /\ Ready(w, "cancel") /\ invoice[worker[w].inv].state = "gone"
    /\ Rollback(w)

(* The sale of a prepaid order: its lines become the sale's.                *)
CommitPrepaid(w) ==
    LET i == worker[w].inv IN
    /\ Ready(w, "prepaid")
    /\ invoice' = [invoice EXCEPT ![i] = [state |-> "sold", lines |-> Recorded(@.lines)]]
    /\ Moved(invoice[i].lines)
    /\ Ends(w)
    /\ UNCHANGED <<stock, digital, live, adjusted, retyped, edits, faults>>

-----------------------------------------------------------------------------
(* Requests.                                                                *)

Starts(w, op, i, lines) ==
    /\ worker[w] = Idle
    /\ Becomes(w, [Idle EXCEPT !.op = op, !.inv = i, !.lines = lines,
            !.wants = IF op = "prepaid" THEN {} ELSE ProductsOf(lines),
            !.shares = IF op = "prepaid" THEN lines ELSE <<>>])
    /\ UNCHANGED <<stock, digital, live, invoice, locks, history, edits, faults>>

(* findProduct: the products of a cart are read one by one, without a lock; *)
(* one that was deleted is not found.                                       *)
Found(cart) == ProductsOf(cart) \subseteq live

(* buildOrder takes physical products that seem to be there.                *)
BuildOrder(cart) ==
    /\ Found(cart) /\ ProductsOf(cart) \cap digital = {}
    /\ \A k \in DOMAIN cart : stock[cart[k].product] >= cart[k].qty

Sell(w, s, cart) ==
    invoice[s].state = "none" /\ Found(cart) /\ Starts(w, "sell", s, cart)
CreateWithReservation(w, o, cart) ==
    invoice[o].state = "none" /\ BuildOrder(cart) /\ Starts(w, "reserve", o, cart)

(* The payment row is locked first: one of these at a time for an order.    *)
Busy(o) == \E u \in Workers : worker[u].inv = o

(* UpdateWithLock, when a charge failed or expired.                         *)
UpdateWithLock(w, o) ==
    /\ invoice[o].state = "held" /\ ~Busy(o)
    /\ Starts(w, "release", o, invoice[o].lines)

(* AddPrepaidTransaction, when it settled: deleted products are sold too;   *)
(* one that has become digital needs a destination, which no order has.     *)
AddPrepaidTransaction(w, o) ==
    /\ invoice[o].state = "held" /\ ~Busy(o)
    /\ ProductsOf(invoice[o].lines) \cap digital = {}
    /\ Starts(w, "prepaid", o, invoice[o].lines)

DeleteTransaction(w, s) ==
    /\ invoice[s].state = "sold"
    /\ Starts(w, "cancel", s, invoice[s].lines)

-----------------------------------------------------------------------------
(* One product at a time: the row's lock is taken and given back at once.   *)

Edit(p) ==
    /\ p \in live /\ owner[p] = NoWorker
    /\ edits < MaxEdits /\ edits' = edits + 1

(* UpdateStockWithLock.                                                     *)
UpdateStockWithLock(p, delta) ==
    /\ Edit(p) /\ sharers[p] = {}
    /\ \E up \in BOOLEAN :
        /\ RoundStock(stock[p] + delta, up) >= 0
        /\ stock' = [stock EXCEPT ![p] = RoundStock(@ + delta, up)]
    /\ adjusted' = [adjusted EXCEPT ![p] = @ + delta]
    /\ halves' = [halves EXCEPT ![p] = @ + (delta % 2)]
    /\ UNCHANGED <<digital, live, invoice, locks, worker, retyped, faults>>

(* UpdateProductWithLock with a product_type.                               *)
UpdateProductWithLock(p) ==
    /\ Edit(p) /\ sharers[p] = {}
    /\ digital' = IF p \in digital THEN digital \ {p} ELSE digital \cup {p}
    /\ retyped' = retyped \cup {p}
    /\ UNCHANGED <<stock, live, invoice, locks, worker, adjusted, halves, faults>>

(* DeleteProduct: a soft delete does not wait for the shared locks.         *)
DeleteProduct(p) ==
    /\ Edit(p)
    /\ live' = live \ {p}
    /\ UNCHANGED <<stock, digital, invoice, locks, worker, history, faults>>

-----------------------------------------------------------------------------
(* Waiting, and what the database does about it.                            *)

Blockers(w) ==
    IF Locking(w) /\ worker[w].wants # {}
    THEN LET p == Min(worker[w].wants) IN ({owner[p]} \cup sharers[p]) \ {w, NoWorker}
    ELSE IF Sharing(w) /\ worker[w].shares # <<>>
    THEN {owner[Head(worker[w].shares).product]} \ {w, NoWorker}
    ELSE {}

(* Transactions that wait for each other.                                   *)
Deadlocked(S) == S # {} /\ \A w \in S : Blockers(w) \cap S # {}
Cycle(S) == Deadlocked(S) /\ \A T \in SUBSET S : Deadlocked(T) => T = S

(* One of them gets 40P01; runTxDB runs it again, three times in all.       *)
DeadlockDetected(w) ==
    /\ \E S \in SUBSET Workers : w \in S /\ Cycle(S)
    /\ Unlock(w)
    /\ Becomes(w,
        IF worker[w].attempt + 1 = maxTxRetries THEN Idle
        ELSE [worker[w] EXCEPT
                !.attempt = @ + 1,
                !.wants  = IF Sharing(w) THEN {} ELSE ProductsOf(worker[w].lines),
                !.shares = IF Sharing(w) THEN worker[w].lines ELSE <<>>])
    /\ UNCHANGED <<stock, digital, live, invoice, history, edits, faults>>

(* A crash or a lost connection: the transaction is rolled back.            *)
Abort(w) ==
    /\ worker[w] # Idle /\ faults < MaxFaults
    /\ faults' = faults + 1
    /\ Ends(w)
    /\ UNCHANGED <<stock, digital, live, invoice, history, edits>>

Step(w) ==
    \/ LockProductsOrdered(w) \/ ShareProduct(w)
    \/ CommitSale(w) \/ CommitReservation(w) \/ Refused(w)
    \/ PutBack(w, "release") \/ PutBack(w, "cancel") \/ AlreadyGone(w)
    \/ CommitPrepaid(w) \/ DeadlockDetected(w)

Next ==
    \/ \E w \in Workers :
        \/ Step(w) \/ Abort(w)
        \/ \E s \in Sales : DeleteTransaction(w, s) \/ \E cart \in Carts : Sell(w, s, cart)
        \/ \E o \in Orders :
            \/ UpdateWithLock(w, o) \/ AddPrepaidTransaction(w, o)
            \/ \E cart \in Carts : CreateWithReservation(w, o, cart)
    \/ \E p \in Products :
        \/ \E delta \in Deltas : UpdateStockWithLock(p, delta)
        \/ UpdateProductWithLock(p) \/ DeleteProduct(p)

Spec == Init /\ [][Next]_vars

-----------------------------------------------------------------------------
(* Properties.                                                              *)

(* Every stock is whole cents and never negative, and the row locks exclude *)
(* each other as the database promises.                                     *)
TypeOK ==
    /\ \A p \in Products : stock[p] \in Nat /\ stock[p] % 2 = 0
    /\ digital \subseteq Products /\ live \subseteq Products
    /\ \A i \in Invoices : invoice[i].state \in {"none", "held", "sold", "gone"}
    /\ owner \in [Products -> Workers \cup {NoWorker}]
    /\ sharers \in [Products -> SUBSET Workers]
    /\ \A p \in Products : owner[p] # NoWorker => sharers[p] \subseteq {owner[p]}
    /\ \A w \in Workers : worker[w].op \in Ops /\ worker[w].attempt < maxTxRetries
    /\ edits \in 0..MaxEdits /\ faults \in 0..MaxFaults

Outstanding(p) ==
    MapThenSumSet(LAMBDA i : QtyOf(p, invoice[i].lines),
                  {i \in Invoices : invoice[i].state \in {"held", "sold"}})

(* What the books miss of a product: stock, goods out and corrections       *)
(* against the first count.                                                 *)
Drift(p) ==
    stock[p] + (IF p \in digital THEN 0 ELSE Outstanding(p)) - adjusted[p] - InitialStock

(* The stock of a product always accounts for the sales and reservations    *)
(* that stand, whichever orders came, failed, were cancelled or shared its  *)
(* row, to the cent; only half cents are lost or found, at most a cent each *)
(* time one is rounded.  (A product that changes its type in between is     *)
(* counted as the type it has on the day: see README.)                      *)
StockAccounted ==
    \A p \in Products \ retyped : Drift(p) \in -2 * halves[p] .. 2 * halves[p]

(* Sales, reservations, releases and cancellations never wait for each      *)
(* other in a circle: each circle has the sale of a prepaid order in it,    *)
(* whose foreign keys lock in the order of its lines.                       *)
CirclesNeedPrepaid ==
    \A S \in SUBSET Workers : Deadlocked(S) => \E w \in S : Sharing(w)

(* The stock of a digital product is what was typed in: no sale or          *)
(* cancellation touches it.                                                 *)
DigitalUntouched ==
    [][\A p \in digital : stock'[p] # stock[p] => adjusted'[p] # adjusted[p]]_vars

=============================================================================
