------------------------------ MODULE DebtLedger ------------------------------
(***************************************************************************)
(* What customers owe: debts, the sales on credit (hutang) that open or    *)
(* raise them, the instalments that pay them off, and the deletes that     *)
(* must not undo what was paid, as debt_repository.go, the debt half of    *)
(* transaction_repository.go and customer_repository.go run them.          *)
(*                                                                         *)
(* A step is one statement of a database transaction that other requests   *)
(* can run into: the row locks a transaction holds follow from its program *)
(* counter, what it read under a lock is kept with it, and its writes and  *)
(* its commit are one step.  The goods of a sale are OnlinePayment's.      *)
(***************************************************************************)
EXTENDS Integers, Sequences, FiniteSets, FiniteSetsExt, SequencesExt

CONSTANTS
    Customers,      \* customers of the shop
    DebtIds,        \* ids a row of the debts table can get
    SaleIds,        \* ids a hutang sale can get
    Workers,        \* request goroutines
    Amounts,        \* totals of hutang sales; a manual debt is never of 0
    Nominals,       \* amounts paid
    Keys,           \* idempotency keys clients send
    BlankKey,       \* the empty string as a key
    NoKey,          \* a request without a key (NULL in debt_payments)
    MaxTxRetries,   \* maxTxRetries of runTxDB
    MaxTotal,       \* bound: everything ever lent
    MaxFaults,      \* bound: crashes and database errors
    NoCustomer, NoDebt, NoSale

ASSUME DebtAssumption ==
    /\ Amounts \subseteq Nat
    /\ Nominals \subseteq Nat \ {0}             \* validate:"required,gt=0"
    /\ NoKey \notin Keys
    /\ MaxTxRetries \in Nat \ {0}
    /\ MaxTotal \in Nat /\ MaxFaults \in Nat
    /\ NoCustomer \notin Customers /\ NoDebt \notin DebtIds /\ NoSale \notin SaleIds

VARIABLES
    customer,   \* the customers table: which rows are not deleted
    debt,       \* the debts table
    paid,       \* the debt_payments rows of each debt, oldest first
    sale,       \* the hutang rows of the transactions table
    worker,     \* the request each worker is in the middle of
    reply,      \* the answer each worker gave to its last payment
    faults      \* faults so far

vars == <<customer, debt, paid, sale, worker, reply, faults>>

Statuses == {"BELUM_LUNAS", "LUNAS"}

DebtRows == [state : {"absent", "live", "deleted"}, customer : Customers \cup {NoCustomer},
             total : Nat, remaining : Nat, status : Statuses]

Instalments == [key : Keys \cup {NoKey}, nominal : Nominals, previous : Nat]

CreditSales == [state : {"absent", "live", "deleted"}, debt : DebtIds \cup {NoDebt},
                total : Nat]

PCs == {"idle", "customer", "open", "save", "lookup", "lock", "record", "delete"}

WorkerStates == [pc : PCs, customer : Customers \cup {NoCustomer},
                 sale : SaleIds \cup {NoSale}, debt : DebtIds \cup {NoDebt},
                 amount : Nat, key : Keys \cup {NoKey},
                 total : Nat, remaining : Nat, attempt : 0..MaxTxRetries]

Outcomes == {"none", "receipt", "refused", "error"}

Replies == [outcome : Outcomes, debt : DebtIds \cup {NoDebt}, key : Keys \cup {NoKey},
            nominal : Nat, previous : Nat, remaining : Nat, total : Nat]

TypeOK ==
    /\ customer \in [Customers -> {"live", "deleted"}]
    /\ debt \in [DebtIds -> DebtRows]
    /\ paid \in [DebtIds -> Seq(Instalments)]
    /\ sale \in [SaleIds -> CreditSales]
    /\ worker \in [Workers -> WorkerStates]
    /\ reply \in [Workers -> Replies]
    /\ faults \in 0..MaxFaults

Idle == [pc |-> "idle", customer |-> NoCustomer, sale |-> NoSale, debt |-> NoDebt,
         amount |-> 0, key |-> NoKey, total |-> 0, remaining |-> 0, attempt |-> 0]

NoReply == [outcome |-> "none", debt |-> NoDebt, key |-> NoKey, nominal |-> 0,
            previous |-> 0, remaining |-> 0, total |-> 0]

Init ==
    /\ customer = [c \in Customers |-> "live"]
    /\ debt = [d \in DebtIds |-> [state |-> "absent", customer |-> NoCustomer,
                                  total |-> 0, remaining |-> 0, status |-> "LUNAS"]]
    /\ paid = [d \in DebtIds |-> << >>]
    /\ sale = [t \in SaleIds |-> [state |-> "absent", debt |-> NoDebt, total |-> 0]]
    /\ worker = [w \in Workers |-> Idle]
    /\ reply = [w \in Workers |-> NoReply]
    /\ faults = 0

-----------------------------------------------------------------------------
(* Rows, locks and retries. *)

In(w, p)   == worker[w].pc = p
Goto(w, s) == worker' = [worker EXCEPT ![w] = s]

IsOpen(d, c) == debt[d].state = "live" /\ debt[d].customer = c /\ debt[d].status = "BELUM_LUNAS"

StatusOf(remaining) == IF remaining = 0 THEN "LUNAS" ELSE "BELUM_LUNAS"

(* Mutant: amounts may go below zero.                                       *)
MinusUnclamped(a, b) == a - b

Minus(a, b) == IF a < b THEN 0 ELSE a - b

(* Mutant: the customer is read without FOR SHARE.                          *)
SharesNothing(c) == FALSE

(* Someone is between lockCustomerShared and the end of its transaction.    *)
SharesCustomer(c) ==
    \E w \in Workers : worker[w].pc \in {"open", "save"} /\ worker[w].customer = c

(* Mutant: debts are read without FOR UPDATE.                               *)
LocksNothing(d) == FALSE

(* Someone holds FOR UPDATE on the debt.                                    *)
LocksDebt(d) ==
    \E w \in Workers : worker[w].pc \in {"save", "record"} /\ worker[w].debt = d

(* Mutant: runTxDB never gives up.                                          *)
RetryForever(w, pc) ==
    /\ Goto(w, [worker[w] EXCEPT !.pc = pc])
    /\ UNCHANGED reply

(* Mutant: a payment is looked up only once, before runTxDB.                *)
RetryFromLock(w, pc) ==
    LET again == IF pc = "lookup" THEN "lock" ELSE pc IN
    IF worker[w].attempt + 1 < MaxTxRetries
    THEN /\ Goto(w, [worker[w] EXCEPT !.pc = again, !.attempt = worker[w].attempt + 1])
         /\ UNCHANGED reply
    ELSE /\ Goto(w, Idle)
         /\ IF pc = "lookup"
            THEN reply' = [reply EXCEPT ![w] = [NoReply EXCEPT !.outcome = "error"]]
            ELSE UNCHANGED reply

(* runTxDB after a unique violation: the transaction is rolled back and run *)
(* again from its first statement, maxTxRetries times in all.  A payment    *)
(* that is given up is answered with an error.                              *)
Retry(w, pc) ==
    IF worker[w].attempt + 1 < MaxTxRetries
    THEN /\ Goto(w, [worker[w] EXCEPT !.pc = pc, !.attempt = worker[w].attempt + 1])
         /\ UNCHANGED reply
    ELSE /\ Goto(w, Idle)
         /\ IF pc = "lookup"
            THEN reply' = [reply EXCEPT ![w] = [NoReply EXCEPT !.outcome = "error"]]
            ELSE UNCHANGED reply

-----------------------------------------------------------------------------
(* AddDebt and the hutang branch of CreateTransaction.                      *)

(* Bounds: everything lent stays within MaxTotal, and every request that is *)
(* under way can still insert a debt.                                       *)
Opening == {w \in Workers : worker[w].pc \in {"customer", "open", "save"}}

RoomFor(n) ==
    /\ n + MapThenSumSet(LAMBDA d : debt[d].total, DebtIds)
         + MapThenSumSet(LAMBDA w : worker[w].amount, Opening) <= MaxTotal
    /\ Cardinality(Opening) < Cardinality({d \in DebtIds : debt[d].state = "absent"})

(* POST /debts, or POST /transactions with payment type hutang, of the sale *)
(* t; the catalogue lets an item be free, so the sale may come to 0.        *)
Lend(w, c, t, n) ==
    /\ In(w, "idle")
    /\ \/ t = NoSale /\ n > 0
       \/ /\ t \in SaleIds /\ sale[t].state = "absent"
          /\ \A v \in Opening : worker[v].sale # t
    /\ RoomFor(n)
    /\ Goto(w, [Idle EXCEPT !.pc = "customer", !.customer = c, !.sale = t, !.amount = n])
    /\ UNCHANGED <<customer, debt, paid, sale, reply, faults>>

(* lockCustomerShared: NotFound for a deleted customer.                     *)
LockCustomerShared(w) ==
    /\ In(w, "customer")
    /\ Goto(w, IF customer[worker[w].customer] = "live"
               THEN [worker[w] EXCEPT !.pc = "open"]
               ELSE Idle)
    /\ UNCHANGED <<customer, debt, paid, sale, reply, faults>>

(* The open debt of the customer, FOR UPDATE: a locked one is waited for    *)
(* and looked at again.  What is read is what will be added to.             *)
LockOpenDebt(w) ==
    /\ In(w, "open")
    /\ \/ \E d \in DebtIds :
            /\ IsOpen(d, worker[w].customer)
            /\ ~LocksDebt(d)
            /\ Goto(w, [worker[w] EXCEPT !.pc = "save", !.debt = d,
                                         !.total = debt[d].total,
                                         !.remaining = debt[d].remaining])
       \/ /\ \A d \in DebtIds : ~IsOpen(d, worker[w].customer)
          /\ Goto(w, [worker[w] EXCEPT !.pc = "save", !.debt = NoDebt,
                                       !.total = 0, !.remaining = 0])
    /\ UNCHANGED <<customer, debt, paid, sale, reply, faults>>

SaveSale(w, d) ==
    sale' = IF worker[w].sale = NoSale
            THEN sale
            ELSE [sale EXCEPT ![worker[w].sale] =
                    [state |-> "live", debt |-> d, total |-> worker[w].amount]]

(* Mutant: idx_debts_customer_open is missing.                              *)
InsertSecondDebt(w) ==
    /\ In(w, "save") /\ worker[w].debt = NoDebt
    /\ \E d \in DebtIds :
         /\ debt[d].state = "absent"
         /\ debt' = [debt EXCEPT ![d] =
                [state |-> "live", customer |-> worker[w].customer,
                 total |-> worker[w].amount, remaining |-> worker[w].amount,
                 status |-> "BELUM_LUNAS"]]
         /\ SaveSale(w, d)
    /\ Goto(w, Idle)
    /\ UNCHANGED <<customer, paid, reply, faults>>

(* No open debt was found: one is inserted.  If another request inserted    *)
(* one meanwhile, idx_debts_customer_open refuses it and the transaction is *)
(* run again.                                                               *)
InsertDebt(w) ==
    /\ In(w, "save") /\ worker[w].debt = NoDebt
    /\ IF \E d \in DebtIds : IsOpen(d, worker[w].customer)
       THEN Retry(w, "customer") /\ UNCHANGED <<debt, sale>>
       ELSE /\ \E d \in DebtIds :
                 /\ debt[d].state = "absent"
                 /\ debt' = [debt EXCEPT ![d] =
                        [state |-> "live", customer |-> worker[w].customer,
                         total |-> worker[w].amount, remaining |-> worker[w].amount,
                         status |-> "BELUM_LUNAS"]]
                 /\ SaveSale(w, d)
            /\ Goto(w, Idle)
            /\ UNCHANGED reply
    /\ UNCHANGED <<customer, paid, faults>>

(* The open debt grows by the amount, and the sale is recorded on it.       *)
RaiseDebt(w) ==
    LET d == worker[w].debt IN
    /\ In(w, "save") /\ d # NoDebt
    /\ debt' = [debt EXCEPT ![d].total = worker[w].total + worker[w].amount,
                            ![d].remaining = worker[w].remaining + worker[w].amount,
                            ![d].status = "BELUM_LUNAS"]
    /\ SaveSale(w, d)
    /\ Goto(w, Idle)
    /\ UNCHANGED <<customer, paid, reply, faults>>

-----------------------------------------------------------------------------
(* PayDebt.                                                                 *)

Answer(w, outcome, previous, remaining, total) ==
    reply' = [reply EXCEPT ![w] =
        [outcome |-> outcome, debt |-> worker[w].debt, key |-> worker[w].key,
         nominal |-> worker[w].amount, previous |-> previous,
         remaining |-> remaining, total |-> total]]

Refuse(w) == Answer(w, "refused", 0, 0, 0) /\ Goto(w, Idle)

(* POST /debts/pay.  A client that got no answer sends the same again.      *)
PayRequest(w, d, k, n) ==
    /\ In(w, "idle")
    /\ debt[d].state # "absent"
    /\ Goto(w, [Idle EXCEPT !.pc = "lookup", !.debt = d, !.key = k, !.amount = n])
    /\ reply' = [reply EXCEPT ![w] = NoReply]
    /\ UNCHANGED <<customer, debt, paid, sale, faults>>

Recorded(d, k) == {i \in DOMAIN paid[d] : paid[d][i].key = k}

(* Mutant: a payment is answered again with what is owed today.             *)
FindPaymentToday(w) ==
    LET d == worker[w].debt
        k == worker[w].key
    IN
    /\ In(w, "lookup")
    /\ \/ /\ k \in {NoKey, BlankKey} \/ Recorded(d, k) = {}
          /\ Goto(w, [worker[w] EXCEPT !.pc = "lock"])
          /\ UNCHANGED reply
       \/ /\ k \notin {NoKey, BlankKey}
          /\ \E i \in Recorded(d, k) :
                IF paid[d][i].nominal # worker[w].amount
                THEN Refuse(w)
                ELSE /\ Answer(w, "receipt", paid[d][i].previous, debt[d].remaining,
                               debt[d].total)
                     /\ Goto(w, Idle)
    /\ UNCHANGED <<customer, debt, paid, sale, faults>>

(* A payment with this key is answered again as it was answered before,     *)
(* except for the debt's total, which is today's; another amount under the  *)
(* same key is refused.  Without a key, or with a blank one, nothing is     *)
(* looked up.  (A debt with payments is never deleted, so the load of the   *)
(* debt finds it.)                                                          *)
FindPayment(w) ==
    LET d == worker[w].debt
        k == worker[w].key
    IN
    /\ In(w, "lookup")
    /\ \/ /\ k \in {NoKey, BlankKey} \/ Recorded(d, k) = {}
          /\ Goto(w, [worker[w] EXCEPT !.pc = "lock"])
          /\ UNCHANGED reply
       \/ /\ k \notin {NoKey, BlankKey}
          /\ \E i \in Recorded(d, k) :
                IF paid[d][i].nominal # worker[w].amount
                THEN Refuse(w)
                ELSE /\ Answer(w, "receipt", paid[d][i].previous,
                               paid[d][i].previous - paid[d][i].nominal, debt[d].total)
                     /\ Goto(w, Idle)
    /\ UNCHANGED <<customer, debt, paid, sale, faults>>

(* What the locked row refuses: a debt that is paid off, or a payment       *)
(* larger than what is owed.                                                *)
Unpayable(d, n) ==
    debt[d].remaining = 0 \/ debt[d].status = "LUNAS" \/ n > debt[d].remaining

(* The debt, FOR UPDATE.                                                    *)
LockDebt(w) ==
    LET d == worker[w].debt IN
    /\ In(w, "lock")
    /\ ~LocksDebt(d)
    /\ IF debt[d].state # "live" \/ Unpayable(d, worker[w].amount)
       THEN Refuse(w)
       ELSE /\ Goto(w, [worker[w] EXCEPT !.pc = "record", !.remaining = debt[d].remaining])
            /\ UNCHANGED reply
    /\ UNCHANGED <<customer, debt, paid, sale, faults>>

(* Mutant: idx_debt_payments_idempotency is missing.                        *)
KeyTakenNever(d, k) == FALSE

(* idx_debt_payments_idempotency holds a row of this debt and key: a blank  *)
(* key is a key to the index.                                               *)
KeyTaken(d, k) == k # NoKey /\ Recorded(d, k) # {}

(* Mutant: a debt that is paid off stays open.                              *)
RecordPaymentKeepsOpen(w) ==
    LET d == worker[w].debt
        r == Minus(worker[w].remaining, worker[w].amount)
    IN
    /\ In(w, "record")
    /\ IF KeyTaken(d, worker[w].key)
       THEN Retry(w, "lookup") /\ UNCHANGED <<debt, paid>>
       ELSE /\ debt' = [debt EXCEPT ![d].remaining = r]
            /\ paid' = [paid EXCEPT ![d] = Append(@,
                    [key |-> worker[w].key, nominal |-> worker[w].amount,
                     previous |-> worker[w].remaining])]
            /\ Answer(w, "receipt", worker[w].remaining, r, debt[d].total)
            /\ Goto(w, Idle)
    /\ UNCHANGED <<customer, sale, faults>>

(* The debt is reduced and the payment recorded.  If another request        *)
(* recorded this key meanwhile the transaction is run again, and finds it.  *)
RecordPayment(w) ==
    LET d == worker[w].debt
        r == Minus(worker[w].remaining, worker[w].amount)
    IN
    /\ In(w, "record")
    /\ IF KeyTaken(d, worker[w].key)
       THEN Retry(w, "lookup") /\ UNCHANGED <<debt, paid>>
       ELSE /\ debt' = [debt EXCEPT ![d].remaining = r, ![d].status = StatusOf(r)]
            /\ paid' = [paid EXCEPT ![d] = Append(@,
                    [key |-> worker[w].key, nominal |-> worker[w].amount,
                     previous |-> worker[w].remaining])]
            /\ Answer(w, "receipt", worker[w].remaining, r, debt[d].total)
            /\ Goto(w, Idle)
    /\ UNCHANGED <<customer, sale, faults>>

-----------------------------------------------------------------------------
(* The deletes.                                                             *)

(* DELETE /transactions: assertTransactionDeletable counts the instalments  *)
(* of the sale's debt before the debt is locked.                            *)
AssertTransactionDeletable(w, t) ==
    /\ In(w, "idle")
    /\ sale[t].state = "live"
    /\ paid[sale[t].debt] = << >>
    /\ Goto(w, [Idle EXCEPT !.pc = "delete", !.sale = t])
    /\ UNCHANGED <<customer, debt, paid, sale, reply, faults>>

(* The debt without a sale of n.                                            *)
Reversed(row, n) ==
    [row EXCEPT !.total = Minus(row.total, n),
                !.remaining = Minus(row.remaining, n),
                !.status = StatusOf(Minus(row.remaining, n))]

(* The debt is reversed under its lock and the sale deleted; a debt that    *)
(* was deleted is left alone, and a sale that was deleted meanwhile rolls   *)
(* everything back.                                                         *)
DeleteTransaction(w) ==
    LET t == worker[w].sale
        d == sale[t].debt
    IN
    /\ In(w, "delete")
    /\ debt[d].state = "live" => ~LocksDebt(d)
    /\ IF sale[t].state # "live"
       THEN UNCHANGED <<debt, sale>>
       ELSE /\ sale' = [sale EXCEPT ![t].state = "deleted"]
            /\ debt' = IF debt[d].state = "live"
                       THEN [debt EXCEPT ![d] = Reversed(debt[d], sale[t].total)]
                       ELSE debt
    /\ Goto(w, Idle)
    /\ UNCHANGED <<customer, paid, reply, faults>>

(* DELETE /debts, under the lock of the debt, which every payment needs.    *)
DeleteDebt(d) ==
    /\ debt[d].state = "live" /\ ~LocksDebt(d)
    /\ debt[d].remaining = 0
    /\ paid[d] = << >>
    /\ debt' = [debt EXCEPT ![d].state = "deleted"]
    /\ UNCHANGED <<customer, paid, sale, worker, reply, faults>>

(* DELETE /customers, under the lock of the customer, which every request   *)
(* that opens or raises a debt shares.                                      *)
DeleteCustomer(c) ==
    /\ customer[c] = "live" /\ ~SharesCustomer(c)
    /\ \A d \in DebtIds : ~IsOpen(d, c)
    /\ customer' = [customer EXCEPT ![c] = "deleted"]
    /\ UNCHANGED <<debt, paid, sale, worker, reply, faults>>

(* A crash or a database error rolls the transaction back.                  *)
Abort(w) ==
    /\ ~In(w, "idle")
    /\ faults < MaxFaults
    /\ faults' = faults + 1
    /\ Goto(w, Idle)
    /\ UNCHANGED <<customer, debt, paid, sale, reply>>

-----------------------------------------------------------------------------

(* What a worker does once it has taken up a request.                       *)
Step(w) ==
    \/ LockCustomerShared(w) \/ LockOpenDebt(w) \/ InsertDebt(w) \/ RaiseDebt(w)
    \/ FindPayment(w) \/ LockDebt(w) \/ RecordPayment(w)
    \/ DeleteTransaction(w)

Next ==
    \/ \E w \in Workers : Step(w) \/ Abort(w)
    \/ \E w \in Workers, c \in Customers, t \in SaleIds \cup {NoSale}, n \in Amounts :
            Lend(w, c, t, n)
    \/ \E w \in Workers, d \in DebtIds, k \in Keys \cup {NoKey}, n \in Nominals :
            PayRequest(w, d, k, n)
    \/ \E w \in Workers, t \in SaleIds : AssertTransactionDeletable(w, t)
    \/ \E d \in DebtIds : DeleteDebt(d)
    \/ \E c \in Customers : DeleteCustomer(c)

Spec == Init /\ [][Next]_vars

(* A request runs on until it is done; PostgreSQL hands a row lock to those *)
(* who wait for it in turn.                                                 *)
FairSpec == Spec /\ \A w \in Workers : SF_vars(Step(w))

-----------------------------------------------------------------------------
(* Properties. *)

(* A customer has one open debt at most, though two sales on credit may     *)
(* both find none (the comment at idx_debts_customer_open).                 *)
OneOpenDebt ==
    \A c \in Customers, d1, d2 \in DebtIds : IsOpen(d1, c) /\ IsOpen(d2, c) => d1 = d2

(* Nobody deleted owes anything: DeleteCustomer counts the open debts while *)
(* AddDebt and CreateTransaction are kept out by the customer's lock.       *)
OpenDebtHasCustomer ==
    \A c \in Customers, d \in DebtIds : IsOpen(d, c) => customer[c] = "live"

(* A debt is closed exactly when nothing is owed on it any more, through    *)
(* payments, raises and reversals in any order.                             *)
ClosedIsPaidOff ==
    \A d \in DebtIds : debt[d].state = "live" =>
        (debt[d].status = "LUNAS" <=> debt[d].remaining = 0)

Total(seq) == FoldLeft(LAMBDA sum, p : sum + p.nominal, 0, seq)

PaidOn(d) == Total(paid[d])

(* Somebody cancelled a sale that was on the debt.                          *)
SomeCancelled(d) == \E t \in SaleIds : sale[t].state = "deleted" /\ sale[t].debt = d

(* No raise is lost to a payment: what is no longer owed of the total was   *)
(* paid, nothing is forgiven.  And no payment is lost to a raise: while no  *)
(* sale of the debt was cancelled, every instalment is off what is owed.    *)
NothingForgiven ==
    \A d \in DebtIds : debt[d].state = "live" =>
        /\ debt[d].total - debt[d].remaining <= PaidOn(d)
        /\ ~SomeCancelled(d) => debt[d].total - debt[d].remaining >= PaidOn(d)

(* The instalments add up: what is no longer owed is what was paid.         *)
LedgerBalances ==
    \A d \in DebtIds : debt[d].state = "live" =>
        debt[d].total - debt[d].remaining = PaidOn(d)

(* A payment is recorded once under its key, however often and however      *)
(* concurrently the client sends it.                                        *)
PaidOnce ==
    \A d \in DebtIds : \A i, j \in DOMAIN paid[d] :
        paid[d][i].key = paid[d][j].key /\ paid[d][i].key # NoKey => i = j

(* A debt that was paid off is never reopened: a sale that raised it in     *)
(* between would be owed on an account the customer was told is closed.     *)
ClosedStaysClosed ==
    [][\A d \in DebtIds : debt[d].state = "live" /\ debt[d].status = "LUNAS" =>
            debt'[d].status = "LUNAS"]_vars

(* Every transaction that commits is one entry of CreditBook: whatever       *)
(* statements, locks and retries it took, it raises, reduces or strikes out *)
(* what the book says at that moment, under the conditions of that moment.  *)
AccountIn(row) ==
    [stage |-> IF row.state # "live" THEN row.state
               ELSE IF row.status = "LUNAS" THEN "closed" ELSE "open",
     holder |-> row.customer, lent |-> row.total, owed |-> row.remaining]

CreditIn(row) ==
    [stage |-> IF row.state = "live" THEN "stands"
               ELSE IF row.state = "deleted" THEN "struck" ELSE "absent",
     account |-> row.debt, worth |-> row.total]

Book == INSTANCE CreditBook WITH
    Accounts <- DebtIds, Nobody <- NoCustomer, NoAccount <- NoDebt,
    known    <- {c \in Customers : customer[c] = "live"},
    account  <- [d \in DebtIds |-> AccountIn(debt[d])],
    received <- [d \in DebtIds |-> PaidOn(d)],
    used     <- [d \in DebtIds |-> {paid[d][i].key : i \in DOMAIN paid[d]} \ {NoKey}],
    credit   <- [t \in SaleIds |-> CreditIn(sale[t])]

BookKept == Book!BookSpec

(* A request whose very payment is recorded already is answered with its    *)
(* receipt, never refused.                                                  *)
RecordedIsNotRefused ==
    [][\A w \in Workers : worker[w].pc = "lock" /\ reply'[w].outcome = "refused" =>
            ~ \E i \in Recorded(worker[w].debt, worker[w].key) :
                 /\ worker[w].key # NoKey
                 /\ paid[worker[w].debt][i].nominal = worker[w].amount]_vars

(* No payment is given up after maxTxRetries attempts.                      *)
PaymentNotGivenUp == \A w \in Workers : reply[w].outcome # "error"

(* A payment sent again under its key is answered with the balance the      *)
(* first answer gave, whatever has happened to the debt since.              *)
SameBalance ==
    \A v, w \in Workers :
        /\ reply[v].outcome = "receipt" /\ reply[w].outcome = "receipt"
        /\ reply[v].key \notin {NoKey, BlankKey}
        /\ reply[v].debt = reply[w].debt /\ reply[v].key = reply[w].key
        => /\ reply[v].previous = reply[w].previous
           /\ reply[v].remaining = reply[w].remaining

(* Every request ends: no circle of row locks, no endless retry.            *)
RequestEnds == \A w \in Workers : ~In(w, "idle") ~> In(w, "idle")

=============================================================================
