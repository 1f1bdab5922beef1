--------------------------- MODULE DebtLedgerProofs ---------------------------
(***************************************************************************)
(* What DebtLedger promises holds for any customers, debts, sales,         *)
(* requests, amounts and faults.                                           *)
(***************************************************************************)
EXTENDS DebtLedger, FoldLemmas

(* The invariant says what a request may rely on between two statements:    *)
(* the rows it has locked are as it read them, nobody else has locked them, *)
(* and its customer is not deleted.                                         *)

Lends == {"customer", "open", "save"}
Pays  == {"lookup", "lock", "record"}

HasLocked(s, d) == s.pc \in {"save", "record"} /\ s.debt = d

WorkerOK(s) ==
    /\ s.pc \in Lends => s.customer \in Customers
    /\ s.pc \in {"open", "save"} => customer[s.customer] = "live"
    /\ s.pc = "save" /\ s.debt # NoDebt =>
        /\ IsOpen(s.debt, s.customer)
        /\ s.total = debt[s.debt].total /\ s.remaining = debt[s.debt].remaining
    /\ s.pc \in Pays =>
        /\ s.debt \in DebtIds /\ s.amount \in Nominals
        /\ debt[s.debt].state # "absent"
    /\ s.pc = "record" =>
        /\ debt[s.debt].state = "live" /\ debt[s.debt].status = "BELUM_LUNAS"
        /\ s.remaining = debt[s.debt].remaining /\ s.amount <= s.remaining
    /\ s.pc = "delete" => s.sale \in SaleIds /\ sale[s.sale].state # "absent"

Held == \A w \in Workers : WorkerOK(worker[w])

Apart ==
    \A v, w \in Workers, d \in DebtIds :
        HasLocked(worker[v], d) /\ HasLocked(worker[w], d) => v = w

RowsOK ==
    /\ \A t \in SaleIds : sale[t].state # "absent" => sale[t].debt \in DebtIds
    /\ \A d \in DebtIds : debt[d].status = "LUNAS" => debt[d].remaining = 0
    /\ \A d \in DebtIds : \A i \in DOMAIN paid[d] : paid[d][i].nominal <= paid[d][i].previous

(* The receipt a client was given is that of a recorded payment.            *)
IsReceipt(r) ==
    r.outcome = "receipt" /\ r.key \notin {NoKey, BlankKey} =>
        /\ r.debt \in DebtIds
        /\ \E i \in DOMAIN paid[r.debt] :
            /\ paid[r.debt][i].key = r.key
            /\ r.previous = paid[r.debt][i].previous
            /\ r.remaining = paid[r.debt][i].previous - paid[r.debt][i].nominal

Receipts == \A w \in Workers : IsReceipt(reply[w])

Rows == TypeOK /\ RowsOK /\ OneOpenDebt /\ OpenDebtHasCustomer /\ PaidOnce /\ Receipts

IInv == Rows /\ Held /\ Apart

LEMMA IdleOK ==
    /\ Idle \in WorkerStates /\ WorkerOK(Idle) /\ WorkerOK(Idle)'
    /\ \A d : ~HasLocked(Idle, d)
  BY DebtAssumption DEF Idle, WorkerStates, PCs, WorkerOK, Lends, Pays, HasLocked

LEMMA NoReplyOK == NoReply \in Replies /\ NoReply.outcome = "none"
  BY DEF NoReply, Replies, Outcomes

(* What a request finds in its own locals.                                  *)
LEMMA Own ==
    ASSUME IInv, NEW w \in Workers
    PROVE  /\ worker[w] \in WorkerStates /\ WorkerOK(worker[w])
           /\ faults \in 0..MaxFaults /\ (faults < MaxFaults => faults + 1 \in 0..MaxFaults)
  BY DebtAssumption DEF IInv, Rows, TypeOK, Held

LEMMA LockMeans == \A d : LocksDebt(d) <=> \E w \in Workers : HasLocked(worker[w], d)
  BY DEF LocksDebt, HasLocked

-----------------------------------------------------------------------------
(* The requests.                                                            *)

LEMMA Moves ==
    ASSUME IInv, NEW w \in Workers, NEW s \in WorkerStates, Goto(w, s), WorkerOK(s)',
           \A v \in Workers \ {w} : \A t : t = worker[v] => WorkerOK(t)',
           \A d \in DebtIds, v \in Workers \ {w} : HasLocked(s, d) => ~HasLocked(worker[v], d)
    PROVE  worker' \in [Workers -> WorkerStates] /\ Held' /\ Apart'
  <1>1. /\ worker' \in [Workers -> WorkerStates] /\ worker'[w] = s
        /\ \A v \in Workers \ {w} : worker'[v] = worker[v]
    BY DEF IInv, Rows, TypeOK, Goto
  <1>2. ASSUME NEW v \in Workers PROVE WorkerOK(worker[v])'
    <2>1. PICK t : t = worker'[v] /\ WorkerOK(t)'
      BY <1>1
    <2> QED
      BY <2>1 DEF WorkerOK, IsOpen
  <1>3. Apart'
    BY <1>1 DEF IInv, Apart, HasLocked
  <1> QED
    BY <1>1, <1>2, <1>3 DEF Held

(* What a request relies on stays, unless one of its rows is changed.       *)
LEMMA Stays ==
    ASSUME IInv, NEW v \in Workers,
           \A d \in DebtIds : debt'[d] = debt[d]
                                \/ (debt'[d].state # "absent" /\ ~HasLocked(worker[v], d)),
           \A c \in Customers : customer'[c] = customer[c]
                                \/ (worker[v].pc \in {"open", "save"} => worker[v].customer # c),
           \A t \in SaleIds : sale[t].state # "absent" => sale'[t].state # "absent"
    PROVE  \A t : t = worker[v] => WorkerOK(t)'
  <1> SUFFICES ASSUME NEW t, t = worker[v] PROVE WorkerOK(t)'
    OBVIOUS
  <1>1. t \in WorkerStates /\ WorkerOK(t)
    BY Own
  <1>2. t.pc \in {"open", "save"} => customer'[t.customer] = "live"
    BY <1>1 DEF WorkerOK, Lends
  <1>3. t.pc = "save" /\ t.debt # NoDebt => t.debt \in DebtIds /\ debt'[t.debt] = debt[t.debt]
    BY <1>1 DEF WorkerStates, HasLocked
  <1>4. t.pc \in Pays => debt'[t.debt].state # "absent"
    BY <1>1 DEF WorkerOK
  <1>5. t.pc = "record" => debt'[t.debt] = debt[t.debt]
    BY <1>1 DEF WorkerOK, Pays, HasLocked
  <1>6. t.pc = "delete" => sale'[t.sale].state # "absent"
    BY <1>1 DEF WorkerOK
  <1> QED
    BY <1>1, <1>2, <1>3, <1>4, <1>5, <1>6 DEF WorkerOK, IsOpen

(* A step that changes no row.                                              *)
LEMMA RowsStay ==
    ASSUME IInv, UNCHANGED <<customer, debt, paid, sale>>, faults' \in 0..MaxFaults,
           worker' \in [Workers -> WorkerStates], reply' \in [Workers -> Replies], Receipts'
    PROVE  Rows'
  <1>1. TypeOK'
    BY DEF IInv, Rows, TypeOK
  <1>2. RowsOK' /\ OneOpenDebt' /\ OpenDebtHasCustomer' /\ PaidOnce'
    BY DEF IInv, Rows, RowsOK, OneOpenDebt, OpenDebtHasCustomer, PaidOnce, IsOpen
  <1> QED
    BY <1>1, <1>2 DEF Rows

LEMMA ReceiptsStay ==
    ASSUME IInv, UNCHANGED <<paid, reply>>
    PROVE  reply' \in [Workers -> Replies] /\ Receipts'
  BY DEF IInv, Rows, TypeOK, Receipts, IsReceipt

(* A request that answers, or is refused.                                   *)
LEMMA Replied ==
    ASSUME IInv, NEW w \in Workers, NEW r \in Replies, reply' = [reply EXCEPT ![w] = r],
           IsReceipt(r)',
           \A d \in DebtIds : \A i \in DOMAIN paid[d] :
                i \in DOMAIN paid'[d] /\ paid'[d][i] = paid[d][i]
    PROVE  reply' \in [Workers -> Replies] /\ Receipts'
  <1>1. /\ reply' \in [Workers -> Replies] /\ reply'[w] = r
        /\ \A v \in Workers \ {w} : reply'[v] = reply[v]
    BY DEF IInv, Rows, TypeOK
  <1>2. ASSUME NEW v \in Workers PROVE IsReceipt(reply[v])'
    <2>1. CASE v = w
      BY <1>1, <2>1 DEF IsReceipt
    <2>2. CASE v # w
      BY <1>1, <2>2 DEF IInv, Rows, Receipts, IsReceipt
    <2> QED
      BY <2>1, <2>2
  <1> QED
    BY <1>1, <1>2 DEF Receipts

(* A request that reads, waits or answers.                                  *)
LEMMA Reads ==
    ASSUME IInv, NEW w \in Workers, NEW s \in WorkerStates, Goto(w, s), WorkerOK(s)',
           UNCHANGED <<customer, debt, paid, sale>>, faults' \in 0..MaxFaults,
           \A d \in DebtIds, v \in Workers \ {w} : HasLocked(s, d) => ~HasLocked(worker[v], d),
           reply' \in [Workers -> Replies] /\ Receipts'
    PROVE  IInv'
  <1>1. \A v \in Workers \ {w} : \A t : t = worker[v] => WorkerOK(t)'
    BY Stays
  <1>2. worker' \in [Workers -> WorkerStates] /\ Held' /\ Apart'
    BY <1>1, Moves
  <1> QED
    BY <1>2, RowsStay DEF IInv

(* The same for a request that ends.                                        *)
LEMMA Ends ==
    ASSUME IInv, NEW w \in Workers, Goto(w, Idle),
           UNCHANGED <<customer, debt, paid, sale>>, faults' \in 0..MaxFaults,
           reply' \in [Workers -> Replies] /\ Receipts'
    PROVE  IInv'
  BY IdleOK, Reads

LEMMA LendKeeps ==
    ASSUME IInv, NEW w \in Workers, NEW c \in Customers, NEW t \in SaleIds \cup {NoSale},
           NEW n \in Amounts, Lend(w, c, t, n)
    PROVE  IInv'
  <1> DEFINE s == [Idle EXCEPT !.pc = "customer", !.customer = c, !.sale = t, !.amount = n]
  <1>1. s \in WorkerStates
    BY IdleOK, DebtAssumption DEF WorkerStates, PCs
  <1>2. s.pc = "customer" /\ s.customer = c
    BY DEF Idle
  <1>3. WorkerOK(s)' /\ \A d : ~HasLocked(s, d)
    BY <1>2 DEF WorkerOK, Lends, Pays, HasLocked
  <1> HIDE DEF s
  <1>4. Goto(w, s)
    BY DEF Lend, s
  <1> QED
    BY <1>1, <1>3, <1>4, Own, ReceiptsStay, Reads DEF Lend

LEMMA LockCustomerSharedKeeps ==
    ASSUME IInv, NEW w \in Workers, LockCustomerShared(w) PROVE IInv'
  <1>1. CASE customer[worker[w].customer] = "live"
    <2>1. PICK s \in WorkerStates : s = [worker[w] EXCEPT !.pc = "open"]
      BY Own DEF WorkerStates, PCs
    <2>2. WorkerOK(s)' /\ \A d : ~HasLocked(s, d)
      BY <1>1, <2>1, Own DEF LockCustomerShared, In, WorkerStates, WorkerOK, Lends, Pays,
                             HasLocked
    <2> QED
      BY <1>1, <2>1, <2>2, Own, ReceiptsStay, Reads DEF LockCustomerShared
  <1>2. CASE customer[worker[w].customer] # "live"
    BY <1>2, Own, ReceiptsStay, Ends DEF LockCustomerShared
  <1> QED
    BY <1>1, <1>2

(* The open debt is locked by nobody else.                                  *)
LEMMA LockOpenDebtKeeps == ASSUME IInv, NEW w \in Workers, LockOpenDebt(w) PROVE IInv'
  <1>0. worker[w].pc = "open" /\ UNCHANGED <<customer, debt, paid, sale, reply, faults>>
    BY DEF LockOpenDebt, In
  <1>1. ASSUME NEW d \in DebtIds, IsOpen(d, worker[w].customer), ~LocksDebt(d),
               Goto(w, [worker[w] EXCEPT !.pc = "save", !.debt = d,
                                         !.total = debt[d].total,
                                         !.remaining = debt[d].remaining])
        PROVE  IInv'
    <2>1. PICK s \in WorkerStates :
            s = [worker[w] EXCEPT !.pc = "save", !.debt = d, !.total = debt[d].total,
                                  !.remaining = debt[d].remaining]
      BY Own DEF WorkerStates, PCs, IInv, Rows, TypeOK, DebtRows
    <2>2. /\ s.pc = "save" /\ s.debt = d /\ s.customer = worker[w].customer
          /\ s.total = debt[d].total /\ s.remaining = debt[d].remaining
      BY <2>1, Own DEF WorkerStates
    <2>3. WorkerOK(s)'
      BY <1>0, <1>1, <2>2, Own DEF WorkerOK, Lends, Pays, IsOpen
    <2>4. \A e \in DebtIds, v \in Workers \ {w} : HasLocked(s, e) => ~HasLocked(worker[v], e)
      BY <1>1, <2>2, LockMeans DEF HasLocked
    <2> QED
      BY <1>0, <1>1, <2>1, <2>3, <2>4, Own, ReceiptsStay, Reads
  <1>2. CASE Goto(w, [worker[w] EXCEPT !.pc = "save", !.debt = NoDebt,
                                       !.total = 0, !.remaining = 0])
    <2>1. PICK s \in WorkerStates :
            s = [worker[w] EXCEPT !.pc = "save", !.debt = NoDebt, !.total = 0, !.remaining = 0]
      BY Own DEF WorkerStates, PCs
    <2>2. s.pc = "save" /\ s.debt = NoDebt /\ s.customer = worker[w].customer
      BY <2>1, Own DEF WorkerStates
    <2>3. WorkerOK(s)'
      BY <1>0, <2>2, Own DEF WorkerOK, Lends, Pays
    <2>4. \A e \in DebtIds : ~HasLocked(s, e)
      BY <2>2, DebtAssumption DEF HasLocked
    <2> QED
      BY <1>0, <1>2, <2>1, <2>3, <2>4, Own, ReceiptsStay, Reads
  <1> QED
    BY <1>1, <1>2 DEF LockOpenDebt

(* A transaction that runs again holds no lock.                             *)
LEMMA RetryKeeps ==
    ASSUME IInv, NEW w \in Workers, NEW pc \in {"customer", "lookup"}, Retry(w, pc),
           worker[w].pc = IF pc = "customer" THEN "save" ELSE "record",
           UNCHANGED <<customer, debt, paid, sale, faults>>
    PROVE  IInv'
  <1>1. CASE worker[w].attempt + 1 < MaxTxRetries
    <2>0. worker[w].attempt + 1 \in 0..MaxTxRetries /\ pc \in PCs
      BY <1>1, Own, DebtAssumption DEF WorkerStates, PCs
    <2>1. PICK s \in WorkerStates :
            s = [worker[w] EXCEPT !.pc = pc, !.attempt = worker[w].attempt + 1]
      BY <2>0, Own DEF WorkerStates
    <2>2. s.pc = pc /\ s.customer = worker[w].customer /\ s.debt = worker[w].debt
          /\ s.amount = worker[w].amount
      BY <2>1, Own DEF WorkerStates
    <2>3. WorkerOK(s)' /\ \A d : ~HasLocked(s, d)
      BY <2>2, Own DEF WorkerOK, Lends, Pays, HasLocked
    <2> QED
      BY <1>1, <2>1, <2>3, Own, ReceiptsStay, Reads DEF Retry
  <1>2. CASE ~(worker[w].attempt + 1 < MaxTxRetries)
    <2>1. CASE UNCHANGED reply
      BY <1>2, <2>1, Own, ReceiptsStay, Ends DEF Retry
    <2>2. CASE reply' = [reply EXCEPT ![w] = [NoReply EXCEPT !.outcome = "error"]]
      <3>1. PICK r \in Replies : r = [NoReply EXCEPT !.outcome = "error"]
        BY DEF NoReply, Replies, Outcomes
      <3>2. IsReceipt(r)'
        BY <3>1 DEF IsReceipt, NoReply
      <3> QED
        BY <1>2, <2>2, <3>1, <3>2, Own, Replied, Ends DEF Retry
    <2> QED
      BY <1>2, <2>1, <2>2 DEF Retry
  <1> QED
    BY <1>1, <1>2

-----------------------------------------------------------------------------
(* The writes to a debt.                                                    *)

(* A request that has changed one debt and ends.                            *)
LEMMA Writes ==
    ASSUME IInv, NEW w \in Workers, NEW d \in DebtIds, Goto(w, Idle), UNCHANGED customer,
           debt' = [debt EXCEPT ![d] = debt'[d]], debt'[d].state # "absent",
           \A v \in Workers \ {w} : ~HasLocked(worker[v], d),
           \A t \in SaleIds : sale[t].state # "absent" => sale'[t].state # "absent"
    PROVE  worker' \in [Workers -> WorkerStates] /\ Held' /\ Apart'
  <1>1. \A e \in DebtIds : debt'[e] = debt[e] \/ e = d
    BY DEF IInv, Rows, TypeOK
  <1>2. \A v \in Workers \ {w} : \A t : t = worker[v] => WorkerOK(t)'
    BY <1>1, Stays
  <1> QED
    BY <1>2, IdleOK, Moves

LEMMA SaveSaleKeeps ==
    ASSUME IInv, NEW w \in Workers, NEW d \in DebtIds, SaveSale(w, d)
    PROVE  /\ sale' \in [SaleIds -> CreditSales]
           /\ \A t \in SaleIds : sale[t].state # "absent" => sale'[t].state # "absent"
           /\ \A t \in SaleIds : sale'[t].state # "absent" => sale'[t].debt \in DebtIds
  <1>1. sale \in [SaleIds -> CreditSales] /\ worker[w].amount \in Nat
        /\ \A t \in SaleIds : sale[t].state # "absent" => sale[t].debt \in DebtIds
    BY Own DEF IInv, Rows, RowsOK, TypeOK, WorkerStates
  <1> QED
    BY <1>1 DEF SaveSale, CreditSales

(* What is left of the invariant when one debt changes and nothing is paid. *)
LEMMA RowsChange ==
    ASSUME IInv, NEW d \in DebtIds, NEW r \in DebtRows, debt' = [debt EXCEPT ![d] = r],
           UNCHANGED <<customer, paid, reply, faults>>,
           worker' \in [Workers -> WorkerStates],
           sale' \in [SaleIds -> CreditSales],
           \A t \in SaleIds : sale'[t].state # "absent" => sale'[t].debt \in DebtIds,
           r.status = "LUNAS" => r.remaining = 0,
           r.state = "live" /\ r.status = "BELUM_LUNAS" =>
                \/ IsOpen(d, r.customer)
                \/ r.customer \in Customers => /\ customer[r.customer] = "live"
                                               /\ \A e \in DebtIds : ~IsOpen(e, r.customer)
    PROVE  Rows'
  <1>1. debt' \in [DebtIds -> DebtRows] /\ debt'[d] = r
        /\ \A e \in DebtIds \ {d} : debt'[e] = debt[e]
    BY DEF IInv, Rows, TypeOK
  <1>2. TypeOK'
    BY <1>1 DEF IInv, Rows, TypeOK
  <1>3. RowsOK' /\ PaidOnce'
    BY <1>1 DEF IInv, Rows, RowsOK, PaidOnce
  <1>4. OneOpenDebt' /\ OpenDebtHasCustomer'
    BY <1>1 DEF IInv, Rows, OneOpenDebt, OpenDebtHasCustomer, IsOpen
  <1>5. Receipts'
    BY ReceiptsStay
  <1> QED
    BY <1>2, <1>3, <1>4, <1>5 DEF Rows

(* A debt is inserted only where the index finds none that is open.         *)
LEMMA InsertDebtKeeps == ASSUME IInv, NEW w \in Workers, InsertDebt(w) PROVE IInv'
  <1>0. worker[w].pc = "save" /\ UNCHANGED <<customer, paid, faults>>
    BY DEF InsertDebt, In
  <1>1. CASE \E d \in DebtIds : IsOpen(d, worker[w].customer)
    BY <1>0, <1>1, RetryKeeps DEF InsertDebt
  <1>2. CASE \A d \in DebtIds : ~IsOpen(d, worker[w].customer)
    <2>1. PICK d \in DebtIds, r \in DebtRows :
            /\ debt[d].state = "absent" /\ SaveSale(w, d)
            /\ r.state = "live" /\ r.customer = worker[w].customer /\ r.status = "BELUM_LUNAS"
            /\ debt' = [debt EXCEPT ![d] = r]
      <3>1. worker[w].customer \in Customers /\ worker[w].amount \in Nat
        BY <1>0, Own DEF WorkerOK, Lends, WorkerStates
      <3>2. [state |-> "live", customer |-> worker[w].customer, total |-> worker[w].amount,
             remaining |-> worker[w].amount, status |-> "BELUM_LUNAS"] \in DebtRows
        BY <3>1 DEF DebtRows, Statuses
      <3> QED
        BY <1>2, <3>2 DEF InsertDebt
    <2>2. Goto(w, Idle) /\ UNCHANGED reply
      BY <1>2 DEF InsertDebt
    <2>3. \A v \in Workers \ {w} : ~HasLocked(worker[v], d)
      BY <2>1, Own, DebtAssumption DEF HasLocked, WorkerOK, IsOpen
    <2>4. debt'[d] = r
      BY <2>1 DEF IInv, Rows, TypeOK
    <2>5. worker' \in [Workers -> WorkerStates] /\ Held' /\ Apart'
      BY <1>0, <2>1, <2>2, <2>3, <2>4, SaveSaleKeeps, Writes
    <2>6. Rows'
      BY <1>0, <1>2, <2>1, <2>2, <2>5, Own, SaveSaleKeeps, RowsChange DEF WorkerOK
    <2> QED
      BY <2>5, <2>6 DEF IInv
  <1> QED
    BY <1>1, <1>2

(* The debt that is raised is still as it was read.                         *)
LEMMA RaiseDebtKeeps == ASSUME IInv, NEW w \in Workers, RaiseDebt(w) PROVE IInv'
  <1>0. PICK d \in DebtIds : d = worker[w].debt /\ HasLocked(worker[w], d)
    BY Own DEF RaiseDebt, In, WorkerStates, HasLocked
  <1>1. /\ UNCHANGED <<customer, paid, reply, faults>> /\ Goto(w, Idle) /\ SaveSale(w, d)
        /\ IsOpen(d, worker[w].customer) /\ debt \in [DebtIds -> DebtRows]
    BY <1>0, Own DEF RaiseDebt, In, WorkerOK, IInv, Rows, TypeOK
  <1>2. PICK r \in DebtRows : /\ debt' = [debt EXCEPT ![d] = r]
                              /\ r.state = "live" /\ r.customer = worker[w].customer
                              /\ r.status = "BELUM_LUNAS"
    <2> DEFINE r == [debt[d] EXCEPT !.total = worker[w].total + worker[w].amount,
                                    !.remaining = worker[w].remaining + worker[w].amount,
                                    !.status = "BELUM_LUNAS"]
    <2>1. worker[w].total + worker[w].amount \in Nat
          /\ worker[w].remaining + worker[w].amount \in Nat
      BY Own DEF WorkerStates
    <2>2. debt[d] \in DebtRows
      BY <1>1
    <2>3. r \in DebtRows /\ r.state = debt[d].state /\ r.customer = debt[d].customer
          /\ r.status = "BELUM_LUNAS"
      BY <2>1, <2>2 DEF DebtRows, Statuses
    <2>4. debt' = [debt EXCEPT ![d] = r]
      BY <1>0, <1>1 DEF RaiseDebt
    <2> QED
      BY <1>1, <2>3, <2>4 DEF IsOpen
  <1>3. debt'[d] = r
    BY <1>1, <1>2
  <1>4. \A v \in Workers \ {w} : ~HasLocked(worker[v], d)
    BY <1>0 DEF IInv, Apart
  <1>5. worker' \in [Workers -> WorkerStates] /\ Held' /\ Apart'
    BY <1>1, <1>2, <1>3, <1>4, SaveSaleKeeps, Writes
  <1>6. Rows'
    BY <1>1, <1>2, <1>5, SaveSaleKeeps, RowsChange
  <1> QED
    BY <1>5, <1>6 DEF IInv

-----------------------------------------------------------------------------
(* Payments.                                                                *)

LEMMA PayRequestKeeps ==
    ASSUME IInv, NEW w \in Workers, NEW d \in DebtIds, NEW k \in Keys \cup {NoKey},
           NEW n \in Nominals, PayRequest(w, d, k, n)
    PROVE  IInv'
  <1> DEFINE s == [Idle EXCEPT !.pc = "lookup", !.debt = d, !.key = k, !.amount = n]
  <1>1. s \in WorkerStates
    BY IdleOK, DebtAssumption DEF WorkerStates, PCs
  <1>2. s.pc = "lookup" /\ s.debt = d /\ s.amount = n
    BY DEF Idle
  <1>3. WorkerOK(s)' /\ \A e : ~HasLocked(s, e)
    BY <1>2 DEF PayRequest, WorkerOK, Lends, Pays, HasLocked
  <1> HIDE DEF s
  <1>4. Goto(w, s)
    BY DEF PayRequest, s
  <1>5. IsReceipt(NoReply)'
    BY NoReplyOK DEF IsReceipt
  <1>6. reply' \in [Workers -> Replies] /\ Receipts'
    BY <1>5, NoReplyOK, Replied DEF PayRequest
  <1> QED
    BY <1>1, <1>3, <1>4, <1>6, Own, Reads DEF PayRequest

(* The answer to the payment a worker has at hand.                          *)
LEMMA AnswerOK ==
    ASSUME IInv, NEW w \in Workers, worker[w].pc \in Pays, NEW outcome \in Outcomes,
           NEW previous \in Nat, NEW remaining \in Nat, NEW total \in Nat,
           Answer(w, outcome, previous, remaining, total),
           \A d \in DebtIds : \A i \in DOMAIN paid[d] :
                i \in DOMAIN paid'[d] /\ paid'[d][i] = paid[d][i],
           outcome = "receipt" /\ worker[w].key \notin {NoKey, BlankKey} =>
                \E i \in DOMAIN paid'[worker[w].debt] :
                    /\ paid'[worker[w].debt][i].key = worker[w].key
                    /\ previous = paid'[worker[w].debt][i].previous
                    /\ remaining = paid'[worker[w].debt][i].previous
                                       - paid'[worker[w].debt][i].nominal
    PROVE  reply' \in [Workers -> Replies] /\ Receipts'
  <1>1. PICK r \in Replies :
            r = [outcome |-> outcome, debt |-> worker[w].debt, key |-> worker[w].key,
                 nominal |-> worker[w].amount, previous |-> previous,
                 remaining |-> remaining, total |-> total]
    BY Own DEF Replies, WorkerStates
  <1>2. r.outcome = outcome /\ r.debt = worker[w].debt /\ r.key = worker[w].key
        /\ r.previous = previous /\ r.remaining = remaining
    BY <1>1
  <1>3. worker[w].debt \in DebtIds
    BY Own DEF WorkerOK
  <1>4. IsReceipt(r)'
    BY <1>2, <1>3 DEF IsReceipt
  <1> QED
    BY <1>1, <1>4, Replied DEF Answer

LEMMA RefuseKeeps ==
    ASSUME IInv, NEW w \in Workers, worker[w].pc \in Pays, Refuse(w),
           UNCHANGED <<customer, debt, paid, sale, faults>>
    PROVE  IInv'
  <1>1. reply' \in [Workers -> Replies] /\ Receipts'
    BY AnswerOK DEF Refuse, Outcomes
  <1> QED
    BY <1>1, Own, Ends DEF Refuse

(* A payment that is found is answered from its row.                        *)
LEMMA FindPaymentKeeps == ASSUME IInv, NEW w \in Workers, FindPayment(w) PROVE IInv'
  <1>0. PICK d \in DebtIds, k \in Keys \cup {NoKey} :
            d = worker[w].debt /\ k = worker[w].key /\ worker[w].pc = "lookup"
    BY Own DEF FindPayment, In, WorkerOK, Pays, WorkerStates
  <1>1. UNCHANGED <<customer, debt, paid, sale, faults>>
    BY DEF FindPayment
  <1>2. CASE Goto(w, [worker[w] EXCEPT !.pc = "lock"]) /\ UNCHANGED reply
    <2>1. PICK s \in WorkerStates : s = [worker[w] EXCEPT !.pc = "lock"]
      BY Own DEF WorkerStates, PCs
    <2>2. s.pc = "lock" /\ s.debt = d /\ s.amount = worker[w].amount
      BY <1>0, <2>1, Own DEF WorkerStates
    <2>3. WorkerOK(s)' /\ \A e : ~HasLocked(s, e)
      BY <1>0, <1>1, <2>2, Own DEF WorkerOK, Lends, Pays, HasLocked
    <2> QED
      BY <1>1, <1>2, <2>1, <2>3, Own, ReceiptsStay, Reads
  <1>3. ASSUME NEW i \in Recorded(d, k), paid[d][i].nominal = worker[w].amount,
               Answer(w, "receipt", paid[d][i].previous,
                      paid[d][i].previous - paid[d][i].nominal, debt[d].total),
               Goto(w, Idle)
        PROVE  IInv'
    <2>1. i \in DOMAIN paid[d] /\ paid[d][i].key = k
      BY <1>3 DEF Recorded
    <2>2. paid[d][i].previous \in Nat /\ paid[d][i].nominal \in Nat /\ debt[d].total \in Nat
          /\ paid[d][i].nominal <= paid[d][i].previous
      <3>1. paid[d] \in Seq(Instalments) /\ debt[d] \in DebtRows
        BY DEF IInv, Rows, TypeOK
      <3>2. paid[d][i] \in Instalments
        BY <2>1, <3>1
      <3> QED
        BY <2>1, <3>1, <3>2, DebtAssumption DEF Instalments, DebtRows, IInv, Rows, RowsOK
    <2>3. paid[d][i].previous - paid[d][i].nominal \in Nat
      BY <2>2
    <2>4. reply' \in [Workers -> Replies] /\ Receipts'
      BY <1>0, <1>1, <1>3, <2>1, <2>2, <2>3, AnswerOK DEF Pays, Outcomes
    <2> QED
      BY <1>1, <1>3, <2>4, Own, Ends
  <1>4. CASE Refuse(w)
    BY <1>0, <1>1, <1>4, RefuseKeeps DEF Pays
  <1> QED
    BY <1>0, <1>2, <1>3, <1>4 DEF FindPayment

(* The debt is taken only if nobody has it, and is open.                    *)
LEMMA LockDebtKeeps == ASSUME IInv, NEW w \in Workers, LockDebt(w) PROVE IInv'
  <1>0. PICK d \in DebtIds : d = worker[w].debt /\ worker[w].pc = "lock"
    BY Own DEF LockDebt, In, WorkerOK, Pays
  <1>1. UNCHANGED <<customer, debt, paid, sale, faults>> /\ ~LocksDebt(d)
    BY <1>0 DEF LockDebt
  <1>2. CASE Refuse(w)
    BY <1>0, <1>1, <1>2, RefuseKeeps DEF Pays
  <1>3. CASE /\ debt[d].state = "live" /\ ~Unpayable(d, worker[w].amount)
             /\ Goto(w, [worker[w] EXCEPT !.pc = "record", !.remaining = debt[d].remaining])
             /\ UNCHANGED reply
    <2>0. debt[d] \in DebtRows
      BY DEF IInv, Rows, TypeOK
    <2>1. PICK s \in WorkerStates :
            s = [worker[w] EXCEPT !.pc = "record", !.remaining = debt[d].remaining]
      BY <2>0, Own DEF WorkerStates, PCs, DebtRows
    <2>2. s.pc = "record" /\ s.debt = d /\ s.amount = worker[w].amount
          /\ s.remaining = debt[d].remaining
      BY <1>0, <2>1, Own DEF WorkerStates
    <2>3. s.amount <= s.remaining /\ debt[d].status = "BELUM_LUNAS"
      BY <1>3, <2>0, <2>2, Own DEF Unpayable, WorkerStates, DebtRows, Statuses
    <2>4. WorkerOK(s)'
      BY <1>0, <1>1, <1>3, <2>2, <2>3, Own DEF WorkerOK, Lends, Pays
    <2>5. \A e \in DebtIds, v \in Workers \ {w} : HasLocked(s, e) => ~HasLocked(worker[v], e)
      BY <1>1, <2>2, LockMeans DEF HasLocked
    <2> QED
      BY <1>1, <1>3, <2>1, <2>4, <2>5, Own, ReceiptsStay, Reads
  <1> QED
    BY <1>0, <1>2, <1>3 DEF LockDebt

(* A row appended under a key the index does not hold keeps every key once. *)
LEMMA Appended ==
    ASSUME IInv, NEW d \in DebtIds, NEW p \in Instalments, ~KeyTaken(d, p.key),
           p.nominal <= p.previous, paid' = [paid EXCEPT ![d] = Append(@, p)]
    PROVE  /\ paid' \in [DebtIds -> Seq(Instalments)]
           /\ \A e \in DebtIds : \A i \in DOMAIN paid[e] :
                    i \in DOMAIN paid'[e] /\ paid'[e][i] = paid[e][i]
           /\ \E i \in DOMAIN paid'[d] : paid'[d][i] = p
           /\ \A e \in DebtIds : \A i \in DOMAIN paid'[e] :
                    paid'[e][i].nominal <= paid'[e][i].previous
           /\ PaidOnce'
  <1>1. paid \in [DebtIds -> Seq(Instalments)]
    BY DEF IInv, Rows, TypeOK
  <1>2. PICK n \in Nat : DOMAIN paid[d] = 1..n /\ DOMAIN paid'[d] = 1..n+1
    <2>1. paid'[d] = Append(paid[d], p) /\ paid[d] \in Seq(Instalments)
      BY <1>1
    <2> QED
      BY <2>1
  <1>3. /\ paid' \in [DebtIds -> Seq(Instalments)]
        /\ \A e \in DebtIds \ {d} : paid'[e] = paid[e]
        /\ \A i \in 1..n : paid'[d][i] = paid[d][i]
        /\ paid'[d][n+1] = p
    BY <1>1, <1>2
  <1>4. \A i \in 1..n : paid[d][i].key = p.key => p.key = NoKey
    BY <1>2 DEF KeyTaken, Recorded
  <1>5. ASSUME NEW e \in DebtIds, NEW i \in DOMAIN paid'[e], NEW j \in DOMAIN paid'[e],
               paid'[e][i].key = paid'[e][j].key, paid'[e][i].key # NoKey
        PROVE  i = j
    <2>1. CASE e # d
      BY <1>3, <1>5, <2>1 DEF IInv, Rows, PaidOnce
    <2>2. CASE e = d
      <3>1. i \in 1..n /\ j \in 1..n => i = j
        BY <1>2, <1>3, <1>5, <2>2 DEF IInv, Rows, PaidOnce
      <3>2. (i \in 1..n \/ i = n+1) /\ (j \in 1..n \/ j = n+1)
        BY <1>2, <1>5, <2>2
      <3> QED
        BY <1>3, <1>4, <1>5, <2>2, <3>1, <3>2
    <2> QED
      BY <2>1, <2>2
  <1>6. PaidOnce'
    BY <1>5 DEF PaidOnce
  <1>7. \A e \in DebtIds : \A i \in DOMAIN paid'[e] :
                    paid'[e][i].nominal <= paid'[e][i].previous
    <2> SUFFICES ASSUME NEW e \in DebtIds, NEW i \in DOMAIN paid'[e]
                 PROVE  paid'[e][i].nominal <= paid'[e][i].previous
      OBVIOUS
    <2>1. CASE e # d
      BY <1>3, <2>1 DEF IInv, Rows, RowsOK
    <2>2. CASE e = d
      <3>1. i \in 1..n \/ i = n+1
        BY <1>2, <2>2
      <3> QED
        BY <1>2, <1>3, <2>2, <3>1 DEF IInv, Rows, RowsOK
    <2> QED
      BY <2>1, <2>2
  <1>8. n+1 \in DOMAIN paid'[d] /\ \A e \in DebtIds : \A i \in DOMAIN paid[e] :
                    i \in DOMAIN paid'[e] /\ paid'[e][i] = paid[e][i]
    <2>1. \A i \in 1..n : i \in 1..n+1
      OBVIOUS
    <2> QED
      BY <1>2, <1>3, <2>1
  <1> QED
    BY <1>3, <1>6, <1>7, <1>8

(* The payment is recorded on the debt as it was locked.                    *)
LEMMA RecordPaymentKeeps == ASSUME IInv, NEW w \in Workers, RecordPayment(w) PROVE IInv'
  <1>0. PICK d \in DebtIds : d = worker[w].debt /\ HasLocked(worker[w], d)
    BY Own DEF RecordPayment, In, WorkerOK, Pays, HasLocked
  <1>1. worker[w].pc = "record" /\ UNCHANGED <<customer, sale, faults>>
    BY DEF RecordPayment, In
  <1>2. CASE KeyTaken(d, worker[w].key)
    BY <1>0, <1>1, <1>2, RetryKeeps DEF RecordPayment
  <1>3. CASE ~KeyTaken(d, worker[w].key)
    <2>1. PICK r : r = Minus(worker[w].remaining, worker[w].amount)
      OBVIOUS
    <2>2. /\ worker[w].remaining \in Nat /\ worker[w].amount \in Nominals
          /\ worker[w].amount \in Nat /\ worker[w].amount <= worker[w].remaining
          /\ worker[w].key \in Keys \cup {NoKey}
      BY <1>1, Own DEF WorkerOK, Pays, WorkerStates
    <2>3. r \in Nat /\ r = worker[w].remaining - worker[w].amount
      BY <2>1, <2>2 DEF Minus
    <2>4. PICK p \in Instalments : p = [key |-> worker[w].key, nominal |-> worker[w].amount,
                                       previous |-> worker[w].remaining]
      BY <2>2 DEF Instalments
    <2>5. p.key = worker[w].key /\ p.nominal = worker[w].amount
          /\ p.previous = worker[w].remaining
      BY <2>4
    <2>6. /\ paid' = [paid EXCEPT ![d] = Append(@, p)] /\ Goto(w, Idle)
          /\ debt' = [debt EXCEPT ![d].remaining = r, ![d].status = StatusOf(r)]
          /\ Answer(w, "receipt", worker[w].remaining, r, debt[d].total)
      BY <1>0, <1>3, <2>1, <2>4 DEF RecordPayment
    <2>7. debt \in [DebtIds -> DebtRows] /\ debt[d] \in DebtRows /\ debt[d].total \in Nat
          /\ debt[d].state = "live" /\ debt[d].status = "BELUM_LUNAS"
      BY <1>0, <1>1, Own DEF IInv, Rows, TypeOK, WorkerOK, DebtRows
    <2>8. PICK row \in DebtRows :
            /\ debt' = [debt EXCEPT ![d] = row] /\ row.state = "live"
            /\ row.customer = debt[d].customer
            /\ row.remaining = r /\ row.status = StatusOf(r)
      <3> DEFINE row == [debt[d] EXCEPT !.remaining = r, !.status = StatusOf(r)]
      <3>1. StatusOf(r) \in Statuses
        BY DEF StatusOf, Statuses
      <3>2. row \in DebtRows /\ row.state = "live" /\ row.customer = debt[d].customer
            /\ row.remaining = r /\ row.status = StatusOf(r)
        BY <2>3, <2>7, <3>1 DEF DebtRows
      <3>3. debt' = [debt EXCEPT ![d] = row]
        BY <2>6, <2>7
      <3> QED
        BY <3>2, <3>3
    <2>9. debt' \in [DebtIds -> DebtRows] /\ debt'[d] = row
          /\ \A e \in DebtIds \ {d} : debt'[e] = debt[e]
      BY <2>7, <2>8
    <2>10. /\ paid' \in [DebtIds -> Seq(Instalments)]
           /\ \A e \in DebtIds : \A i \in DOMAIN paid[e] :
                    i \in DOMAIN paid'[e] /\ paid'[e][i] = paid[e][i]
           /\ \E i \in DOMAIN paid'[d] : paid'[d][i] = p
           /\ \A e \in DebtIds : \A i \in DOMAIN paid'[e] :
                    paid'[e][i].nominal <= paid'[e][i].previous
           /\ PaidOnce'
      <3>1. ~KeyTaken(d, p.key) /\ p.nominal <= p.previous
        BY <1>3, <2>2, <2>5
      <3> QED
        BY <2>6, <3>1, Appended
    <2>11. reply' \in [Workers -> Replies] /\ Receipts'
      <3>1. worker[w].pc \in Pays /\ "receipt" \in Outcomes
        BY <1>1 DEF Pays, Outcomes
      <3>2. \E i \in DOMAIN paid'[worker[w].debt] :
                    /\ paid'[worker[w].debt][i].key = worker[w].key
                    /\ worker[w].remaining = paid'[worker[w].debt][i].previous
                    /\ r = paid'[worker[w].debt][i].previous - paid'[worker[w].debt][i].nominal
        BY <1>0, <2>3, <2>5, <2>10
      <3> QED
        BY <2>2, <2>3, <2>6, <2>7, <2>10, <3>1, <3>2, AnswerOK
    <2>12. \A v \in Workers \ {w} : ~HasLocked(worker[v], d)
      BY <1>0 DEF IInv, Apart
    <2>13. worker' \in [Workers -> WorkerStates] /\ Held' /\ Apart'
      BY <1>1, <2>6, <2>8, <2>9, <2>12, Writes
    <2>14. TypeOK'
      BY <1>1, <2>9, <2>10, <2>11, <2>13 DEF IInv, Rows, TypeOK
    <2>15. RowsOK'
      BY <1>1, <2>8, <2>9, <2>10 DEF IInv, Rows, RowsOK, StatusOf
    <2>16. OneOpenDebt' /\ OpenDebtHasCustomer'
      BY <1>1, <2>7, <2>8, <2>9 DEF IInv, Rows, OneOpenDebt, OpenDebtHasCustomer, IsOpen
    <2> QED
      BY <2>10, <2>11, <2>13, <2>14, <2>15, <2>16 DEF IInv, Rows
  <1> QED
    BY <1>2, <1>3

-----------------------------------------------------------------------------
(* The deletes.                                                             *)

LEMMA AssertTransactionDeletableKeeps ==
    ASSUME IInv, NEW w \in Workers, NEW t \in SaleIds, AssertTransactionDeletable(w, t)
    PROVE  IInv'
  <1> DEFINE s == [Idle EXCEPT !.pc = "delete", !.sale = t]
  <1>1. s \in WorkerStates
    BY IdleOK DEF WorkerStates, PCs
  <1>2. s.pc = "delete" /\ s.sale = t
    BY DEF Idle
  <1>3. WorkerOK(s)' /\ \A e : ~HasLocked(s, e)
    BY <1>2 DEF AssertTransactionDeletable, WorkerOK, Lends, Pays, HasLocked
  <1> HIDE DEF s
  <1>4. Goto(w, s)
    BY DEF AssertTransactionDeletable, s
  <1> QED
    BY <1>1, <1>3, <1>4, Own, ReceiptsStay, Reads DEF AssertTransactionDeletable

(* A reversal closes a debt at most; it never opens one.                    *)
LEMMA ReversedOK ==
    ASSUME NEW row \in DebtRows, NEW n \in Nat, row.status = "LUNAS" => row.remaining = 0
    PROVE  /\ Reversed(row, n) \in DebtRows
           /\ Reversed(row, n).state = row.state /\ Reversed(row, n).customer = row.customer
           /\ Reversed(row, n).status = "LUNAS" <=> Reversed(row, n).remaining = 0
           /\ row.status = "LUNAS" => Reversed(row, n).status = "LUNAS"
  <1>1. PICK total \in Nat : total = Minus(row.total, n)
    BY DEF Minus, DebtRows
  <1>2. PICK remaining \in Nat : /\ remaining = Minus(row.remaining, n)
                                 /\ row.remaining = 0 => remaining = 0
    BY DEF Minus, DebtRows
  <1>3. PICK status \in Statuses : /\ status = StatusOf(remaining)
                                   /\ status = "LUNAS" <=> remaining = 0
    BY DEF StatusOf, Statuses
  <1> DEFINE r == [row EXCEPT !.total = total, !.remaining = remaining, !.status = status]
  <1>4. /\ r \in DebtRows
        /\ r.remaining = remaining /\ r.status = status
        /\ r.state = row.state /\ r.customer = row.customer
    BY <1>1, <1>2, <1>3 DEF DebtRows
  <1>5. Reversed(row, n) = r
    BY <1>1, <1>2, <1>3 DEF Reversed
  <1> HIDE DEF r
  <1> QED
    BY <1>2, <1>3, <1>4, <1>5

LEMMA DeleteTransactionKeeps ==
    ASSUME IInv, NEW w \in Workers, DeleteTransaction(w) PROVE IInv'
  <1>0. PICK t \in SaleIds, d \in DebtIds : t = worker[w].sale /\ d = sale[t].debt
    BY Own DEF DeleteTransaction, In, WorkerOK, IInv, Rows, RowsOK
  <1>1. Goto(w, Idle) /\ UNCHANGED <<customer, paid, reply, faults>>
    BY DEF DeleteTransaction
  <1>2. CASE sale[t].state # "live"
    BY <1>0, <1>1, <1>2, Own, ReceiptsStay, Ends DEF DeleteTransaction
  <1>3. CASE sale[t].state = "live"
    <2>1. /\ sale \in [SaleIds -> CreditSales] /\ debt \in [DebtIds -> DebtRows]
          /\ \A e \in DebtIds : debt[e].status = "LUNAS" => debt[e].remaining = 0
          /\ \A u \in SaleIds : sale[u].state # "absent" => sale[u].debt \in DebtIds
      BY DEF IInv, Rows, RowsOK, TypeOK
    <2>2. sale' = [sale EXCEPT ![t].state = "deleted"]
      BY <1>0, <1>3 DEF DeleteTransaction
    <2>3. /\ sale' \in [SaleIds -> CreditSales]
          /\ \A u \in SaleIds : sale[u].state # "absent" => sale'[u].state # "absent"
          /\ \A u \in SaleIds : sale'[u].state # "absent" => sale'[u].debt \in DebtIds
      <3>1. /\ sale' \in [SaleIds -> CreditSales]
            /\ \A u \in SaleIds \ {t} : sale'[u] = sale[u]
            /\ sale'[t].state = "deleted" /\ sale'[t].debt = sale[t].debt
        BY <2>1, <2>2 DEF CreditSales
      <3> QED
        BY <1>0, <2>1, <3>1
    <2>4. PICK r \in DebtRows :
            /\ debt' = [debt EXCEPT ![d] = r]
            /\ r.customer = debt[d].customer /\ r.state = debt[d].state
            /\ r.status = "LUNAS" => r.remaining = 0
            /\ debt[d].status = "LUNAS" => r.status = "LUNAS"
            /\ r = debt[d] \/ (~LocksDebt(d) /\ r.state = "live")
      <3>1. CASE debt[d].state = "live"
        <4>1. sale[t].total \in Nat /\ debt[d] \in DebtRows
          BY <2>1 DEF CreditSales
        <4>2. /\ debt' = [debt EXCEPT ![d] = Reversed(debt[d], sale[t].total)]
              /\ ~LocksDebt(d)
          BY <1>0, <1>3, <3>1 DEF DeleteTransaction
        <4>3. PICK r \in DebtRows :
                /\ r = Reversed(debt[d], sale[t].total)
                /\ r.state = debt[d].state /\ r.customer = debt[d].customer
                /\ r.status = "LUNAS" <=> r.remaining = 0
                /\ debt[d].status = "LUNAS" => r.status = "LUNAS"
          BY <2>1, <4>1, ReversedOK
        <4> QED
          BY <3>1, <4>2, <4>3
      <3>2. CASE debt[d].state # "live"
        <4>1. debt' = debt
          BY <1>0, <1>3, <3>2 DEF DeleteTransaction
        <4> QED
          BY <2>1, <4>1
      <3> QED
        BY <3>1, <3>2
    <2>5. debt'[d] = r /\ \A e \in DebtIds \ {d} : debt'[e] = debt[e]
      BY <2>1, <2>4
    <2>6. ASSUME NEW v \in Workers PROVE \A x : x = worker[v] => WorkerOK(x)'
      BY <1>1, <2>3, <2>4, <2>5, LockMeans, Stays
    <2>7. worker' \in [Workers -> WorkerStates] /\ Held' /\ Apart'
      BY <1>1, <2>6, IdleOK, Moves
    <2>8. Rows'
      <3>1. r.state = "live" /\ r.status = "BELUM_LUNAS" => IsOpen(d, r.customer)
        BY <2>1, <2>4 DEF IsOpen, DebtRows, Statuses
      <3> QED
        BY <1>1, <2>3, <2>4, <2>7, <3>1, RowsChange
    <2> QED
      BY <2>7, <2>8 DEF IInv
  <1> QED
    BY <1>2, <1>3

(* Deletes that no request stands for: they take the lock and end at once.  *)
LEMMA WorkersWait ==
    ASSUME IInv, UNCHANGED worker, \A v \in Workers : \A t : t = worker[v] => WorkerOK(t)'
    PROVE  worker' \in [Workers -> WorkerStates] /\ Held' /\ Apart'
  <1>1. ASSUME NEW v \in Workers PROVE WorkerOK(worker[v])'
    <2>1. PICK t : t = worker'[v] /\ WorkerOK(t)'
      OBVIOUS
    <2> QED
      BY <2>1 DEF WorkerOK, IsOpen
  <1> QED
    BY <1>1 DEF IInv, Rows, TypeOK, Held, Apart

LEMMA DeleteDebtKeeps == ASSUME IInv, NEW d \in DebtIds, DeleteDebt(d) PROVE IInv'
  <1>1. /\ UNCHANGED <<customer, paid, sale, worker, reply, faults>> /\ ~LocksDebt(d)
        /\ debt \in [DebtIds -> DebtRows]
        /\ debt[d].remaining = 0
    BY DEF DeleteDebt, IInv, Rows, TypeOK
  <1>2. PICK r \in DebtRows : /\ debt' = [debt EXCEPT ![d] = r] /\ r.state = "deleted"
                              /\ r.remaining = 0
    <2> DEFINE r == [debt[d] EXCEPT !.state = "deleted"]
    <2>1. r \in DebtRows /\ r.state = "deleted" /\ r.remaining = 0
      BY <1>1 DEF DebtRows
    <2>2. debt' = [debt EXCEPT ![d] = r]
      BY <1>1 DEF DeleteDebt
    <2> QED
      BY <2>1, <2>2
  <1>3. \A v \in Workers : \A t : t = worker[v] => WorkerOK(t)'
    <2>1. debt'[d].state # "absent" /\ \A e \in DebtIds \ {d} : debt'[e] = debt[e]
      BY <1>1, <1>2
    <2> QED
      BY <1>1, <2>1, LockMeans, Stays
  <1>4. worker' \in [Workers -> WorkerStates] /\ Held' /\ Apart'
    BY <1>1, <1>3, WorkersWait
  <1>5. Rows'
    <2>1. /\ sale' \in [SaleIds -> CreditSales]
          /\ \A t \in SaleIds : sale'[t].state # "absent" => sale'[t].debt \in DebtIds
      BY <1>1 DEF IInv, Rows, TypeOK, RowsOK
    <2> QED
      BY <1>1, <1>2, <1>4, <2>1, RowsChange
  <1> QED
    BY <1>4, <1>5 DEF IInv

(* Nobody who shares the customer's lock is between its check and its write. *)
LEMMA DeleteCustomerKeeps == ASSUME IInv, NEW c \in Customers, DeleteCustomer(c) PROVE IInv'
  <1>1. /\ UNCHANGED <<debt, paid, sale, worker, reply, faults>>
        /\ ~SharesCustomer(c) /\ \A d \in DebtIds : ~IsOpen(d, c)
        /\ customer' \in [Customers -> {"live", "deleted"}]
        /\ \A e \in Customers \ {c} : customer'[e] = customer[e]
    BY DEF DeleteCustomer, IInv, Rows, TypeOK
  <1>2. \A v \in Workers : \A t : t = worker[v] => WorkerOK(t)'
    <2>1. \A v \in Workers : worker[v].pc \in {"open", "save"} => worker[v].customer # c
      BY <1>1 DEF SharesCustomer
    <2> QED
      BY <1>1, <2>1, Stays
  <1>3. worker' \in [Workers -> WorkerStates] /\ Held' /\ Apart'
    BY <1>1, <1>2, WorkersWait
  <1>4. TypeOK'
    BY <1>1 DEF IInv, Rows, TypeOK
  <1>5. RowsOK' /\ OneOpenDebt' /\ PaidOnce'
    BY <1>1 DEF IInv, Rows, RowsOK, OneOpenDebt, PaidOnce, IsOpen
  <1>6. OpenDebtHasCustomer'
    BY <1>1 DEF IInv, Rows, OpenDebtHasCustomer, IsOpen
  <1>7. Receipts'
    BY <1>1, ReceiptsStay
  <1> QED
    BY <1>3, <1>4, <1>5, <1>6, <1>7 DEF IInv, Rows

LEMMA AbortKeeps == ASSUME IInv, NEW w \in Workers, Abort(w) PROVE IInv'
  BY Own, ReceiptsStay, Ends DEF Abort

-----------------------------------------------------------------------------
(* The invariant.                                                           *)

LEMMA InitIInv == Init => IInv
  <1> SUFFICES ASSUME Init PROVE IInv
    OBVIOUS
  <1>1. TypeOK
    <2>1. debt \in [DebtIds -> DebtRows]
      BY DEF Init, DebtRows, Statuses
    <2>2. sale \in [SaleIds -> CreditSales]
      BY DEF Init, CreditSales
    <2>3. paid \in [DebtIds -> Seq(Instalments)]
      BY DEF Init
    <2> QED
      BY <2>1, <2>2, <2>3, IdleOK, NoReplyOK, DebtAssumption DEF Init, TypeOK
  <1>2. RowsOK /\ OneOpenDebt /\ OpenDebtHasCustomer /\ PaidOnce
    BY DEF Init, RowsOK, OneOpenDebt, OpenDebtHasCustomer, PaidOnce, IsOpen
  <1>3. Receipts /\ Held /\ Apart
    BY IdleOK, NoReplyOK DEF Init, Receipts, IsReceipt, Held, Apart
  <1> QED
    BY <1>1, <1>2, <1>3 DEF IInv, Rows

LEMMA StepIInv == IInv /\ [Next]_vars => IInv'
  <1> SUFFICES ASSUME IInv, [Next]_vars PROVE IInv'
    OBVIOUS
  <1>1. ASSUME NEW w \in Workers, Step(w) \/ Abort(w) PROVE IInv'
    BY <1>1, LockCustomerSharedKeeps, LockOpenDebtKeeps, InsertDebtKeeps, RaiseDebtKeeps,
       FindPaymentKeeps, LockDebtKeeps, RecordPaymentKeeps, DeleteTransactionKeeps, AbortKeeps
       DEF Step
  <1>2. ASSUME NEW w \in Workers, NEW c \in Customers, NEW t \in SaleIds \cup {NoSale},
               NEW n \in Amounts, Lend(w, c, t, n)
        PROVE  IInv'
    BY <1>2, LendKeeps
  <1>3. ASSUME NEW w \in Workers, NEW d \in DebtIds, NEW k \in Keys \cup {NoKey},
               NEW n \in Nominals, PayRequest(w, d, k, n)
        PROVE  IInv'
    BY <1>3, PayRequestKeeps
  <1>4. ASSUME NEW w \in Workers, NEW t \in SaleIds, AssertTransactionDeletable(w, t)
        PROVE  IInv'
    BY <1>4, AssertTransactionDeletableKeeps
  <1>5. ASSUME NEW d \in DebtIds, DeleteDebt(d) PROVE IInv'
    BY <1>5, DeleteDebtKeeps
  <1>6. ASSUME NEW c \in Customers, DeleteCustomer(c) PROVE IInv'
    BY <1>6, DeleteCustomerKeeps
  <1>7. CASE UNCHANGED vars
    <2>1. /\ UNCHANGED <<customer, debt, paid, sale, worker, reply, faults>>
          /\ worker' \in [Workers -> WorkerStates] /\ faults' \in 0..MaxFaults
      BY <1>7 DEF vars, IInv, Rows, TypeOK
    <2>2. Held' /\ Apart'
      <3>1. \A v \in Workers : \A t : t = worker[v] => WorkerOK(t)'
        BY <2>1, Stays
      <3> QED
        BY <2>1, <3>1, WorkersWait
    <2>3. Rows'
      BY <2>1, ReceiptsStay, RowsStay
    <2> QED
      BY <2>2, <2>3 DEF IInv
  <1> QED
    BY <1>1, <1>2, <1>3, <1>4, <1>5, <1>6, <1>7 DEF Next

LEMMA Inductive == Spec => []IInv
  BY InitIInv, StepIInv, PTL DEF Spec

-----------------------------------------------------------------------------
(* What it gives.                                                           *)

(* No amount owed, paid or answered is ever negative, no receipt is short   *)
(* of a field, and every request stands at a statement of its handler.      *)
THEOREM TypeCorrect == Spec => []TypeOK
  <1>1. IInv => TypeOK
    BY DEF IInv, Rows
  <1> QED
    BY <1>1, Inductive, PTL

(* However many sales on credit find no open debt at once, one is opened.   *)
THEOREM OneOpenDebtHolds == Spec => []OneOpenDebt
  <1>1. IInv => OneOpenDebt
    BY DEF IInv, Rows
  <1> QED
    BY <1>1, Inductive, PTL

(* A customer is never deleted between the check of a sale on credit and    *)
(* the debt it writes.                                                      *)
THEOREM OpenDebtHasCustomerHolds == Spec => []OpenDebtHasCustomer
  <1>1. IInv => OpenDebtHasCustomer
    BY DEF IInv, Rows
  <1> QED
    BY <1>1, Inductive, PTL

(* However often a payment is sent under one key, it is recorded once.      *)
THEOREM PaidOnceHolds == Spec => []PaidOnce
  <1>1. IInv => PaidOnce
    BY DEF IInv, Rows
  <1> QED
    BY <1>1, Inductive, PTL

(* Two receipts for one key give the same balance.                          *)
THEOREM SameBalanceHolds == Spec => []SameBalance
  <1>1. IInv => SameBalance
    <2> SUFFICES ASSUME IInv, NEW v \in Workers, NEW w \in Workers,
                        reply[v].outcome = "receipt", reply[w].outcome = "receipt",
                        reply[v].key \notin {NoKey, BlankKey},
                        reply[v].debt = reply[w].debt, reply[v].key = reply[w].key
                 PROVE  /\ reply[v].previous = reply[w].previous
                        /\ reply[v].remaining = reply[w].remaining
      BY DEF SameBalance
    <2>1. IsReceipt(reply[v]) /\ IsReceipt(reply[w]) /\ PaidOnce
      BY DEF IInv, Rows, Receipts
    <2> QED
      BY <2>1 DEF IsReceipt, PaidOnce
  <1> QED
    BY <1>1, Inductive, PTL

(* No step reopens a row that is in use.                                    *)
LEMMA DebtSteps ==
    ASSUME IInv, [Next]_vars, NEW d \in DebtIds, debt'[d] # debt[d], debt[d].state # "absent"
    PROVE  debt[d].status = "LUNAS" => debt'[d].status = "LUNAS"
  <1>0. debt \in [DebtIds -> DebtRows]
    BY DEF IInv, Rows, TypeOK
  <1>1. ASSUME NEW w \in Workers, InsertDebt(w) PROVE debt[d].state = "absent"
    BY <1>0, <1>1 DEF InsertDebt
  <1>2. ASSUME NEW w \in Workers, RaiseDebt(w) PROVE debt[d].status = "BELUM_LUNAS"
    <2>1. worker[w].debt = d
      BY <1>0, <1>2 DEF RaiseDebt
    <2> QED
      BY <1>2, <2>1, Own, DebtAssumption DEF RaiseDebt, In, WorkerOK, IsOpen
  <1>3. ASSUME NEW w \in Workers, RecordPayment(w) PROVE debt[d].status = "BELUM_LUNAS"
    <2>1. worker[w].debt = d
      BY <1>0, <1>3 DEF RecordPayment
    <2> QED
      BY <1>3, <2>1, Own DEF RecordPayment, In, WorkerOK
  <1>4. ASSUME NEW w \in Workers, DeleteTransaction(w)
        PROVE  debt[d].status = "LUNAS" => debt'[d].status = "LUNAS"
    <2>1. PICK t \in SaleIds : t = worker[w].sale
      BY <1>4, Own DEF DeleteTransaction, In, WorkerOK
    <2>2. sale[t].debt = d /\ debt'[d] = Reversed(debt[d], sale[t].total)
      BY <1>0, <1>4, <2>1 DEF DeleteTransaction
    <2>3. sale[t].total \in Nat /\ debt[d] \in DebtRows
          /\ (debt[d].status = "LUNAS" => debt[d].remaining = 0)
      BY <1>0, <2>1 DEF IInv, Rows, RowsOK, TypeOK, CreditSales
    <2> QED
      BY <2>2, <2>3, ReversedOK
  <1>5. ASSUME NEW e \in DebtIds, DeleteDebt(e) PROVE debt'[d].status = debt[d].status
    BY <1>0, <1>5 DEF DeleteDebt, DebtRows
  <1> QED
    BY <1>1, <1>2, <1>3, <1>4, <1>5
       DEF Next, Step, vars, Lend, PayRequest, LockCustomerShared, LockOpenDebt, FindPayment,
           LockDebt, AssertTransactionDeletable, DeleteCustomer, Abort

(* A raise adds only to a debt it has locked while it was open, so a debt   *)
(* that was paid off stays paid off.                                        *)
THEOREM ClosedStaysClosedHolds == Spec => ClosedStaysClosed
  <1>1. IInv /\ [Next]_vars =>
            [\A d \in DebtIds : debt[d].state = "live" /\ debt[d].status = "LUNAS" =>
                debt'[d].status = "LUNAS"]_vars
    <2> SUFFICES ASSUME IInv, [Next]_vars, NEW d \in DebtIds, debt[d].state = "live",
                        debt[d].status = "LUNAS"
                 PROVE  debt'[d].status = "LUNAS"
      OBVIOUS
    <2> QED
      BY DebtSteps
  <1> QED
    BY <1>1, Inductive, PTL DEF Spec, ClosedStaysClosed

-----------------------------------------------------------------------------
(* A request to lend asks for the same all along.                           *)
Goes(w) ==
    /\ worker[w].pc \in Lends /\ worker'[w].amount = worker[w].amount
    /\ worker'[w].sale = worker[w].sale

Asks(w) ==
    \E c \in Customers, t \in SaleIds \cup {NoSale}, n \in Amounts :
        Lend(w, c, t, n) /\ worker'[w].sale = t /\ worker'[w].amount = n

LEMMA Lending ==
    ASSUME IInv, [Next]_vars, NEW w \in Workers, worker'[w].pc \in Lends
    PROVE  Goes(w) \/ Asks(w)
  <1> DEFINE Goal == Goes(w) \/ Asks(w)
  <1>0. worker \in [Workers -> WorkerStates] /\ worker[w] \in WorkerStates
    BY DEF IInv, Rows, TypeOK
  <1>1. CASE worker'[w] = worker[w]
    BY <1>1 DEF Goes
  <1>2. CASE Goto(w, Idle)
    BY <1>0, <1>2 DEF Goto, Idle, Lends
  <1>3. ASSUME NEW v \in Workers, Step(v) \/ Abort(v), v # w PROVE worker'[w] = worker[w]
    BY <1>0, <1>3 DEF Step, Abort, Goto, LockCustomerShared, LockOpenDebt, InsertDebt, RaiseDebt,
                      FindPayment, LockDebt, RecordPayment, DeleteTransaction, Retry, Refuse
  <1>4. ASSUME NEW s, Goto(w, s), worker[w].pc \in Lends, s.sale = worker[w].sale,
               s.amount = worker[w].amount
        PROVE  Goal
    BY <1>0, <1>4 DEF Goto, Goes
  <1>5. ASSUME NEW s, Goto(w, s), s.pc \notin Lends PROVE Goal
    BY <1>0, <1>5 DEF Goto
  <1>6. CASE LockCustomerShared(w)
    <2>1. PICK s : s = [worker[w] EXCEPT !.pc = "open"]
      OBVIOUS
    <2>2. s.sale = worker[w].sale /\ s.amount = worker[w].amount
      BY <1>0, <2>1 DEF WorkerStates
    <2> QED
      BY <1>2, <1>4, <1>6, <2>1, <2>2 DEF LockCustomerShared, In, Lends
  <1>7. CASE LockOpenDebt(w)
    <2>1. PICK e, a, b : Goto(w, [worker[w] EXCEPT !.pc = "save", !.debt = e, !.total = a,
                                                   !.remaining = b])
      BY <1>7 DEF LockOpenDebt
    <2>2. PICK s : /\ s = [worker[w] EXCEPT !.pc = "save", !.debt = e, !.total = a,
                                            !.remaining = b]
                   /\ Goto(w, s)
      BY <2>1
    <2>3. s.sale = worker[w].sale /\ s.amount = worker[w].amount
      BY <1>0, <2>2 DEF WorkerStates
    <2> QED
      BY <1>4, <1>7, <2>2, <2>3 DEF LockOpenDebt, In, Lends
  <1>8. CASE InsertDebt(w)
    <2>1. PICK s : s = [worker[w] EXCEPT !.pc = "customer", !.attempt = worker[w].attempt + 1]
      OBVIOUS
    <2>2. s.sale = worker[w].sale /\ s.amount = worker[w].amount
      BY <1>0, <2>1 DEF WorkerStates
    <2> QED
      BY <1>2, <1>4, <1>8, <2>1, <2>2 DEF InsertDebt, Retry, In, Lends
  <1>9. CASE RaiseDebt(w) \/ DeleteTransaction(w) \/ Abort(w)
    BY <1>2, <1>9 DEF RaiseDebt, DeleteTransaction, Abort
  <1>10. CASE FindPayment(w)
    <2>1. PICK s : s = [worker[w] EXCEPT !.pc = "lock"]
      OBVIOUS
    <2>2. s.pc \notin Lends
      BY <1>0, <2>1 DEF WorkerStates, Lends
    <2> QED
      BY <1>2, <1>5, <1>10, <2>1, <2>2 DEF FindPayment, Refuse
  <1>11. CASE LockDebt(w)
    <2>1. PICK r : \/ Goto(w, Idle)
                   \/ Goto(w, [worker[w] EXCEPT !.pc = "record", !.remaining = r])
      BY <1>11 DEF LockDebt, Refuse
    <2>2. PICK s : s = [worker[w] EXCEPT !.pc = "record", !.remaining = r]
      OBVIOUS
    <2>3. s.pc \notin Lends
      BY <1>0, <2>2 DEF WorkerStates, Lends
    <2> QED
      BY <1>2, <1>5, <2>1, <2>2, <2>3
  <1>12. CASE RecordPayment(w)
    <2>1. PICK s : s = [worker[w] EXCEPT !.pc = "lookup", !.attempt = worker[w].attempt + 1]
      OBVIOUS
    <2>2. s.pc \notin Lends
      BY <1>0, <2>1 DEF WorkerStates, Lends
    <2> QED
      BY <1>2, <1>5, <1>12, <2>1, <2>2 DEF RecordPayment, Retry
  <1>13. ASSUME NEW v \in Workers, NEW c \in Customers, NEW t \in SaleIds \cup {NoSale},
                NEW n \in Amounts, Lend(v, c, t, n)
         PROVE  Goal
    <2>1. CASE v = w
      <3>1. worker'[w].sale = t /\ worker'[w].amount = n
        BY <1>0, <1>13, <2>1 DEF Lend, Goto, Idle
      <3> QED
        BY <1>13, <2>1, <3>1 DEF Asks
    <2>2. CASE v # w
      BY <1>0, <1>1, <1>13, <2>2 DEF Lend, Goto
    <2> QED
      BY <2>1, <2>2
  <1>14. ASSUME NEW v \in Workers, NEW d \in DebtIds, NEW k \in Keys \cup {NoKey},
                NEW n \in Nominals, PayRequest(v, d, k, n)
         PROVE  Goal
    <2>1. CASE v = w
      BY <1>0, <1>14, <2>1 DEF PayRequest, Goto, Idle, Lends
    <2>2. CASE v # w
      BY <1>0, <1>1, <1>14, <2>2 DEF PayRequest, Goto
    <2> QED
      BY <2>1, <2>2
  <1>15. ASSUME NEW v \in Workers, NEW t \in SaleIds, AssertTransactionDeletable(v, t)
         PROVE  Goal
    <2>1. CASE v = w
      BY <1>0, <1>15, <2>1 DEF AssertTransactionDeletable, Goto, Idle, Lends
    <2>2. CASE v # w
      BY <1>0, <1>1, <1>15, <2>2 DEF AssertTransactionDeletable, Goto
    <2> QED
      BY <2>1, <2>2
  <1>16. CASE UNCHANGED vars \/ (\E d \in DebtIds : DeleteDebt(d))
              \/ (\E c \in Customers : DeleteCustomer(c))
    BY <1>1, <1>16 DEF vars, DeleteDebt, DeleteCustomer
  <1> QED
    BY <1>1, <1>3, <1>6, <1>7, <1>8, <1>9, <1>10, <1>11, <1>12, <1>13, <1>14, <1>15, <1>16
       DEF Next, Step

-----------------------------------------------------------------------------
(* Where no sale comes to 0, an open debt is one that something is owed on. *)

Owed ==
    /\ \A w \in Workers : worker[w].pc \in Lends => worker[w].amount > 0
    /\ \A d \in DebtIds : debt[d].status = "BELUM_LUNAS" => debt[d].remaining > 0

LEMMA AmountsKept ==
    ASSUME IInv, [Next]_vars, 0 \notin Amounts, NEW w \in Workers,
           worker[w].pc \in Lends => worker[w].amount > 0,
           worker'[w].pc \in Lends
    PROVE  worker'[w].amount > 0
  <1>1. \A n \in Amounts : n > 0
    BY DebtAssumption
  <1> QED
    BY <1>1, Lending DEF Goes, Asks

LEMMA BalancesKept ==
    ASSUME IInv, Owed, [Next]_vars, NEW d \in DebtIds, debt'[d].status = "BELUM_LUNAS"
    PROVE  debt'[d].remaining > 0
  <1>0. debt \in [DebtIds -> DebtRows] /\ debt[d] \in DebtRows
    BY DEF IInv, Rows, TypeOK
  <1>1. CASE debt'[d] = debt[d]
    BY <1>1 DEF Owed
  <1>2. ASSUME NEW w \in Workers, InsertDebt(w), debt'[d] # debt[d]
        PROVE  debt'[d].remaining > 0
    BY <1>0, <1>2 DEF InsertDebt, In, Owed, Lends
  <1>3. ASSUME NEW w \in Workers, RaiseDebt(w), debt'[d] # debt[d]
        PROVE  debt'[d].remaining > 0
    <2>1. worker[w].amount > 0 /\ worker[w].remaining \in Nat /\ worker[w].amount \in Nat
      BY <1>3, Own DEF RaiseDebt, In, Owed, Lends, WorkerStates
    <2>2. debt'[d].remaining = worker[w].remaining + worker[w].amount
      BY <1>0, <1>3 DEF RaiseDebt, DebtRows
    <2> QED
      BY <2>1, <2>2
  <1>4. ASSUME NEW w \in Workers, RecordPayment(w), debt'[d] # debt[d]
        PROVE  debt'[d].remaining > 0
    <2>1. PICK r : r = Minus(worker[w].remaining, worker[w].amount)
      OBVIOUS
    <2>2. r \in Nat
      BY <2>1, Own DEF Minus, WorkerStates
    <2>3. debt'[d].remaining = r /\ debt'[d].status = StatusOf(r)
      BY <1>0, <1>4, <2>1 DEF RecordPayment, DebtRows
    <2> QED
      BY <2>2, <2>3 DEF StatusOf
  <1>5. ASSUME NEW w \in Workers, DeleteTransaction(w), debt'[d] # debt[d]
        PROVE  debt'[d].remaining > 0
    <2>1. PICK t \in SaleIds : t = worker[w].sale
      BY <1>5, Own DEF DeleteTransaction, In, WorkerOK
    <2>2. debt'[d] = Reversed(debt[d], sale[t].total)
      BY <1>0, <1>5, <2>1 DEF DeleteTransaction
    <2>3. sale[t].total \in Nat /\ (debt[d].status = "LUNAS" => debt[d].remaining = 0)
      BY <1>0, <2>1 DEF IInv, Rows, RowsOK, TypeOK, CreditSales
    <2>4. debt'[d].status = "LUNAS" <=> debt'[d].remaining = 0
      BY <1>0, <2>2, <2>3, ReversedOK
    <2>5. debt'[d] \in DebtRows
      BY <1>0, <2>2, <2>3, ReversedOK
    <2> QED
      BY <2>4, <2>5 DEF DebtRows
  <1>6. ASSUME NEW e \in DebtIds, DeleteDebt(e) PROVE debt'[d].remaining > 0
    BY <1>0, <1>6 DEF DeleteDebt, DebtRows, Owed
  <1> QED
    BY <1>1, <1>2, <1>3, <1>4, <1>5, <1>6
       DEF Next, Step, vars, Lend, PayRequest, LockCustomerShared, LockOpenDebt, FindPayment,
           LockDebt, AssertTransactionDeletable, DeleteCustomer, Abort

(* A debt is closed exactly when nothing is owed on it, if no sale on       *)
(* credit comes to 0.                                                       *)
THEOREM ClosedIsPaidOffHolds == ASSUME 0 \notin Amounts PROVE Spec => []ClosedIsPaidOff
  <1>1. Init => Owed
    BY DEF Init, Owed, Lends, Idle
  <1>2. IInv /\ Owed /\ [Next]_vars => Owed'
    BY AmountsKept, BalancesKept DEF Owed
  <1>3. IInv /\ Owed => ClosedIsPaidOff
    BY DEF IInv, Rows, RowsOK, TypeOK, DebtRows, Statuses, Owed, ClosedIsPaidOff
  <1> QED
    BY <1>1, <1>2, <1>3, Inductive, PTL DEF Spec

-----------------------------------------------------------------------------
(* What the instalments of a debt come to, and what one more adds.          *)

(* What the fold computes, from the first instalment to the last.           *)
AddsUp(f, seq) ==
    f = [s \in SUBSET (DOMAIN seq) |->
            IF s = {} THEN 0 ELSE f[s \ {Max(s)}] + seq[Max(s)].nominal]

LEMMA NominalsAreNat ==
    ASSUME NEW seq \in Seq(Instalments)
    PROVE  \A k \in 1..Len(seq) : seq[k].nominal \in Nat
  <1>1. ASSUME NEW k \in 1..Len(seq) PROVE seq[k] \in Instalments
    OBVIOUS
  <1>2. \A p \in Instalments : p.nominal \in Nat
    BY DebtAssumption DEF Instalments
  <1> QED
    BY <1>1, <1>2

LEMMA AddsUpExists ==
    ASSUME NEW seq \in Seq(Instalments) PROVE \E f : AddsUp(f, seq)
  <1> DEFINE n    == Len(seq)
             next == [k \in 1..n |-> [v \in Nat |-> v + seq[k].nominal]]
  <1>1. n \in Nat /\ DOMAIN seq = 1..n
    OBVIOUS
  <1>2. \A k \in 1..n : next[k] \in [Nat -> Nat]
    BY NominalsAreNat
  <1>3. PICK f : FoldsLeft(f, 0, next, n)
    BY <1>1, FoldsLeftExists
  <1>4. \A s \in SUBSET (1..n) : f[s] \in Nat
    <2> HIDE DEF next, n
    <2> QED
      BY <1>1, <1>2, <1>3, FoldsLeftType
  <1>5. ASSUME NEW s \in SUBSET (1..n)
        PROVE  f[s] = IF s = {} THEN 0 ELSE f[s \ {Max(s)}] + seq[Max(s)].nominal
    <2>1. f[s] = IF s = {} THEN 0 ELSE next[Max(s)][f[s \ {Max(s)}]]
      BY <1>3 DEF FoldsLeft
    <2>2. s # {} => Max(s) \in 1..n /\ f[s \ {Max(s)}] \in Nat
      BY <1>1, <1>4, LargestOf
    <2> QED
      BY <2>1, <2>2
  <1>6. f = [s \in SUBSET (1..n) |-> f[s]]
    BY <1>3 DEF FoldsLeft
  <1>7. f = [s \in SUBSET (1..n) |->
                IF s = {} THEN 0 ELSE f[s \ {Max(s)}] + seq[Max(s)].nominal]
    BY <1>5, <1>6
  <1> QED
    BY <1>1, <1>7 DEF AddsUp

LEMMA TotalIs ==
    ASSUME NEW seq \in Seq(Instalments)
    PROVE  \E f : AddsUp(f, seq) /\ Total(seq) = f[DOMAIN seq]
  <1>1. \E f : AddsUp(f, seq)
    BY AddsUpExists
  <1> QED
    BY <1>1 DEF AddsUp, Total, FoldLeft, MapThenFoldSet

(* One instalment after the other.                                          *)
LEMMA AddsOne ==
    ASSUME NEW seq \in Seq(Instalments), NEW f, AddsUp(f, seq)
    PROVE  /\ f[1..0] = 0
           /\ \A k \in 1..Len(seq) : f[1..k] = f[1..(k - 1)] + seq[k].nominal
  <1>1. f[{}] = 0
    BY DEF AddsUp
  <1>2. ASSUME NEW k \in 1..Len(seq) PROVE f[1..k] = f[1..(k - 1)] + seq[k].nominal
    <2>1. /\ 1..k \in SUBSET (DOMAIN seq) /\ 1..k # {}
          /\ Max(1..k) = k /\ (1..k) \ {Max(1..k)} = 1..(k - 1)
      BY Prefix
    <2> QED
      BY <2>1 DEF AddsUp
  <1> QED
    BY <1>1, <1>2

LEMMA TotalIsNat ==
    ASSUME NEW seq \in Seq(Instalments) PROVE Total(seq) \in Nat
  <1>1. PICK f : AddsUp(f, seq) /\ Total(seq) = f[DOMAIN seq]
    BY TotalIs
  <1>2. PICK n \in Nat : n = Len(seq) /\ DOMAIN seq = 1..n
    OBVIOUS
  <1>3. /\ f[1..0] = 0
        /\ \A k \in 1..n : f[1..k] = f[1..(k - 1)] + seq[k].nominal
    BY <1>1, <1>2, AddsOne
  <1> DEFINE P == {k \in 0..n : f[1..k] \in Nat}
  <1>4. 0 \in P
    BY <1>3
  <1>5. ASSUME NEW k \in 0..(n - 1), k \in P PROVE k + 1 \in P
    <2>1. k + 1 \in 1..n /\ (k + 1) - 1 = k /\ seq[k + 1].nominal \in Nat
      BY <1>2, NominalsAreNat
    <2>2. f[1..(k + 1)] = f[1..k] + seq[k + 1].nominal
      BY <1>3, <2>1
    <2> QED
      BY <1>5, <2>1, <2>2
  <1>6. n \in P
    <2> HIDE DEF P
    <2> QED
      BY <1>2, <1>4, <1>5, CountUp
  <1> QED
    BY <1>1, <1>2, <1>6

LEMMA TotalAppended ==
    ASSUME NEW seq \in Seq(Instalments), NEW p \in Instalments
    PROVE  Total(Append(seq, p)) = Total(seq) + p.nominal
  <1> DEFINE n    == Len(seq)
             more == Append(seq, p)
  <1>1. /\ n \in Nat /\ DOMAIN seq = 1..n /\ more \in Seq(Instalments)
        /\ Len(more) = n + 1 /\ DOMAIN more = 1..(n + 1)
        /\ more[n + 1] = p /\ \A k \in 1..n : more[k] = seq[k]
    OBVIOUS
  <1> HIDE DEF more
  <1>2. PICK f : AddsUp(f, seq) /\ Total(seq) = f[1..n]
    BY <1>1, TotalIs
  <1>3. PICK g : AddsUp(g, more) /\ Total(more) = g[1..(n + 1)]
    BY <1>1, TotalIs
  <1>4. /\ f[1..0] = 0 /\ g[1..0] = 0
        /\ \A k \in 1..n : f[1..k] = f[1..(k - 1)] + seq[k].nominal
        /\ \A k \in 1..(n + 1) : g[1..k] = g[1..(k - 1)] + more[k].nominal
    <2>1. /\ f[1..0] = 0
          /\ \A k \in 1..n : f[1..k] = f[1..(k - 1)] + seq[k].nominal
      BY <1>2, AddsOne
    <2>2. /\ g[1..0] = 0
          /\ \A k \in 1..Len(more) : g[1..k] = g[1..(k - 1)] + more[k].nominal
      BY <1>1, <1>3, AddsOne
    <2> QED
      BY <1>1, <2>1, <2>2
  <1>5. \A k \in 1..n : seq[k].nominal \in Nat
    BY NominalsAreNat
  <1> HIDE DEF n
  <1> DEFINE P == {k \in 0..n : f[1..k] = g[1..k] /\ f[1..k] \in Nat}
  <1>6. 0 \in P
    BY <1>1, <1>4
  <1>7. ASSUME NEW k \in 0..(n - 1), k \in P PROVE k + 1 \in P
    <2>1. k + 1 \in 1..n /\ k + 1 \in 1..(n + 1) /\ (k + 1) - 1 = k
      BY <1>1
    <2>2. f[1..(k + 1)] = f[1..k] + seq[k + 1].nominal
      BY <1>4, <2>1
    <2>3. g[1..(k + 1)] = g[1..k] + seq[k + 1].nominal
      BY <1>1, <1>4, <2>1
    <2> QED
      BY <1>1, <1>5, <1>7, <2>1, <2>2, <2>3
  <1>8. n \in P
    <2> HIDE DEF P
    <2> QED
      BY <1>1, <1>6, <1>7, CountUp
  <1>9. g[1..(n + 1)] = g[1..n] + p.nominal
    BY <1>1, <1>4
  <1> QED
    BY <1>2, <1>3, <1>8, <1>9 DEF more

LEMMA NothingPaid == Total(<< >>) = 0
  <1>1. << >> \in Seq(Instalments) /\ DOMAIN << >> = {}
    OBVIOUS
  <1>2. PICK f : AddsUp(f, << >>) /\ Total(<< >>) = f[DOMAIN << >>]
    BY <1>1, TotalIs
  <1> QED
    BY <1>1, <1>2 DEF AddsUp

-----------------------------------------------------------------------------
(* What keeps a sale on credit its own. *)

(* Between the check of a sale's id and its insert nobody else enters the   *)
(* sale, and no sale is on a debt that was never inserted.                  *)
Asked ==
    /\ \A w \in Workers : worker[w].pc \in Lends =>
        /\ worker[w].amount \in Amounts
        /\ worker[w].sale \in SaleIds => sale[worker[w].sale].state = "absent"
    /\ \A v, w \in Workers :
        /\ worker[v].pc \in Lends /\ worker[w].pc \in Lends
        /\ worker[v].sale = worker[w].sale /\ worker[w].sale \in SaleIds
        => v = w
    /\ \A t \in SaleIds : sale[t].state # "absent" => debt[sale[t].debt].state # "absent"

LEMMA UsedStaysUsed ==
    ASSUME IInv, [Next]_vars, NEW d \in DebtIds, debt[d].state # "absent"
    PROVE  debt'[d].state # "absent"
  <1>0. debt \in [DebtIds -> DebtRows]
    BY DEF IInv, Rows, TypeOK
  <1>1. CASE debt'[d] = debt[d]
    BY <1>1
  <1>2. ASSUME NEW w \in Workers, InsertDebt(w), debt'[d] # debt[d]
        PROVE  debt[d].state = "absent"
    BY <1>0, <1>2 DEF InsertDebt
  <1>3. ASSUME NEW w \in Workers, RaiseDebt(w) \/ RecordPayment(w), debt'[d] # debt[d]
        PROVE  debt'[d].state = debt[d].state
    BY <1>0, <1>3 DEF RaiseDebt, RecordPayment, DebtRows
  <1>4. ASSUME NEW w \in Workers, DeleteTransaction(w), debt'[d] # debt[d]
        PROVE  debt'[d].state = debt[d].state
    <2>1. PICK t \in SaleIds : t = worker[w].sale
      BY <1>4, Own DEF DeleteTransaction, In, WorkerOK
    <2>2. debt'[d] = Reversed(debt[d], sale[t].total)
      BY <1>0, <1>4, <2>1 DEF DeleteTransaction
    <2> QED
      BY <1>0, <2>2 DEF Reversed, DebtRows
  <1>5. ASSUME NEW e \in DebtIds, DeleteDebt(e), debt'[d] # debt[d]
        PROVE  debt'[d].state = "deleted"
    BY <1>0, <1>5 DEF DeleteDebt, DebtRows
  <1> QED
    BY <1>1, <1>2, <1>3, <1>4, <1>5
       DEF Next, Step, vars, Lend, PayRequest, LockCustomerShared, LockOpenDebt, FindPayment,
           LockDebt, AssertTransactionDeletable, DeleteCustomer, Abort

(* A sale is entered by the one who asked for it, or struck out.            *)
EntersSale(w, t) ==
    /\ worker[w].pc = "save" /\ worker[w].sale = t /\ worker'[w] = Idle
    /\ sale'[t].debt \in DebtIds /\ debt'[sale'[t].debt].state # "absent"

LEMMA SaleSteps ==
    ASSUME IInv, [Next]_vars, NEW t \in SaleIds, sale'[t] # sale[t]
    PROVE  \/ sale[t].state = "live" /\ sale'[t].debt = sale[t].debt
           \/ \E w \in Workers : EntersSale(w, t)
  <1>0. /\ debt \in [DebtIds -> DebtRows] /\ sale \in [SaleIds -> CreditSales]
        /\ worker \in [Workers -> WorkerStates]
    BY DEF IInv, Rows, TypeOK
  <1>1. ASSUME NEW w \in Workers, NEW d \in DebtIds, SaveSale(w, d), Goto(w, Idle),
               worker[w].pc = "save", debt'[d].state # "absent"
        PROVE  EntersSale(w, t)
    <2>1. worker[w].sale = t /\ sale'[t].debt = d
      BY <1>0, <1>1 DEF SaveSale
    <2> QED
      BY <1>0, <1>1, <2>1 DEF EntersSale, Goto
  <1>2. ASSUME NEW w \in Workers, InsertDebt(w) PROVE EntersSale(w, t)
    <2>1. PICK d \in DebtIds : SaveSale(w, d) /\ debt'[d].state # "absent"
      BY <1>0, <1>2 DEF InsertDebt
    <2>2. Goto(w, Idle) /\ worker[w].pc = "save"
      BY <1>2 DEF InsertDebt, In
    <2> QED
      BY <1>1, <2>1, <2>2
  <1>3. ASSUME NEW w \in Workers, RaiseDebt(w) PROVE EntersSale(w, t)
    <2>1. PICK d \in DebtIds : d = worker[w].debt /\ SaveSale(w, d)
      BY <1>0, <1>3, Own DEF RaiseDebt, WorkerStates
    <2>2. Goto(w, Idle) /\ worker[w].pc = "save"
      BY <1>3 DEF RaiseDebt, In
    <2>3. debt[d].state # "absent"
      BY <2>1, <2>2, Own, DebtAssumption DEF WorkerOK, IsOpen
    <2> QED
      BY <1>1, <2>1, <2>2, <2>3, UsedStaysUsed
  <1>4. ASSUME NEW w \in Workers, DeleteTransaction(w)
        PROVE  sale[t].state = "live" /\ sale'[t].debt = sale[t].debt
    <2>1. t = worker[w].sale /\ sale[t].state = "live"
          /\ sale' = [sale EXCEPT ![t].state = "deleted"]
      BY <1>0, <1>4 DEF DeleteTransaction
    <2> QED
      BY <1>0, <2>1 DEF CreditSales
  <1> QED
    BY <1>2, <1>3, <1>4
       DEF Next, Step, vars, Lend, PayRequest, LockCustomerShared, LockOpenDebt, FindPayment,
           LockDebt, RecordPayment, AssertTransactionDeletable, DeleteDebt, DeleteCustomer, Abort

LEMMA AskedKept == IInv /\ Asked /\ [Next]_vars => Asked'
  <1> SUFFICES ASSUME IInv, Asked, [Next]_vars PROVE Asked'
    OBVIOUS
  <1>1. ASSUME NEW w \in Workers, worker'[w].pc \in Lends
        PROVE  /\ worker'[w].amount \in Amounts
               /\ worker'[w].sale \in SaleIds => sale'[worker'[w].sale].state = "absent"
    <2>1. CASE Asks(w)
      BY <2>1, DebtAssumption DEF Asks, Lend
    <2>2. CASE Goes(w)
      <3>1. worker'[w].amount \in Amounts
        BY <2>2 DEF Goes, Asked
      <3>2. ASSUME NEW t \in SaleIds, t = worker'[w].sale PROVE sale'[t].state = "absent"
        <4>1. sale[t].state = "absent" /\ worker[w].pc \in Lends /\ worker[w].sale = t
          BY <2>2, <3>2 DEF Goes, Asked
        <4>2. ASSUME NEW v \in Workers, EntersSale(v, t) PROVE FALSE
          <5>1. v = w
            BY <4>1, <4>2 DEF EntersSale, Asked, Lends
          <5> QED
            BY <1>1, <4>2, <5>1 DEF EntersSale, Idle, Lends
        <4> QED
          BY <4>1, <4>2, SaleSteps
      <3> QED
        BY <3>1, <3>2
    <2> QED
      BY <1>1, <2>1, <2>2, Lending
  <1>2. ASSUME NEW v \in Workers, NEW w \in Workers, worker'[v].pc \in Lends,
               worker'[w].pc \in Lends, worker'[v].sale = worker'[w].sale,
               worker'[w].sale \in SaleIds
        PROVE  v = w
    <2>0. worker \in [Workers -> WorkerStates]
      BY DEF IInv, Rows, TypeOK
    <2>1. ASSUME NEW x \in Workers, NEW y \in Workers, Asks(x), x # y,
                 worker'[y].pc \in Lends, worker'[x].sale \in SaleIds
          PROVE  worker'[y].sale # worker'[x].sale
      <3>1. worker'[y] = worker[y] /\ y \in Opening
        BY <2>0, <2>1 DEF Asks, Lend, Goto, Opening, Lends
      <3> QED
        BY <2>1, <3>1, DebtAssumption DEF Asks, Lend
    <2>2. CASE Goes(v) /\ Goes(w)
      BY <1>2, <2>2 DEF Goes, Asked
    <2> QED
      BY <1>2, <2>1, <2>2, Lending
  <1>3. ASSUME NEW t \in SaleIds, sale'[t].state # "absent"
        PROVE  debt'[sale'[t].debt].state # "absent"
    <2>1. CASE sale'[t] = sale[t]
      <3>1. sale[t].debt \in DebtIds /\ debt[sale[t].debt].state # "absent"
        BY <1>3, <2>1 DEF IInv, Rows, RowsOK, Asked
      <3> QED
        BY <2>1, <3>1, UsedStaysUsed
    <2>2. CASE sale[t].state = "live" /\ sale'[t].debt = sale[t].debt
      <3>1. sale[t].debt \in DebtIds /\ debt[sale[t].debt].state # "absent"
        BY <2>2 DEF IInv, Rows, RowsOK, Asked
      <3> QED
        BY <2>2, <3>1, UsedStaysUsed
    <2> QED
      BY <2>1, <2>2, SaleSteps DEF EntersSale
  <1> QED
    BY <1>1, <1>2, <1>3 DEF Asked

LEMMA InitAsked == Init => Asked
  BY DEF Init, Asked, Idle, Lends

LEMMA CancelledStays ==
    ASSUME IInv, Asked, [Next]_vars, NEW d \in DebtIds, SomeCancelled(d)
    PROVE  SomeCancelled(d)'
  <1>1. PICK t \in SaleIds : sale[t].state = "deleted" /\ sale[t].debt = d
    BY DEF SomeCancelled
  <1>2. ASSUME NEW w \in Workers, EntersSale(w, t) PROVE sale[t].state = "absent"
    BY <1>2 DEF EntersSale, Asked, Lends
  <1>3. sale'[t] = sale[t]
    BY <1>1, <1>2, SaleSteps
  <1> QED
    BY <1>1, <1>3 DEF SomeCancelled

-----------------------------------------------------------------------------
(* Nothing is forgiven, and no instalment is lost. *)

(* What a debt no longer owes of its total was paid on it, all of it while  *)
(* no sale was cancelled; a debt that was never inserted has no instalment. *)
Squares(d) ==
    /\ debt[d].state = "absent" => paid[d] = << >>
    /\ debt[d].state = "live" =>
        /\ debt[d].total - debt[d].remaining <= Total(paid[d])
        /\ ~SomeCancelled(d) => debt[d].total - debt[d].remaining >= Total(paid[d])

Forgiven == \A d \in DebtIds : Squares(d)

LEMMA ForgivenKept ==
    ASSUME IInv, Asked, Forgiven, [Next]_vars, NEW d \in DebtIds PROVE Squares(d)'
  <1>0. /\ debt \in [DebtIds -> DebtRows] /\ debt[d] \in DebtRows
        /\ debt[d].total \in Nat /\ debt[d].remaining \in Nat
        /\ paid \in [DebtIds -> Seq(Instalments)] /\ paid[d] \in Seq(Instalments)
    BY DEF IInv, Rows, TypeOK, DebtRows
  <1>1. Total(paid[d]) \in Nat
    BY <1>0, TotalIsNat
  <1>2. debt[d].state = "live" =>
          /\ debt[d].total - debt[d].remaining <= Total(paid[d])
          /\ ~SomeCancelled(d) => debt[d].total - debt[d].remaining >= Total(paid[d])
    BY DEF Forgiven, Squares
  <1>3. /\ ~SomeCancelled(d)' => ~SomeCancelled(d)
        /\ debt[d].state = "absent" => paid[d] = << >>
    BY CancelledStays DEF Forgiven, Squares
  <1>4. CASE debt'[d] = debt[d] /\ paid'[d] = paid[d]
    BY <1>2, <1>3, <1>4 DEF Squares
  <1>5. ASSUME NEW w \in Workers, InsertDebt(w), debt'[d] # debt[d] PROVE Squares(d)'
    <2>1. /\ debt'[d].total = worker[w].amount /\ debt'[d].remaining = worker[w].amount
          /\ debt'[d].state = "live" /\ debt[d].state = "absent" /\ paid' = paid
      BY <1>0, <1>5 DEF InsertDebt
    <2>2. worker[w].amount \in Nat /\ Total(paid'[d]) = 0
      BY <1>3, <2>1, NothingPaid, Own DEF WorkerStates
    <2> QED
      BY <2>1, <2>2 DEF Squares
  <1>6. ASSUME NEW w \in Workers, RaiseDebt(w), debt'[d] # debt[d] PROVE Squares(d)'
    <2>1. /\ worker[w].debt = d
          /\ debt'[d].total = worker[w].total + worker[w].amount
          /\ debt'[d].remaining = worker[w].remaining + worker[w].amount
          /\ debt'[d].state = debt[d].state /\ paid' = paid
      BY <1>0, <1>6 DEF RaiseDebt, DebtRows
    <2>2. /\ worker[w].total = debt[d].total /\ worker[w].remaining = debt[d].remaining
          /\ worker[w].amount \in Nat
      BY <1>6, <2>1, Own, DebtAssumption DEF RaiseDebt, In, WorkerOK, WorkerStates
    <2>3. debt'[d].total - debt'[d].remaining = debt[d].total - debt[d].remaining
      BY <1>0, <2>1, <2>2
    <2> QED
      BY <1>2, <1>3, <2>1, <2>3 DEF Squares
  <1>7. ASSUME NEW w \in Workers, RecordPayment(w), debt'[d] # debt[d] \/ paid'[d] # paid[d]
        PROVE  Squares(d)'
    <2> DEFINE r == Minus(worker[w].remaining, worker[w].amount)
               p == [key |-> worker[w].key, nominal |-> worker[w].amount,
                     previous |-> worker[w].remaining]
    <2>1. /\ worker[w].debt = d
          /\ debt' = [debt EXCEPT ![d].remaining = r, ![d].status = StatusOf(r)]
          /\ paid' = [paid EXCEPT ![d] = Append(@, p)]
      BY <1>0, <1>7 DEF RecordPayment
    <2>2. /\ debt[d].state = "live" /\ worker[w].remaining = debt[d].remaining
          /\ worker[w].amount <= worker[w].remaining /\ worker[w].amount \in Nominals
          /\ worker[w] \in WorkerStates
      BY <1>7, <2>1, Own DEF RecordPayment, In, WorkerOK, Pays
    <2>3. p \in Instalments /\ p.nominal = worker[w].amount
      BY <2>2 DEF Instalments, WorkerStates
    <2>4. worker[w].amount \in Nat /\ r = debt[d].remaining - worker[w].amount
      BY <1>0, <2>2 DEF WorkerStates, Minus
    <2> HIDE DEF r, p
    <2>5. /\ debt'[d].total = debt[d].total /\ debt'[d].remaining = r
          /\ debt'[d].state = "live"
      BY <1>0, <2>1, <2>2 DEF DebtRows
    <2>6. Total(paid'[d]) = Total(paid[d]) + worker[w].amount
      BY <1>0, <2>1, <2>3, TotalAppended
    <2> QED
      BY <1>0, <1>1, <1>2, <1>3, <2>2, <2>4, <2>5, <2>6 DEF Squares
  <1>8. ASSUME NEW w \in Workers, DeleteTransaction(w), debt'[d] # debt[d] PROVE Squares(d)'
    <2>1. PICK t \in SaleIds : t = worker[w].sale
      BY <1>8, Own DEF DeleteTransaction, In, WorkerOK
    <2>2. /\ debt[d].state = "live" /\ debt'[d] = Reversed(debt[d], sale[t].total)
          /\ sale[t].debt = d /\ sale' = [sale EXCEPT ![t].state = "deleted"] /\ paid' = paid
      BY <1>0, <1>8, <2>1 DEF DeleteTransaction
    <2>3. sale[t].total \in Nat /\ sale'[t].state = "deleted" /\ sale'[t].debt = d
      BY <2>1, <2>2 DEF IInv, Rows, TypeOK, CreditSales
    <2>4. /\ debt'[d].total = Minus(debt[d].total, sale[t].total)
          /\ debt'[d].remaining = Minus(debt[d].remaining, sale[t].total)
          /\ debt'[d].state = "live"
      BY <1>0, <2>2 DEF Reversed, DebtRows
    <2>5. SomeCancelled(d)'
      BY <2>1, <2>3 DEF SomeCancelled
    <2>6. debt'[d].total - debt'[d].remaining <= Total(paid'[d])
      BY <1>0, <1>1, <1>2, <2>2, <2>3, <2>4 DEF Minus
    <2> QED
      BY <2>4, <2>5, <2>6 DEF Squares
  <1>9. ASSUME NEW e \in DebtIds, DeleteDebt(e), debt'[d] # debt[d] PROVE Squares(d)'
    BY <1>0, <1>9 DEF DeleteDebt, DebtRows, Squares
  <1>10. ASSUME NEW w \in Workers, InsertDebt(w) \/ RaiseDebt(w) \/ DeleteTransaction(w)
         PROVE  paid' = paid
    BY <1>10 DEF InsertDebt, RaiseDebt, DeleteTransaction
  <1>11. ASSUME NEW e \in DebtIds, DeleteDebt(e) PROVE paid' = paid
    BY <1>11 DEF DeleteDebt
  <1>12. CASE UNCHANGED <<debt, paid>>
    BY <1>4, <1>12
  <1>13. CASE \E w \in Workers : InsertDebt(w) \/ RaiseDebt(w) \/ RecordPayment(w)
                                \/ DeleteTransaction(w)
    BY <1>4, <1>5, <1>6, <1>7, <1>8, <1>10, <1>13
  <1>14. CASE \E e \in DebtIds : DeleteDebt(e)
    BY <1>4, <1>9, <1>11, <1>14
  <1> QED
    BY <1>12, <1>13, <1>14
       DEF Next, Step, vars, Lend, PayRequest, LockCustomerShared, LockOpenDebt, FindPayment,
           LockDebt, AssertTransactionDeletable, DeleteCustomer, Abort

(* What a debt no longer owes was paid on it, and what was paid on it is no *)
(* longer owed, for any amounts: the lock under which PayDebt and the sales *)
(* on credit read a debt keeps each from overwriting what the other wrote.  *)
(* Only the reversal of a cancelled sale leaves less off the debt than was  *)
(* paid.                                                                    *)
THEOREM NothingForgivenHolds == Spec => []NothingForgiven
  <1>1. Init => Forgiven
    BY DEF Init, Forgiven, Squares
  <1>2. IInv /\ Asked /\ Forgiven /\ [Next]_vars => Forgiven'
    BY ForgivenKept DEF Forgiven
  <1>3. Forgiven => NothingForgiven
    BY DEF Forgiven, Squares, NothingForgiven, PaidOn
  <1> QED
    BY <1>1, <1>2, <1>3, InitAsked, AskedKept, Inductive, PTL DEF Spec

-----------------------------------------------------------------------------
(* A payment that runs again finds the one that beat it, provided its key   *)
(* is looked up at all: a blank one is not.                                 *)

Again(s) ==
    s.pc \in Pays /\ s.attempt > 0 =>
        /\ s.pc = "lookup" /\ s.key \notin {NoKey, BlankKey}
        /\ Recorded(s.debt, s.key) # {}

Retries == \A w \in Workers : reply[w].outcome # "error" /\ Again(worker[w])

LEMMA RecordedStays ==
    ASSUME IInv, [Next]_vars, NEW d \in DebtIds, NEW k, Recorded(d, k) # {}
    PROVE  Recorded(d, k)' # {}
  <1>0. paid \in [DebtIds -> Seq(Instalments)]
    BY DEF IInv, Rows, TypeOK
  <1>1. PICK i \in DOMAIN paid[d] : paid[d][i].key = k
    BY DEF Recorded
  <1>2. ASSUME NEW w \in Workers, RecordPayment(w)
        PROVE  i \in DOMAIN paid'[d] /\ paid'[d][i] = paid[d][i]
    <2>1. paid' = paid \/ \E x : paid' = [paid EXCEPT ![worker[w].debt] = Append(@, x)]
      BY <1>2 DEF RecordPayment
    <2>2. ASSUME NEW x, paid' = [paid EXCEPT ![d] = Append(@, x)]
          PROVE  i \in DOMAIN paid'[d] /\ paid'[d][i] = paid[d][i]
      <3>1. paid'[d] = Append(paid[d], x) /\ paid[d] \in Seq(Instalments)
        BY <1>0, <2>2
      <3> QED
        BY <1>1, <3>1
    <2> QED
      BY <1>0, <1>1, <2>1, <2>2
  <1>3. i \in DOMAIN paid'[d] /\ paid'[d][i] = paid[d][i]
    BY <1>1, <1>2
       DEF Next, Step, vars, Lend, PayRequest, LockCustomerShared, LockOpenDebt, InsertDebt,
           RaiseDebt, FindPayment, LockDebt, AssertTransactionDeletable, DeleteTransaction,
           DeleteDebt, DeleteCustomer, Abort
  <1> QED
    BY <1>1, <1>3 DEF Recorded

LEMMA RetriesKept ==
    ASSUME IInv, Retries, [Next]_vars, BlankKey \notin Keys, MaxTxRetries > 1, NEW w \in Workers
    PROVE  reply'[w].outcome # "error" /\ Again(worker[w])'
  <1>0. /\ worker \in [Workers -> WorkerStates] /\ worker[w] \in WorkerStates
        /\ worker[w].attempt \in Nat
        /\ reply \in [Workers -> Replies] /\ reply[w].outcome # "error" /\ Again(worker[w])
    BY DEF IInv, Rows, TypeOK, WorkerStates, Retries
  <1>1. CASE worker'[w] = worker[w] /\ reply'[w] = reply[w]
    <2>1. worker[w].pc \in Pays => worker[w].debt \in DebtIds
      BY Own DEF WorkerOK
    <2> QED
      BY <1>0, <1>1, <2>1, RecordedStays DEF Again
  <1>2. CASE worker'[w].pc \notin Pays /\ reply'[w] = reply[w]
    BY <1>0, <1>2 DEF Again
  <1>3. ASSUME NEW v \in Workers, Step(v) \/ Abort(v), v # w
        PROVE  worker'[w] = worker[w] /\ reply'[w] = reply[w]
    BY <1>0, <1>3 DEF Step, Abort, Goto, LockCustomerShared, LockOpenDebt, InsertDebt, RaiseDebt,
                      FindPayment, LockDebt, RecordPayment, DeleteTransaction, Retry, Refuse,
                      Answer
  <1>4. CASE LockCustomerShared(w) \/ LockOpenDebt(w)
    <2>0. UNCHANGED reply
      BY <1>4 DEF LockCustomerShared, LockOpenDebt
    <2>1. \/ Goto(w, Idle)
          \/ Goto(w, [worker[w] EXCEPT !.pc = "open"])
          \/ \E d, x, y : Goto(w, [worker[w] EXCEPT !.pc = "save", !.debt = d,
                                                    !.total = x, !.remaining = y])
      BY <1>4 DEF LockCustomerShared, LockOpenDebt
    <2>2. CASE Goto(w, Idle)
      BY <1>0, <1>2, <2>0, <2>2 DEF Goto, Idle, Pays
    <2>3. ASSUME NEW d, NEW x, NEW y,
                 Goto(w, [worker[w] EXCEPT !.pc = "save", !.debt = d, !.total = x,
                                           !.remaining = y])
          PROVE  worker'[w].pc = "save"
      BY <1>0, <2>3 DEF Goto, WorkerStates
    <2>4. Goto(w, [worker[w] EXCEPT !.pc = "open"]) => worker'[w].pc = "open"
      BY <1>0 DEF Goto, WorkerStates
    <2> QED
      BY <1>2, <2>0, <2>1, <2>2, <2>3, <2>4 DEF Pays
  <1>5. CASE InsertDebt(w)
    <2>0. UNCHANGED reply
      BY <1>5 DEF InsertDebt, Retry
    <2>1. \/ Goto(w, Idle)
          \/ Goto(w, [worker[w] EXCEPT !.pc = "customer", !.attempt = worker[w].attempt + 1])
      BY <1>5 DEF InsertDebt, Retry
    <2>2. CASE Goto(w, Idle)
      BY <1>0, <1>2, <2>0, <2>2 DEF Goto, Idle, Pays
    <2>3. CASE Goto(w, [worker[w] EXCEPT !.pc = "customer", !.attempt = worker[w].attempt + 1])
      <3>1. worker'[w].pc = "customer"
        BY <1>0, <2>3 DEF Goto, WorkerStates
      <3> QED
        BY <1>2, <2>0, <3>1 DEF Pays
    <2> QED
      BY <2>1, <2>2, <2>3
  <1>6. CASE RaiseDebt(w) \/ DeleteTransaction(w) \/ Abort(w)
    BY <1>0, <1>2, <1>6 DEF RaiseDebt, DeleteTransaction, Abort, Goto, Idle, Pays
  <1>7. ASSUME NEW o \in {"receipt", "refused"}, NEW x, NEW y, NEW z, Answer(w, o, x, y, z),
               Goto(w, Idle)
        PROVE  reply'[w].outcome # "error" /\ Again(worker[w])'
    <2>1. worker'[w] = Idle /\ reply'[w].outcome = o
      BY <1>0, <1>7 DEF Goto, Answer
    <2> QED
      BY <2>1 DEF Again, Idle, Pays
  <1>8. CASE FindPayment(w)
    <2>1. \/ /\ Goto(w, [worker[w] EXCEPT !.pc = "lock"]) /\ UNCHANGED reply
             /\ worker[w].key \in {NoKey, BlankKey}
                    \/ Recorded(worker[w].debt, worker[w].key) = {}
          \/ \E o \in {"receipt", "refused"} : \E x, y, z : Answer(w, o, x, y, z) /\ Goto(w, Idle)
      BY <1>8, Zenon DEF FindPayment, Refuse
    <2>2. CASE /\ Goto(w, [worker[w] EXCEPT !.pc = "lock"]) /\ UNCHANGED reply
               /\ worker[w].key \in {NoKey, BlankKey}
                    \/ Recorded(worker[w].debt, worker[w].key) = {}
      <3>1. worker[w].attempt = 0
        BY <1>0, <1>8, <2>2 DEF Again, FindPayment, In, Pays
      <3>2. worker'[w].attempt = 0 /\ reply'[w] = reply[w]
        BY <1>0, <2>2, <3>1 DEF Goto, WorkerStates
      <3> QED
        BY <1>0, <3>2 DEF Again
    <2> QED
      BY <1>7, <2>1, <2>2
  <1>9. CASE LockDebt(w)
    <2>1. \/ \E r : Goto(w, [worker[w] EXCEPT !.pc = "record", !.remaining = r])
                    /\ UNCHANGED reply
          \/ Answer(w, "refused", 0, 0, 0) /\ Goto(w, Idle)
      BY <1>9 DEF LockDebt, Refuse
    <2>2. ASSUME NEW r, Goto(w, [worker[w] EXCEPT !.pc = "record", !.remaining = r]),
                 UNCHANGED reply
          PROVE  reply'[w].outcome # "error" /\ Again(worker[w])'
      <3>1. worker[w].attempt = 0
        BY <1>0, <1>9 DEF Again, LockDebt, In, Pays
      <3>2. worker'[w].attempt = 0 /\ reply'[w] = reply[w]
        BY <1>0, <2>2, <3>1 DEF Goto, WorkerStates
      <3> QED
        BY <1>0, <3>2 DEF Again
    <2> QED
      BY <1>7, <2>1, <2>2
  <1>10. CASE RecordPayment(w)
    <2>0. worker[w].pc = "record" /\ worker[w].attempt = 0 /\ worker[w].debt \in DebtIds
      BY <1>0, <1>10, Own DEF RecordPayment, In, Again, Pays, WorkerOK
    <2>1. CASE KeyTaken(worker[w].debt, worker[w].key)
      <3>1. worker[w].key \notin {NoKey, BlankKey}
            /\ Recorded(worker[w].debt, worker[w].key) # {}
        BY <1>0, <2>1 DEF KeyTaken, WorkerStates
      <3>2. Goto(w, [worker[w] EXCEPT !.pc = "lookup", !.attempt = worker[w].attempt + 1])
            /\ UNCHANGED <<reply, paid>>
        BY <1>10, <2>0, <2>1 DEF RecordPayment, Retry
      <3>3. /\ worker'[w].pc = "lookup" /\ worker'[w].key = worker[w].key
            /\ worker'[w].debt = worker[w].debt /\ reply'[w] = reply[w]
        BY <1>0, <3>2 DEF Goto, WorkerStates
      <3> QED
        BY <1>0, <3>1, <3>2, <3>3 DEF Again, Recorded
    <2>2. CASE ~KeyTaken(worker[w].debt, worker[w].key)
      <3>1. \E x, y, z : Answer(w, "receipt", x, y, z) /\ Goto(w, Idle)
        BY <1>10, <2>2 DEF RecordPayment
      <3> QED
        BY <1>7, <3>1
    <2> QED
      BY <2>1, <2>2
  <1>11. ASSUME NEW v \in Workers, NEW c \in Customers, NEW t \in SaleIds \cup {NoSale},
                NEW n \in Amounts, Lend(v, c, t, n)
         PROVE  reply'[w].outcome # "error" /\ Again(worker[w])'
    <2>1. reply' = reply /\ (worker'[w] = worker[w] \/ worker'[w].pc = "customer")
      BY <1>0, <1>11 DEF Lend, Goto, Idle
    <2> QED
      BY <1>1, <1>2, <2>1 DEF Pays
  <1>12. ASSUME NEW v \in Workers, NEW d \in DebtIds, NEW k \in Keys \cup {NoKey},
                NEW n \in Nominals, PayRequest(v, d, k, n)
         PROVE  reply'[w].outcome # "error" /\ Again(worker[w])'
    <2>1. CASE v = w
      <3>1. worker'[w].attempt = 0 /\ reply'[w] = NoReply
        BY <1>0, <1>12, <2>1 DEF PayRequest, Goto, Idle
      <3> QED
        BY <3>1, NoReplyOK DEF Again
    <2>2. CASE v # w
      BY <1>0, <1>1, <1>12, <2>2 DEF PayRequest, Goto
    <2> QED
      BY <2>1, <2>2
  <1>13. ASSUME NEW v \in Workers, NEW t \in SaleIds, AssertTransactionDeletable(v, t)
         PROVE  reply'[w].outcome # "error" /\ Again(worker[w])'
    <2>1. reply' = reply /\ (worker'[w] = worker[w] \/ worker'[w].pc = "delete")
      BY <1>0, <1>13 DEF AssertTransactionDeletable, Goto, Idle
    <2> QED
      BY <1>1, <1>2, <2>1 DEF Pays
  <1>14. CASE UNCHANGED vars \/ (\E d \in DebtIds : DeleteDebt(d))
              \/ (\E c \in Customers : DeleteCustomer(c))
    BY <1>1, <1>14 DEF vars, DeleteDebt, DeleteCustomer
  <1> QED
    BY <1>1, <1>3, <1>4, <1>5, <1>6, <1>8, <1>9, <1>10, <1>11, <1>12, <1>13, <1>14
       DEF Next, Step

(* No client is told that its payment failed because it lost the race to    *)
(* its own earlier attempt, if clients send no blank keys.                  *)
THEOREM PaymentNotGivenUpHolds ==
    ASSUME BlankKey \notin Keys, MaxTxRetries > 1 PROVE Spec => []PaymentNotGivenUp
  <1>1. Init => Retries
    BY NoReplyOK DEF Init, Retries, Again, Idle, Pays
  <1>2. IInv /\ Retries /\ [Next]_vars => Retries'
    BY RetriesKept DEF Retries
  <1>3. Retries => PaymentNotGivenUp
    BY DEF Retries, PaymentNotGivenUp
  <1> QED
    BY <1>1, <1>2, <1>3, Inductive, PTL DEF Spec

-----------------------------------------------------------------------------
(* DebtLedger implements CreditBook.                                        *)

(* The book as the tables give it.                                          *)
Known    == {c \in Customers : customer[c] = "live"}
Accts    == [d \in DebtIds |-> AccountIn(debt[d])]
Received == [d \in DebtIds |-> PaidOn(d)]
UsedKeys == [d \in DebtIds |-> {paid[d][i].key : i \in DOMAIN paid[d]} \ {NoKey}]
Credits  == [t \in SaleIds |-> CreditIn(sale[t])]

LEMMA StageIs ==
    ASSUME NEW row \in DebtRows
    PROVE  /\ AccountIn(row).stage = "absent" <=> row.state = "absent"
           /\ AccountIn(row).stage = "deleted" <=> row.state = "deleted"
           /\ AccountIn(row).stage = "open" <=> row.state = "live" /\ row.status = "BELUM_LUNAS"
           /\ AccountIn(row).stage \in {"open", "closed"} <=> row.state = "live"
           /\ AccountIn(row).holder = row.customer
           /\ AccountIn(row).lent = row.total /\ AccountIn(row).owed = row.remaining
  BY DEF AccountIn, DebtRows, Statuses

LEMMA SaleStageIs ==
    ASSUME NEW row \in CreditSales
    PROVE  /\ CreditIn(row).stage = "absent" <=> row.state = "absent"
           /\ CreditIn(row).stage = "stands" <=> row.state = "live"
           /\ CreditIn(row).account = row.debt /\ CreditIn(row).worth = row.total
  BY DEF CreditIn, CreditSales

(* Where no open debt was found, the book has no open account.              *)
LEMMA NoneOpen ==
    ASSUME IInv, NEW c \in Customers, \A d \in DebtIds : ~IsOpen(d, c)
    PROVE  {a \in DebtIds : Accts[a].stage = "open" /\ Accts[a].holder = c} = {}
  <1>1. ASSUME NEW a \in DebtIds, Accts[a].stage = "open", Accts[a].holder = c PROVE FALSE
    <2>1. debt[a] \in DebtRows
      BY DEF IInv, Rows, TypeOK
    <2> QED
      BY <1>1, <2>1, StageIs DEF Accts, IsOpen
  <1> QED
    BY <1>1

(* One account changes, and the others stay as they are.                    *)
LEMMA AcctChanges ==
    ASSUME IInv, NEW d \in DebtIds, NEW r, debt' = [debt EXCEPT ![d] = r]
    PROVE  Accts' = [Accts EXCEPT ![d] = AccountIn(r)]
  <1>1. debt'[d] = r /\ \A e \in DebtIds \ {d} : debt'[e] = debt[e]
    BY DEF IInv, Rows, TypeOK
  <1>2. \A e \in DebtIds : Accts'[e] = IF e = d THEN AccountIn(r) ELSE Accts[e]
    BY <1>1 DEF Accts, AccountIn
  <1> QED
    BY <1>2 DEF Accts

LEMMA CreditChanges ==
    ASSUME IInv, NEW t \in SaleIds, NEW r, sale' = [sale EXCEPT ![t] = r]
    PROVE  Credits' = [Credits EXCEPT ![t] = CreditIn(r)]
  <1>1. sale'[t] = r /\ \A e \in SaleIds \ {t} : sale'[e] = sale[e]
    BY DEF IInv, Rows, TypeOK
  <1>2. \A e \in SaleIds : Credits'[e] = IF e = t THEN CreditIn(r) ELSE Credits[e]
    BY <1>1 DEF Credits, CreditIn
  <1> QED
    BY <1>2 DEF Credits

LEMMA PaidIs ==
    /\ Received = [d \in DebtIds |-> Total(paid[d])]
    /\ Received' = [d \in DebtIds |-> Total(paid'[d])]
  BY DEF Received, PaidOn

LEMMA PaidStays ==
    ASSUME UNCHANGED paid PROVE UNCHANGED <<Received, UsedKeys>>
  BY PaidIs DEF UsedKeys

LEMMA EntersIn ==
    ASSUME IInv, Asked, NEW w \in Workers, worker[w].pc = "save", NEW d \in DebtIds,
           SaveSale(w, d)
    PROVE  Book!Entered(d, worker[w].amount)
  <1>1. CASE worker[w].sale = NoSale
    <2>1. UNCHANGED Credits
      BY <1>1 DEF SaveSale, Credits, CreditIn
    <2> QED
      BY <2>1 DEF Book!Entered, Credits
  <1>2. CASE worker[w].sale # NoSale
    <2>1. PICK t \in SaleIds : t = worker[w].sale /\ sale[t].state = "absent"
      BY <1>2, Own DEF WorkerStates, Asked, Lends
    <2>2. PICK r : /\ r = [state |-> "live", debt |-> d, total |-> worker[w].amount]
                   /\ sale' = [sale EXCEPT ![t] = r]
      BY <1>2, <2>1 DEF SaveSale
    <2>3. Credits[t].stage = "absent"
      BY <2>1 DEF Credits, CreditIn
    <2>4. CreditIn(r) = [stage |-> "stands", account |-> d, worth |-> worker[w].amount]
      BY <2>2 DEF CreditIn
    <2>5. Credits' = [Credits EXCEPT ![t] =
                        [stage |-> "stands", account |-> d, worth |-> worker[w].amount]]
      BY <2>2, <2>4, CreditChanges
    <2> QED
      BY <2>3, <2>5 DEF Book!Entered, Credits
  <1> QED
    BY <1>1, <1>2

LEMMA InsertOpens ==
    ASSUME IInv, Asked, NEW w \in Workers, InsertDebt(w)
    PROVE  \/ \E a \in DebtIds, c \in Customers, n \in Amounts : Book!Open(a, c, n)
           \/ UNCHANGED <<customer, debt, paid, sale>>
  <1>0. worker[w].pc = "save" /\ UNCHANGED <<customer, paid>>
    BY DEF InsertDebt, In
  <1>1. CASE \E d \in DebtIds : IsOpen(d, worker[w].customer)
    BY <1>0, <1>1 DEF InsertDebt
  <1>2. CASE \A d \in DebtIds : ~IsOpen(d, worker[w].customer)
    <2>1. PICK c \in Customers, n \in Amounts :
            /\ c = worker[w].customer /\ n = worker[w].amount /\ customer[c] = "live"
      BY <1>0, Own DEF WorkerOK, Lends, Asked
    <2>2. PICK r : r = [state |-> "live", customer |-> c, total |-> n, remaining |-> n,
                        status |-> "BELUM_LUNAS"]
      OBVIOUS
    <2>3. PICK d \in DebtIds : /\ debt[d].state = "absent" /\ SaveSale(w, d)
                               /\ debt' = [debt EXCEPT ![d] = r]
      BY <1>2, <2>1, <2>2 DEF InsertDebt
    <2>4. c \in Known
          /\ {a \in DebtIds : Accts[a].stage = "open" /\ Accts[a].holder = c} = {}
      BY <1>2, <2>1, NoneOpen DEF Known
    <2>5. Accts[d].stage = "absent"
      BY <2>3 DEF Accts, AccountIn
    <2>6. Accts' = [Accts EXCEPT ![d] =
                        [stage |-> "open", holder |-> c, lent |-> n, owed |-> n]]
      <3>1. AccountIn(r) = [stage |-> "open", holder |-> c, lent |-> n, owed |-> n]
        BY <2>2 DEF AccountIn
      <3> QED
        BY <2>3, <3>1, AcctChanges
    <2>7. UNCHANGED <<Known, Received, UsedKeys>>
      BY <1>0, PaidStays DEF Known
    <2>8. Book!OpenFor(c) = {} /\ Book!Entered(d, n)
      <3>1. Book!OpenFor(c) = {}
        BY <2>4 DEF Book!OpenFor, Accts
      <3>2. Book!Entered(d, n)
        BY <1>0, <2>1, <2>3, EntersIn
      <3> QED
        BY <3>1, <3>2
    <2>9. Book!Open(d, c, n)
      BY <2>4, <2>5, <2>6, <2>7, <2>8 DEF Book!Open, Known, Accts, Received, UsedKeys
    <2> QED
      BY <2>9
  <1> QED
    BY <1>1, <1>2

(* An account as the book has it, and a row that a step changes.            *)
LEMMA AcctIs ==
    ASSUME IInv, NEW d \in DebtIds
    PROVE  /\ Accts[d].holder = debt[d].customer /\ Accts[d].lent = debt[d].total
           /\ Accts[d].owed = debt[d].remaining
           /\ Accts[d].stage = "open" <=> debt[d].state = "live" /\ debt[d].status = "BELUM_LUNAS"
           /\ Accts[d].stage \in {"open", "closed"} <=> debt[d].state = "live"
           /\ Accts[d].stage = "deleted" <=> debt[d].state = "deleted"
           /\ debt[d] \in DebtRows
  BY StageIs DEF Accts, IInv, Rows, TypeOK

LEMMA AcctStands ==
    ASSUME IInv, NEW d \in DebtIds, NEW r, debt' = [debt EXCEPT ![d] = r],
           r.customer = debt[d].customer, NEW stage,
           stage = IF r.state # "live" THEN r.state
                   ELSE IF r.status = "LUNAS" THEN "closed" ELSE "open"
    PROVE  Book!Stands(d, stage, r.total, r.remaining)
  <1>1. AccountIn(r) = [stage |-> stage, holder |-> Accts[d].holder, lent |-> r.total,
                        owed |-> r.remaining]
    BY AcctIs DEF AccountIn
  <1>2. Accts' = [Accts EXCEPT ![d] = [stage |-> stage, holder |-> Accts[d].holder,
                                       lent |-> r.total, owed |-> r.remaining]]
    BY <1>1, AcctChanges
  <1> QED
    BY <1>2 DEF Book!Stands, Accts

LEMMA RaiseRaises ==
    ASSUME IInv, Asked, NEW w \in Workers, RaiseDebt(w)
    PROVE  \E a \in DebtIds, n \in Amounts : Book!Raise(a, n)
  <1>0. worker[w].pc = "save" /\ UNCHANGED <<customer, paid>>
    BY DEF RaiseDebt, In
  <1>1. PICK d \in DebtIds, n \in Amounts :
            d = worker[w].debt /\ n = worker[w].amount /\ SaveSale(w, d)
    BY <1>0, Own DEF RaiseDebt, WorkerStates, Asked, Lends
  <1>2. /\ debt[d] \in DebtRows /\ IsOpen(d, worker[w].customer)
        /\ customer[worker[w].customer] = "live" /\ worker[w].customer \in Customers
        /\ worker[w].total = debt[d].total /\ worker[w].remaining = debt[d].remaining
    BY <1>0, <1>1, Own, DebtAssumption DEF WorkerOK, Lends, IInv, Rows, TypeOK
  <1>3. PICK r : /\ r = [debt[d] EXCEPT !.total = @ + n, !.remaining = @ + n,
                                        !.status = "BELUM_LUNAS"]
                 /\ debt' = [debt EXCEPT ![d] = r]
    <2>1. debt' = [debt EXCEPT ![d].total = debt[d].total + n,
                               ![d].remaining = debt[d].remaining + n,
                               ![d].status = "BELUM_LUNAS"]
      BY <1>1, <1>2 DEF RaiseDebt
    <2>2. debt' = [debt EXCEPT ![d] = [debt[d] EXCEPT !.total = @ + n, !.remaining = @ + n,
                                                      !.status = "BELUM_LUNAS"]]
      BY <2>1
    <2> QED
      BY <2>2
  <1>4. /\ r.state = "live" /\ r.status = "BELUM_LUNAS" /\ r.customer = debt[d].customer
        /\ r.total = debt[d].total + n /\ r.remaining = debt[d].remaining + n
    BY <1>2, <1>3 DEF DebtRows, IsOpen
  <1>5. Book!Stands(d, "open", r.total, r.remaining)
    BY <1>3, <1>4, AcctStands
  <1>6. /\ Accts[d].stage = "open" /\ Accts[d].holder \in Known
        /\ r.total = Accts[d].lent + n /\ r.remaining = Accts[d].owed + n
    BY <1>2, <1>4, AcctIs DEF IsOpen, Known
  <1>7. Book!Stands(d, "open", Accts[d].lent + n, Accts[d].owed + n)
    BY <1>5, <1>6
  <1>8. UNCHANGED <<Known, Received, UsedKeys>> /\ Book!Entered(d, n)
    BY <1>0, <1>1, PaidStays, EntersIn DEF Known
  <1>9. Book!Raise(d, n)
    BY <1>6, <1>7, <1>8 DEF Book!Raise, Known, Accts, Received, UsedKeys
  <1> QED
    BY <1>9

LEMMA RecordPays ==
    ASSUME IInv, NEW w \in Workers, RecordPayment(w)
    PROVE  \/ \E a \in DebtIds, k \in Keys \cup {NoKey}, n \in Nominals : Book!Pay(a, k, n)
           \/ UNCHANGED <<customer, debt, paid, sale>>
  <1>0. worker[w].pc = "record" /\ UNCHANGED <<customer, sale>>
    BY DEF RecordPayment, In
  <1>1. PICK d \in DebtIds, n \in Nominals, k \in Keys \cup {NoKey} :
            d = worker[w].debt /\ n = worker[w].amount /\ k = worker[w].key
    BY <1>0, Own DEF WorkerOK, Pays, WorkerStates
  <1>2. CASE KeyTaken(d, k)
    BY <1>0, <1>1, <1>2 DEF RecordPayment
  <1>3. CASE ~KeyTaken(d, k)
    <2>1. /\ debt[d] \in DebtRows /\ debt[d].state = "live" /\ debt[d].status = "BELUM_LUNAS"
          /\ worker[w].remaining = debt[d].remaining /\ n <= debt[d].remaining
          /\ n \in Nat /\ debt[d].remaining \in Nat /\ paid[d] \in Seq(Instalments)
          /\ paid \in [DebtIds -> Seq(Instalments)]
      BY <1>0, <1>1, Own, DebtAssumption DEF WorkerOK, Pays, IInv, Rows, TypeOK, DebtRows
    <2>2. PICK p \in Instalments : p = [key |-> k, nominal |-> n,
                                        previous |-> debt[d].remaining]
      BY <2>1 DEF Instalments
    <2>3. PICK m \in Nat : m = debt[d].remaining - n
      BY <2>1
    <2>4. Minus(debt[d].remaining, n) = m
      BY <2>1, <2>3 DEF Minus
    <2>5. PICK r : /\ r = [debt[d] EXCEPT !.remaining = m, !.status = StatusOf(m)]
                   /\ debt' = [debt EXCEPT ![d] = r]
      <3>1. debt' = [debt EXCEPT ![d].remaining = m, ![d].status = StatusOf(m)]
        BY <1>1, <1>3, <2>1, <2>4 DEF RecordPayment
      <3>2. debt' = [debt EXCEPT ![d] = [debt[d] EXCEPT !.remaining = m,
                                                        !.status = StatusOf(m)]]
        BY <3>1
      <3> QED
        BY <3>2
    <2>6. paid' = [paid EXCEPT ![d] = Append(paid[d], p)] /\ p.key = k /\ p.nominal = n
      BY <1>1, <1>3, <2>1, <2>2 DEF RecordPayment
    <2>7. /\ r.state = "live" /\ r.customer = debt[d].customer /\ r.total = debt[d].total
          /\ r.remaining = m /\ r.status = StatusOf(m)
      BY <2>1, <2>5 DEF DebtRows
    <2>8. Book!Stands(d, Book!StageOf(Accts[d].owed - n), Accts[d].lent, Accts[d].owed - n)
      <3>1. Book!StageOf(m) = IF r.state # "live" THEN r.state
                              ELSE IF r.status = "LUNAS" THEN "closed" ELSE "open"
        BY <2>7 DEF StatusOf, Book!StageOf
      <3>2. Book!Stands(d, Book!StageOf(m), r.total, r.remaining)
        BY <2>5, <2>7, <3>1, AcctStands
      <3>3. r.total = Accts[d].lent /\ r.remaining = m /\ Accts[d].owed - n = m
        BY <2>3, <2>7, AcctIs
      <3> QED
        BY <3>2, <3>3
    <2>9. Received' = [Received EXCEPT ![d] = @ + n]
      <3>1. Total(Append(paid[d], p)) = Total(paid[d]) + n
        BY <2>1, <2>6, TotalAppended
      <3>2. \A e \in DebtIds : Total(paid'[e]) = IF e = d THEN Total(paid[d]) + n
                                                          ELSE Total(paid[e])
        BY <2>1, <2>6, <3>1
      <3> QED
        BY <3>2, PaidIs
    <2>10. UsedKeys' = [UsedKeys EXCEPT ![d] = @ \cup ({k} \ {NoKey})] /\ k \notin UsedKeys[d]
      <3>1. \A e \in DebtIds : paid'[e] = IF e = d THEN Append(paid[d], p) ELSE paid[e]
        BY <2>1, <2>6
      <3>2. {Append(paid[d], p)[i].key : i \in DOMAIN Append(paid[d], p)}
                = {paid[d][i].key : i \in DOMAIN paid[d]} \cup {k}
        <4>1. PICK more : more = Append(paid[d], p)
          OBVIOUS
        <4>2. PICK l \in Nat : /\ DOMAIN paid[d] = 1..l /\ DOMAIN more = 1..(l + 1)
                               /\ more[l + 1] = p /\ \A i \in 1..l : more[i] = paid[d][i]
          BY <2>1, <4>1
        <4>3. \A i \in 1..(l + 1) : i \in 1..l \/ i = l + 1
          OBVIOUS
        <4>4. \A i \in 1..l : i \in 1..(l + 1)
          OBVIOUS
        <4>5. l + 1 \in 1..(l + 1)
          OBVIOUS
        <4>6. {more[i].key : i \in 1..(l + 1)} = {paid[d][i].key : i \in 1..l} \cup {k}
          BY <2>6, <4>2, <4>3, <4>4, <4>5
        <4> QED
          BY <4>1, <4>2, <4>6
      <3>3. k \notin UsedKeys[d]
        BY <1>3 DEF KeyTaken, Recorded, UsedKeys
      <3>4. \A e \in DebtIds : UsedKeys'[e] = IF e = d THEN UsedKeys[d] \cup ({k} \ {NoKey})
                                                       ELSE UsedKeys[e]
        <4>1. UsedKeys'[d] = UsedKeys[d] \cup ({k} \ {NoKey})
          BY <3>1, <3>2 DEF UsedKeys
        <4>2. \A e \in DebtIds \ {d} : UsedKeys'[e] = UsedKeys[e]
          BY <3>1 DEF UsedKeys
        <4> QED
          BY <4>1, <4>2
      <3> QED
        BY <3>3, <3>4 DEF UsedKeys
    <2>11. UNCHANGED <<Known, Credits>> /\ Accts[d].stage = "open" /\ n <= Accts[d].owed
      BY <1>0, <2>1, AcctIs DEF Known, Credits
    <2>12. Book!Pay(d, k, n)
      BY <2>8, <2>9, <2>10, <2>11 DEF Book!Pay, Known, Accts, Received, UsedKeys, Credits
    <2> QED
      BY <2>12
  <1> QED
    BY <1>2, <1>3

LEMMA DeleteTransactionStrikes ==
    ASSUME IInv, Asked, NEW w \in Workers, DeleteTransaction(w)
    PROVE  \/ \E t \in SaleIds : Book!Strike(t)
           \/ UNCHANGED <<customer, debt, paid, sale>>
  <1>0. UNCHANGED <<customer, paid>>
    BY DEF DeleteTransaction
  <1>1. PICK t \in SaleIds, d \in DebtIds :
            t = worker[w].sale /\ d = sale[t].debt /\ debt[d].state # "absent"
    BY Own DEF DeleteTransaction, In, WorkerOK, IInv, Rows, RowsOK, Asked
  <1>2. CASE sale[t].state # "live"
    BY <1>0, <1>1, <1>2 DEF DeleteTransaction
  <1>3. CASE sale[t].state = "live"
    <2>1. PICK n \in Nat : n = sale[t].total /\ sale[t] \in CreditSales
      BY DEF IInv, Rows, TypeOK, CreditSales
    <2>2. /\ Credits[t].stage = "stands" /\ Credits[t].account = d /\ Credits[t].worth = n
          /\ Credits[t] = CreditIn(sale[t])
      BY <1>1, <1>3, <2>1, SaleStageIs DEF Credits
    <2>3. Credits' = [Credits EXCEPT ![t].stage = "struck"]
      <3>1. PICK r : r = [sale[t] EXCEPT !.state = "deleted"] /\ sale' = [sale EXCEPT ![t] = r]
        BY <1>1, <1>3 DEF DeleteTransaction
      <3>2. r.state = "deleted" /\ r.debt = sale[t].debt /\ r.total = sale[t].total
        BY <2>1, <3>1 DEF CreditSales
      <3>3. CreditIn(r) = [CreditIn(sale[t]) EXCEPT !.stage = "struck"]
        BY <3>2 DEF CreditIn
      <3>4. PICK x : x = CreditIn(r) /\ x = [Credits[t] EXCEPT !.stage = "struck"]
        BY <2>2, <3>3
      <3>5. Credits' = [Credits EXCEPT ![t] = x]
        <4>1. sale' = [sale EXCEPT ![t] = r]
          BY <3>1
        <4>2. Credits' = [Credits EXCEPT ![t] = CreditIn(r)]
          BY <4>1, CreditChanges
        <4> QED
          BY <3>4, <4>2
      <3> QED
        BY <3>4, <3>5
    <2>4. CASE debt[d].state = "live"
      <3>1. PICK r : r = Reversed(debt[d], n) /\ debt' = [debt EXCEPT ![d] = r]
        BY <1>1, <1>3, <2>1, <2>4 DEF DeleteTransaction
      <3>2. /\ r.state = "live" /\ r.customer = debt[d].customer
            /\ r.total = Minus(debt[d].total, n) /\ r.remaining = Minus(debt[d].remaining, n)
            /\ r.status = StatusOf(r.remaining)
        BY <2>4, <3>1, AcctIs DEF Reversed, DebtRows
      <3>3. Book!StageOf(r.remaining) = IF r.state # "live" THEN r.state
                                        ELSE IF r.status = "LUNAS" THEN "closed" ELSE "open"
        BY <3>2 DEF StatusOf, Book!StageOf
      <3>4. Book!Stands(d, Book!StageOf(r.remaining), r.total, r.remaining)
        BY <3>1, <3>2, <3>3, AcctStands
      <3>5. r.total = Book!Less(Accts[d].lent, n) /\ r.remaining = Book!Less(Accts[d].owed, n)
        BY <3>2, AcctIs DEF Minus, Book!Less
      <3>6. Accts[d].stage \in {"open", "closed"} /\ UNCHANGED <<Known, Received, UsedKeys>>
        BY <1>0, <2>4, AcctIs, PaidStays DEF Known
      <3>7. Book!Strike(t)
        BY <2>2, <2>3, <3>4, <3>5, <3>6
           DEF Book!Strike, Known, Accts, Received, UsedKeys, Credits
      <3> QED
        BY <3>7
    <2>5. CASE debt[d].state # "live"
      <3>1. debt[d].state = "deleted" /\ debt' = debt
        BY <1>1, <1>3, <2>5, AcctIs DEF DeleteTransaction, DebtRows
      <3>2. Accts[d].stage = "deleted" /\ UNCHANGED <<Accts, Known, Received, UsedKeys>>
        BY <1>0, <3>1, AcctIs, PaidStays DEF Known, Accts
      <3>3. Book!Strike(t)
        BY <2>2, <2>3, <3>2 DEF Book!Strike, Known, Accts, Received, UsedKeys, Credits
      <3> QED
        BY <3>3
    <2> QED
      BY <2>4, <2>5
  <1> QED
    BY <1>2, <1>3

LEMMA DeleteDebtDeletes ==
    ASSUME IInv, NEW d \in DebtIds, DeleteDebt(d) PROVE Book!Delete(d)
  <1>1. /\ debt[d].state = "live" /\ debt[d].remaining = 0 /\ paid[d] = << >>
        /\ UNCHANGED <<customer, paid, sale>>
    BY DEF DeleteDebt
  <1>2. PICK r : r = [debt[d] EXCEPT !.state = "deleted"] /\ debt' = [debt EXCEPT ![d] = r]
    BY DEF DeleteDebt
  <1>3. /\ r.state = "deleted" /\ r.customer = debt[d].customer
        /\ r.total = debt[d].total /\ r.remaining = debt[d].remaining
    BY <1>2, AcctIs DEF DebtRows
  <1>4. Book!Stands(d, "deleted", r.total, r.remaining)
    BY <1>2, <1>3, AcctStands
  <1>5. /\ Accts[d].stage \in {"open", "closed"} /\ Accts[d].owed = 0
        /\ r.total = Accts[d].lent /\ r.remaining = Accts[d].owed
    BY <1>1, <1>3, AcctIs
  <1>6. Received[d] = 0 /\ UNCHANGED <<Known, Received, UsedKeys, Credits>>
    BY <1>1, NothingPaid, PaidIs, PaidStays DEF Known, Credits
  <1> QED
    BY <1>4, <1>5, <1>6 DEF Book!Delete, Known, Accts, Received, UsedKeys, Credits

LEMMA DeleteCustomerLeaves ==
    ASSUME IInv, NEW c \in Customers, DeleteCustomer(c) PROVE Book!Leave(c)
  <1>1. /\ customer[c] = "live" /\ \A d \in DebtIds : ~IsOpen(d, c)
        /\ customer' = [customer EXCEPT ![c] = "deleted"] /\ UNCHANGED <<debt, paid, sale>>
    BY DEF DeleteCustomer
  <1>2. c \in Known /\ Known' = Known \ {c}
    BY <1>1 DEF Known, IInv, Rows, TypeOK
  <1>3. Book!OpenFor(c) = {}
    BY <1>1, NoneOpen DEF Book!OpenFor, Accts
  <1>4. UNCHANGED <<Accts, Received, UsedKeys, Credits>>
    BY <1>1, PaidStays DEF Accts, Credits
  <1> QED
    BY <1>2, <1>3, <1>4 DEF Book!Leave, Known, Accts, Received, UsedKeys, Credits

LEMMA BookStays ==
    ASSUME UNCHANGED <<customer, debt, paid, sale>> PROVE UNCHANGED Book!bookVars
  <1>1. UNCHANGED <<Known, Accts, Received, UsedKeys, Credits>>
    BY PaidStays DEF Known, Accts, Credits
  <1> QED
    BY <1>1 DEF Book!bookVars, Known, Accts, Received, UsedKeys, Credits

LEMMA InitBook == ASSUME Init PROVE Book!BookInit
  <1>1. Known = Customers
    BY DEF Init, Known
  <1>2. Accts = [a \in DebtIds |-> Book!Blank]
    BY DEF Init, Accts, AccountIn, Book!Blank
  <1>3. Received = [a \in DebtIds |-> 0]
    BY NothingPaid, PaidIs DEF Init
  <1>4. UsedKeys = [a \in DebtIds |-> {}]
    BY DEF Init, UsedKeys
  <1>5. Credits = [t \in SaleIds |-> Book!NotEntered]
    BY DEF Init, Credits, CreditIn, Book!NotEntered
  <1> QED
    BY <1>1, <1>2, <1>3, <1>4, <1>5
       DEF Book!BookInit, Known, Accts, Received, UsedKeys, Credits

LEMMA NextBook ==
    ASSUME IInv, Asked, [Next]_vars PROVE Book!BookNext \/ UNCHANGED Book!bookVars
  <1>1. CASE UNCHANGED <<customer, debt, paid, sale>>
    BY <1>1, BookStays
  <1>2. ASSUME NEW w \in Workers, InsertDebt(w)
        PROVE  Book!BookNext \/ UNCHANGED Book!bookVars
    BY <1>1, <1>2, InsertOpens DEF Book!BookNext
  <1>3. ASSUME NEW w \in Workers, RaiseDebt(w) PROVE Book!BookNext
    BY <1>3, RaiseRaises DEF Book!BookNext
  <1>4. ASSUME NEW w \in Workers, RecordPayment(w)
        PROVE  Book!BookNext \/ UNCHANGED Book!bookVars
    BY <1>1, <1>4, RecordPays DEF Book!BookNext
  <1>5. ASSUME NEW w \in Workers, DeleteTransaction(w)
        PROVE  Book!BookNext \/ UNCHANGED Book!bookVars
    BY <1>1, <1>5, DeleteTransactionStrikes DEF Book!BookNext
  <1>6. ASSUME NEW d \in DebtIds, DeleteDebt(d) PROVE Book!BookNext
    BY <1>6, DeleteDebtDeletes DEF Book!BookNext
  <1>7. ASSUME NEW c \in Customers, DeleteCustomer(c) PROVE Book!BookNext
    BY <1>7, DeleteCustomerLeaves DEF Book!BookNext
  <1>8. CASE UNCHANGED vars
    BY <1>1, <1>8 DEF vars
  <1>9. ASSUME NEW w \in Workers, \/ LockCustomerShared(w) \/ LockOpenDebt(w)
                                  \/ FindPayment(w) \/ LockDebt(w) \/ Abort(w)
        PROVE  UNCHANGED <<customer, debt, paid, sale>>
    BY <1>9 DEF LockCustomerShared, LockOpenDebt, FindPayment, LockDebt, Abort
  <1> QED
    BY <1>1, <1>2, <1>3, <1>4, <1>5, <1>6, <1>7, <1>8, <1>9
       DEF Next, Step, Lend, PayRequest, AssertTransactionDeletable

(* Every transaction on what customers owe is one entry of the book, made   *)
(* as if it ran alone: locks, retries, crashes and the answers to repeated  *)
(* payments change when an entry is made, never what it says.               *)
THEOREM BookKeptHolds == Spec => BookKept
  <1>1. Init => Book!BookInit
    BY InitBook
  <1>2. IInv /\ Asked /\ [Next]_vars => [Book!BookNext]_(Book!bookVars)
    BY NextBook
  <1> QED
    BY <1>1, <1>2, InitAsked, AskedKept, Inductive, PTL DEF Spec, BookKept, Book!BookSpec

=============================================================================
