------------------------------ MODULE ShelfProofs ------------------------------
(***************************************************************************)
(* For any products, carts, corrections, requests and faults: the stock is *)
(* whole cents and never negative, it accounts for the sales and           *)
(* reservations that stand, the stock of a digital product is only what    *)
(* was typed in, and locking products in the order of their ids keeps      *)
(* sales, reservations, releases and cancellations from waiting for each   *)
(* other in a circle.                                                      *)
(***************************************************************************)
EXTENDS Shelf, FoldLemmas

(* What it rests on: a transaction never owns a product with a larger id    *)
(* than one it still wants, and only the sale of a prepaid order shares.    *)

LineRows == [product : Products, qty : Nat]
Lines == Seq(LineRows)

Transactions == [op : Ops, inv : Invoices \cup {NoInvoice}, lines : Lines,
                 wants : SUBSET Products, shares : Lines, attempt : Nat]

LocksType ==
    /\ worker \in [Workers -> Transactions]
    /\ invoice \in [Invoices -> [state : {"none", "held", "sold", "gone"}, lines : Lines]]
    /\ owner \in [Products -> Workers \cup {NoWorker}]
    /\ sharers \in [Products -> SUBSET Workers]

InOrder(w) ==
    /\ \A p \in Products : owner[p] = w =>
            Locking(w) /\ \A q \in worker[w].wants : p < q
    /\ \A p \in Products : w \in sharers[p] => Sharing(w)

LockOrder == LocksType /\ \A w \in Workers : InOrder(w)

LEMMA IdleOK == Idle \in Transactions /\ Idle.wants = {}
  BY DEF Idle, Transactions, Ops, Lines

LEMMA ProductsOfType == ASSUME NEW lines \in Lines PROVE ProductsOf(lines) \subseteq Products
  <1>1. \A k \in DOMAIN lines : lines[k] \in LineRows
    BY DEF Lines
  <1> QED
    BY <1>1 DEF LineRows, ProductsOf

LEMMA RecordedType == ASSUME NEW lines \in Lines PROVE Recorded(lines) \in Lines
  <1>1. PICK n \in Nat : lines \in [1..n -> LineRows] /\ DOMAIN lines = 1..n
    <2>1. Len(lines) \in Nat /\ lines \in [1..Len(lines) -> LineRows]
      BY DEF Lines
    <2> QED
      BY <2>1
  <1>2. ASSUME NEW k \in 1..n
        PROVE  [lines[k] EXCEPT !.qty = @ + (@ % 2)] \in LineRows
    <2>1. lines[k] \in LineRows
      BY <1>1
    <2>2. lines[k].qty + (lines[k].qty % 2) \in Nat
      BY <2>1 DEF LineRows
    <2> QED
      BY <2>1, <2>2 DEF LineRows
  <1>3. Recorded(lines) \in [1..n -> LineRows]
    BY <1>1, <1>2 DEF Recorded
  <1>4. \A s : s \in [1..n -> LineRows] => s \in Seq(LineRows)
    BY <1>1
  <1> QED
    BY <1>3, <1>4 DEF Lines

(* A set of products that is not empty has a largest: the sets of those     *)
(* above one of them are finite, and one of these sets contains no other.   *)
LEMMA Largest ==
    ASSUME NEW T, T \subseteq Products, T # {}
    PROVE  \E x \in T : \A y \in T : y <= x
  <1> DEFINE Above(t) == {s \in T : t < s}
             F == {Above(t) : t \in T}
  <1>1. T \subseteq Nat /\ IsFiniteSet(T)
    BY ShelfAssumption, FS_Subset
  <1>2. F \subseteq FiniteSubsetsOf(T)
    <2>1. \A t \in T : Above(t) \subseteq T /\ IsFiniteSet(Above(t))
      BY <1>1, FS_Subset
    <2> QED
      BY <2>1 DEF FiniteSubsetsOf
  <1>3. F # {}
    OBVIOUS
  <1>4. PICK U \in F : \A V \in F : <<V, U>> \notin StrictSubsetOrdering(T)
    <2>1. IsWellFoundedOn(StrictSubsetOrdering(T), FiniteSubsetsOf(T))
      BY FS_StrictSubsetOrderingWellFounded
    <2> HIDE DEF F
    <2> QED
      BY <2>1, <1>2, <1>3, WFMin
  <1>5. PICK x \in T : U = Above(x)
    BY <1>4
  <1>6. ASSUME NEW y \in T, x < y PROVE FALSE
    <2>1. Above(y) \in F
      OBVIOUS
    <2>2. ASSUME NEW s \in T, y < s PROVE x < s
      <3>1. x \in Nat /\ y \in Nat /\ s \in Nat
        BY <1>1
      <3> QED
        BY <3>1, <1>6, <2>2
    <2>3. Above(y) \subseteq Above(x)
      BY <2>2
    <2>4. y \in Above(x) /\ y \notin Above(y)
      BY <1>1, <1>6
    <2>5. <<Above(y), Above(x)>> \in StrictSubsetOrdering(T)
      BY <2>3, <2>4 DEF StrictSubsetOrdering
    <2> QED
      BY <1>4, <1>5, <2>1, <2>5
  <1> QED
    BY <1>1, <1>6

(* A set of numbers has a least one, which is what Min picks.               *)
LEMMA MinOf ==
    ASSUME NEW T, T \subseteq Nat, T # {}
    PROVE  Min(T) \in T /\ \A y \in T : Min(T) <= y
  BY LeastNumber DEF Min

-----------------------------------------------------------------------------
(* The steps.                                                               *)

(* A step of w takes no lock for anybody else.                              *)
LEMMA Moves ==
    ASSUME LockOrder, NEW w \in Workers, NEW s \in Transactions, Becomes(w, s),
           invoice' \in [Invoices -> [state : {"none", "held", "sold", "gone"}, lines : Lines]],
           owner' \in [Products -> Workers \cup {NoWorker}],
           sharers' \in [Products -> SUBSET Workers],
           \A v \in Workers \ {w}, p \in Products :
                /\ owner'[p] = v => owner[p] = v
                /\ v \in sharers'[p] => v \in sharers[p],
           \A p \in Products : owner'[p] = w =>
                s.op \in Ops \ {"none", "prepaid"} /\ \A q \in s.wants : p < q,
           \A p \in Products : w \in sharers'[p] => s.op = "prepaid"
    PROVE  LockOrder'
  <1>1. /\ worker' \in [Workers -> Transactions] /\ worker'[w] = s
        /\ \A v \in Workers \ {w} : worker'[v] = worker[v]
    BY DEF LockOrder, LocksType, Becomes
  <1>2. LocksType'
    BY <1>1 DEF LocksType
  <1>3. InOrder(w)'
    BY <1>1 DEF InOrder, Locking, Sharing
  <1>4. ASSUME NEW v \in Workers \ {w} PROVE InOrder(v)'
    BY <1>1 DEF LockOrder, InOrder, Locking, Sharing
  <1> QED
    BY <1>2, <1>3, <1>4 DEF LockOrder

LEMMA Unlocked ==
    ASSUME LockOrder, NEW w \in Workers, Unlock(w)
    PROVE  /\ owner' \in [Products -> Workers \cup {NoWorker}]
           /\ sharers' \in [Products -> SUBSET Workers]
           /\ \A p \in Products : owner'[p] # w /\ w \notin sharers'[p]
           /\ \A v \in Workers \ {w}, p \in Products :
                /\ owner'[p] = v => owner[p] = v
                /\ v \in sharers'[p] => v \in sharers[p]
  BY ShelfAssumption DEF LockOrder, LocksType, Unlock

LEMMA EndsKeeps ==
    ASSUME LockOrder, NEW w \in Workers, Ends(w),
           invoice' \in [Invoices -> [state : {"none", "held", "sold", "gone"}, lines : Lines]]
    PROVE  LockOrder'
  <1>1. PICK s \in Transactions : s = Idle
    BY IdleOK
  <1>2. Becomes(w, s) /\ Unlock(w)
    BY <1>1 DEF Ends
  <1> QED
    BY <1>2, Unlocked, Moves

(* The least product still wanted is larger than all that are owned.        *)
LEMMA LockProductsOrderedKeeps ==
    ASSUME LockOrder, NEW w \in Workers, LockProductsOrdered(w) PROVE LockOrder'
  <1>0. /\ worker[w] \in Transactions /\ worker[w].wants \subseteq Nat
        /\ worker[w].wants \subseteq Products
    BY ShelfAssumption DEF LockOrder, LocksType, Transactions
  <1>1. PICK p \in Products : /\ p = Min(worker[w].wants) /\ p \in worker[w].wants
                              /\ \A q \in worker[w].wants : p <= q
    BY <1>0, MinOf DEF LockProductsOrdered
  <1>2. PICK s \in Transactions : s = [worker[w] EXCEPT !.wants = @ \ {p}]
    BY <1>0 DEF Transactions
  <1>3. s.op = worker[w].op /\ s.wants = worker[w].wants \ {p}
    BY <1>0, <1>2 DEF Transactions
  <1>4. Becomes(w, s) /\ UNCHANGED <<invoice, sharers>> /\ Locking(w)
    BY <1>1, <1>2 DEF LockProductsOrdered
  <1>5. UNCHANGED owner \/ owner' = [owner EXCEPT ![p] = w]
    BY <1>1 DEF LockProductsOrdered
  <1>6. ASSUME NEW r \in Products, owner'[r] = w, NEW q \in s.wants PROVE r < q
    <2>1. owner[r] = w \/ r = p
      BY <1>5, <1>6 DEF LockOrder, LocksType
    <2>2. q \in worker[w].wants /\ q # p /\ q \in Nat /\ p \in Nat
      BY <1>0, <1>1, <1>3, <1>6
    <2>3. CASE owner[r] = w
      BY <2>2, <2>3 DEF LockOrder, InOrder
    <2>4. CASE r = p
      BY <1>1, <2>2, <2>4
    <2> QED
      BY <2>1, <2>3, <2>4
  <1>7. /\ owner' \in [Products -> Workers \cup {NoWorker}]
        /\ \A v \in Workers \ {w}, r \in Products : owner'[r] = v => owner[r] = v
    BY <1>5 DEF LockOrder, LocksType
  <1>8. \A r \in Products : w \in sharers'[r] => s.op = "prepaid"
    BY <1>3, <1>4 DEF LockOrder, InOrder, Sharing
  <1>9. \A r \in Products : owner'[r] = w => s.op \in Ops \ {"none", "prepaid"}
    BY <1>3, <1>4 DEF Locking
  <1>10. /\ invoice' \in [Invoices -> [state : {"none", "held", "sold", "gone"}, lines : Lines]]
         /\ sharers' \in [Products -> SUBSET Workers] /\ sharers' = sharers
    BY <1>4 DEF LockOrder, LocksType
  <1> QED
    BY <1>4, <1>6, <1>7, <1>8, <1>9, <1>10, Moves

LEMMA ShareProductKeeps ==
    ASSUME LockOrder, NEW w \in Workers, ShareProduct(w) PROVE LockOrder'
  <1>0. worker[w] \in Transactions /\ worker[w].shares \in Seq(LineRows)
        /\ worker[w].shares # <<>>
    BY DEF LockOrder, LocksType, Transactions, Lines, ShareProduct
  <1>1. Tail(worker[w].shares) \in Lines
    BY <1>0 DEF Lines
  <1>2. PICK s \in Transactions : s = [worker[w] EXCEPT !.shares = Tail(@)]
    BY <1>0, <1>1 DEF Transactions
  <1>3. s.op = "prepaid" /\ Becomes(w, s) /\ UNCHANGED <<invoice, owner>>
    BY <1>0, <1>2 DEF Transactions, ShareProduct, Sharing
  <1>4. /\ sharers' \in [Products -> SUBSET Workers]
        /\ \A v \in Workers \ {w}, p \in Products : v \in sharers'[p] => v \in sharers[p]
    <2>1. PICK p : sharers' = [sharers EXCEPT ![p] = @ \cup {w}]
      BY DEF ShareProduct
    <2> QED
      BY <2>1 DEF LockOrder, LocksType
  <1>5. \A p \in Products : owner[p] # w
    BY DEF LockOrder, InOrder, Locking, ShareProduct, Sharing
  <1>6. /\ invoice' \in [Invoices -> [state : {"none", "held", "sold", "gone"}, lines : Lines]]
        /\ owner' \in [Products -> Workers \cup {NoWorker}] /\ owner' = owner
    BY <1>3 DEF LockOrder, LocksType
  <1> QED
    BY <1>3, <1>4, <1>5, <1>6, Moves

(* The commits and rollbacks give all locks back.                           *)
LEMMA DeductKeeps ==
    ASSUME LockOrder, NEW w \in Workers, NEW op, NEW state \in {"held", "sold"},
           NEW lines \in Lines, Deduct(w, op, state, lines)
    PROVE  LockOrder'
  <1>1. invoice' = [invoice EXCEPT ![worker[w].inv] = [state |-> state, lines |-> lines]]
        /\ Ends(w)
    BY DEF Deduct
  <1>2. invoice' \in [Invoices -> [state : {"none", "held", "sold", "gone"}, lines : Lines]]
    BY <1>1 DEF LockOrder, LocksType
  <1> QED
    BY <1>1, <1>2, EndsKeeps

LEMMA PutBackKeeps ==
    ASSUME LockOrder, NEW w \in Workers, NEW op, PutBack(w, op) PROVE LockOrder'
  <1>1. invoice' = [invoice EXCEPT ![worker[w].inv].state = "gone"] /\ Ends(w)
    BY DEF PutBack
  <1>2. invoice' \in [Invoices -> [state : {"none", "held", "sold", "gone"}, lines : Lines]]
    BY <1>1 DEF LockOrder, LocksType
  <1> QED
    BY <1>1, <1>2, EndsKeeps

LEMMA CommitPrepaidKeeps ==
    ASSUME LockOrder, NEW w \in Workers, CommitPrepaid(w) PROVE LockOrder'
  <1>1. invoice' = [invoice EXCEPT ![worker[w].inv] =
                        [state |-> "sold", lines |-> Recorded(@.lines)]]
        /\ Ends(w)
    BY DEF CommitPrepaid
  <1>2. \A i \in Invoices : Recorded(invoice[i].lines) \in Lines
    BY RecordedType DEF LockOrder, LocksType
  <1>3. invoice' \in [Invoices -> [state : {"none", "held", "sold", "gone"}, lines : Lines]]
    BY <1>1, <1>2 DEF LockOrder, LocksType
  <1> QED
    BY <1>1, <1>3, EndsKeeps

LEMMA AbortKeeps ==
    ASSUME LockOrder, NEW w \in Workers, Ends(w), UNCHANGED invoice PROVE LockOrder'
  BY EndsKeeps DEF LockOrder, LocksType

(* A request begins, or begins again, with no lock at all.                  *)
LEMMA Begins ==
    ASSUME LockOrder, NEW w \in Workers, NEW s \in Transactions, Becomes(w, s),
           UNCHANGED invoice, Unlock(w)
    PROVE  LockOrder'
  <1>1. invoice' \in [Invoices -> [state : {"none", "held", "sold", "gone"}, lines : Lines]]
    BY DEF LockOrder, LocksType
  <1> QED
    BY <1>1, Unlocked, Moves

LEMMA DeadlockDetectedKeeps ==
    ASSUME LockOrder, NEW w \in Workers, DeadlockDetected(w) PROVE LockOrder'
  <1>0. worker[w] \in Transactions /\ worker[w].lines \in Lines /\ worker[w].attempt + 1 \in Nat
        /\ ProductsOf(worker[w].lines) \subseteq Products /\ <<>> \in Lines
    BY ProductsOfType DEF LockOrder, LocksType, Transactions, Lines
  <1>1. Unlock(w) /\ UNCHANGED invoice
    BY DEF DeadlockDetected
  <1>2. CASE Becomes(w, Idle)
    BY <1>1, <1>2, IdleOK, Begins
  <1>3. ASSUME NEW wants \in SUBSET Products, NEW shares \in Lines,
               Becomes(w, [worker[w] EXCEPT !.attempt = @ + 1, !.wants = wants,
                                            !.shares = shares])
        PROVE  LockOrder'
    <2>1. PICK s \in Transactions :
            s = [worker[w] EXCEPT !.attempt = @ + 1, !.wants = wants, !.shares = shares]
      BY <1>0 DEF Transactions
    <2> QED
      BY <1>1, <1>3, <2>1, Begins
  <1> QED
    BY <1>0, <1>2, <1>3 DEF DeadlockDetected

LEMMA StartsKeeps ==
    ASSUME LockOrder, NEW w \in Workers, NEW op \in Ops \ {"none"}, NEW i \in Invoices,
           NEW lines \in Lines, Starts(w, op, i, lines)
    PROVE  LockOrder'
  <1>0. ProductsOf(lines) \subseteq Products /\ <<>> \in Lines
    BY ProductsOfType DEF Lines
  <1>1. PICK s \in Transactions : Becomes(w, s)
    <2>1. ASSUME NEW wants \in SUBSET Products, NEW shares \in Lines
          PROVE  [Idle EXCEPT !.op = op, !.inv = i, !.lines = lines, !.wants = wants,
                              !.shares = shares] \in Transactions
      BY IdleOK DEF Transactions
    <2> QED
      BY <1>0, <2>1 DEF Starts
  <1>2. \A p \in Products : owner[p] # w /\ w \notin sharers[p]
    BY DEF Starts, Idle, LockOrder, InOrder, Locking, Sharing
  <1>3. UNCHANGED <<invoice, owner, sharers>>
    BY DEF Starts, locks
  <1>4. /\ invoice' \in [Invoices -> [state : {"none", "held", "sold", "gone"}, lines : Lines]]
        /\ owner' \in [Products -> Workers \cup {NoWorker}]
        /\ sharers' \in [Products -> SUBSET Workers]
        /\ \A p \in Products : owner'[p] # w /\ w \notin sharers'[p]
        /\ \A v \in Workers \ {w}, p \in Products :
                /\ owner'[p] = v => owner[p] = v
                /\ v \in sharers'[p] => v \in sharers[p]
    BY <1>2, <1>3 DEF LockOrder, LocksType
  <1> QED
    BY <1>1, <1>4, Moves

-----------------------------------------------------------------------------

LEMMA InitLockOrder == Init => LockOrder
  BY IdleOK, ShelfAssumption DEF Init, LockOrder, LocksType, InOrder, Lines

LEMMA StepLockOrder == LockOrder /\ [Next]_vars => LockOrder'
  <1> SUFFICES ASSUME LockOrder, [Next]_vars PROVE LockOrder'
    OBVIOUS
  <1>0. \A i \in Invoices : invoice[i].lines \in Lines
    BY DEF LockOrder, LocksType
  <1>1. ASSUME NEW w \in Workers, Step(w) PROVE LockOrder'
    <2>1. worker[w].lines \in Lines /\ Recorded(worker[w].lines) \in Lines
      BY RecordedType DEF LockOrder, LocksType, Transactions
    <2>2. CASE CommitSale(w)
      BY <2>1, <2>2, DeductKeeps DEF CommitSale
    <2>3. CASE CommitReservation(w)
      BY <2>1, <2>3, DeductKeeps DEF CommitReservation
    <2>4. CASE Refused(w) \/ AlreadyGone(w)
      BY <2>4, AbortKeeps DEF Refused, AlreadyGone, Rollback
    <2> QED
      BY <1>1, <2>2, <2>3, <2>4, LockProductsOrderedKeeps, ShareProductKeeps, PutBackKeeps,
         CommitPrepaidKeeps, DeadlockDetectedKeeps DEF Step
  <1>2. ASSUME NEW w \in Workers, Abort(w) PROVE LockOrder'
    BY <1>2, AbortKeeps DEF Abort
  <1>3. ASSUME NEW w \in Workers, NEW s \in Sales,
               DeleteTransaction(w, s) \/ \E cart \in Carts : Sell(w, s, cart)
        PROVE  LockOrder'
    <2>1. s \in Invoices
      BY DEF Invoices
    <2>2. CASE DeleteTransaction(w, s)
      BY <1>0, <2>1, <2>2, StartsKeeps DEF DeleteTransaction, Ops
    <2>3. ASSUME NEW cart \in Carts, Sell(w, s, cart) PROVE LockOrder'
      BY <2>1, <2>3, ShelfAssumption, StartsKeeps DEF Sell, Ops, Lines, LineRows
    <2> QED
      BY <1>3, <2>2, <2>3
  <1>4. ASSUME NEW w \in Workers, NEW o \in Orders,
               \/ UpdateWithLock(w, o) \/ AddPrepaidTransaction(w, o)
               \/ \E cart \in Carts : CreateWithReservation(w, o, cart)
        PROVE  LockOrder'
    <2>1. o \in Invoices
      BY DEF Invoices
    <2>2. CASE UpdateWithLock(w, o) \/ AddPrepaidTransaction(w, o)
      BY <1>0, <2>1, <2>2, StartsKeeps DEF UpdateWithLock, AddPrepaidTransaction, Ops
    <2>3. ASSUME NEW cart \in Carts, CreateWithReservation(w, o, cart) PROVE LockOrder'
      BY <2>1, <2>3, ShelfAssumption, StartsKeeps DEF CreateWithReservation, Ops, Lines, LineRows
    <2> QED
      BY <1>4, <2>2, <2>3
  <1>5. ASSUME UNCHANGED <<invoice, owner, sharers, worker>> PROVE LockOrder'
    BY <1>5 DEF LockOrder, LocksType, InOrder, Locking, Sharing
  <1> QED
    BY <1>1, <1>2, <1>3, <1>4, <1>5
       DEF Next, vars, locks, UpdateStockWithLock, UpdateProductWithLock, DeleteProduct

(* In a circle somebody waits for a smaller product than it owns, unless    *)
(* the sale of a prepaid order is one of those that wait.                   *)
LEMMA OrderBreaksCircles ==
    ASSUME LockOrder,
           NEW S \in SUBSET Workers, Deadlocked(S)
    PROVE  \E w \in S : Sharing(w)
  <1> SUFFICES ASSUME \A w \in S : ~Sharing(w) PROVE FALSE
    OBVIOUS
  <1>1. ASSUME NEW w \in S PROVE worker[w].wants \subseteq Products /\ worker[w].wants \subseteq Nat
    BY ShelfAssumption DEF LockOrder, LocksType, Transactions
  <1>2. ASSUME NEW w \in S
        PROVE  \E u \in S : /\ worker[w].wants # {} /\ worker[u].wants # {}
                            /\ Min(worker[w].wants) \in Products
                            /\ Min(worker[u].wants) \in Products
                            /\ Min(worker[w].wants) < Min(worker[u].wants)
    <2>1. PICK u \in S : u \in Blockers(w)
      BY DEF Deadlocked
    <2>2. /\ worker[w].wants # {}
          /\ u \in {owner[Min(worker[w].wants)]} \cup sharers[Min(worker[w].wants)]
      BY <2>1 DEF Blockers
    <2>3. Min(worker[w].wants) \in Products
      BY <1>1, <2>2, MinOf
    <2>4. owner[Min(worker[w].wants)] = u
      BY <2>2, <2>3 DEF LockOrder, InOrder
    <2>5. worker[u].wants # {}
      <3>1. PICK v \in S : v \in Blockers(u)
        BY DEF Deadlocked
      <3> QED
        BY <3>1 DEF Blockers
    <2>6. Min(worker[u].wants) \in worker[u].wants
      BY <1>1, <2>5, MinOf
    <2>7. Min(worker[w].wants) < Min(worker[u].wants)
      BY <2>3, <2>4, <2>6 DEF LockOrder, InOrder
    <2> QED
      BY <1>1, <2>2, <2>3, <2>5, <2>6, <2>7
  <1>3. PICK T : T = {Min(worker[w].wants) : w \in S}
    OBVIOUS
  <1>4. T \subseteq Products /\ T # {}
    BY <1>2, <1>3 DEF Deadlocked
  <1>5. PICK x \in T : \A y \in T : y <= x
    BY <1>4, Largest
  <1>6. PICK w \in S : x = Min(worker[w].wants)
    BY <1>3, <1>5
  <1>7. PICK u \in S : x < Min(worker[u].wants)
    BY <1>2, <1>6
  <1>8. Min(worker[u].wants) \in T /\ Min(worker[u].wants) \in Nat /\ x \in Nat
    BY <1>3, <1>4, ShelfAssumption
  <1> QED
    BY <1>5, <1>7, <1>8

(* Whatever the carts and however many requests run at once, transactions   *)
(* wait for each other in a circle only if one of them is the sale of a     *)
(* prepaid order.                                                           *)
THEOREM CirclesNeedPrepaidHolds == Spec => []CirclesNeedPrepaid
  <1>1. Spec => []LockOrder
    BY InitLockOrder, StepLockOrder, PTL DEF Spec
  <1>2. LockOrder => CirclesNeedPrepaid
    BY OrderBreaksCircles DEF CirclesNeedPrepaid
  <1> QED
    BY <1>1, <1>2, PTL

-----------------------------------------------------------------------------
(* Amounts: a stock is whole cents, and a half cent is rounded by a half.   *)

EvenNat == {v \in Nat : v % 2 = 0}

LEMMA Rounded ==
    ASSUME NEW v \in Int, NEW up \in BOOLEAN
    PROVE  /\ RoundStock(v, up) \in Int /\ RoundStock(v, up) % 2 = 0
           /\ RoundStock(v, up) - v \in -1..1
           /\ v % 2 = 0 => RoundStock(v, up) = v
           /\ v >= 0 => RoundStock(v, up) \in EvenNat
  BY DEF RoundStock, EvenNat

(* A stock that changes by the lines in M, one after the other, ends up     *)
(* where their sum says, but for a half cent for each that has one.         *)
Walks(x, n, qty, M, up) ==
    /\ M \subseteq 1..n /\ \A k \in 1..n : qty[k] \in Int
    /\ x[0] \in Int /\ x[0] % 2 = 0
    /\ \A k \in 1..n : x[k] = IF k \in M THEN RoundStock(x[k - 1] + qty[k], up) ELSE x[k - 1]

Odds(qty, M) == Cardinality({k \in M : qty[k] % 2 = 1})
Within(v, h) == v \in -h..h

LEMMA Walk ==
    ASSUME NEW n \in Nat, NEW up \in BOOLEAN, NEW qty, NEW M, NEW x, Walks(x, n, qty, M, up)
    PROVE  /\ x[n] \in Int /\ Odds(qty, M) \in Nat
           /\ Within(x[n] - x[0] - Sum(qty, M), Odds(qty, M))
  <1> USE DEF Walks
  <1> DEFINE Upto(k) == M \cap 1..k
             Odd(k)  == {j \in Upto(k) : qty[j] % 2 = 1}
             P == {k \in 0..n : /\ x[k] \in Int /\ x[k] % 2 = 0
                                /\ x[k] - x[0] - Sum(qty, Upto(k))
                                        \in -Cardinality(Odd(k))..Cardinality(Odd(k))}
  <1>1. \A k \in 0..n : /\ IsFiniteSet(Upto(k)) /\ Upto(k) \subseteq 1..n
                        /\ IsFiniteSet(Odd(k)) /\ Cardinality(Odd(k)) \in Nat
    <2>1. IsFiniteSet(1..n)
      BY FS_Interval
    <2>2. ASSUME NEW k \in 0..n
          PROVE  /\ Upto(k) \subseteq 1..n /\ Odd(k) \subseteq 1..n
      OBVIOUS
    <2> QED
      BY <2>1, <2>2, FS_Subset, FS_CardinalityType
  <1>2. 0 \in P
    <2>1. Upto(0) = {} /\ Odd(0) = {}
      OBVIOUS
    <2>2. Sum(qty, {}) = 0 /\ Cardinality({}) = 0
      BY SumEmpty, FS_EmptySet
    <2> QED
      BY <2>1, <2>2
  <1>3. ASSUME NEW k \in 0..(n - 1), k \in P PROVE k + 1 \in P
    <2>0. k + 1 \in 1..n /\ (k + 1) - 1 = k /\ k \in 0..n /\ k + 1 \in 0..n
      OBVIOUS
    <2>1. x[k + 1] = IF k + 1 \in M THEN RoundStock(x[k] + qty[k + 1], up) ELSE x[k]
      BY <2>0
    <2>2. CASE k + 1 \notin M
      <3>1. Upto(k + 1) = Upto(k)
        BY <2>0, <2>2
      <3>2. Odd(k + 1) = Odd(k)
        BY <3>1
      <3> QED
        BY <1>3, <2>0, <2>1, <2>2, <3>1, <3>2
    <2>3. CASE k + 1 \in M
      <3>1. /\ Upto(k + 1) \ {k + 1} = Upto(k) /\ k + 1 \in Upto(k + 1)
            /\ k + 1 \notin Upto(k)
        BY <2>0, <2>3
      <3>2. Sum(qty, Upto(k + 1)) = qty[k + 1] + Sum(qty, Upto(k))
        <4>1. \A j \in Upto(k + 1) : qty[j] \in Int
          BY <1>1, <2>0
        <4> HIDE DEF Upto
        <4>2. IsFiniteSet(Upto(k + 1))
          BY <1>1, <2>0
        <4>3. Sum(qty, Upto(k + 1)) = qty[k + 1] + Sum(qty, Upto(k + 1) \ {k + 1})
          BY <3>1, <4>1, <4>2, SumWithout
        <4> QED
          BY <3>1, <4>3
      <3>3. Sum(qty, Upto(k)) \in Int
        <4>1. \A j \in Upto(k) : qty[j] \in Int
          BY <1>1, <2>0
        <4> HIDE DEF Upto
        <4> QED
          BY <1>1, <2>0, <4>1, SumInt
      <3>4. /\ x[k] \in Int /\ x[k] % 2 = 0 /\ qty[k + 1] \in Int
            /\ x[k] - x[0] - Sum(qty, Upto(k)) \in -Cardinality(Odd(k))..Cardinality(Odd(k))
            /\ Cardinality(Odd(k)) \in Nat
        BY <1>1, <1>3, <2>0
      <3>5. PICK s \in Int : s = x[k] + qty[k + 1]
        BY <3>4
      <3>6. /\ x[k + 1] = RoundStock(s, up)
            /\ x[k + 1] \in Int /\ x[k + 1] % 2 = 0
            /\ x[k + 1] - s \in -1..1
            /\ s % 2 = 0 => x[k + 1] = s
        BY <2>1, <2>3, <3>5, Rounded
      <3>7. CASE qty[k + 1] % 2 = 1
        <4>1. Odd(k + 1) = Odd(k) \cup {k + 1} /\ k + 1 \notin Odd(k)
          BY <2>0, <2>3, <3>7
        <4>2. Cardinality(Odd(k + 1)) = Cardinality(Odd(k)) + 1
          <5> HIDE DEF Odd
          <5> QED
            BY <1>1, <2>0, <4>1, FS_AddElement
        <4> HIDE DEF Odd, Upto
        <4>3. x[k + 1] - x[0] - Sum(qty, Upto(k + 1))
                    \in -Cardinality(Odd(k + 1))..Cardinality(Odd(k + 1))
          BY <3>2, <3>3, <3>4, <3>5, <3>6, <4>2
        <4> QED
          BY <2>0, <3>6, <4>3
      <3>8. CASE qty[k + 1] % 2 # 1
        <4>1. Odd(k + 1) = Odd(k)
          BY <2>0, <2>3, <3>8
        <4>2. s % 2 = 0
          BY <3>4, <3>5, <3>8
        <4> HIDE DEF Odd, Upto
        <4>3. x[k + 1] - x[0] - Sum(qty, Upto(k + 1))
                    \in -Cardinality(Odd(k + 1))..Cardinality(Odd(k + 1))
          BY <3>2, <3>3, <3>4, <3>5, <3>6, <4>1, <4>2
        <4> QED
          BY <2>0, <3>6, <4>3
      <3> QED
        BY <3>7, <3>8
    <2> QED
      BY <2>2, <2>3
  <1>4. n \in P
    <2> HIDE DEF P
    <2> QED
      BY <1>2, <1>3, CountUp
  <1>5. Upto(n) = M
    OBVIOUS
  <1>6. Odd(n) = {k \in M : qty[k] % 2 = 1}
    BY <1>5
  <1> QED
    BY <1>1, <1>4, <1>5, <1>6 DEF Odds, Within

-----------------------------------------------------------------------------
(* What the folds over the lines of a request compute, line by line.        *)

Stocks == [Products -> EvenNat]
Accs   == [ok : BOOLEAN, stock : Stocks]

LEMMA TakeType ==
    ASSUME NEW w, NEW up \in BOOLEAN, NEW acc \in Accs, NEW l \in LineRows
    PROVE  Take(w, up, acc, l) \in Accs
  <1> DEFINE p == l.product
             v == RoundStock(acc.stock[p] - l.qty, up)
  <1>1. p \in Products /\ l.qty \in Nat /\ acc.stock[p] \in EvenNat
    BY DEF LineRows, Accs, Stocks
  <1>2. [acc EXCEPT !.ok = FALSE] \in Accs
    BY DEF Accs
  <1>3. acc.stock[p] >= l.qty => v \in EvenNat
    BY <1>1, Rounded DEF EvenNat
  <1>4. v \in EvenNat => [acc EXCEPT !.stock[p] = v] \in Accs
    <2> HIDE DEF v
    <2> QED
      BY <1>1 DEF Accs, Stocks
  <1>5. acc.stock[p] < l.qty \/ acc.stock[p] >= l.qty
    BY <1>1 DEF EvenNat
  <1> QED
    BY <1>2, <1>3, <1>4, <1>5 DEF Take

LEMMA PutType ==
    ASSUME NEW w, NEW up \in BOOLEAN, NEW acc \in Stocks, NEW l \in LineRows
    PROVE  Put(w, up, acc, l) \in Stocks
  <1> DEFINE p == l.product
             v == RoundStock(acc[p] + l.qty, up)
  <1>1. p \in Products /\ l.qty \in Nat /\ acc[p] \in EvenNat
    BY DEF LineRows, Stocks
  <1>2. v \in EvenNat
    BY <1>1, Rounded DEF EvenNat
  <1> QED
    BY <1>1, <1>2 DEF Put, Stocks

TakesUp(f, w, up, base) ==
    f = [s \in SUBSET (DOMAIN worker[w].lines) |->
            IF s = {} THEN base
            ELSE Take(w, up, f[s \ {Max(s)}], worker[w].lines[Max(s)])]

PutsUp(f, w, up) ==
    f = [s \in SUBSET (DOMAIN worker[w].lines) |->
            IF s = {} THEN stock
            ELSE Put(w, up, f[s \ {Max(s)}], worker[w].lines[Max(s)])]

LEMMA LinesType ==
    ASSUME NEW lines \in Lines
    PROVE  \E n \in Nat : /\ n = Len(lines) /\ DOMAIN lines = 1..n
                          /\ \A k \in 1..n : lines[k] \in LineRows
  BY DEF Lines

LEMMA TakesUpExists ==
    ASSUME NEW w \in Workers, worker[w].lines \in Lines, NEW up \in BOOLEAN, NEW base \in Accs
    PROVE  \E f : TakesUp(f, w, up, base)
  <1>0. PICK lines \in Lines : lines = worker[w].lines
    OBVIOUS
  <1>1. PICK n \in Nat : DOMAIN lines = 1..n /\ \A k \in 1..n : lines[k] \in LineRows
    BY LinesType
  <1> DEFINE next == [k \in 1..n |-> [acc \in Accs |-> Take(w, up, acc, lines[k])]]
  <1>2. \A k \in 1..n : next[k] \in [Accs -> Accs]
    BY <1>1, TakeType
  <1>3. PICK f : FoldsLeft(f, base, next, n)
    BY FoldsLeftExists
  <1>4. \A s \in SUBSET (1..n) : f[s] \in Accs
    <2> HIDE DEF next
    <2> QED
      BY <1>2, <1>3, FoldsLeftType
  <1>5. ASSUME NEW s \in SUBSET (1..n)
        PROVE  f[s] = IF s = {} THEN base
                      ELSE Take(w, up, f[s \ {Max(s)}], lines[Max(s)])
    <2>1. f[s] = IF s = {} THEN base ELSE next[Max(s)][f[s \ {Max(s)}]]
      BY <1>3 DEF FoldsLeft
    <2>2. s # {} => Max(s) \in 1..n /\ f[s \ {Max(s)}] \in Accs
      BY <1>4, LargestOf
    <2> QED
      BY <2>1, <2>2
  <1>6. f = [s \in SUBSET (1..n) |-> f[s]]
    BY <1>3 DEF FoldsLeft
  <1>7. f = [s \in SUBSET (1..n) |->
                IF s = {} THEN base ELSE Take(w, up, f[s \ {Max(s)}], lines[Max(s)])]
    BY <1>5, <1>6
  <1> QED
    BY <1>0, <1>1, <1>7 DEF TakesUp

LEMMA DecrementIs ==
    ASSUME NEW w \in Workers, worker[w].lines \in Lines, NEW up \in BOOLEAN,
           stock \in Stocks
    PROVE  \E f : /\ TakesUp(f, w, up, [ok |-> TRUE, stock |-> stock])
                  /\ DecrementStock(w, up) = f[DOMAIN worker[w].lines]
  <1>1. [ok |-> TRUE, stock |-> stock] \in Accs
    BY DEF Accs
  <1>2. \E f : TakesUp(f, w, up, [ok |-> TRUE, stock |-> stock])
    BY <1>1, TakesUpExists
  <1> QED
    BY <1>2 DEF TakesUp, DecrementStock, FoldLeft, MapThenFoldSet

LEMMA PutsUpExists ==
    ASSUME NEW w \in Workers, worker[w].lines \in Lines, NEW up \in BOOLEAN,
           stock \in Stocks
    PROVE  \E f : PutsUp(f, w, up)
  <1>0. PICK lines \in Lines : lines = worker[w].lines
    OBVIOUS
  <1>1. PICK n \in Nat : DOMAIN lines = 1..n /\ \A k \in 1..n : lines[k] \in LineRows
    BY LinesType
  <1> DEFINE next == [k \in 1..n |-> [acc \in Stocks |-> Put(w, up, acc, lines[k])]]
  <1>2. \A k \in 1..n : next[k] \in [Stocks -> Stocks]
    BY <1>1, PutType
  <1>3. PICK f : FoldsLeft(f, stock, next, n)
    BY FoldsLeftExists
  <1>4. \A s \in SUBSET (1..n) : f[s] \in Stocks
    <2> HIDE DEF next
    <2> QED
      BY <1>2, <1>3, FoldsLeftType
  <1>5. ASSUME NEW s \in SUBSET (1..n)
        PROVE  f[s] = IF s = {} THEN stock
                      ELSE Put(w, up, f[s \ {Max(s)}], lines[Max(s)])
    <2>1. f[s] = IF s = {} THEN stock ELSE next[Max(s)][f[s \ {Max(s)}]]
      BY <1>3 DEF FoldsLeft
    <2>2. s # {} => Max(s) \in 1..n /\ f[s \ {Max(s)}] \in Stocks
      BY <1>4, LargestOf
    <2> QED
      BY <2>1, <2>2
  <1>6. f = [s \in SUBSET (1..n) |-> f[s]]
    BY <1>3 DEF FoldsLeft
  <1>7. f = [s \in SUBSET (1..n) |->
                IF s = {} THEN stock ELSE Put(w, up, f[s \ {Max(s)}], lines[Max(s)])]
    BY <1>5, <1>6
  <1> QED
    BY <1>0, <1>1, <1>7 DEF PutsUp

LEMMA IncrementIs ==
    ASSUME NEW w \in Workers, worker[w].lines \in Lines, NEW up \in BOOLEAN,
           stock \in Stocks
    PROVE  \E f : /\ PutsUp(f, w, up)
                  /\ IncrementStock(w, up) = f[DOMAIN worker[w].lines]
  <1>1. \E f : PutsUp(f, w, up)
    BY PutsUpExists
  <1> QED
    BY <1>1 DEF PutsUp, IncrementStock, FoldLeft, MapThenFoldSet

(* The accumulator after each line.                                         *)
LEMMA DecrementSteps ==
    ASSUME NEW w \in Workers, worker[w].lines \in Lines, NEW up \in BOOLEAN,
           stock \in Stocks, NEW n \in Nat, DOMAIN worker[w].lines = 1..n
    PROVE  \E x \in [0..n -> Accs] :
                /\ x[0] = [ok |-> TRUE, stock |-> stock]
                /\ \A k \in 1..n : x[k] = Take(w, up, x[k - 1], worker[w].lines[k])
                /\ DecrementStock(w, up) = x[n]
  <1> DEFINE lines == worker[w].lines
             base  == [ok |-> TRUE, stock |-> stock]
  <1>0. \A k \in 1..n : lines[k] \in LineRows
    BY LinesType
  <1>1. PICK f : /\ TakesUp(f, w, up, base)
                 /\ DecrementStock(w, up) = f[1..n]
    BY DecrementIs
  <1>2. f[1..0] = base
    <2>1. 1..0 = {}
      OBVIOUS
    <2> QED
      BY <1>1, <2>1 DEF TakesUp
  <1>3. ASSUME NEW k \in 1..n PROVE f[1..k] = Take(w, up, f[1..(k - 1)], lines[k])
    <2>1. /\ 1..k \in SUBSET (1..n) /\ 1..k # {}
          /\ Max(1..k) = k /\ (1..k) \ {Max(1..k)} = 1..(k - 1)
      BY Prefix
    <2> QED
      BY <1>1, <2>1 DEF TakesUp
  <1> DEFINE P == {k \in 0..n : f[1..k] \in Accs}
  <1>4. 0 \in P
    <2>1. base \in Accs
      BY DEF Accs
    <2> HIDE DEF base
    <2> QED
      BY <1>2, <2>1
  <1>5. ASSUME NEW k \in 0..(n - 1), k \in P PROVE k + 1 \in P
    <2>1. k + 1 \in 1..n /\ (k + 1) - 1 = k
      OBVIOUS
    <2>2. f[1..(k + 1)] = Take(w, up, f[1..k], lines[k + 1])
      BY <1>3, <2>1
    <2> QED
      BY <1>0, <1>5, <2>1, <2>2, TakeType
  <1>6. \A k \in 0..n : f[1..k] \in Accs
    <2>1. \A k \in 0..n : k \in P
      <3> HIDE DEF P
      <3> QED
        BY <1>4, <1>5, CountUp
    <2> QED
      BY <2>1
  <1>7. PICK x : x = [k \in 0..n |-> f[1..k]]
    OBVIOUS
  <1>8. x \in [0..n -> Accs] /\ x[0] = base /\ DecrementStock(w, up) = x[n]
    BY <1>1, <1>2, <1>6, <1>7
  <1>9. \A k \in 1..n : x[k] = Take(w, up, x[k - 1], lines[k])
    <2>1. \A k \in 1..n : x[k] = f[1..k] /\ x[k - 1] = f[1..(k - 1)]
      BY <1>7
    <2> QED
      BY <1>3, <2>1
  <1> QED
    BY <1>8, <1>9

LEMMA IncrementSteps ==
    ASSUME NEW w \in Workers, worker[w].lines \in Lines, NEW up \in BOOLEAN,
           stock \in Stocks, NEW n \in Nat, DOMAIN worker[w].lines = 1..n
    PROVE  \E x \in [0..n -> Stocks] :
                /\ x[0] = stock
                /\ \A k \in 1..n : x[k] = Put(w, up, x[k - 1], worker[w].lines[k])
                /\ IncrementStock(w, up) = x[n]
  <1> DEFINE lines == worker[w].lines
  <1>0. \A k \in 1..n : lines[k] \in LineRows
    BY LinesType
  <1>1. PICK f : PutsUp(f, w, up) /\ IncrementStock(w, up) = f[1..n]
    BY IncrementIs
  <1>2. f[1..0] = stock
    <2>1. 1..0 = {}
      OBVIOUS
    <2> QED
      BY <1>1, <2>1 DEF PutsUp
  <1>3. ASSUME NEW k \in 1..n PROVE f[1..k] = Put(w, up, f[1..(k - 1)], lines[k])
    <2>1. /\ 1..k \in SUBSET (1..n) /\ 1..k # {}
          /\ Max(1..k) = k /\ (1..k) \ {Max(1..k)} = 1..(k - 1)
      BY Prefix
    <2> QED
      BY <1>1, <2>1 DEF PutsUp
  <1> DEFINE P == {k \in 0..n : f[1..k] \in Stocks}
  <1>4. 0 \in P
    BY <1>2
  <1>5. ASSUME NEW k \in 0..(n - 1), k \in P PROVE k + 1 \in P
    <2>1. k + 1 \in 1..n /\ (k + 1) - 1 = k
      OBVIOUS
    <2>2. f[1..(k + 1)] = Put(w, up, f[1..k], lines[k + 1])
      BY <1>3, <2>1
    <2>3. f[1..k] \in Stocks /\ lines[k + 1] \in LineRows
      BY <1>0, <1>5, <2>1
    <2>4. f[1..(k + 1)] \in Stocks
      BY <2>2, <2>3, PutType
    <2> QED
      BY <2>4
  <1>6. \A k \in 0..n : f[1..k] \in Stocks
    <2>1. \A k \in 0..n : k \in P
      <3> HIDE DEF P
      <3> QED
        BY <1>4, <1>5, CountUp
    <2> QED
      BY <2>1
  <1>7. PICK x : x = [k \in 0..n |-> f[1..k]]
    OBVIOUS
  <1>8. x \in [0..n -> Stocks] /\ x[0] = stock /\ IncrementStock(w, up) = x[n]
    BY <1>1, <1>2, <1>6, <1>7
  <1>9. \A k \in 1..n : x[k] = Put(w, up, x[k - 1], lines[k])
    <2>1. \A k \in 1..n : x[k] = f[1..k] /\ x[k - 1] = f[1..(k - 1)]
      BY <1>7
    <2> QED
      BY <1>3, <2>1
  <1> QED
    BY <1>8, <1>9

-----------------------------------------------------------------------------
(* The quantities of a product in the lines.                                *)

Qtys(lines) == [k \in DOMAIN lines |-> lines[k].qty]
LinesOf(p, lines) == {k \in DOMAIN lines : lines[k].product = p}

LEMMA LinesOfType ==
    ASSUME NEW lines \in Lines, NEW p
    PROVE  /\ IsFiniteSet(LinesOf(p, lines)) /\ LinesOf(p, lines) \subseteq DOMAIN lines
           /\ \A k \in DOMAIN lines : Qtys(lines)[k] \in Nat /\ lines[k].qty \in Nat
           /\ \A k \in LinesOf(p, lines) : Qtys(lines)[k] \in Int
           /\ HalvesOf(p, lines) \in Nat
           /\ HalvesOf(p, lines) = Odds(Qtys(lines), LinesOf(p, lines))
  <1>1. PICK n \in Nat : DOMAIN lines = 1..n /\ \A k \in 1..n : lines[k] \in LineRows
    BY LinesType
  <1>2. \A k \in DOMAIN lines : Qtys(lines)[k] \in Nat /\ lines[k].qty \in Nat
    BY <1>1 DEF Qtys, LineRows
  <1>3. IsFiniteSet(DOMAIN lines)
    BY <1>1, FS_Interval
  <1>4. LinesOf(p, lines) \subseteq DOMAIN lines
    BY DEF LinesOf
  <1>5. {k \in DOMAIN lines : lines[k].product = p /\ lines[k].qty % 2 = 1}
            = {k \in LinesOf(p, lines) : Qtys(lines)[k] % 2 = 1}
    BY DEF LinesOf, Qtys
  <1>6. {k \in LinesOf(p, lines) : Qtys(lines)[k] % 2 = 1} \subseteq DOMAIN lines
    BY <1>4
  <1>7. IsFiniteSet(LinesOf(p, lines))
    BY <1>3, <1>4, FS_Subset
  <1>8. HalvesOf(p, lines) \in Nat
    BY <1>3, <1>5, <1>6, FS_Subset, FS_CardinalityType DEF HalvesOf
  <1>9. \A k \in LinesOf(p, lines) : Qtys(lines)[k] \in Int
    BY <1>2, <1>4
  <1> QED
    BY <1>2, <1>4, <1>5, <1>7, <1>8, <1>9 DEF HalvesOf, Odds

LEMMA QtyIs ==
    ASSUME NEW lines \in Lines, NEW p
    PROVE  QtyOf(p, lines) = Sum(Qtys(lines), LinesOf(p, lines))
  <1> DEFINE S == LinesOf(p, lines)
             M == QtyOf(p, lines)
  <1>0. IsFiniteSet(S) /\ \A k \in S : Qtys(lines)[k] \in Int
    BY LinesOfType
  <1>1. PICK f : SumsUp(f, Qtys(lines), S) /\ Sum(Qtys(lines), S) = f[S]
    BY <1>0, SumIs
  <1>2. ASSUME NEW g
        PROVE  SumsUp(g, Qtys(lines), S) <=>
               g = [s \in SUBSET S |->
                        IF s = {} THEN 0
                        ELSE lines[CHOOSE x \in s : TRUE].qty
                                + g[s \ {CHOOSE x \in s : TRUE}]]
    <2>1. ASSUME NEW s \in SUBSET S, s # {}
          PROVE  Qtys(lines)[CHOOSE x \in s : TRUE] = lines[CHOOSE x \in s : TRUE].qty
      <3>1. (CHOOSE x \in s : TRUE) \in s
        BY <2>1
      <3>2. (CHOOSE x \in s : TRUE) \in DOMAIN lines
        BY <3>1 DEF LinesOf
      <3> QED
        BY <3>2 DEF Qtys
    <2> QED
      BY <2>1 DEF SumsUp
  <1>3. \E g : /\ g = [s \in SUBSET S |->
                        IF s = {} THEN 0
                        ELSE lines[CHOOSE x \in s : TRUE].qty
                                + g[s \ {CHOOSE x \in s : TRUE}]]
               /\ M = g[S]
    <2>1. f = [s \in SUBSET S |->
                   IF s = {} THEN 0
                   ELSE lines[CHOOSE x \in s : TRUE].qty
                           + f[s \ {CHOOSE x \in s : TRUE}]]
      BY <1>1, <1>2
    <2>2. \E g : g = [s \in SUBSET S |->
                         IF s = {} THEN 0
                         ELSE lines[CHOOSE x \in s : TRUE].qty
                                 + g[s \ {CHOOSE x \in s : TRUE}]]
      BY <2>1
    <2> QED
      BY <2>2 DEF QtyOf, LinesOf, MapThenSumSet, MapThenFoldSet
  <1> HIDE DEF M, S
  <1>4. PICK g : SumsUp(g, Qtys(lines), S) /\ M = g[S]
    BY <1>2, <1>3
  <1>5. f[S] = g[S]
    BY <1>0, <1>1, <1>4, SumsUpSame
  <1>6. M = Sum(Qtys(lines), S)
    BY <1>1, <1>4, <1>5
  <1> QED
    BY <1>6 DEF M, S

LEMMA QtyOfType == ASSUME NEW lines \in Lines, NEW p PROVE QtyOf(p, lines) \in Int
  <1>1. /\ IsFiniteSet(LinesOf(p, lines))
        /\ \A k \in LinesOf(p, lines) : Qtys(lines)[k] \in Int
    BY LinesOfType
  <1>2. Sum(Qtys(lines), LinesOf(p, lines)) \in Int
    BY <1>1, SumInt
  <1> QED
    BY <1>2, QtyIs

(* The lines that a sale keeps have each half cent rounded up.              *)
LEMMA RecordedQty ==
    ASSUME NEW lines \in Lines, NEW p
    PROVE  QtyOf(p, Recorded(lines)) = QtyOf(p, lines) + HalvesOf(p, lines)
  <1> DEFINE S == LinesOf(p, lines)
             val == Qtys(lines)
             wal == Qtys(Recorded(lines))
             Odd(s) == {k \in s : val[k] % 2 = 1}
             P == {s \in SUBSET S : Sum(wal, s) = Sum(val, s) + Cardinality(Odd(s))}
  <1>1. PICK n \in Nat : DOMAIN lines = 1..n /\ \A k \in 1..n : lines[k] \in LineRows
    BY LinesType
  <1>2. /\ DOMAIN Recorded(lines) = DOMAIN lines
        /\ \A k \in DOMAIN lines : /\ Recorded(lines)[k].product = lines[k].product
                                   /\ Recorded(lines)[k].qty = lines[k].qty + (lines[k].qty % 2)
    <2>1. ASSUME NEW k \in DOMAIN lines
          PROVE  /\ Recorded(lines)[k].product = lines[k].product
                 /\ Recorded(lines)[k].qty = lines[k].qty + (lines[k].qty % 2)
      <3>1. lines[k] \in LineRows
        BY <1>1
      <3>2. Recorded(lines)[k] = [lines[k] EXCEPT !.qty = @ + (@ % 2)]
        BY DEF Recorded
      <3> QED
        BY <3>1, <3>2 DEF LineRows
    <2> QED
      BY <2>1 DEF Recorded
  <1>3. LinesOf(p, Recorded(lines)) = S
    BY <1>2 DEF LinesOf
  <1>4. \A k \in S : val[k] \in Nat /\ wal[k] = val[k] + (val[k] % 2)
    BY <1>2, LinesOfType DEF LinesOf, Qtys
  <1>5. IsFiniteSet(S) /\ Recorded(lines) \in Lines
    BY LinesOfType, RecordedType
  <1> HIDE DEF S, val, wal
  <1>6. ASSUME NEW s \in SUBSET S, \A x \in s : s \ {x} \in P PROVE s \in P
    <2>1. CASE s = {}
      <3>1. Sum(wal, {}) = 0 /\ Sum(val, {}) = 0 /\ Cardinality({}) = 0
        BY SumEmpty, FS_EmptySet
      <3>2. Odd({}) = {}
        OBVIOUS
      <3> QED
        BY <2>1, <3>1, <3>2
    <2>2. CASE s # {}
      <3>1. PICK x \in s : TRUE
        BY <2>2
      <3>2. /\ IsFiniteSet(s) /\ IsFiniteSet(s \ {x})
            /\ \A y \in s : val[y] \in Int /\ wal[y] \in Int
        BY <1>4, <1>5, FS_Subset
      <3>3. Sum(val, s) = val[x] + Sum(val, s \ {x})
        BY <3>1, <3>2, SumWithout
      <3>4. Sum(wal, s) = wal[x] + Sum(wal, s \ {x})
        BY <3>1, <3>2, SumWithout
      <3>5. Sum(val, s \ {x}) \in Int
        BY <3>2, SumInt
      <3>6. Sum(wal, s \ {x}) = Sum(val, s \ {x}) + Cardinality(Odd(s \ {x}))
        BY <1>6, <3>1
      <3>7. val[x] \in Nat /\ wal[x] = val[x] + (val[x] % 2)
        BY <1>4, <3>1
      <3>8. IsFiniteSet(Odd(s \ {x})) /\ Cardinality(Odd(s \ {x})) \in Nat
        <4>1. Odd(s \ {x}) \subseteq s
          OBVIOUS
        <4> QED
          BY <3>2, <4>1, FS_Subset, FS_CardinalityType
      <3>9. Cardinality(Odd(s)) = Cardinality(Odd(s \ {x})) + (val[x] % 2)
        <4>1. CASE val[x] % 2 = 1
          <5>1. Odd(s) = Odd(s \ {x}) \cup {x} /\ x \notin Odd(s \ {x})
            BY <3>1, <4>1
          <5> HIDE DEF Odd
          <5>2. Cardinality(Odd(s)) = Cardinality(Odd(s \ {x})) + 1
            BY <3>8, <5>1, FS_AddElement
          <5> QED
            BY <4>1, <5>2
        <4>2. CASE val[x] % 2 # 1
          <5>1. Odd(s) = Odd(s \ {x}) /\ val[x] % 2 = 0
            BY <3>1, <3>7, <4>2
          <5> HIDE DEF Odd
          <5> QED
            BY <3>8, <5>1
        <4> QED
          BY <4>1, <4>2
      <3> HIDE DEF Odd
      <3>10. Sum(wal, s) = Sum(val, s) + Cardinality(Odd(s))
        BY <3>3, <3>4, <3>5, <3>6, <3>7, <3>8, <3>9
      <3> QED
        BY <3>10
    <2> QED
      BY <2>1, <2>2
  <1>7. \A s \in SUBSET S : s \in P
    <2> HIDE DEF P
    <2> QED
      BY <1>5, <1>6, GrowSubset
  <1>8. Sum(wal, S) = Sum(val, S) + Cardinality(Odd(S))
    BY <1>7
  <1>9. /\ QtyOf(p, lines) = Sum(val, S) /\ QtyOf(p, Recorded(lines)) = Sum(wal, S)
        /\ HalvesOf(p, lines) = Cardinality(Odd(S))
    BY <1>3, <1>5, QtyIs, LinesOfType DEF S, val, wal, Odds
  <1> QED
    BY <1>8, <1>9

-----------------------------------------------------------------------------
(* What a sale or reservation takes, and what a release or cancellation     *)
(* puts back, of each product.                                              *)

LEMMA MovedType ==
    ASSUME NEW w \in Workers, worker[w].lines \in Lines, NEW up \in BOOLEAN, stock \in Stocks
    PROVE  DecrementStock(w, up) \in Accs /\ IncrementStock(w, up) \in Stocks
  <1>1. PICK n \in Nat : DOMAIN worker[w].lines = 1..n
    BY LinesType
  <1>2. n \in 0..n
    OBVIOUS
  <1>3. DecrementStock(w, up) \in Accs
    BY <1>1, <1>2, DecrementSteps
  <1>4. IncrementStock(w, up) \in Stocks
    BY <1>1, <1>2, IncrementSteps
  <1> QED
    BY <1>3, <1>4

LEMMA Taken ==
    ASSUME NEW w \in Workers, worker[w].lines \in Lines, NEW up \in BOOLEAN, stock \in Stocks,
           DecrementStock(w, up).ok, NEW p \in Products
    PROVE  LET lines == worker[w].lines
               now   == DecrementStock(w, up).stock
           IN  /\ p \in digital => now[p] = stock[p]
               /\ p \notin digital =>
                    Within(now[p] - stock[p] + QtyOf(p, lines), HalvesOf(p, lines))
  <1>0. PICK lines \in Lines : lines = worker[w].lines
    OBVIOUS
  <1>1. PICK n \in Nat : DOMAIN lines = 1..n /\ \A k \in 1..n : lines[k] \in LineRows
    BY LinesType
  <1>2. PICK x \in [0..n -> Accs] :
                /\ x[0] = [ok |-> TRUE, stock |-> stock]
                /\ \A k \in 1..n : x[k] = Take(w, up, x[k - 1], lines[k])
                /\ DecrementStock(w, up) = x[n]
    BY <1>0, <1>1, DecrementSteps
  <1>3. \A k \in 0..n : x[k].ok \in BOOLEAN /\ x[k].stock \in Stocks
    BY <1>2 DEF Accs
  <1>4. ASSUME NEW k \in 1..n, ~x[k - 1].ok PROVE ~x[k].ok
    <2>1. k - 1 \in 0..n
      OBVIOUS
    <2>2. x[k] = [x[k - 1] EXCEPT !.ok = FALSE]
      BY <1>2, <1>4 DEF Take
    <2>3. x[k - 1] \in Accs
      BY <1>2, <2>1
    <2> QED
      BY <2>2, <2>3 DEF Accs
  <1>5. \A k \in 0..n : x[k].ok
    <2> DEFINE P == {j \in 0..n : x[n - j].ok}
    <2>1. 0 \in P
      BY <1>2
    <2>2. ASSUME NEW j \in 0..(n - 1), j \in P PROVE j + 1 \in P
      <3>1. n - j \in 1..n /\ n - (j + 1) = (n - j) - 1 /\ j + 1 \in 0..n
        OBVIOUS
      <3> QED
        BY <1>4, <2>2, <3>1
    <2>3. \A j \in 0..n : j \in P
      <3> HIDE DEF P
      <3> QED
        BY <2>1, <2>2, CountUp
    <2>4. ASSUME NEW k \in 0..n PROVE x[k].ok
      <3>1. n - k \in 0..n /\ n - (n - k) = k
        OBVIOUS
      <3> QED
        BY <2>3, <3>1
    <2> QED
      BY <2>4
  <1> DEFINE M == IF p \in digital THEN {} ELSE LinesOf(p, lines)
             take == [k \in 1..n |-> -lines[k].qty]
             y == [k \in 0..n |-> x[k].stock[p]]
  <1>6. M \in SUBSET (1..n)
    BY <1>1 DEF LinesOf
  <1>7. y[0] \in Int /\ y[0] % 2 = 0 /\ y[0] = stock[p] /\ y[n] = DecrementStock(w, up).stock[p]
    BY <1>2 DEF Stocks, EvenNat
  <1>8. \A k \in 1..n : lines[k].qty \in Int /\ take[k] \in Int /\ take[k] = -lines[k].qty
    BY <1>1 DEF LineRows
  <1>9. ASSUME NEW k \in 1..n
        PROVE  y[k] = IF k \in M THEN RoundStock(y[k - 1] + take[k], up) ELSE y[k - 1]
    <2>0. k \in 0..n /\ k - 1 \in 0..n
      OBVIOUS
    <2>1. x[k] = Take(w, up, x[k - 1], lines[k]) /\ x[k].ok /\ x[k - 1].ok /\ x[k - 1] \in Accs
      BY <1>2, <1>5, <2>0
    <2>2. /\ y[k] = x[k].stock[p] /\ y[k - 1] = x[k - 1].stock[p]
          /\ k \in M <=> p \notin digital /\ lines[k].product = p
      BY <1>1 DEF LinesOf
    <2>3. x[k] # [x[k - 1] EXCEPT !.ok = FALSE]
      BY <2>1 DEF Accs
    <2>4. x[k] = IF lines[k].product \in digital THEN x[k - 1]
                 ELSE [x[k - 1] EXCEPT !.stock[lines[k].product]
                                            = RoundStock(@ - lines[k].qty, up)]
      BY <2>1, <2>3 DEF Take
    <2>5. CASE lines[k].product \in digital
      BY <2>2, <2>4, <2>5
    <2>6. CASE lines[k].product \notin digital
      <3>1. x[k].stock = [x[k - 1].stock EXCEPT ![lines[k].product]
                                            = RoundStock(@ - lines[k].qty, up)]
        BY <2>1, <2>4, <2>6 DEF Accs
      <3>2. x[k - 1].stock \in Stocks /\ lines[k].product \in Products
        BY <1>1, <1>3 DEF LineRows
      <3>3. x[k].stock[p] = IF p = lines[k].product
                            THEN RoundStock(x[k - 1].stock[p] - lines[k].qty, up)
                            ELSE x[k - 1].stock[p]
        BY <3>1, <3>2 DEF Stocks
      <3>4. x[k - 1].stock[p] - lines[k].qty = x[k - 1].stock[p] + take[k]
        <4>1. x[k - 1].stock[p] \in Int
          BY <3>2 DEF Stocks, EvenNat
        <4> QED
          BY <1>8, <4>1
      <3> QED
        BY <2>2, <2>6, <3>3, <3>4
    <2> QED
      BY <2>5, <2>6
  <1> HIDE DEF y, take, M
  <1>a. Walks(y, n, take, M, up)
    BY <1>6, <1>7, <1>8, <1>9 DEF Walks
  <1>10. /\ y[n] \in Int /\ Odds(take, M) \in Nat
         /\ Within(y[n] - y[0] - Sum(take, M), Odds(take, M))
    BY <1>a, Walk
  <1>11. CASE p \in digital
    <2>1. M = {} /\ Sum(take, {}) = 0 /\ Cardinality({}) = 0
      BY <1>11, SumEmpty, FS_EmptySet DEF M
    <2>2. Odds(take, M) = 0
      <3>1. {k \in M : take[k] % 2 = 1} = {}
        BY <2>1
      <3> QED
        BY <2>1, <3>1 DEF Odds
    <2>3. y[n] - y[0] - 0 \in -0..0 /\ y[n] \in Int
      BY <1>10, <2>1, <2>2 DEF Within
    <2>4. y[n] = y[0]
      BY <1>7, <2>3
    <2> QED
      BY <1>0, <1>2, <1>3, <1>7, <1>11, <2>4
  <1>12. CASE p \notin digital
    <2>1. M = LinesOf(p, lines)
      BY <1>12 DEF M
    <2>2. \A k \in M : take[k] = -Qtys(lines)[k] /\ Qtys(lines)[k] \in Int
      BY <1>1, <1>6, <1>8 DEF Qtys
    <2>3. Sum(take, M) = -Sum(Qtys(lines), M) /\ Sum(Qtys(lines), M) \in Int
      BY <2>1, <2>2, LinesOfType, SumNegated, SumInt
    <2>4. {k \in M : take[k] % 2 = 1} = {k \in M : Qtys(lines)[k] % 2 = 1}
      BY <2>2
    <2>5. /\ QtyOf(p, lines) = Sum(Qtys(lines), M) /\ HalvesOf(p, lines) \in Nat
          /\ HalvesOf(p, lines) = Odds(take, M)
      BY <2>1, <2>4, QtyIs, LinesOfType DEF Odds
    <2>6. /\ y[n] - y[0] - Sum(take, M) \in -HalvesOf(p, lines)..HalvesOf(p, lines)
          /\ y[n] \in Int
      BY <1>10, <2>5 DEF Within
    <2>7. y[n] - y[0] + QtyOf(p, lines) \in -HalvesOf(p, lines)..HalvesOf(p, lines)
      BY <1>7, <2>3, <2>5, <2>6
    <2> QED
      BY <1>0, <1>2, <1>3, <1>7, <1>12, <2>7 DEF Within
  <1> QED
    BY <1>11, <1>12

LEMMA PutBackIs ==
    ASSUME NEW w \in Workers, worker[w].lines \in Lines, NEW up \in BOOLEAN, stock \in Stocks,
           NEW p \in Products
    PROVE  LET lines == worker[w].lines
               now   == IncrementStock(w, up)
           IN  /\ p \in digital => now[p] = stock[p]
               /\ p \notin digital /\ (p \in ProductsOf(lines) => p \in Held(w)) =>
                    Within(now[p] - stock[p] - QtyOf(p, lines), HalvesOf(p, lines))
  <1>0. PICK lines \in Lines : lines = worker[w].lines
    OBVIOUS
  <1>1. PICK n \in Nat : DOMAIN lines = 1..n /\ \A k \in 1..n : lines[k] \in LineRows
    BY LinesType
  <1>2. PICK x \in [0..n -> Stocks] :
                /\ x[0] = stock
                /\ \A k \in 1..n : x[k] = Put(w, up, x[k - 1], lines[k])
                /\ IncrementStock(w, up) = x[n]
    BY <1>0, <1>1, IncrementSteps
  <1> DEFINE qty == Qtys(lines)
             M == IF p \in digital \/ p \notin Held(w) THEN {} ELSE LinesOf(p, lines)
             y == [k \in 0..n |-> x[k][p]]
  <1>3. M \in SUBSET (1..n)
    BY <1>1 DEF LinesOf
  <1>4. y[0] \in Int /\ y[0] % 2 = 0 /\ y[0] = stock[p] /\ y[n] = IncrementStock(w, up)[p]
    BY <1>2 DEF Stocks, EvenNat
  <1>5. \A k \in 1..n : qty[k] \in Int /\ qty[k] = lines[k].qty
    BY <1>1 DEF LineRows, Qtys
  <1>6. ASSUME NEW k \in 1..n
        PROVE  y[k] = IF k \in M THEN RoundStock(y[k - 1] + qty[k], up) ELSE y[k - 1]
    <2>1. x[k] = Put(w, up, x[k - 1], lines[k]) /\ x[k - 1] \in Stocks
      BY <1>2
    <2>2. /\ y[k] = x[k][p] /\ y[k - 1] = x[k - 1][p]
          /\ k \in M <=> p \notin digital /\ p \in Held(w) /\ lines[k].product = p
      BY <1>1 DEF LinesOf
    <2>3. x[k][p] = IF p = lines[k].product /\ p \in Held(w) /\ p \notin digital
                    THEN RoundStock(x[k - 1][p] + lines[k].qty, up) ELSE x[k - 1][p]
      BY <1>1, <2>1 DEF Put, Stocks, LineRows
    <2> QED
      BY <1>5, <2>2, <2>3
  <1> HIDE DEF y, qty, M
  <1>a. Walks(y, n, qty, M, up)
    BY <1>3, <1>4, <1>5, <1>6 DEF Walks
  <1>7. /\ y[n] \in Int /\ Odds(qty, M) \in Nat
        /\ Within(y[n] - y[0] - Sum(qty, M), Odds(qty, M))
    BY <1>a, Walk
  <1>8. x[n] \in Stocks
    BY <1>2
  <1>9. CASE M = {}
    <2>1. Sum(qty, {}) = 0 /\ Cardinality({}) = 0
      BY SumEmpty, FS_EmptySet
    <2>2. Odds(qty, M) = 0
      <3>1. {k \in M : qty[k] % 2 = 1} = {}
        BY <1>9
      <3> QED
        BY <2>1, <3>1 DEF Odds
    <2>3. y[n] - y[0] - 0 \in -0..0 /\ y[n] \in Int
      BY <1>7, <1>9, <2>1, <2>2 DEF Within
    <2>4. y[n] = y[0]
      BY <1>4, <2>3
    <2>5. ASSUME p \notin digital, p \in ProductsOf(lines) => p \in Held(w)
          PROVE  Within(y[n] - y[0] - QtyOf(p, lines), HalvesOf(p, lines))
      <3>1. LinesOf(p, lines) = {}
        BY <1>9, <2>5 DEF LinesOf, ProductsOf, M
      <3>2. QtyOf(p, lines) = 0 /\ HalvesOf(p, lines) \in Nat
        BY <2>1, <3>1, QtyIs, LinesOfType DEF qty
      <3> QED
        BY <1>4, <2>4, <3>2 DEF Within
    <2> QED
      BY <1>0, <1>2, <1>4, <1>8, <2>4, <2>5
  <1>10. CASE M = LinesOf(p, lines) /\ p \notin digital
    <2>1. /\ QtyOf(p, lines) = Sum(qty, M) /\ HalvesOf(p, lines) \in Nat
          /\ HalvesOf(p, lines) = Odds(qty, M)
      BY <1>10, QtyIs, LinesOfType DEF qty, Odds
    <2> QED
      BY <1>0, <1>2, <1>4, <1>7, <1>8, <1>10, <2>1 DEF Within
  <1> QED
    BY <1>9, <1>10 DEF M

-----------------------------------------------------------------------------
(* The inductive invariant behind the stock: what is counted is a number,   *)
(* and a request that gives goods back works on the invoice it has read,    *)
(* which nobody else closes, and locks each product of it.                  *)

GoodsType ==
    /\ stock \in Stocks /\ digital \subseteq Products /\ live \subseteq Products
    /\ retyped \subseteq Products
    /\ adjusted \in [Products -> Int] /\ halves \in [Products -> Nat]
    /\ edits \in 0..MaxEdits /\ faults \in 0..MaxFaults

Exclusive == \A p \in Products : owner[p] # NoWorker => sharers[p] \subseteq {owner[p]}

RequestOK(w) ==
    /\ worker[w].attempt < maxTxRetries
    /\ worker[w].op \in {"sell", "reserve"} => worker[w].inv \in Invoices
    /\ worker[w].op = "cancel" =>
            /\ worker[w].inv \in Sales
            /\ invoice[worker[w].inv].state \in {"sold", "gone"}
            /\ worker[w].lines = invoice[worker[w].inv].lines
    /\ worker[w].op \in {"release", "prepaid"} =>
            /\ worker[w].inv \in Orders /\ invoice[worker[w].inv].state = "held"
            /\ worker[w].lines = invoice[worker[w].inv].lines
            /\ \A v \in Workers \ {w} : worker[v].inv # worker[w].inv
    /\ worker[w].op \in {"release", "cancel"} =>
            ProductsOf(worker[w].lines) \subseteq worker[w].wants \cup Held(w)

ShelfInv == LockOrder /\ GoodsType /\ Exclusive /\ \A w \in Workers : RequestOK(w)

LEMMA IdleRequest == Idle.op = "none" /\ Idle.attempt = 0 /\ Idle.inv = NoInvoice
  BY DEF Idle

(* A step of w leaves the others what they rely on.                         *)
LEMMA RequestsMove ==
    ASSUME ShelfInv, NEW w \in Workers, NEW s, Becomes(w, s), RequestOK(w)',
           \A v \in Workers \ {w}, p \in Products : owner[p] = v => owner'[p] = v,
           \A i \in Sales : invoice[i].state \in {"sold", "gone"} =>
                /\ invoice'[i].state \in {"sold", "gone"}
                /\ invoice'[i].lines = invoice[i].lines,
           \A v \in Workers \ {w}, i \in Orders :
                worker[v].op \in {"release", "prepaid"} /\ worker[v].inv = i =>
                    invoice'[i] = invoice[i] /\ s.inv # i
    PROVE  \A v \in Workers : RequestOK(v)'
  <1>1. worker'[w] = s /\ \A v \in Workers \ {w} : worker'[v] = worker[v]
    BY DEF ShelfInv, LockOrder, LocksType, Becomes
  <1>2. ASSUME NEW v \in Workers \ {w} PROVE RequestOK(v)'
    <2>1. RequestOK(v) /\ worker'[v] = worker[v]
      BY <1>1 DEF ShelfInv
    <2>2. Held(v) \subseteq Held(v)'
      BY DEF Held
    <2>3. worker[v].op = "cancel" =>
            /\ invoice'[worker[v].inv].state \in {"sold", "gone"}
            /\ worker[v].lines = invoice'[worker[v].inv].lines
      BY <2>1 DEF RequestOK
    <2>4. worker[v].op \in {"release", "prepaid"} =>
            /\ invoice'[worker[v].inv] = invoice[worker[v].inv]
            /\ \A u \in Workers \ {v} : worker'[u].inv # worker[v].inv
      <3> SUFFICES ASSUME worker[v].op \in {"release", "prepaid"}
                   PROVE  /\ invoice'[worker[v].inv] = invoice[worker[v].inv]
                          /\ \A u \in Workers \ {v} : worker'[u].inv # worker[v].inv
        OBVIOUS
      <3>1. PICK i \in Orders : i = worker[v].inv
        BY <2>1 DEF RequestOK
      <3>2. invoice'[i] = invoice[i] /\ s.inv # i
        BY <3>1
      <3>3. \A u \in Workers \ {v} : worker[u].inv # i
        BY <2>1, <3>1 DEF RequestOK
      <3> QED
        BY <1>1, <3>1, <3>2, <3>3
    <2>5. worker[v].op \in {"release", "cancel"} =>
            ProductsOf(worker[v].lines) \subseteq worker[v].wants \cup Held(v)'
      BY <2>1, <2>2 DEF RequestOK
    <2>6. ProductsOf(worker'[v].lines) = ProductsOf(worker[v].lines)
      BY <2>1
    <2> HIDE DEF Held, ProductsOf
    <2> QED
      BY <2>1, <2>3, <2>4, <2>5 DEF RequestOK, ProductsOf
  <1> QED
    BY <1>2

(* A request that ends changes at most its own invoice.                     *)
LEMMA RequestEnds ==
    ASSUME ShelfInv, NEW w \in Workers, Ends(w),
           \A i \in Invoices \ {worker[w].inv} : invoice'[i] = invoice[i],
           worker[w].inv \in Sales /\ invoice[worker[w].inv].state \in {"sold", "gone"} =>
                /\ invoice'[worker[w].inv].state \in {"sold", "gone"}
                /\ invoice'[worker[w].inv].lines = invoice[worker[w].inv].lines
    PROVE  Exclusive' /\ \A v \in Workers : RequestOK(v)'
  <1>1. Becomes(w, Idle) /\ Unlock(w)
    BY DEF Ends
  <1>2. worker'[w] = Idle
    BY <1>1 DEF ShelfInv, LockOrder, LocksType, Becomes
  <1>3. RequestOK(w)'
    BY <1>2, IdleRequest DEF RequestOK, maxTxRetries
  <1>4. \A v \in Workers \ {w}, p \in Products : owner[p] = v => owner'[p] = v
    BY <1>1 DEF Unlock
  <1>5. ASSUME NEW i \in Sales, invoice[i].state \in {"sold", "gone"}
        PROVE  invoice'[i].state \in {"sold", "gone"} /\ invoice'[i].lines = invoice[i].lines
    BY <1>5 DEF Invoices
  <1>6. ASSUME NEW v \in Workers \ {w}, NEW i \in Orders,
               worker[v].op \in {"release", "prepaid"}, worker[v].inv = i
        PROVE  invoice'[i] = invoice[i] /\ Idle.inv # i
    <2>1. worker[w].inv # i
      BY <1>6 DEF ShelfInv, RequestOK
    <2> QED
      BY <2>1, IdleRequest, ShelfAssumption DEF Invoices
  <1>7. Exclusive'
    BY <1>1 DEF Unlock, ShelfInv, Exclusive
  <1>8. PICK s : s = Idle /\ Becomes(w, s)
    BY <1>1
  <1>9. \A v \in Workers : RequestOK(v)'
    BY <1>3, <1>4, <1>5, <1>6, <1>8, RequestsMove
  <1> QED
    BY <1>7, <1>9

(* The types of what the invariant speaks of.                               *)
LEMMA Own ==
    ASSUME ShelfInv, NEW w \in Workers
    PROVE  /\ worker[w] \in Transactions /\ worker[w].lines \in Lines
           /\ worker[w].attempt \in Nat /\ RequestOK(w)
           /\ ProductsOf(worker[w].lines) \subseteq Products
           /\ \A i \in Invoices : invoice[i].lines \in Lines
           /\ \A p \in Products : /\ stock[p] \in EvenNat /\ adjusted[p] \in Int
                                  /\ halves[p] \in Nat
  BY ProductsOfType DEF ShelfInv, LockOrder, LocksType, Transactions, GoodsType, Stocks

LEMMA LockProductsRequests ==
    ASSUME ShelfInv, NEW w \in Workers, LockProductsOrdered(w)
    PROVE  Exclusive' /\ \A v \in Workers : RequestOK(v)'
  <1>0. worker[w] \in Transactions /\ RequestOK(w) /\ worker[w].wants \subseteq Nat
    BY Own, ShelfAssumption DEF Transactions
  <1>1. PICK p : p = Min(worker[w].wants)
    OBVIOUS
  <1>2. PICK s : /\ s = [worker[w] EXCEPT !.wants = @ \ {p}] /\ Becomes(w, s)
                 /\ UNCHANGED <<invoice, sharers>>
                 /\ \/ Scoped(w) /\ UNCHANGED owner
                    \/ IsFree(p, w) /\ owner' = [owner EXCEPT ![p] = w]
    BY <1>1 DEF LockProductsOrdered
  <1>3. /\ s.op = worker[w].op /\ s.inv = worker[w].inv /\ s.lines = worker[w].lines
        /\ s.attempt = worker[w].attempt /\ s.wants = worker[w].wants \ {p}
    BY <1>0, <1>2 DEF Transactions
  <1>4. /\ worker'[w] = s /\ \A v \in Workers \ {w} : worker'[v] = worker[v]
        /\ owner \in [Products -> Workers \cup {NoWorker}]
    BY <1>2 DEF ShelfInv, LockOrder, LocksType, Becomes
  <1>5. ASSUME NEW v \in Workers \ {w}, NEW q \in Products, owner[q] = v PROVE owner'[q] = v
    BY <1>2, <1>4, <1>5, ShelfAssumption DEF IsFree
  <1>6. ASSUME s.op \in {"release", "cancel"}
        PROVE  ProductsOf(s.lines) \subseteq s.wants \cup Held(w)'
    <2>1. owner' = [owner EXCEPT ![p] = w]
      BY <1>2, <1>3, <1>6 DEF Scoped
    <2>2. ProductsOf(worker[w].lines) \subseteq worker[w].wants \cup Held(w)
      BY <1>0, <1>3, <1>6 DEF RequestOK
    <2>3. Held(w) \subseteq Held(w)' /\ (p \in Products => p \in Held(w)')
      BY <1>4, <2>1 DEF Held
    <2>4. ProductsOf(worker[w].lines) \subseteq Products
      BY Own
    <2> QED
      BY <1>3, <2>2, <2>3, <2>4
  <1>7. ProductsOf(worker'[w].lines) = ProductsOf(s.lines)
    BY <1>4
  <1>8. RequestOK(w)'
    <2> HIDE DEF Held, ProductsOf
    <2> QED
      BY <1>0, <1>2, <1>3, <1>4, <1>6, <1>7 DEF RequestOK, ProductsOf
  <1>9. \A i \in Invoices : invoice'[i] = invoice[i]
    BY <1>2
  <1>10. ASSUME NEW v \in Workers \ {w}, NEW i \in Orders,
               worker[v].op \in {"release", "prepaid"}, worker[v].inv = i
         PROVE  invoice'[i] = invoice[i] /\ s.inv # i
    BY <1>2, <1>3, <1>10 DEF ShelfInv, RequestOK
  <1>a. Becomes(w, s)
    BY <1>2
  <1>b. ASSUME NEW i \in Sales, invoice[i].state \in {"sold", "gone"}
        PROVE  invoice'[i].state \in {"sold", "gone"} /\ invoice'[i].lines = invoice[i].lines
    BY <1>9, <1>b DEF Invoices
  <1>11. \A v \in Workers : RequestOK(v)'
    BY <1>a, <1>b, <1>5, <1>8, <1>10, RequestsMove
  <1>12. Exclusive'
    BY <1>2, <1>4 DEF ShelfInv, Exclusive, IsFree
  <1> QED
    BY <1>11, <1>12

LEMMA ShareProductRequests ==
    ASSUME ShelfInv, NEW w \in Workers, ShareProduct(w)
    PROVE  Exclusive' /\ \A v \in Workers : RequestOK(v)'
  <1>0. worker[w] \in Transactions /\ RequestOK(w) /\ worker[w].op = "prepaid"
    BY Own DEF ShareProduct, Sharing
  <1>1. PICK s, p : /\ s = [worker[w] EXCEPT !.shares = Tail(@)] /\ Becomes(w, s)
                    /\ UNCHANGED <<invoice, owner>> /\ IsShareable(p, w)
                    /\ sharers' = [sharers EXCEPT ![p] = @ \cup {w}]
    BY DEF ShareProduct
  <1>2. /\ s.op = "prepaid" /\ s.inv = worker[w].inv /\ s.lines = worker[w].lines
        /\ s.attempt = worker[w].attempt
    BY <1>0, <1>1 DEF Transactions
  <1>3. worker'[w] = s /\ \A v \in Workers \ {w} : worker'[v] = worker[v]
    BY <1>1 DEF ShelfInv, LockOrder, LocksType, Becomes
  <1>4. RequestOK(w)'
    BY <1>0, <1>1, <1>2, <1>3 DEF RequestOK
  <1>5. ASSUME NEW v \in Workers \ {w}, NEW i \in Orders,
               worker[v].op \in {"release", "prepaid"}, worker[v].inv = i
        PROVE  invoice'[i] = invoice[i] /\ s.inv # i
    BY <1>1, <1>2, <1>5 DEF ShelfInv, RequestOK
  <1>6. /\ \A i \in Sales : invoice'[i] = invoice[i]
        /\ \A q \in Products : owner'[q] = owner[q]
    BY <1>1
  <1>7. \A v \in Workers : RequestOK(v)'
    BY <1>1, <1>4, <1>5, <1>6, RequestsMove
  <1>8. Exclusive'
    BY <1>1 DEF ShelfInv, LockOrder, LocksType, Exclusive, IsShareable
  <1> QED
    BY <1>7, <1>8

LEMMA DeadlockRequests ==
    ASSUME ShelfInv, NEW w \in Workers, DeadlockDetected(w)
    PROVE  Exclusive' /\ \A v \in Workers : RequestOK(v)'
  <1>0. /\ worker[w] \in Transactions /\ RequestOK(w) /\ worker[w].attempt \in Nat
        /\ Unlock(w) /\ UNCHANGED invoice
    BY Own DEF DeadlockDetected
  <1>1. CASE Becomes(w, Idle)
    <2>1. Ends(w)
      BY <1>0, <1>1 DEF Ends
    <2>2. \A i \in Invoices : invoice'[i] = invoice[i]
      BY <1>0
    <2> QED
      BY <1>0, <2>1, <2>2, RequestEnds
  <1>2. CASE worker[w].attempt + 1 # maxTxRetries
    <2>1. PICK s : /\ Becomes(w, s)
                   /\ s = [worker[w] EXCEPT
                             !.attempt = @ + 1,
                             !.wants  = IF Sharing(w) THEN {} ELSE ProductsOf(worker[w].lines),
                             !.shares = IF Sharing(w) THEN worker[w].lines ELSE <<>>]
      BY <1>2 DEF DeadlockDetected
    <2>2. /\ s.op = worker[w].op /\ s.inv = worker[w].inv /\ s.lines = worker[w].lines
          /\ s.attempt = worker[w].attempt + 1
          /\ s.op # "prepaid" => s.wants = ProductsOf(worker[w].lines)
      BY <1>0, <2>1 DEF Transactions, Sharing
    <2>3. worker'[w] = s /\ \A v \in Workers \ {w} : worker'[v] = worker[v]
      BY <2>1 DEF ShelfInv, LockOrder, LocksType, Becomes
    <2>4. ProductsOf(worker'[w].lines) = ProductsOf(worker[w].lines)
      BY <2>2, <2>3
    <2>5. s.attempt < maxTxRetries
      BY <1>0, <1>2, <2>2 DEF RequestOK, maxTxRetries
    <2>6. RequestOK(w)'
      BY <1>0, <2>2, <2>3, <2>4, <2>5 DEF RequestOK, ProductsOf
    <2>7. ASSUME NEW v \in Workers \ {w}, NEW i \in Orders,
                 worker[v].op \in {"release", "prepaid"}, worker[v].inv = i
          PROVE  invoice'[i] = invoice[i] /\ s.inv # i
      BY <1>0, <2>2, <2>7 DEF ShelfInv, RequestOK
    <2>8. /\ \A i \in Sales : invoice'[i] = invoice[i]
          /\ \A v \in Workers \ {w}, p \in Products : owner[p] = v => owner'[p] = v
      BY <1>0 DEF Unlock
    <2>a. Becomes(w, s)
      BY <2>1
    <2>b. ASSUME NEW i \in Sales, invoice[i].state \in {"sold", "gone"}
          PROVE  invoice'[i].state \in {"sold", "gone"} /\ invoice'[i].lines = invoice[i].lines
      BY <2>8, <2>b
    <2>9. \A v \in Workers : RequestOK(v)'
      BY <2>a, <2>b, <2>6, <2>7, <2>8, RequestsMove
    <2>10. Exclusive'
      BY <1>0 DEF Unlock, ShelfInv, Exclusive
    <2> QED
      BY <2>9, <2>10
  <1> QED
    BY <1>1, <1>2 DEF DeadlockDetected

(* A request begins: those that close an invoice have read it.              *)
LEMMA StartsRequests ==
    ASSUME ShelfInv, NEW w \in Workers, NEW op \in Ops \ {"none"}, NEW i \in Invoices,
           NEW lines \in Lines, Starts(w, op, i, lines),
           op = "cancel" => i \in Sales /\ invoice[i].state = "sold" /\ lines = invoice[i].lines,
           op \in {"release", "prepaid"} =>
                i \in Orders /\ invoice[i].state = "held" /\ lines = invoice[i].lines /\ ~Busy(i),
           op \in {"sell", "reserve"} => invoice[i].state = "none"
    PROVE  Exclusive' /\ \A v \in Workers : RequestOK(v)'
  <1>1. PICK s : /\ Becomes(w, s)
                 /\ s = [Idle EXCEPT !.op = op, !.inv = i, !.lines = lines,
                            !.wants = IF op = "prepaid" THEN {} ELSE ProductsOf(lines),
                            !.shares = IF op = "prepaid" THEN lines ELSE <<>>]
    BY DEF Starts
  <1>2. /\ s.op = op /\ s.inv = i /\ s.lines = lines /\ s.attempt = 0
        /\ op # "prepaid" => s.wants = ProductsOf(lines)
    BY <1>1 DEF Idle
  <1>3. UNCHANGED <<invoice, owner, sharers>>
    BY DEF Starts, locks
  <1>4. worker'[w] = s /\ \A v \in Workers \ {w} : worker'[v] = worker[v]
    BY <1>1 DEF ShelfInv, LockOrder, LocksType, Becomes
  <1>5. ProductsOf(worker'[w].lines) = ProductsOf(lines)
    BY <1>2, <1>4
  <1>6. op \in {"release", "prepaid"} => \A v \in Workers \ {w} : worker'[v].inv # i
    BY <1>4 DEF Busy
  <1>7. RequestOK(w)'
    BY <1>2, <1>3, <1>4, <1>5, <1>6 DEF RequestOK, ProductsOf, maxTxRetries
  <1>8. ASSUME NEW v \in Workers \ {w}, NEW j \in Orders,
               worker[v].op \in {"release", "prepaid"}, worker[v].inv = j
        PROVE  invoice'[j] = invoice[j] /\ s.inv # j
    <2>1. invoice[j].state = "held" /\ worker[v].inv = j
      BY <1>8 DEF ShelfInv, RequestOK
    <2>2. CASE op \in {"release", "prepaid"}
      BY <1>2, <1>3, <2>1, <2>2 DEF Busy
    <2>3. CASE op = "cancel"
      BY <1>2, <1>3, <2>1, <2>3
    <2>4. CASE op \in {"sell", "reserve"}
      BY <1>2, <1>3, <2>1, <2>4
    <2> QED
      BY <2>2, <2>3, <2>4 DEF Ops
  <1>9. /\ \A j \in Sales : invoice'[j] = invoice[j]
        /\ \A p \in Products : owner'[p] = owner[p]
    BY <1>3
  <1>a. Becomes(w, s)
    BY <1>1
  <1>b. ASSUME NEW j \in Sales, invoice[j].state \in {"sold", "gone"}
        PROVE  invoice'[j].state \in {"sold", "gone"} /\ invoice'[j].lines = invoice[j].lines
    BY <1>9, <1>b
  <1>c. \A v \in Workers \ {w}, p \in Products : owner[p] = v => owner'[p] = v
    BY <1>9
  <1>10. \A v \in Workers : RequestOK(v)'
    BY <1>a, <1>b, <1>c, <1>7, <1>8, RequestsMove
  <1>11. Exclusive'
    BY <1>3 DEF ShelfInv, Exclusive
  <1> QED
    BY <1>10, <1>11

-----------------------------------------------------------------------------
(* The stock and its history, step by step.                                 *)

LEMMA HalvesType ==
    ASSUME GoodsType, NEW lines \in Lines, Moved(lines)
    PROVE  /\ halves' \in [Products -> Nat]
           /\ \A p \in Products : halves'[p] = halves[p] + HalvesOf(p, lines)
  <1>1. \A p \in Products : HalvesOf(p, lines) \in Nat
    BY LinesOfType
  <1> QED
    BY <1>1 DEF GoodsType, Moved

LEMMA DeductStock ==
    ASSUME ShelfInv, NEW w \in Workers, NEW op, NEW state, NEW lines, Deduct(w, op, state, lines)
    PROVE  /\ GoodsType'
           /\ \A p \in digital : stock'[p] = stock[p]
           /\ \A p \in Products \ digital :
                Within(stock'[p] - stock[p] + QtyOf(p, worker[w].lines),
                       HalvesOf(p, worker[w].lines))
  <1>0. worker[w].lines \in Lines /\ stock \in Stocks /\ GoodsType /\ digital \subseteq Products
    BY Own DEF ShelfInv, GoodsType
  <1>1. PICK up \in BOOLEAN :
            DecrementStock(w, up).ok /\ stock' = DecrementStock(w, up).stock
    BY DEF Deduct
  <1>2. DecrementStock(w, up) \in Accs
    BY <1>0, MovedType
  <1>3. stock' \in Stocks
    BY <1>1, <1>2 DEF Accs
  <1>4. halves' \in [Products -> Nat]
    BY <1>0, HalvesType DEF Deduct
  <1>5. UNCHANGED <<digital, live, adjusted, retyped, edits, faults>>
    BY DEF Deduct
  <1>6. GoodsType'
    BY <1>0, <1>3, <1>4, <1>5 DEF GoodsType
  <1>7. \A p \in digital : stock'[p] = stock[p]
    BY <1>0, <1>1, Taken
  <1>8. \A p \in Products \ digital :
                Within(stock'[p] - stock[p] + QtyOf(p, worker[w].lines),
                       HalvesOf(p, worker[w].lines))
    BY <1>0, <1>1, Taken
  <1> QED
    BY <1>6, <1>7, <1>8

LEMMA PutBackStock ==
    ASSUME ShelfInv, NEW w \in Workers, NEW op \in {"release", "cancel"}, PutBack(w, op)
    PROVE  /\ GoodsType'
           /\ \A p \in digital : stock'[p] = stock[p]
           /\ \A p \in Products \ digital :
                Within(stock'[p] - stock[p] - QtyOf(p, worker[w].lines),
                       HalvesOf(p, worker[w].lines))
  <1>0. worker[w].lines \in Lines /\ stock \in Stocks /\ GoodsType /\ digital \subseteq Products
    BY Own DEF ShelfInv, GoodsType
  <1>1. PICK up \in BOOLEAN : stock' = IncrementStock(w, up)
    BY DEF PutBack
  <1>2. stock' \in Stocks
    BY <1>0, <1>1, MovedType
  <1>3. halves' \in [Products -> Nat]
    BY <1>0, HalvesType DEF PutBack
  <1>4. UNCHANGED <<digital, live, adjusted, retyped, edits, faults>>
    BY DEF PutBack
  <1>5. GoodsType'
    BY <1>0, <1>2, <1>3, <1>4 DEF GoodsType
  <1>6. \A p \in digital : stock'[p] = stock[p]
    BY <1>0, <1>1, PutBackIs
  <1>7. ProductsOf(worker[w].lines) \subseteq Held(w)
    BY Own DEF PutBack, Ready, RequestOK
  <1>8. \A p \in Products \ digital :
                Within(stock'[p] - stock[p] - QtyOf(p, worker[w].lines),
                       HalvesOf(p, worker[w].lines))
    BY <1>0, <1>1, <1>7, PutBackIs
  <1> QED
    BY <1>5, <1>6, <1>8

(* A correction; one by 0 finds whole cents and leaves them.                *)
LEMMA CorrectionStock ==
    ASSUME ShelfInv, NEW p \in Products, NEW delta \in Deltas, UpdateStockWithLock(p, delta)
    PROVE  /\ GoodsType' /\ delta \in Int /\ delta % 2 \in {0, 1}
           /\ \A q \in Products \ {p} : stock'[q] = stock[q] /\ adjusted'[q] = adjusted[q]
                                        /\ halves'[q] = halves[q]
           /\ adjusted'[p] = adjusted[p] + delta /\ halves'[p] = halves[p] + (delta % 2)
           /\ Within(stock'[p] - stock[p] - delta, delta % 2)
  <1>0. /\ GoodsType /\ stock[p] \in EvenNat /\ delta \in Int /\ delta % 2 \in {0, 1}
        /\ adjusted[p] \in Int /\ halves[p] \in Nat
    BY ShelfAssumption DEF ShelfInv, GoodsType, Stocks
  <1>1. PICK up \in BOOLEAN : /\ RoundStock(stock[p] + delta, up) >= 0
                              /\ stock' = [stock EXCEPT ![p] = RoundStock(@ + delta, up)]
    BY DEF UpdateStockWithLock
  <1>2. PICK v \in Int : v = stock[p] + delta
    BY <1>0 DEF EvenNat
  <1>3. /\ RoundStock(v, up) \in EvenNat /\ RoundStock(v, up) - v \in -1..1
        /\ v % 2 = 0 => RoundStock(v, up) = v
    BY <1>1, <1>2, Rounded DEF EvenNat
  <1>4. stock' = [stock EXCEPT ![p] = RoundStock(v, up)]
    BY <1>1, <1>2
  <1>5. /\ adjusted' = [adjusted EXCEPT ![p] = @ + delta]
        /\ halves' = [halves EXCEPT ![p] = @ + (delta % 2)]
        /\ edits < MaxEdits /\ edits' = edits + 1
        /\ UNCHANGED <<digital, live, retyped, faults>>
    BY DEF UpdateStockWithLock, Edit
  <1>6. edits' \in 0..MaxEdits
    BY <1>0, <1>5, ShelfAssumption DEF GoodsType
  <1>7. stock' \in Stocks
    BY <1>0, <1>3, <1>4 DEF GoodsType, Stocks
  <1>8. adjusted' \in [Products -> Int] /\ halves' \in [Products -> Nat]
    BY <1>0, <1>5 DEF GoodsType
  <1>9. GoodsType'
    BY <1>0, <1>5, <1>6, <1>7, <1>8 DEF GoodsType
  <1>10. stock'[p] = RoundStock(v, up)
    BY <1>0, <1>4 DEF GoodsType, Stocks
  <1>11. Within(stock'[p] - stock[p] - delta, delta % 2)
    <2>1. stock[p] \in Int /\ stock[p] % 2 = 0
      BY <1>0 DEF EvenNat
    <2>2. delta % 2 = 0 => v % 2 = 0
      BY <1>0, <1>2, <2>1
    <2> QED
      BY <1>0, <1>2, <1>3, <1>10, <2>1, <2>2 DEF Within, EvenNat
  <1> QED
    BY <1>0, <1>4, <1>5, <1>9, <1>11 DEF GoodsType, Stocks

(* The other steps on goods.                                                *)
LEMMA OtherGoods ==
    ASSUME ShelfInv, [Next]_vars,
           \A w \in Workers : /\ ~CommitSale(w) /\ ~CommitReservation(w) /\ ~CommitPrepaid(w)
                              /\ ~PutBack(w, "release") /\ ~PutBack(w, "cancel"),
           \A p \in Products, delta \in Deltas : ~UpdateStockWithLock(p, delta)
    PROVE  GoodsType' /\ UNCHANGED <<stock, adjusted, halves>>
  <1>0. GoodsType
    BY DEF ShelfInv
  <1>1. ASSUME UNCHANGED <<stock, digital, live, history, edits, faults>>
        PROVE  GoodsType' /\ UNCHANGED <<stock, adjusted, halves>>
    BY <1>0, <1>1 DEF GoodsType, history
  <1>2. ASSUME NEW w \in Workers, Step(w)
        PROVE  UNCHANGED <<stock, digital, live, history, edits, faults>>
    BY <1>2 DEF Step, LockProductsOrdered, ShareProduct, Refused, AlreadyGone, Rollback,
       DeadlockDetected
  <1>3. ASSUME NEW w \in Workers, Abort(w)
        PROVE  GoodsType' /\ UNCHANGED <<stock, adjusted, halves>>
    <2>1. /\ UNCHANGED <<stock, digital, live, history, edits>>
          /\ faults' = faults + 1 /\ faults < MaxFaults
      BY <1>3 DEF Abort
    <2> QED
      BY <1>0, <2>1, ShelfAssumption DEF GoodsType, history
  <1>4. ASSUME NEW w \in Workers, NEW op, NEW i, NEW lines, Starts(w, op, i, lines)
        PROVE  UNCHANGED <<stock, digital, live, history, edits, faults>>
    BY <1>4 DEF Starts
  <1>5. ASSUME NEW p \in Products, UpdateProductWithLock(p) \/ DeleteProduct(p)
        PROVE  GoodsType' /\ UNCHANGED <<stock, adjusted, halves>>
    <2>1. edits' \in 0..MaxEdits /\ UNCHANGED <<stock, adjusted, halves, faults>>
      BY <1>0, <1>5, ShelfAssumption
         DEF GoodsType, UpdateProductWithLock, DeleteProduct, Edit, history
    <2>2. digital' \subseteq Products /\ live' \subseteq Products /\ retyped' \subseteq Products
      BY <1>0, <1>5 DEF GoodsType, UpdateProductWithLock, DeleteProduct, history
    <2> QED
      BY <1>0, <2>1, <2>2 DEF GoodsType
  <1>6. CASE UNCHANGED vars
    BY <1>1, <1>6 DEF vars, history
  <1> QED
    BY <1>1, <1>2, <1>3, <1>4, <1>5, <1>6
       DEF Next, DeleteTransaction, Sell, UpdateWithLock, AddPrepaidTransaction,
           CreateWithReservation

LEMMA PrepaidGoods ==
    ASSUME ShelfInv, NEW w \in Workers, CommitPrepaid(w)
    PROVE  /\ GoodsType' /\ worker[w].inv \in Orders /\ invoice[worker[w].inv].state = "held"
           /\ UNCHANGED <<stock, digital, adjusted, retyped>>
           /\ invoice[worker[w].inv].lines \in Lines
           /\ \A p \in Products :
                halves'[p] = halves[p] + HalvesOf(p, invoice[worker[w].inv].lines)
  <1>1. RequestOK(w) /\ worker[w].op = "prepaid"
    BY Own DEF CommitPrepaid, Ready
  <1>2. worker[w].inv \in Orders /\ invoice[worker[w].inv].state = "held"
    BY <1>1 DEF RequestOK
  <1>3. invoice[worker[w].inv].lines \in Lines /\ GoodsType
    BY <1>2, Own DEF Invoices, ShelfInv
  <1>4. /\ Moved(invoice[worker[w].inv].lines)
        /\ UNCHANGED <<stock, digital, live, adjusted, retyped, edits, faults>>
    BY DEF CommitPrepaid
  <1>5. /\ halves' \in [Products -> Nat]
        /\ \A p \in Products :
                halves'[p] = halves[p] + HalvesOf(p, invoice[worker[w].inv].lines)
    BY <1>3, <1>4, HalvesType
  <1> QED
    BY <1>2, <1>3, <1>4, <1>5 DEF GoodsType

LEMMA GoodsKept == ASSUME ShelfInv, [Next]_vars PROVE GoodsType'
  <1>1. ASSUME NEW w \in Workers, CommitSale(w) PROVE GoodsType'
    BY <1>1, DeductStock DEF CommitSale
  <1>2. ASSUME NEW w \in Workers, CommitReservation(w) PROVE GoodsType'
    BY <1>2, DeductStock DEF CommitReservation
  <1>3. ASSUME NEW w \in Workers, PutBack(w, "release") \/ PutBack(w, "cancel") PROVE GoodsType'
    BY <1>3, PutBackStock
  <1> QED
    BY <1>1, <1>2, <1>3, PrepaidGoods, CorrectionStock, OtherGoods

LEMMA InvoiceEnds ==
    ASSUME ShelfInv, NEW w \in Workers, Ends(w), NEW r,
           invoice' = [invoice EXCEPT ![worker[w].inv] = r],
           worker[w].inv \in Sales /\ invoice[worker[w].inv].state \in {"sold", "gone"} =>
                r.state = "gone" /\ r.lines = invoice[worker[w].inv].lines
    PROVE  Exclusive' /\ \A v \in Workers : RequestOK(v)'
  <1>1. /\ \A i \in Invoices \ {worker[w].inv} : invoice'[i] = invoice[i]
        /\ worker[w].inv \in Invoices => invoice'[worker[w].inv] = r
    BY DEF ShelfInv, LockOrder, LocksType
  <1> QED
    BY <1>1, RequestEnds DEF Invoices

LEMMA RequestsKept ==
    ASSUME ShelfInv, [Next]_vars
    PROVE  Exclusive' /\ \A v \in Workers : RequestOK(v)'
  <1> DEFINE Goal == Exclusive' /\ \A v \in Workers : RequestOK(v)'
  <1>0. /\ \A i \in Invoices : invoice[i].lines \in Lines
        /\ \A cart \in Carts : cart \in Lines
    BY ShelfAssumption DEF ShelfInv, LockOrder, LocksType, Lines, LineRows
  <1>1. ASSUME NEW w \in Workers, NEW op, NEW state, NEW lines, Deduct(w, op, state, lines)
        PROVE  Goal
    <2>1. /\ invoice' = [invoice EXCEPT ![worker[w].inv] = [state |-> state, lines |-> lines]]
          /\ invoice[worker[w].inv].state = "none" /\ Ends(w)
      BY <1>1 DEF Deduct
    <2> QED
      BY <2>1, InvoiceEnds
  <1>2. ASSUME NEW w \in Workers, NEW op, PutBack(w, op) PROVE Goal
    <2>1. /\ invoice' = [invoice EXCEPT ![worker[w].inv].state = "gone"] /\ Ends(w)
          /\ \A i \in Invoices : invoice[i] \in [state : {"none", "held", "sold", "gone"},
                                                 lines : Lines]
          /\ invoice \in [Invoices -> [state : {"none", "held", "sold", "gone"}, lines : Lines]]
      BY <1>2 DEF PutBack, ShelfInv, LockOrder, LocksType
    <2>2. PICK r : r = [invoice[worker[w].inv] EXCEPT !.state = "gone"]
      OBVIOUS
    <2>3. invoice' = [invoice EXCEPT ![worker[w].inv] = r]
      BY <2>1, <2>2
    <2>4. worker[w].inv \in Sales => r.state = "gone" /\ r.lines = invoice[worker[w].inv].lines
      BY <2>1, <2>2 DEF Invoices
    <2> QED
      BY <2>1, <2>3, <2>4, InvoiceEnds
  <1>3. ASSUME NEW w \in Workers, CommitPrepaid(w) PROVE Goal
    <2>1. worker[w].inv \in Orders /\ worker[w].inv \notin Sales
      BY <1>3, PrepaidGoods, ShelfAssumption
    <2>2. PICK r : r = [state |-> "sold", lines |-> Recorded(invoice[worker[w].inv].lines)]
      OBVIOUS
    <2>3. invoice' = [invoice EXCEPT ![worker[w].inv] = r] /\ Ends(w)
      BY <1>3, <2>2 DEF CommitPrepaid
    <2> QED
      BY <2>1, <2>3, InvoiceEnds
  <1>4. ASSUME NEW w \in Workers, Ends(w), UNCHANGED invoice PROVE Goal
    <2>1. \A i \in Invoices : invoice'[i] = invoice[i]
      BY <1>4
    <2>2. worker[w].inv \in Sales => invoice'[worker[w].inv] = invoice[worker[w].inv]
      BY <1>4
    <2>3. \A i \in Invoices \ {worker[w].inv} : invoice'[i] = invoice[i]
      BY <2>1
    <2> QED
      BY <1>4, <2>2, <2>3, RequestEnds
  <1>5. ASSUME NEW w \in Workers, NEW s \in Sales,
               DeleteTransaction(w, s) \/ \E cart \in Carts : Sell(w, s, cart)
        PROVE  Goal
    <2>1. s \in Invoices
      BY DEF Invoices
    <2>2. CASE DeleteTransaction(w, s)
      BY <1>0, <2>1, <2>2, StartsRequests DEF DeleteTransaction, Ops
    <2>3. ASSUME NEW cart \in Carts, Sell(w, s, cart) PROVE Goal
      BY <1>0, <2>1, <2>3, StartsRequests DEF Sell, Ops
    <2> QED
      BY <1>5, <2>2, <2>3
  <1>6. ASSUME NEW w \in Workers, NEW o \in Orders,
               \/ UpdateWithLock(w, o) \/ AddPrepaidTransaction(w, o)
               \/ \E cart \in Carts : CreateWithReservation(w, o, cart)
        PROVE  Goal
    <2>1. o \in Invoices
      BY DEF Invoices
    <2>2. CASE UpdateWithLock(w, o)
      BY <1>0, <2>1, <2>2, StartsRequests DEF UpdateWithLock, Ops
    <2>3. CASE AddPrepaidTransaction(w, o)
      BY <1>0, <2>1, <2>3, StartsRequests DEF AddPrepaidTransaction, Ops
    <2>4. ASSUME NEW cart \in Carts, CreateWithReservation(w, o, cart) PROVE Goal
      BY <1>0, <2>1, <2>4, StartsRequests DEF CreateWithReservation, Ops
    <2> QED
      BY <1>6, <2>2, <2>3, <2>4
  <1>7. ASSUME UNCHANGED <<invoice, owner, sharers, worker>> PROVE Goal
    BY <1>7 DEF ShelfInv, Exclusive, RequestOK, Held, ProductsOf
  <1>8. ASSUME NEW w \in Workers, Step(w) PROVE Goal
    BY <1>1, <1>2, <1>3, <1>4, <1>8, LockProductsRequests, ShareProductRequests, DeadlockRequests
       DEF Step, CommitSale, CommitReservation, Refused, AlreadyGone, Rollback
  <1>9. ASSUME NEW w \in Workers, Abort(w) PROVE Goal
    BY <1>4, <1>9 DEF Abort
  <1> QED
    BY <1>5, <1>6, <1>7, <1>8, <1>9
       DEF Next, vars, locks, UpdateStockWithLock, UpdateProductWithLock, DeleteProduct

LEMMA InitShelfInv == Init => ShelfInv
  <1> SUFFICES ASSUME Init PROVE ShelfInv
    OBVIOUS
  <1>1. GoodsType
    BY ShelfAssumption DEF Init, GoodsType, Stocks, EvenNat
  <1>2. Exclusive
    BY DEF Init, Exclusive
  <1>3. \A w \in Workers : RequestOK(w)
    BY IdleRequest DEF Init, RequestOK, maxTxRetries
  <1> QED
    BY <1>1, <1>2, <1>3, InitLockOrder DEF ShelfInv

LEMMA StepShelfInv == ShelfInv /\ [Next]_vars => ShelfInv'
  BY StepLockOrder, GoodsKept, RequestsKept DEF ShelfInv

LEMMA ShelfInvAlways == Spec => []ShelfInv
  BY InitShelfInv, StepShelfInv, PTL DEF Spec

(* No stock is ever negative or broken into fractions of a cent, and no row *)
(* is locked by two transactions that exclude each other, for any products, *)
(* carts, corrections and faults.                                           *)
THEOREM TypeCorrect == Spec => []TypeOK
  <1>1. ASSUME ShelfInv PROVE TypeOK
    BY <1>1 DEF ShelfInv, LockOrder, LocksType, GoodsType, Stocks, EvenNat, Exclusive, RequestOK,
       Transactions, TypeOK
  <1> QED
    BY <1>1, ShelfInvAlways, PTL

(* No sale, cancellation or reservation changes what was typed in as the    *)
(* stock of a digital product, whatever products share its cart.            *)
THEOREM DigitalUntouchedHolds == Spec => DigitalUntouched
  <1> DEFINE Untouched == \A p \in digital : stock'[p] # stock[p] => adjusted'[p] # adjusted[p]
  <1>1. ASSUME ShelfInv, [Next]_vars PROVE Untouched
    <2>1. ASSUME NEW w \in Workers, CommitSale(w) PROVE Untouched
      BY <1>1, <2>1, DeductStock DEF CommitSale
    <2>2. ASSUME NEW w \in Workers, CommitReservation(w) PROVE Untouched
      BY <1>1, <2>2, DeductStock DEF CommitReservation
    <2>3. ASSUME NEW w \in Workers, PutBack(w, "release") \/ PutBack(w, "cancel")
          PROVE  Untouched
      BY <1>1, <2>3, PutBackStock
    <2>4. ASSUME NEW w \in Workers, CommitPrepaid(w) PROVE Untouched
      BY <2>4 DEF CommitPrepaid
    <2>5. ASSUME NEW p \in Products, NEW delta \in Deltas, UpdateStockWithLock(p, delta)
          PROVE  Untouched
      <3>1. digital \subseteq Products
        BY <1>1 DEF ShelfInv, GoodsType
      <3>2. /\ delta \in Int /\ adjusted'[p] = adjusted[p] + delta
            /\ Within(stock'[p] - stock[p] - delta, delta % 2)
            /\ \A q \in Products \ {p} : stock'[q] = stock[q]
        BY <1>1, <2>5, CorrectionStock
      <3>3. stock[p] \in Int /\ adjusted[p] \in Int /\ stock'[p] \in Int
        BY <1>1, GoodsKept DEF ShelfInv, GoodsType, Stocks, EvenNat
      <3>4. stock'[p] # stock[p] => adjusted'[p] # adjusted[p]
        <4> SUFFICES ASSUME delta = 0 PROVE stock'[p] = stock[p]
          BY <3>2, <3>3
        <4>1. stock'[p] - stock[p] - 0 \in -0..0
          BY <3>2 DEF Within
        <4> QED
          BY <3>3, <4>1
      <3> QED
        BY <3>1, <3>2, <3>4
    <2>6. ASSUME UNCHANGED stock PROVE Untouched
      BY <2>6
    <2> QED
      BY <1>1, <2>1, <2>2, <2>3, <2>4, <2>5, <2>6, OtherGoods
  <1> QED
    BY <1>1, ShelfInvAlways, PTL DEF Spec, DigitalUntouched

-----------------------------------------------------------------------------
(* The goods that are out.                                                  *)

InvoiceRows == [Invoices -> [state : {"none", "held", "sold", "gone"}, lines : Lines]]

Standing(inv) == {i \in Invoices : inv[i].state \in {"held", "sold"}}
Out(p, inv) == [i \in Invoices |-> QtyOf(p, inv[i].lines)]
GoodsOut(p, inv) == Sum(Out(p, inv), Standing(inv))

Balance(p) ==
    stock[p] + (IF p \in digital THEN 0 ELSE GoodsOut(p, invoice)) - adjusted[p] - InitialStock

Balanced ==
    /\ IsFiniteSet(Standing(invoice))
    /\ \A p \in Products \ retyped : Within(Balance(p), 2 * halves[p])

LEMMA OutType ==
    ASSUME NEW inv \in InvoiceRows, NEW p
    PROVE  /\ \A i \in Standing(inv) : Out(p, inv)[i] \in Int
           /\ \A i \in Invoices : Out(p, inv)[i] = QtyOf(p, inv[i].lines)
           /\ IsFiniteSet(Standing(inv)) => GoodsOut(p, inv) \in Int
  <1>1. ASSUME NEW i \in Standing(inv) PROVE Out(p, inv)[i] \in Int
    <2>1. i \in Invoices /\ inv[i].lines \in Lines
      BY DEF Standing, InvoiceRows
    <2> QED
      BY <2>1, QtyOfType DEF Out
  <1>2. ASSUME IsFiniteSet(Standing(inv)) PROVE GoodsOut(p, inv) \in Int
    BY <1>1, <1>2, SumInt DEF GoodsOut
  <1>3. \A i \in Invoices : Out(p, inv)[i] = QtyOf(p, inv[i].lines)
    BY DEF Out
  <1> QED
    BY <1>1, <1>2, <1>3

LEMMA OutstandingIs ==
    ASSUME invoice \in InvoiceRows, IsFiniteSet(Standing(invoice)), NEW p
    PROVE  Outstanding(p) = GoodsOut(p, invoice)
  <1> DEFINE M == Outstanding(p)
             S == Standing(invoice)
             val == Out(p, invoice)
  <1>0. \A i \in S : val[i] \in Int
    BY OutType
  <1>1. PICK f : SumsUp(f, val, S) /\ Sum(val, S) = f[S]
    BY <1>0, SumIs
  <1>2. ASSUME NEW g
        PROVE  SumsUp(g, val, S) <=>
               g = [s \in SUBSET S |->
                        IF s = {} THEN 0
                        ELSE QtyOf(p, invoice[CHOOSE x \in s : TRUE].lines)
                                + g[s \ {CHOOSE x \in s : TRUE}]]
    <2>1. ASSUME NEW s \in SUBSET S, s # {}
          PROVE  val[CHOOSE x \in s : TRUE] = QtyOf(p, invoice[CHOOSE x \in s : TRUE].lines)
      <3>1. (CHOOSE x \in s : TRUE) \in s
        BY <2>1
      <3>2. (CHOOSE x \in s : TRUE) \in Invoices
        BY <3>1 DEF Standing
      <3> QED
        BY <3>2, OutType
    <2> QED
      BY <2>1 DEF SumsUp
  <1>3. \E g : /\ g = [s \in SUBSET S |->
                        IF s = {} THEN 0
                        ELSE QtyOf(p, invoice[CHOOSE x \in s : TRUE].lines)
                                + g[s \ {CHOOSE x \in s : TRUE}]]
               /\ M = g[S]
    <2>1. f = [s \in SUBSET S |->
                   IF s = {} THEN 0
                   ELSE QtyOf(p, invoice[CHOOSE x \in s : TRUE].lines)
                           + f[s \ {CHOOSE x \in s : TRUE}]]
      BY <1>1, <1>2
    <2>2. \E g : g = [s \in SUBSET S |->
                         IF s = {} THEN 0
                         ELSE QtyOf(p, invoice[CHOOSE x \in s : TRUE].lines)
                                 + g[s \ {CHOOSE x \in s : TRUE}]]
      BY <2>1
    <2> QED
      BY <2>2 DEF Outstanding, Standing, MapThenSumSet, MapThenFoldSet
  <1> HIDE DEF M, S, val
  <1>4. PICK g : SumsUp(g, val, S) /\ M = g[S]
    BY <1>2, <1>3
  <1>5. f[S] = g[S]
    <2>1. IsFiniteSet(S)
      BY DEF S
    <2> QED
      BY <1>0, <1>1, <1>4, <2>1, SumsUpSame
  <1>6. M = Sum(val, S)
    BY <1>1, <1>4, <1>5
  <1> QED
    BY <1>6 DEF M, S, val, GoodsOut

(* One invoice comes, is rewritten, or goes.                                *)
QtyOut(p, inv, i) == IF i \in Standing(inv) THEN QtyOf(p, inv[i].lines) ELSE 0

LEMMA OneOut ==
    ASSUME NEW inv \in InvoiceRows, IsFiniteSet(Standing(inv)), NEW p, NEW i \in Invoices
    PROVE  /\ GoodsOut(p, inv) = QtyOut(p, inv, i) + Sum(Out(p, inv), Standing(inv) \ {i})
           /\ Sum(Out(p, inv), Standing(inv) \ {i}) \in Int
           /\ IsFiniteSet(Standing(inv) \ {i})
           /\ \A j \in Standing(inv) \ {i} : Out(p, inv)[j] \in Int
  <1>1. /\ \A j \in Standing(inv) : Out(p, inv)[j] \in Int
        /\ Out(p, inv)[i] = QtyOf(p, inv[i].lines)
    BY OutType
  <1>2. IsFiniteSet(Standing(inv) \ {i})
    BY FS_Subset
  <1>3. Sum(Out(p, inv), Standing(inv) \ {i}) \in Int
    BY <1>1, <1>2, SumInt
  <1>4. CASE i \in Standing(inv)
    <2>1. Sum(Out(p, inv), Standing(inv))
            = Out(p, inv)[i] + Sum(Out(p, inv), Standing(inv) \ {i})
      BY <1>1, <1>4, SumWithout
    <2> QED
      BY <1>1, <1>2, <1>3, <1>4, <2>1 DEF GoodsOut, QtyOut
  <1>5. CASE i \notin Standing(inv)
    <2>1. Standing(inv) \ {i} = Standing(inv)
      BY <1>5
    <2>2. GoodsOut(p, inv) = Sum(Out(p, inv), Standing(inv) \ {i})
      BY <2>1 DEF GoodsOut
    <2>3. QtyOut(p, inv, i) = 0
      BY <1>5 DEF QtyOut
    <2> QED
      BY <1>1, <1>2, <1>3, <2>2, <2>3
  <1> QED
    BY <1>4, <1>5

LEMMA OneInvoice ==
    ASSUME NEW inv \in InvoiceRows, NEW now \in InvoiceRows, IsFiniteSet(Standing(inv)),
           NEW i \in Invoices, \A j \in Invoices \ {i} : now[j] = inv[j]
    PROVE  /\ IsFiniteSet(Standing(now))
           /\ \A p : /\ GoodsOut(p, inv) \in Int /\ GoodsOut(p, now) \in Int
                     /\ GoodsOut(p, now) - QtyOut(p, now, i)
                            = GoodsOut(p, inv) - QtyOut(p, inv, i)
  <1>1. Standing(now) \ {i} = Standing(inv) \ {i}
    BY DEF Standing
  <1>2. IsFiniteSet(Standing(now))
    <2>1. Standing(now) \subseteq (Standing(inv) \ {i}) \cup {i}
      BY <1>1
    <2>2. IsFiniteSet((Standing(inv) \ {i}) \cup {i})
      BY FS_Subset, FS_AddElement
    <2> QED
      BY <2>1, <2>2, FS_Subset
  <1>3. ASSUME NEW p
        PROVE  /\ GoodsOut(p, inv) \in Int /\ GoodsOut(p, now) \in Int
               /\ GoodsOut(p, now) - QtyOut(p, now, i) = GoodsOut(p, inv) - QtyOut(p, inv, i)
    <2> DEFINE rest == Sum(Out(p, inv), Standing(inv) \ {i})
    <2>1. /\ GoodsOut(p, inv) = QtyOut(p, inv, i) + rest /\ rest \in Int
          /\ IsFiniteSet(Standing(inv) \ {i})
          /\ \A j \in Standing(inv) \ {i} : Out(p, inv)[j] \in Int
      BY OneOut
    <2>2. GoodsOut(p, now) = QtyOut(p, now, i) + Sum(Out(p, now), Standing(now) \ {i})
      BY <1>2, OneOut
    <2>3. ASSUME NEW j \in Standing(inv) \ {i} PROVE Out(p, now)[j] = Out(p, inv)[j]
      <3>1. j \in Invoices \ {i} /\ now[j] = inv[j]
        BY DEF Standing
      <3>2. Out(p, now)[j] = QtyOf(p, now[j].lines) /\ Out(p, inv)[j] = QtyOf(p, inv[j].lines)
        BY <3>1, OutType
      <3> QED
        BY <3>1, <3>2
    <2>4. Sum(Out(p, now), Standing(inv) \ {i}) = rest
      BY <2>1, <2>3, SumSame
    <2>5. GoodsOut(p, now) = QtyOut(p, now, i) + rest
      BY <1>1, <2>2, <2>4
    <2>6. /\ QtyOut(p, inv, i) \in Int /\ QtyOut(p, now, i) \in Int
      BY QtyOfType DEF QtyOut, InvoiceRows
    <2> HIDE DEF rest
    <2> QED
      BY <2>1, <2>5, <2>6
  <1> QED
    BY <1>2, <1>3

-----------------------------------------------------------------------------
(* Each step drifts by at most the half cents that it rounds.               *)

LEMMA Drifts ==
    ASSUME NEW a \in Int, NEW b \in Int, NEW h \in Nat, NEW d \in Nat,
           Within(a, 2 * h), Within(b - a, 2 * d)
    PROVE  Within(b, 2 * (h + d))
  BY DEF Within

LEMMA Difference ==
    ASSUME NEW a \in Int, NEW b \in Int, NEW c \in Int, NEW n \in Int,
           NEW s \in Int, NEW t \in Int, NEW g \in Int, NEW h \in Int,
           NEW d, NEW e, d = s + g - a - n, e = t + h - b - n
    PROVE  e - d = t - s + (h - g) - (b - a)
  OBVIOUS

LEMMA BalanceType ==
    ASSUME ShelfInv, IsFiniteSet(Standing(invoice))
    PROVE  /\ invoice \in InvoiceRows
           /\ \A p \in Products : /\ Balance(p) \in Int /\ halves[p] \in Nat
                                  /\ stock[p] \in Int /\ adjusted[p] \in Int
                                  /\ GoodsOut(p, invoice) \in Int
  <1>1. invoice \in InvoiceRows
    BY DEF ShelfInv, LockOrder, LocksType, InvoiceRows
  <1>2. ASSUME NEW p \in Products
        PROVE  /\ Balance(p) \in Int /\ halves[p] \in Nat
               /\ stock[p] \in Int /\ adjusted[p] \in Int
               /\ GoodsOut(p, invoice) \in Int
    <2>1. /\ stock[p] \in Int /\ adjusted[p] \in Int /\ halves[p] \in Nat
      BY DEF ShelfInv, GoodsType, Stocks, EvenNat
    <2>2. GoodsOut(p, invoice) \in Int
      BY <1>1, OutType
    <2> QED
      BY <2>1, <2>2, ShelfAssumption DEF Balance
  <1> QED
    BY <1>1, <1>2

LEMMA NextBalanceType ==
    ASSUME ShelfInv', IsFiniteSet(Standing(invoice'))
    PROVE  /\ invoice' \in InvoiceRows
           /\ \A p \in Products : /\ Balance(p)' \in Int /\ halves'[p] \in Nat
                                  /\ stock'[p] \in Int /\ adjusted'[p] \in Int
                                  /\ GoodsOut(p, invoice') \in Int
  <1>1. invoice' \in InvoiceRows
    BY DEF ShelfInv, LockOrder, LocksType, InvoiceRows
  <1>2. ASSUME NEW p \in Products
        PROVE  /\ Balance(p)' \in Int /\ halves'[p] \in Nat
               /\ stock'[p] \in Int /\ adjusted'[p] \in Int
               /\ GoodsOut(p, invoice') \in Int
    <2>1. /\ stock'[p] \in Int /\ adjusted'[p] \in Int /\ halves'[p] \in Nat
      BY DEF ShelfInv, GoodsType, Stocks, EvenNat
    <2>2. GoodsOut(p, invoice') \in Int
      BY <1>1, OutType
    <2> QED
      BY <2>1, <2>2, ShelfAssumption DEF Balance
  <1> QED
    BY <1>1, <1>2

(* A step that moves goods of one invoice.                                  *)
LEMMA GoodsMoved ==
    ASSUME ShelfInv, ShelfInv', Balanced, UNCHANGED <<digital, adjusted, retyped>>,
           NEW i \in Invoices, \A j \in Invoices \ {i} : invoice'[j] = invoice[j],
           NEW lines \in Lines,
           \A p \in Products : halves'[p] = halves[p] + HalvesOf(p, lines),
           \A p \in digital : stock'[p] = stock[p],
           \A p \in Products \ digital :
                Within(stock'[p] - stock[p] + QtyOut(p, invoice', i) - QtyOut(p, invoice, i),
                       2 * HalvesOf(p, lines))
    PROVE  Balanced'
  <1>1. invoice \in InvoiceRows /\ invoice' \in InvoiceRows
    BY DEF ShelfInv, LockOrder, LocksType, InvoiceRows
  <1>2. /\ IsFiniteSet(Standing(invoice'))
        /\ \A p : GoodsOut(p, invoice') - QtyOut(p, invoice', i)
                        = GoodsOut(p, invoice) - QtyOut(p, invoice, i)
    BY <1>1, OneInvoice DEF Balanced
  <1>3. ASSUME NEW p \in Products \ retyped PROVE Within(Balance(p), 2 * halves[p])'
    <2>1. /\ Balance(p) \in Int /\ Balance(p)' \in Int /\ halves[p] \in Nat
          /\ stock[p] \in Int /\ stock'[p] \in Int /\ adjusted[p] \in Int
          /\ GoodsOut(p, invoice) \in Int /\ GoodsOut(p, invoice') \in Int
          /\ HalvesOf(p, lines) \in Nat
      BY <1>2, BalanceType, NextBalanceType, LinesOfType DEF Balanced
    <2>2. QtyOut(p, invoice, i) \in Int /\ QtyOut(p, invoice', i) \in Int
      BY <1>1, QtyOfType DEF QtyOut, InvoiceRows
    <2>3. Within(Balance(p)' - Balance(p), 2 * HalvesOf(p, lines))
      <3>1. CASE p \in digital
        <4>1. Balance(p)' - Balance(p) = 0
          BY <2>1, <3>1, ShelfAssumption DEF Balance
        <4> QED
          BY <2>1, <4>1 DEF Within
      <3>2. CASE p \notin digital
        <4>a. Balance(p) = stock[p] + GoodsOut(p, invoice) - adjusted[p] - InitialStock
          BY <3>2 DEF Balance
        <4>b. Balance(p)' = stock'[p] + GoodsOut(p, invoice') - adjusted[p] - InitialStock
          BY <3>2 DEF Balance
        <4>1. Balance(p)' - Balance(p)
                = stock'[p] - stock[p] + GoodsOut(p, invoice') - GoodsOut(p, invoice)
          <5>1. InitialStock \in Int
            BY ShelfAssumption
          <5>2. Balance(p)' - Balance(p)
                    = stock'[p] - stock[p] + (GoodsOut(p, invoice') - GoodsOut(p, invoice))
                        - (adjusted[p] - adjusted[p])
            BY <2>1, <4>a, <4>b, <5>1, Difference
          <5> QED
            BY <2>1, <5>2
        <4>2. GoodsOut(p, invoice') - QtyOut(p, invoice', i)
                        = GoodsOut(p, invoice) - QtyOut(p, invoice, i)
          BY <1>2
        <4>3. Balance(p)' - Balance(p)
                = stock'[p] - stock[p] + QtyOut(p, invoice', i) - QtyOut(p, invoice, i)
          BY <2>1, <2>2, <4>1, <4>2
        <4> QED
          BY <3>2, <4>3
      <3> QED
        BY <3>1, <3>2
    <2>4. Within(Balance(p), 2 * halves[p])
      BY DEF Balanced
    <2>5. Within(Balance(p)', 2 * (halves[p] + HalvesOf(p, lines)))
      BY <2>1, <2>3, <2>4, Drifts
    <2>6. halves'[p] = halves[p] + HalvesOf(p, lines)
      OBVIOUS
    <2> QED
      BY <2>5, <2>6 DEF Within
  <1> QED
    BY <1>2, <1>3 DEF Balanced

LEMMA DeductBalances ==
    ASSUME ShelfInv, ShelfInv', Balanced, NEW w \in Workers, NEW op \in {"sell", "reserve"},
           NEW state \in {"held", "sold"}, NEW lines, Deduct(w, op, state, lines),
           lines \in {worker[w].lines, Recorded(worker[w].lines)}
    PROVE  Balanced'
  <1>0. worker[w].lines \in Lines /\ worker[w].inv \in Invoices
    BY Own DEF Deduct, Ready, RequestOK
  <1>1. PICK i \in Invoices : i = worker[w].inv
    BY <1>0
  <1>2. /\ invoice' = [invoice EXCEPT ![i] = [state |-> state, lines |-> lines]]
        /\ invoice[i].state = "none" /\ Moved(worker[w].lines)
        /\ UNCHANGED <<digital, adjusted, retyped>>
    BY <1>1 DEF Deduct
  <1>3. /\ \A p \in digital : stock'[p] = stock[p]
        /\ \A p \in Products \ digital :
                Within(stock'[p] - stock[p] + QtyOf(p, worker[w].lines),
                       HalvesOf(p, worker[w].lines))
    BY DeductStock
  <1>4. \A p \in Products : halves'[p] = halves[p] + HalvesOf(p, worker[w].lines)
    BY <1>0, <1>2, HalvesType DEF ShelfInv
  <1>5. /\ \A j \in Invoices \ {i} : invoice'[j] = invoice[j]
        /\ invoice'[i] = [state |-> state, lines |-> lines]
    BY <1>2 DEF ShelfInv, LockOrder, LocksType
  <1>6. ASSUME NEW p \in Products \ digital
        PROVE  Within(stock'[p] - stock[p] + QtyOut(p, invoice', i) - QtyOut(p, invoice, i),
                      2 * HalvesOf(p, worker[w].lines))
    <2>1. QtyOut(p, invoice, i) = 0 /\ QtyOut(p, invoice', i) = QtyOf(p, lines)
      BY <1>2, <1>5 DEF QtyOut, Standing
    <2>2. /\ QtyOf(p, worker[w].lines) \in Int /\ HalvesOf(p, worker[w].lines) \in Nat
          /\ QtyOf(p, Recorded(worker[w].lines))
                = QtyOf(p, worker[w].lines) + HalvesOf(p, worker[w].lines)
      BY <1>0, QtyOfType, LinesOfType, RecordedQty
    <2>3. QtyOf(p, lines) - QtyOf(p, worker[w].lines) \in {0, HalvesOf(p, worker[w].lines)}
      BY <2>2
    <2>4. QtyOf(p, lines) \in Int
      BY <2>2
    <2>5. stock[p] \in Int /\ stock'[p] \in Int
      BY DEF ShelfInv, GoodsType, Stocks, EvenNat
    <2>6. Within(stock'[p] - stock[p] + QtyOf(p, worker[w].lines),
                       HalvesOf(p, worker[w].lines))
      BY <1>3
    <2> QED
      BY <2>1, <2>2, <2>3, <2>4, <2>5, <2>6 DEF Within
  <1> QED
    BY <1>0, <1>2, <1>3, <1>4, <1>5, <1>6, GoodsMoved

LEMMA PutBackBalances ==
    ASSUME ShelfInv, ShelfInv', Balanced, NEW w \in Workers, NEW op \in {"release", "cancel"},
           PutBack(w, op)
    PROVE  Balanced'
  <1>0. /\ worker[w].lines \in Lines /\ worker[w].inv \in Invoices
        /\ worker[w].lines = invoice[worker[w].inv].lines
    BY Own DEF PutBack, Ready, RequestOK, Invoices
  <1>1. PICK i \in Invoices : i = worker[w].inv
    BY <1>0
  <1>2. /\ invoice' = [invoice EXCEPT ![i].state = "gone"]
        /\ invoice[i].state \in {"held", "sold"} /\ Moved(worker[w].lines)
        /\ UNCHANGED <<digital, adjusted, retyped>>
    BY <1>1 DEF PutBack
  <1>3. /\ \A p \in digital : stock'[p] = stock[p]
        /\ \A p \in Products \ digital :
                Within(stock'[p] - stock[p] - QtyOf(p, worker[w].lines),
                       HalvesOf(p, worker[w].lines))
    BY PutBackStock
  <1>4. \A p \in Products : halves'[p] = halves[p] + HalvesOf(p, worker[w].lines)
    BY <1>0, <1>2, HalvesType DEF ShelfInv
  <1>5. /\ \A j \in Invoices \ {i} : invoice'[j] = invoice[j]
        /\ invoice'[i].state = "gone"
    BY <1>2 DEF ShelfInv, LockOrder, LocksType
  <1>6. ASSUME NEW p \in Products \ digital
        PROVE  Within(stock'[p] - stock[p] + QtyOut(p, invoice', i) - QtyOut(p, invoice, i),
                      2 * HalvesOf(p, worker[w].lines))
    <2>1. QtyOut(p, invoice, i) = QtyOf(p, worker[w].lines) /\ QtyOut(p, invoice', i) = 0
      BY <1>0, <1>1, <1>2, <1>5 DEF QtyOut, Standing
    <2>2. QtyOf(p, worker[w].lines) \in Int /\ HalvesOf(p, worker[w].lines) \in Nat
      BY <1>0, QtyOfType, LinesOfType
    <2>3. stock[p] \in Int /\ stock'[p] \in Int
      BY DEF ShelfInv, GoodsType, Stocks, EvenNat
    <2>4. Within(stock'[p] - stock[p] - QtyOf(p, worker[w].lines),
                 HalvesOf(p, worker[w].lines))
      BY <1>3
    <2> QED
      BY <2>1, <2>2, <2>3, <2>4 DEF Within
  <1> QED
    BY <1>0, <1>2, <1>3, <1>4, <1>5, <1>6, GoodsMoved

LEMMA PrepaidBalances ==
    ASSUME ShelfInv, ShelfInv', Balanced, NEW w \in Workers, CommitPrepaid(w)
    PROVE  Balanced'
  <1>1. PICK i \in Invoices : i = worker[w].inv /\ invoice[i].state = "held"
    BY PrepaidGoods DEF Invoices
  <1>2. PICK lines \in Lines : lines = invoice[i].lines
    BY <1>1, PrepaidGoods
  <1>3. /\ \A p \in Products : halves'[p] = halves[p] + HalvesOf(p, lines)
        /\ UNCHANGED <<stock, digital, adjusted, retyped>>
    BY <1>1, <1>2, PrepaidGoods
  <1>4. invoice' = [invoice EXCEPT ![i] = [state |-> "sold", lines |-> Recorded(@.lines)]]
    BY <1>1 DEF CommitPrepaid
  <1>5. /\ \A j \in Invoices \ {i} : invoice'[j] = invoice[j]
        /\ invoice'[i] = [state |-> "sold", lines |-> Recorded(lines)]
    BY <1>2, <1>4 DEF ShelfInv, LockOrder, LocksType
  <1>6. ASSUME NEW p \in Products \ digital
        PROVE  Within(stock'[p] - stock[p] + QtyOut(p, invoice', i) - QtyOut(p, invoice, i),
                      2 * HalvesOf(p, lines))
    <2>1. /\ QtyOut(p, invoice, i) = QtyOf(p, lines)
          /\ QtyOut(p, invoice', i) = QtyOf(p, Recorded(lines))
      BY <1>1, <1>2, <1>5 DEF QtyOut, Standing
    <2>2. /\ QtyOf(p, lines) \in Int /\ HalvesOf(p, lines) \in Nat
          /\ QtyOf(p, Recorded(lines)) = QtyOf(p, lines) + HalvesOf(p, lines)
      BY QtyOfType, LinesOfType, RecordedQty
    <2>3. stock[p] \in Int /\ stock'[p] = stock[p]
      BY <1>3 DEF ShelfInv, GoodsType, Stocks, EvenNat
    <2> QED
      BY <2>1, <2>2, <2>3 DEF Within
  <1>7. \A p \in digital : stock'[p] = stock[p]
    BY <1>3
  <1> QED
    BY <1>3, <1>5, <1>6, <1>7, GoodsMoved

LEMMA CorrectionBalances ==
    ASSUME ShelfInv, ShelfInv', Balanced, NEW p \in Products, NEW delta \in Deltas,
           UpdateStockWithLock(p, delta)
    PROVE  Balanced'
  <1>1. UNCHANGED <<invoice, digital, retyped>>
    BY DEF UpdateStockWithLock
  <1>2. /\ delta \in Int /\ delta % 2 \in {0, 1}
        /\ \A q \in Products \ {p} : stock'[q] = stock[q] /\ adjusted'[q] = adjusted[q]
                                     /\ halves'[q] = halves[q]
        /\ adjusted'[p] = adjusted[p] + delta /\ halves'[p] = halves[p] + (delta % 2)
        /\ Within(stock'[p] - stock[p] - delta, delta % 2)
    BY CorrectionStock
  <1>3. ASSUME NEW q \in Products \ retyped PROVE Within(Balance(q), 2 * halves[q])'
    <2>1. CASE q # p
      <3>1. Balance(q)' = Balance(q) /\ halves'[q] = halves[q]
        BY <1>1, <1>2, <2>1 DEF Balance
      <3> QED
        BY <3>1 DEF Balanced, Within
    <2>2. CASE q = p
      <3>1. /\ Balance(p) \in Int /\ Balance(p)' \in Int /\ halves[p] \in Nat
            /\ stock[p] \in Int /\ stock'[p] \in Int /\ adjusted[p] \in Int
            /\ GoodsOut(p, invoice) \in Int
        BY <1>1, BalanceType, NextBalanceType DEF Balanced
      <3>2. Balance(p)' - Balance(p) = stock'[p] - stock[p] - delta
        <4>1. PICK out \in Int : out = IF p \in digital THEN 0 ELSE GoodsOut(p, invoice)
          BY <3>1
        <4>2. Balance(p) = stock[p] + out - adjusted[p] - InitialStock
          BY <4>1 DEF Balance
        <4>3. Balance(p)' = stock'[p] + out - adjusted'[p] - InitialStock
          BY <1>1, <4>1 DEF Balance
        <4> QED
          <5>1. InitialStock \in Int /\ adjusted'[p] \in Int
            BY <1>2, <3>1, ShelfAssumption
          <5>2. Balance(p)' - Balance(p)
                    = stock'[p] - stock[p] + (out - out) - (adjusted'[p] - adjusted[p])
            BY <3>1, <4>1, <4>2, <4>3, <5>1, Difference
          <5> QED
            BY <1>2, <3>1, <4>1, <5>1, <5>2
      <3>3. PICK d \in Nat : d = delta % 2
        BY <1>2
      <3>4. Within(Balance(p)' - Balance(p), 2 * d)
        BY <1>2, <3>1, <3>2, <3>3 DEF Within
      <3>5. Within(Balance(p), 2 * halves[p])
        BY <2>2 DEF Balanced
      <3>6. Within(Balance(p)', 2 * (halves[p] + d))
        BY <3>1, <3>3, <3>4, <3>5, Drifts
      <3>7. halves'[p] = halves[p] + d
        BY <1>2, <3>3
      <3> QED
        BY <2>2, <3>6, <3>7 DEF Within
    <2> QED
      BY <2>1, <2>2
  <1> QED
    BY <1>1, <1>3 DEF Balanced

LEMMA InitBalanced == Init => Balanced
  <1> SUFFICES ASSUME Init PROVE Balanced
    OBVIOUS
  <1>1. Standing(invoice) = {}
    BY DEF Init, Standing
  <1>2. IsFiniteSet(Standing(invoice))
    BY <1>1, FS_EmptySet
  <1>3. ASSUME NEW p \in Products PROVE Within(Balance(p), 2 * halves[p])
    <2>1. GoodsOut(p, invoice) = 0
      BY <1>1, SumEmpty DEF GoodsOut
    <2>2. stock[p] = InitialStock /\ adjusted[p] = 0 /\ halves[p] = 0
      BY DEF Init
    <2>3. Balance(p) = 0
      BY <2>1, <2>2, ShelfAssumption DEF Balance
    <2> QED
      BY <2>2, <2>3 DEF Within
  <1> QED
    BY <1>2, <1>3 DEF Balanced

(* A step that moves nothing.                                               *)
LEMMA BalanceStays ==
    ASSUME Balanced, UNCHANGED <<stock, adjusted, halves, invoice>>,
           retyped \subseteq retyped',
           \A p \in Products \ retyped' : p \in digital' <=> p \in digital
    PROVE  Balanced'
  <1>1. ASSUME NEW p \in Products \ retyped' PROVE Within(Balance(p), 2 * halves[p])'
    <2>1. Balance(p)' = Balance(p)
      BY <1>1 DEF Balance
    <2>2. p \in Products \ retyped
      BY <1>1
    <2> QED
      BY <2>1, <2>2 DEF Balanced, Within
  <1> QED
    BY <1>1 DEF Balanced

LEMMA StepBalanced ==
    ASSUME ShelfInv, ShelfInv', Balanced, [Next]_vars
    PROVE  Balanced'
  <1>1. ASSUME NEW w \in Workers, CommitSale(w) PROVE Balanced'
    BY <1>1, DeductBalances DEF CommitSale
  <1>2. ASSUME NEW w \in Workers, CommitReservation(w) PROVE Balanced'
    BY <1>2, DeductBalances DEF CommitReservation
  <1>3. ASSUME NEW w \in Workers, PutBack(w, "release") \/ PutBack(w, "cancel") PROVE Balanced'
    BY <1>3, PutBackBalances
  <1>4. ASSUME UNCHANGED <<stock, adjusted, halves, invoice, digital, retyped>> PROVE Balanced'
    BY <1>4, BalanceStays
  <1>5. ASSUME NEW p \in Products, UpdateProductWithLock(p) PROVE Balanced'
    <2>1. /\ UNCHANGED <<stock, adjusted, halves, invoice>> /\ retyped \subseteq retyped'
          /\ \A q \in Products \ retyped' : q \in digital' <=> q \in digital
      BY <1>5 DEF UpdateProductWithLock
    <2> QED
      BY <2>1, BalanceStays
  <1>6. ASSUME NEW w \in Workers, NEW op, NEW i, NEW lines, Starts(w, op, i, lines)
        PROVE  Balanced'
    BY <1>4, <1>6 DEF Starts, history
  <1>7. ASSUME NEW w \in Workers, Step(w) PROVE Balanced'
    BY <1>1, <1>2, <1>3, <1>4, <1>7, PrepaidBalances
       DEF Step, LockProductsOrdered, ShareProduct, Refused, AlreadyGone, Rollback,
           DeadlockDetected, history
  <1>8. ASSUME NEW w \in Workers, Abort(w) PROVE Balanced'
    BY <1>4, <1>8 DEF Abort, history
  <1>9. ASSUME NEW p \in Products, DeleteProduct(p) PROVE Balanced'
    BY <1>4, <1>9 DEF DeleteProduct, history
  <1>10. CASE UNCHANGED vars
    BY <1>4, <1>10 DEF vars
  <1> QED
    BY <1>5, <1>6, <1>7, <1>8, <1>9, <1>10, CorrectionBalances
       DEF Next, DeleteTransaction, Sell, UpdateWithLock, AddPrepaidTransaction,
           CreateWithReservation

(* The stock of each product accounts for the sales and reservations that   *)
(* stand, to the cent but for the half cents that were rounded, whatever    *)
(* number of products, carts, requests, corrections and faults there are.   *)
THEOREM StockAccountedHolds == Spec => []StockAccounted
  <1>1. ASSUME ShelfInv, Balanced PROVE StockAccounted
    <2>1. invoice \in InvoiceRows
      BY <1>1, BalanceType DEF Balanced
    <2>2. ASSUME NEW p \in Products \ retyped
          PROVE  Drift(p) \in -2 * halves[p] .. 2 * halves[p]
      <3>1. Drift(p) = Balance(p)
        BY <1>1, <2>1, OutstandingIs DEF Drift, Balance, Balanced
      <3>2. halves[p] \in Nat
        BY <1>1 DEF ShelfInv, GoodsType
      <3>3. Balance(p) \in -(2 * halves[p]) .. 2 * halves[p]
        BY <1>1 DEF Balanced, Within
      <3> QED
        BY <3>1, <3>2, <3>3
    <2> QED
      BY <2>2 DEF StockAccounted
  <1>2. Spec => []Balanced
    <2>1. ShelfInv /\ ShelfInv' /\ Balanced /\ [Next]_vars => Balanced'
      BY StepBalanced
    <2> QED
      BY <2>1, InitBalanced, ShelfInvAlways, PTL DEF Spec
  <1> QED
    BY <1>1, <1>2, ShelfInvAlways, PTL

=============================================================================
