----------------------- MODULE OnlinePaymentRefinement -----------------------
(***************************************************************************)
(* OnlinePayment implements GoodsReservation, for any number of orders,    *)
(* workers and sales, any stock and any number of faults: every step of    *)
(* the design holds, sells, releases or returns the goods of one invoice,  *)
(* or leaves the shelf and every invoice's goods alone.                    *)
(***************************************************************************)
EXTENDS OnlinePaymentProofs, FoldLemmas

Phases == [i \in Invoices |-> Phase(i)]

(* The goods of one invoice moved.                                          *)
Moved(i, x) == Phases' = [Phases EXCEPT ![i] = x]

LEMMA OrderPhase ==
    ASSUME NEW o \in Orders
    PROVE  /\ Phase(o) = IF Sold(o) THEN "sold"
                         ELSE IF payment[o].reserved THEN "held"
                         ELSE IF payment[o].status = "none" THEN "absent" ELSE "released"
           /\ Phase(o)' = IF Sold(o)' THEN "sold"
                          ELSE IF payment'[o].reserved THEN "held"
                          ELSE IF payment'[o].status = "none" THEN "absent" ELSE "released"
  BY DEF Phase

LEMMA CounterPhase ==
    ASSUME NEW i, i \notin Orders
    PROVE  /\ Phase(i) = IF Sold(i) THEN "sold"
                         ELSE IF \E t \in SaleIds : sale[t].inv = i THEN "released" ELSE "absent"
           /\ Phase(i)' = IF Sold(i)' THEN "sold"
                          ELSE IF \E t \in SaleIds : sale'[t].inv = i THEN "released" ELSE "absent"
  BY DEF Phase

LEMMA MovedIf ==
    ASSUME NEW i \in Invoices, NEW x, Phase(i)' = x,
           \A j \in Invoices \ {i} : Phase(j)' = Phase(j)
    PROVE  Moved(i, x)
  BY DEF Moved, Phases

(* Steps that change one payment row, and steps that change one sale.       *)
LEMMA OtherOrders ==
    ASSUME TypeInv, NEW o \in Orders, NEW row, payment' = [payment EXCEPT ![o] = row],
           UNCHANGED sale
    PROVE  /\ payment'[o] = row
           /\ \A i : Sold(i)' <=> Sold(i)
           /\ \A j \in Invoices \ {o} : Phase(j)' = Phase(j)
  <1>1. payment'[o] = row /\ \A q \in Orders \ {o} : payment'[q] = payment[q]
    BY DEF TypeInv, TablesInv
  <1>2. \A i : Sold(i)' <=> Sold(i)
    BY DEF Sold, IsSaleOf
  <1>3. ASSUME NEW j \in Invoices \ {o} PROVE Phase(j)' = Phase(j)
    <2>1. CASE j \in Orders
      BY <1>1, <1>2, <2>1, OrderPhase
    <2>2. CASE j \notin Orders
      BY <1>2, <2>2, CounterPhase
    <2> QED
      BY <2>1, <2>2
  <1> QED
    BY <1>1, <1>2, <1>3

LEMMA OtherSales ==
    ASSUME TypeInv, NEW t \in SaleIds, NEW row, sale' = [sale EXCEPT ![t] = row],
           UNCHANGED payment, NEW i, row.inv = i, sale[t].inv \in {i, NoOrder}
    PROVE  /\ sale'[t] = row
           /\ \A u \in SaleIds \ {t} : sale'[u] = sale[u]
           /\ \A j \in Invoices \ {i} : Phase(j)' = Phase(j)
  <1>1. sale'[t] = row /\ \A u \in SaleIds \ {t} : sale'[u] = sale[u]
    BY DEF TypeInv, TablesInv
  <1>2. ASSUME NEW j \in Invoices \ {i} PROVE Phase(j)' = Phase(j)
    <2>1. \A u \in SaleIds : /\ sale'[u].inv = j <=> sale[u].inv = j
                             /\ IsSaleOf(u, j)' <=> IsSaleOf(u, j)
      BY <1>1, PaymentAssumption DEF IsSaleOf, Invoices
    <2>2. Sold(j)' <=> Sold(j)
      BY <2>1 DEF Sold
    <2>3. CASE j \in Orders
      BY <2>2, <2>3, OrderPhase
    <2>4. CASE j \notin Orders
      BY <2>1, <2>2, <2>4, CounterPhase
    <2> QED
      BY <2>3, <2>4
  <1> QED
    BY <1>1, <1>2

(* Only a claimed order has a sale.                                         *)
LEMMA SoldIsSettled ==
    ASSUME SafetyInv, NEW o \in Orders, Sold(o)
    PROVE  Settled(o)
  BY DEF SafetyInv, SaleInv, Sold, IsSaleOf

-----------------------------------------------------------------------------
(* One lemma per action that moves goods.                                   *)

LEMMA ReserveHolds ==
    ASSUME TypeInv, SafetyInv, NEW w \in Workers, Reserve(w)
    PROVE  \E o \in Orders : Goods!Hold(o)
  <1>a. worker[w].order \in Orders
    BY DEF TypeInv, WorkersInv, KeyOK, In, Reserve
  <1>b. PICK o \in Orders : o = worker[w].order
    BY <1>a
  <1> DEFINE row == [status |-> "pending", reserved |-> TRUE, trxID |-> NoSale,
                     unitPrice |-> worker[w].unitPrice]
  <1>1. /\ payment[o].status = "none" /\ payment' = [payment EXCEPT ![o] = row]
        /\ UNCHANGED sale /\ Deduct(o)
    BY <1>b DEF Reserve
  <1>2. ~Sold(o) /\ ~payment[o].reserved
    BY <1>1, SoldIsSettled DEF Settled, SafetyInv, OrderInv
  <1>3. /\ payment'[o] = row /\ (Sold(o)' <=> Sold(o))
        /\ \A j \in Invoices \ {o} : Phase(j)' = Phase(j)
    BY <1>1, OtherOrders
  <1>4. Phase(o) = "absent" /\ Phase(o)' = "held"
    BY <1>1, <1>2, <1>3, OrderPhase
  <1>5. Moved(o, "held") /\ Phases[o] = "absent"
    BY <1>3, <1>4, MovedIf DEF Invoices, Phases
  <1> QED
    BY <1>1, <1>5 DEF Goods!Hold, Goods!Invoices, Invoices, Deduct, Moved, Phases

(* An order that is saved unreserved, unsold and refused gives its goods    *)
(* back if it still had them; any other save moves nothing.                 *)
LEMMA UpdateReleases ==
    ASSUME TypeInv, SafetyInv, NEW o \in Orders, NEW row, UpdateWithLock(o, row), UNCHANGED sale,
           payment[o].status # "none", row.status # "none",
           \/ row.reserved = payment[o].reserved
           \/ ~row.reserved /\ Sold(o) /\ row.trxID # NoSale
           \/ ~row.reserved /\ ~Sold(o) /\ row.trxID = NoSale
    PROVE  Goods!Release(o) \/ UNCHANGED <<stock, Phases>>
  <1>1. /\ payment'[o] = row /\ (Sold(o)' <=> Sold(o))
        /\ \A j \in Invoices \ {o} : Phase(j)' = Phase(j)
    BY OtherOrders DEF UpdateWithLock
  <1>2. CASE payment[o].reserved /\ ~row.reserved /\ ~Sold(o) /\ row.trxID = NoSale
    <2>1. Phase(o) = "held" /\ Phase(o)' = "released" /\ stock' = stock + Qty[o]
      BY <1>1, <1>2, OrderPhase DEF UpdateWithLock
    <2>2. Moved(o, "released") /\ Phases[o] = "held"
      BY <1>1, <2>1, MovedIf DEF Invoices, Phases
    <2> QED
      BY <2>1, <2>2 DEF Goods!Release, Goods!Invoices, Invoices, Moved, Phases
  <1>3. CASE ~(payment[o].reserved /\ ~row.reserved /\ ~Sold(o) /\ row.trxID = NoSale)
    <2>1. Phase(o)' = Phase(o) /\ stock' = stock
      BY <1>1, <1>3, OrderPhase DEF UpdateWithLock
    <2> QED
      BY <1>1, <2>1 DEF Phases
  <1> QED
    BY <1>2, <1>3

LEMMA FailReleases ==
    ASSUME TypeInv, SafetyInv, SafeSetting, NEW w \in Workers, FailPayment(w)
    PROVE  (\E o \in Orders : Goods!Release(o)) \/ UNCHANGED <<stock, Phases>>
  <1>a. worker[w].order \in Orders
    BY DEF TypeInv, WorkersInv, KeyOK, In, FailPayment
  <1>b. PICK o \in Orders : o = worker[w].order
    BY <1>a
  <1> DEFINE row == [payment[o] EXCEPT !.status = "failed", !.reserved = FALSE]
  <1>1. WorkerInv(w) /\ OrderInv(o) /\ payment[o] \in PaymentRows
    BY DEF SafetyInv, TypeInv, TablesInv
  <1>2. row.status = "failed" /\ ~row.reserved /\ row.trxID = payment[o].trxID
    BY <1>1 DEF PaymentRows
  <1>3. payment[o].status # "none" /\ ~Settled(o)
    BY <1>b, <1>1 DEF WorkerInv, OrderInv, FailPayment, In, Settled
  <1>4. ~Sold(o) /\ row.trxID = NoSale
    BY <1>1, <1>2, <1>3, SoldIsSettled DEF OrderInv, Settled
  <1>5. UpdateWithLock(o, row) /\ UNCHANGED sale
    BY <1>b DEF FailPayment
  <1> QED
    BY <1>2, <1>3, <1>4, <1>5, UpdateReleases

LEMMA ApplyReleases ==
    ASSUME TypeInv, SafetyInv, NEW w \in Workers, ApplyAuthoritativeStatus(w)
    PROVE  (\E o \in Orders : Goods!Release(o)) \/ UNCHANGED <<stock, Phases>>
  <1>a. worker[w].order \in Orders
    BY DEF TypeInv, WorkersInv, KeyOK, In, ApplyAuthoritativeStatus
  <1>b. PICK o \in Orders : o = worker[w].order
    BY <1>a
  <1> DEFINE word == worker[w].word
             row  == AuthoritativeRow(payment[o], word)
  <1>1. WorkerInv(w) /\ OrderInv(o) /\ payment[o] \in PaymentRows
    BY DEF SafetyInv, TypeInv, TablesInv
  <1>2. CASE payment[o].status \in Terminal
    BY <1>b, <1>2 DEF ApplyAuthoritativeStatus, Phases, Phase, Sold, IsSaleOf
  <1>3. CASE payment[o].status \notin Terminal
    <2>1. UpdateWithLock(o, row) /\ UNCHANGED sale
      BY <1>b, <1>3 DEF ApplyAuthoritativeStatus
    <2>2. payment[o].status # "none"
      BY <1>b, <1>1 DEF WorkerInv, ApplyAuthoritativeStatus, In
    <2>3. CASE word \in {"deny", "expire"}
      <3>1. ~Settled(o) /\ payment[o].trxID = NoSale
        BY <1>b, <1>1, <1>3, <2>3 DEF WorkerInv, OrderInv, ApplyAuthoritativeStatus, In, Settled,
           Terminal
      <3>2. ~row.reserved /\ row.trxID = payment[o].trxID /\ row.status # "none"
        BY <1>1, <2>3 DEF AuthoritativeRow, MapInternalStatus, PaymentRows
      <3> QED
        BY <2>1, <2>2, <3>1, <3>2, SoldIsSettled, UpdateReleases
    <2>4. CASE word \notin {"deny", "expire"}
      <3>1. row.reserved = payment[o].reserved /\ row.status # "none"
        BY <1>1, <2>2, <2>4 DEF AuthoritativeRow, MapInternalStatus, PaymentRows
      <3> QED
        BY <2>1, <2>2, <3>1, UpdateReleases
    <2> QED
      BY <2>3, <2>4
  <1> QED
    BY <1>2, <1>3

LEMMA MarkMovesNothing ==
    ASSUME TypeInv, SafetyInv, NEW w \in Workers, MarkSuccess(w)
    PROVE  (\E o \in Orders : Goods!Release(o)) \/ UNCHANGED <<stock, Phases>>
  <1>a. worker[w].order \in Orders /\ worker[w].trxID \in SaleIds
    BY DEF TypeInv, WorkersInv, KeyOK, In, MarkSuccess
  <1>b. PICK o \in Orders : o = worker[w].order
    BY <1>a
  <1> DEFINE row == SettledRow(payment[o], worker[w].trxID)
  <1>1. WorkerInv(w) /\ OrderInv(o) /\ payment[o] \in PaymentRows
    BY DEF SafetyInv, TypeInv, TablesInv
  <1>2. Sold(o) /\ Settled(o)
    BY <1>a, <1>b, <1>1 DEF WorkerInv, MarkSuccess, In, Sold
  <1>3. ~row.reserved /\ row.trxID # NoSale /\ row.status # "none"
    BY <1>a, <1>1, PaymentAssumption DEF SettledRow, PaymentRows
  <1>4. CASE UNCHANGED <<payment, stock>>
    BY <1>4 DEF MarkSuccess, Phases, Phase, Sold, IsSaleOf
  <1>5. CASE UpdateWithLock(o, row)
    BY <1>2, <1>3, <1>5, UpdateReleases DEF MarkSuccess, Settled
  <1> QED
    BY <1>b, <1>4, <1>5 DEF MarkSuccess

LEMMA PrepaidSells ==
    ASSUME TypeInv, SafetyInv, NEW w \in Workers, AddPrepaidTransaction(w)
    PROVE  \E o \in Orders : Goods!Sell(o)
  <1>a. worker[w].order \in Orders
    BY DEF TypeInv, WorkersInv, KeyOK, In, AddPrepaidTransaction
  <1>b. PICK o \in Orders : o = worker[w].order
    BY <1>a
  <1>1. PICK t \in SaleIds : Insert(t, o, SalePrice(worker[w].unitPrice))
    BY <1>b DEF AddPrepaidTransaction
  <1> DEFINE row == [state |-> "live", inv |-> o, unitPrice |-> SalePrice(worker[w].unitPrice)]
  <1>2. /\ sale' = [sale EXCEPT ![t] = row]
        /\ sale[t].inv = NoOrder /\ row.inv = o /\ row.state = "live"
        /\ UNCHANGED payment
    BY <1>1 DEF Insert, SafetyInv, SaleInv, AddPrepaidTransaction
  <1> HIDE DEF row
  <1>3. /\ sale'[t] = row
        /\ \A j \in Invoices \ {o} : Phase(j)' = Phase(j)
    BY <1>2, OtherSales
  <1>4. ~Sold(o) /\ Sold(o)' /\ UNCHANGED stock
    BY <1>b, <1>2, <1>3 DEF AddPrepaidTransaction, Sold, IsSaleOf
  <1>5. payment[o].reserved
    BY <1>b, <1>4 DEF SafetyInv, WorkerInv, OrderInv, Settled, AddPrepaidTransaction, In, Sold,
       IsSaleOf, TypeInv, TablesInv, PaymentRows
  <1>6. Phase(o) = "held" /\ Phase(o)' = "sold"
    BY <1>4, <1>5, OrderPhase
  <1>7. Moved(o, "sold") /\ Phases[o] = "held"
    BY <1>3, <1>6, MovedIf DEF Invoices, Phases
  <1> QED
    BY <1>4, <1>7 DEF Goods!Sell, Goods!Invoices, Invoices, Moved, Phases

LEMMA CounterSells ==
    ASSUME TypeInv, SafetyInv, SafeSetting, NEW i \in Counter, CounterSale(i)
    PROVE  Goods!SellNow(i)
  <1>1. PICK t \in SaleIds : Insert(t, i, price)
    BY DEF CounterSale
  <1> DEFINE row == [state |-> "live", inv |-> i, unitPrice |-> price]
  <1>2. /\ sale' = [sale EXCEPT ![t] = row]
        /\ sale[t].inv = NoOrder /\ row.inv = i /\ row.state = "live"
        /\ UNCHANGED payment
    BY <1>1 DEF Insert, SafetyInv, SaleInv, CounterSale
  <1> HIDE DEF row
  <1>3. /\ sale'[t] = row
        /\ \A j \in Invoices \ {i} : Phase(j)' = Phase(j)
    BY <1>2, OtherSales
  <1>4. ~Sold(i) /\ Sold(i)' /\ Deduct(i) /\ i \notin Orders
    BY <1>2, <1>3 DEF CounterSale, Sold, IsSaleOf, SafeSetting
  <1>5. Phase(i) \in {"absent", "released"} /\ Phase(i)' = "sold"
    BY <1>4, CounterPhase
  <1>6. Moved(i, "sold") /\ Phases[i] \in {"absent", "released"}
    BY <1>3, <1>5, MovedIf DEF Invoices, Phases
  <1> QED
    BY <1>4, <1>6 DEF Goods!SellNow, Goods!Invoices, Invoices, Deduct, Moved, Phases

LEMMA DeleteReturns ==
    ASSUME TypeInv, SafetyInv, NEW w \in Workers, DeleteTransaction(w)
    PROVE  (\E i \in Counter : Goods!Return(i)) \/ UNCHANGED <<stock, Phases>>
  <1>1. PICK t \in SaleIds : t = worker[w].trxID
    BY DEF TypeInv, WorkersInv, KeyOK, In, DeleteTransaction
  <1>2. CASE sale[t].state # "live"
    BY <1>1, <1>2 DEF DeleteTransaction, Phases, Phase, Sold, IsSaleOf
  <1>3. CASE sale[t].state = "live"
    <2> DEFINE row == [sale[t] EXCEPT !.state = "deleted"]
    <2>1. sale[t] \in SaleRows /\ sale[t].inv \in Invoices /\ sale[t].inv \notin Orders
      BY <1>1, <1>3 DEF TypeInv, TablesInv, SafetyInv, WorkerInv, DeleteTransaction, In
    <2>2. PICK i \in Counter : i = sale[t].inv /\ i \notin Orders /\ i \in Invoices
      BY <2>1 DEF Invoices
    <2>3. /\ sale' = [sale EXCEPT ![t] = row] /\ UNCHANGED payment
          /\ stock' = stock + Qty[i]
      BY <1>1, <1>3, <2>2 DEF DeleteTransaction
    <2>4. row.inv = i /\ row.state = "deleted" /\ sale[t].inv \in {i, NoOrder}
      BY <2>1, <2>2 DEF SaleRows
    <2> HIDE DEF row
    <2>5. /\ sale'[t] = row /\ \A u \in SaleIds \ {t} : sale'[u] = sale[u]
          /\ \A j \in Invoices \ {i} : Phase(j)' = Phase(j)
      BY <2>3, <2>4, OtherSales
    <2>6. Sold(i) /\ ~Sold(i)'
      <3>1. IsSaleOf(t, i) /\ \A u \in SaleIds \ {t} : ~IsSaleOf(u, i)
        BY <1>3, <2>2 DEF IsSaleOf, SafetyInv, SaleInv
      <3>2. \A u \in SaleIds : ~IsSaleOf(u, i)'
        BY <2>4, <2>5, <3>1 DEF IsSaleOf
      <3> QED
        BY <3>1, <3>2 DEF Sold
    <2>7. Phase(i) = "sold" /\ Phase(i)' = "released"
      BY <2>2, <2>4, <2>5, <2>6, CounterPhase
    <2>8. Moved(i, "released") /\ Phases[i] = "sold"
      BY <2>2, <2>5, <2>7, MovedIf DEF Phases
    <2> QED
      BY <2>3, <2>8 DEF Goods!Return, Goods!Invoices, Invoices, Moved, Phases
  <1> QED
    BY <1>2, <1>3

-----------------------------------------------------------------------------
(* The theorem. *)

LEMMA InitGoods == ASSUME Init PROVE Goods!GoodsInit
  <1>1. \A t \in SaleIds : sale[t].state = "absent" /\ sale[t].inv = NoOrder
    BY DEF Init
  <1>2. \A i : ~Sold(i)
    BY <1>1 DEF Sold, IsSaleOf
  <1>3. ASSUME NEW o \in Orders PROVE Phase(o) = "absent"
    BY <1>2, OrderPhase DEF Init
  <1>4. ASSUME NEW i \in Invoices, i \notin Orders PROVE Phase(i) = "absent"
    BY <1>1, <1>2, <1>4, CounterPhase, PaymentAssumption DEF Invoices
  <1> QED
    BY <1>3, <1>4 DEF Init, Goods!GoodsInit, Goods!Invoices, Invoices

LEMMA NextGoods ==
    ASSUME TypeInv, SafetyInv, SafeSetting, [Next]_vars
    PROVE  Goods!GoodsNext \/ UNCHANGED <<stock, Phases>>
  <1>1. CASE UNCHANGED <<stock, payment, sale>>
    BY <1>1 DEF Phases, Phase, Sold, IsSaleOf
  <1>2. ASSUME NEW w \in Workers, Step(w)
        PROVE  Goods!GoodsNext \/ UNCHANGED <<stock, Phases>>
    <2>1. CASE \/ Reserve(w) \/ FailPayment(w) \/ ApplyAuthoritativeStatus(w)
               \/ AddPrepaidTransaction(w) \/ MarkSuccess(w) \/ DeleteTransaction(w)
      BY <2>1, ReserveHolds, FailReleases, ApplyReleases, PrepaidSells, MarkMovesNothing,
         DeleteReturns DEF Goods!GoodsNext
    <2>2. ~AddUnreservedTransaction(w)
      BY DEF SafetyInv, WorkerInv, AddUnreservedTransaction, In
    <2> QED
      BY <1>1, <1>2, <2>1, <2>2 DEF Step, ReserveRefused, ChargeAccepted, ChargeRefused,
         ChargeResponseLost, CheckStatus, CheckStatusFailed, Load, SaleFound, SaleMissing
  <1>3. ASSUME NEW i \in Counter, CounterSale(i)
        PROVE  Goods!GoodsNext
    BY <1>3, CounterSells DEF Goods!GoodsNext
  <1> QED
    BY <1>1, <1>2, <1>3 DEF Next, vars, Abort, BuildOrder, HandleNotification, AssertDeletable,
       SweepSettling, SweepStale, BuyerPays, GatewayCloses, UpdatePrice

(* Goods leave the shelf once per invoice: whatever requests, notifications *)
(* and the sweep of payment_usecase.go do to an order at the same time, and *)
(* however its sale and the counter's compete for the stock, the shelf is   *)
(* as GoodsReservation promises.                                            *)
THEOREM GoodsKeptAlways == SafeSetting => (Spec => GoodsKept)
  <1> SUFFICES ASSUME SafeSetting PROVE Spec => GoodsKept
    OBVIOUS
  <1>1. Init => Goods!GoodsInit
    BY InitGoods
  <1>2. TypeInv /\ SafetyInv /\ [Next]_vars => [Goods!GoodsNext]_(Goods!goodsVars)
    BY NextGoods DEF Goods!goodsVars, Phases
  <1> QED
    BY <1>1, <1>2, Safety, PTL DEF Spec, GoodsKept, Goods!GoodsSpec

-----------------------------------------------------------------------------
(* The goods that are not on the shelf.  The refinement says how the phase  *)
(* of one invoice moves at a time, and with it one term of the sum.         *)

Reserved == {o \in Orders : payment[o].reserved /\ ~Sold(o)}
LiveSales == {t \in SaleIds : sale[t].state = "live"}
SoldQty == [t \in SaleIds |-> Qty[sale[t].inv]]

Accounted ==
    /\ IsFiniteSet(Reserved) /\ IsFiniteSet(LiveSales)
    /\ InitialStock = stock + Sum(Qty, Reserved) + Sum(SoldQty, LiveSales)

LEMMA SoldQtyType == ASSUME TypeInv PROVE \A t \in LiveSales : SoldQty[t] \in Nat
  BY PaymentAssumption DEF LiveSales, SoldQty, TypeInv, TablesInv

LEMMA QtyType == \A i \in Invoices : Qty[i] \in Nat
  BY PaymentAssumption

LEMMA SoldGoods ==
    ASSUME TypeInv, IsFiniteSet(LiveSales)
    PROVE  MapThenSumSet(LAMBDA t : Qty[sale[t].inv], LiveSales) = Sum(SoldQty, LiveSales)
  <1> DEFINE M == MapThenSumSet(LAMBDA t : Qty[sale[t].inv], LiveSales)
  <1>1. PICK f : SumsUp(f, SoldQty, LiveSales) /\ Sum(SoldQty, LiveSales) = f[LiveSales]
    BY SoldQtyType, SumIs
  <1>2. ASSUME NEW g
        PROVE  SumsUp(g, SoldQty, LiveSales) <=>
               g = [s \in SUBSET LiveSales |->
                        IF s = {} THEN 0
                        ELSE Qty[sale[CHOOSE x \in s : TRUE].inv]
                                + g[s \ {CHOOSE x \in s : TRUE}]]
    <2>1. ASSUME NEW s \in SUBSET LiveSales, s # {}
          PROVE  SoldQty[CHOOSE x \in s : TRUE] = Qty[sale[CHOOSE x \in s : TRUE].inv]
      <3>1. (CHOOSE x \in s : TRUE) \in s
        BY <2>1
      <3>2. (CHOOSE x \in s : TRUE) \in SaleIds
        BY <3>1 DEF LiveSales
      <3> QED
        BY <3>2 DEF SoldQty
    <2> QED
      BY <2>1 DEF SumsUp
  <1>3. \E g : /\ g = [s \in SUBSET LiveSales |->
                        IF s = {} THEN 0
                        ELSE Qty[sale[CHOOSE x \in s : TRUE].inv]
                                + g[s \ {CHOOSE x \in s : TRUE}]]
               /\ M = g[LiveSales]
    <2>1. f = [s \in SUBSET LiveSales |->
                   IF s = {} THEN 0
                   ELSE Qty[sale[CHOOSE x \in s : TRUE].inv]
                           + f[s \ {CHOOSE x \in s : TRUE}]]
      BY <1>1, <1>2
    <2>2. \E g : g = [s \in SUBSET LiveSales |->
                         IF s = {} THEN 0
                         ELSE Qty[sale[CHOOSE x \in s : TRUE].inv]
                                 + g[s \ {CHOOSE x \in s : TRUE}]]
      BY <2>1
    <2> QED
      BY <2>2 DEF MapThenSumSet, MapThenFoldSet
  <1> HIDE DEF M
  <1>4. PICK g : SumsUp(g, SoldQty, LiveSales) /\ M = g[LiveSales]
    BY <1>2, <1>3
  <1>5. f[LiveSales] = g[LiveSales]
    BY <1>1, <1>4, SoldQtyType, SumsUpSame
  <1>6. M = Sum(SoldQty, LiveSales)
    BY <1>1, <1>4, <1>5
  <1> QED
    BY <1>6 DEF M

LEMMA ReservedIsHeld ==
    /\ Reserved = {o \in Orders : Phases[o] = "held"}
    /\ Reserved' = {o \in Orders : Phases'[o] = "held"}
  BY OrderPhase DEF Reserved, Phases, Invoices

(* One order takes its goods, gives them back, or leaves them.              *)
LEMMA OrderAccounted ==
    ASSUME TypeInv, Accounted, NEW o \in Orders, UNCHANGED sale,
           \/ o \notin Reserved /\ Reserved' = Reserved \cup {o} /\ stock' = stock - Qty[o]
           \/ o \in Reserved /\ Reserved' = Reserved \ {o} /\ stock' = stock + Qty[o]
           \/ Reserved' = Reserved /\ stock' = stock
    PROVE  Accounted'
  <1>1. SoldQty' = SoldQty /\ LiveSales' = LiveSales
    BY DEF SoldQty, LiveSales
  <1>2. /\ Sum(SoldQty, LiveSales) \in Int /\ Sum(Qty, Reserved) \in Int
        /\ stock \in Int /\ Qty[o] \in Int
    BY SumInt, SoldQtyType, QtyType DEF Accounted, Reserved, Invoices, TypeInv, TablesInv
  <1>3. CASE o \notin Reserved /\ Reserved' = Reserved \cup {o} /\ stock' = stock - Qty[o]
    <2>1. IsFiniteSet(Reserved')
      BY <1>3, FS_AddElement DEF Accounted
    <2>2. Sum(Qty, Reserved') = Qty[o] + Sum(Qty, Reserved' \ {o})
      BY <1>3, <2>1, QtyType, SumWithout DEF Reserved, Invoices
    <2>3. Reserved' \ {o} = Reserved
      BY <1>3
    <2>4. Sum(Qty, Reserved') = Qty[o] + Sum(Qty, Reserved)
      BY <2>2, <2>3
    <2> QED
      BY <1>1, <1>2, <1>3, <2>1, <2>4 DEF Accounted
  <1>4. CASE o \in Reserved /\ Reserved' = Reserved \ {o} /\ stock' = stock + Qty[o]
    <2>1. IsFiniteSet(Reserved')
      BY <1>4, FS_RemoveElement DEF Accounted
    <2>2. Sum(Qty, Reserved) = Qty[o] + Sum(Qty, Reserved \ {o})
      BY <1>4, QtyType, SumWithout DEF Accounted, Reserved, Invoices
    <2>3. Sum(Qty, Reserved') \in Int
      BY <1>4, <2>1, QtyType, SumInt DEF Reserved, Invoices
    <2> QED
      BY <1>1, <1>2, <1>4, <2>1, <2>2, <2>3 DEF Accounted
  <1>5. CASE Reserved' = Reserved /\ stock' = stock
    BY <1>1, <1>5 DEF Accounted
  <1> QED
    BY <1>3, <1>4, <1>5

(* One sale is made or cancelled.                                           *)
LEMMA SaleMade ==
    ASSUME TypeInv, IsFiniteSet(LiveSales), NEW t \in SaleIds, NEW i \in Invoices,
           t \notin LiveSales, sale'[t].state = "live", sale'[t].inv = i,
           \A u \in SaleIds \ {t} : sale'[u] = sale[u]
    PROVE  /\ IsFiniteSet(LiveSales')
           /\ Sum(SoldQty', LiveSales') = Qty[i] + Sum(SoldQty, LiveSales)
  <1>1. LiveSales' = LiveSales \cup {t} /\ LiveSales' \ {t} = LiveSales
    BY DEF LiveSales
  <1>2. /\ \A u \in LiveSales : SoldQty'[u] = SoldQty[u]
        /\ SoldQty'[t] = Qty[i]
    BY DEF SoldQty, LiveSales
  <1>3. IsFiniteSet(LiveSales')
    BY <1>1, FS_AddElement
  <1>4. \A u \in LiveSales' : SoldQty'[u] \in Int
    BY <1>1, <1>2, SoldQtyType, QtyType
  <1>5. Sum(SoldQty', LiveSales') = SoldQty'[t] + Sum(SoldQty', LiveSales' \ {t})
    BY <1>1, <1>3, <1>4, SumWithout
  <1>6. Sum(SoldQty', LiveSales) = Sum(SoldQty, LiveSales)
    BY <1>2, SoldQtyType, SumSame
  <1> QED
    BY <1>1, <1>2, <1>3, <1>5, <1>6

LEMMA SaleCancelled ==
    ASSUME TypeInv, IsFiniteSet(LiveSales), NEW t \in LiveSales,
           sale'[t].state = "deleted", \A u \in SaleIds \ {t} : sale'[u] = sale[u]
    PROVE  /\ IsFiniteSet(LiveSales')
           /\ Sum(SoldQty, LiveSales) = Qty[sale[t].inv] + Sum(SoldQty', LiveSales')
  <1>1. LiveSales' = LiveSales \ {t}
    BY DEF LiveSales
  <1>2. /\ \A u \in LiveSales' : SoldQty'[u] = SoldQty[u]
        /\ SoldQty[t] = Qty[sale[t].inv]
    BY DEF SoldQty, LiveSales
  <1>3. IsFiniteSet(LiveSales')
    BY <1>1, FS_RemoveElement
  <1>4. \A u \in LiveSales : SoldQty[u] \in Int
    BY SoldQtyType
  <1>5. Sum(SoldQty, LiveSales) = SoldQty[t] + Sum(SoldQty, LiveSales \ {t})
    BY <1>4, SumWithout
  <1>6. Sum(SoldQty', LiveSales') = Sum(SoldQty, LiveSales')
    BY <1>1, <1>2, <1>3, <1>4, SumSame
  <1> QED
    BY <1>1, <1>2, <1>3, <1>5, <1>6

(* One lemma per kind of step.                                              *)
LEMMA HoldAccounts ==
    ASSUME TypeInv, Accounted, UNCHANGED sale,
           \/ \E o \in Orders : Goods!Hold(o) \/ Goods!Release(o)
           \/ UNCHANGED <<stock, Phases>>
    PROVE  Accounted'
  <1>1. CASE \E o \in Orders : Goods!Hold(o) \/ Goods!Release(o)
    <2>1. PICK o \in Orders : Goods!Hold(o) \/ Goods!Release(o)
      BY <1>1
    <2>2. CASE Goods!Hold(o)
      <3>1. /\ Phases[o] = "absent" /\ stock' = stock - Qty[o]
            /\ Phases' = [Phases EXCEPT ![o] = "held"]
        BY <2>2 DEF Goods!Hold, Phases, Goods!Invoices, Invoices
      <3>2. o \notin Reserved /\ Reserved' = Reserved \cup {o}
        BY <3>1, ReservedIsHeld DEF Phases, Invoices
      <3> QED
        BY <3>1, <3>2, OrderAccounted
    <2>3. CASE Goods!Release(o)
      <3>1. /\ Phases[o] = "held" /\ stock' = stock + Qty[o]
            /\ Phases' = [Phases EXCEPT ![o] = "released"]
        BY <2>3 DEF Goods!Release, Phases, Goods!Invoices, Invoices
      <3>2. o \in Reserved /\ Reserved' = Reserved \ {o}
        BY <3>1, ReservedIsHeld DEF Phases, Invoices
      <3> QED
        BY <3>1, <3>2, OrderAccounted
    <2> QED
      BY <2>1, <2>2, <2>3
  <1>2. CASE UNCHANGED <<stock, Phases>>
    <2>1. Reserved' = Reserved /\ stock' = stock
      BY <1>2, ReservedIsHeld
    <2>2. SoldQty' = SoldQty /\ LiveSales' = LiveSales
      BY DEF SoldQty, LiveSales
    <2> QED
      BY <2>1, <2>2 DEF Accounted
  <1> QED
    BY <1>1, <1>2

LEMMA PrepaidAccounts ==
    ASSUME TypeInv, SafetyInv, Accounted, NEW w \in Workers, AddPrepaidTransaction(w)
    PROVE  Accounted'
  <1>a. worker[w].order \in Orders
    BY DEF TypeInv, WorkersInv, KeyOK, In, AddPrepaidTransaction
  <1>b. PICK o \in Orders : o = worker[w].order
    BY <1>a
  <1>1. PICK t \in SaleIds : Insert(t, o, SalePrice(worker[w].unitPrice))
    BY <1>b DEF AddPrepaidTransaction
  <1>2. /\ sale'[t].state = "live" /\ sale'[t].inv = o /\ t \notin LiveSales
        /\ \A u \in SaleIds \ {t} : sale'[u] = sale[u]
    BY <1>1 DEF Insert, TypeInv, TablesInv, LiveSales
  <1>3. ~Sold(o) /\ payment[o].reserved /\ stock' = stock /\ payment' = payment
    BY <1>b DEF AddPrepaidTransaction, SafetyInv, WorkerInv, OrderInv, Settled, In, Sold,
       IsSaleOf, TypeInv, TablesInv, PaymentRows
  <1>4. /\ \A q \in Orders : Sold(q)' <=> Sold(q) \/ q = o
        /\ o \in Reserved
    <2>1. sale[t].inv = NoOrder
      BY <1>1 DEF Insert, SafetyInv, SaleInv
    <2> QED
      BY <1>2, <1>3, <2>1, PaymentAssumption DEF Sold, IsSaleOf, Reserved
  <1>5. Reserved' = Reserved \ {o}
    BY <1>3, <1>4 DEF Reserved
  <1>6. IsFiniteSet(Reserved') /\ Sum(Qty, Reserved) = Qty[o] + Sum(Qty, Reserved')
    <2>1. /\ IsFiniteSet(Reserved') /\ o \in Reserved
          /\ \A q \in Reserved : Qty[q] \in Int
      BY <1>4, <1>5, QtyType, FS_RemoveElement DEF Accounted, Reserved, Invoices
    <2>2. Sum(Qty, Reserved) = Qty[o] + Sum(Qty, Reserved \ {o})
      BY <2>1, SumWithout DEF Accounted
    <2> QED
      BY <1>5, <2>1, <2>2
  <1>7. /\ IsFiniteSet(LiveSales')
        /\ Sum(SoldQty', LiveSales') = Qty[o] + Sum(SoldQty, LiveSales)
    BY <1>2, SaleMade DEF Accounted, Invoices
  <1>8. /\ Sum(SoldQty, LiveSales) \in Int /\ Sum(Qty, Reserved') \in Int
        /\ stock \in Int /\ Qty[o] \in Int
    BY <1>5, <1>6, SumInt, SoldQtyType, QtyType
    DEF Accounted, Reserved, Invoices, TypeInv, TablesInv
  <1> QED
    BY <1>3, <1>6, <1>7, <1>8 DEF Accounted

LEMMA CounterAccounts ==
    ASSUME TypeInv, SafetyInv, SafeSetting, Accounted, NEW i \in Counter, CounterSale(i)
    PROVE  Accounted'
  <1>1. PICK t \in SaleIds : Insert(t, i, price)
    BY DEF CounterSale
  <1>2. /\ sale'[t].state = "live" /\ sale'[t].inv = i /\ t \notin LiveSales
        /\ \A u \in SaleIds \ {t} : sale'[u] = sale[u]
    BY <1>1 DEF Insert, TypeInv, TablesInv, LiveSales
  <1>3. Goods!SellNow(i)
    BY CounterSells
  <1>4. i \notin Orders /\ i \in Invoices /\ stock' = stock - Qty[i]
    BY DEF SafeSetting, Invoices, CounterSale, Deduct
  <1>5. Reserved' = Reserved
    BY <1>3, <1>4, ReservedIsHeld DEF Goods!SellNow, Phases, Goods!Invoices, Invoices
  <1>6. /\ IsFiniteSet(LiveSales')
        /\ Sum(SoldQty', LiveSales') = Qty[i] + Sum(SoldQty, LiveSales)
    BY <1>2, <1>4, SaleMade DEF Accounted
  <1>7. /\ Sum(SoldQty, LiveSales) \in Int /\ Sum(Qty, Reserved) \in Int
        /\ stock \in Int /\ Qty[i] \in Int
    BY <1>4, SumInt, SoldQtyType, QtyType DEF Accounted, Reserved, Invoices, TypeInv, TablesInv
  <1> QED
    BY <1>4, <1>5, <1>6, <1>7 DEF Accounted

LEMMA DeleteAccounts ==
    ASSUME TypeInv, SafetyInv, Accounted, NEW w \in Workers, DeleteTransaction(w)
    PROVE  Accounted'
  <1>1. PICK t \in SaleIds : t = worker[w].trxID
    BY DEF TypeInv, WorkersInv, KeyOK, In, DeleteTransaction
  <1>2. CASE sale[t].state # "live"
    <2>1. UNCHANGED <<stock, payment, sale>>
      BY <1>1, <1>2 DEF DeleteTransaction
    <2> QED
      BY <2>1 DEF Accounted, Reserved, LiveSales, SoldQty, Sold, IsSaleOf
  <1>3. CASE sale[t].state = "live"
    <2>1. sale[t] \in SaleRows /\ sale[t].inv \in Invoices /\ sale[t].inv \notin Orders
      BY <1>1, <1>3 DEF TypeInv, TablesInv, SafetyInv, WorkerInv, DeleteTransaction, In
    <2>2. /\ t \in LiveSales /\ sale'[t].state = "deleted"
          /\ \A u \in SaleIds \ {t} : sale'[u] = sale[u]
          /\ stock' = stock + Qty[sale[t].inv] /\ payment' = payment
      <3>1. /\ sale' = [sale EXCEPT ![t].state = "deleted"]
            /\ stock' = stock + Qty[sale[t].inv] /\ payment' = payment
        BY <1>1, <1>3 DEF DeleteTransaction
      <3>2. sale \in [SaleIds -> SaleRows]
        BY DEF TypeInv, TablesInv
      <3> QED
        BY <1>3, <3>1, <3>2 DEF LiveSales, SaleRows
    <2>3. Reserved' = Reserved
      <3>1. ASSUME NEW o \in Orders PROVE Sold(o)' <=> Sold(o)
        BY <2>1, <2>2 DEF Sold, IsSaleOf
      <3> QED
        BY <2>2, <3>1 DEF Reserved
    <2>4. /\ IsFiniteSet(LiveSales')
          /\ Sum(SoldQty, LiveSales) = Qty[sale[t].inv] + Sum(SoldQty', LiveSales')
      BY <2>2, SaleCancelled DEF Accounted
    <2>5. /\ Sum(SoldQty, LiveSales) \in Int /\ Sum(Qty, Reserved) \in Int
          /\ stock \in Int /\ Qty[sale[t].inv] \in Int
      BY <2>1, SumInt, SoldQtyType, QtyType DEF Accounted, Reserved, Invoices, TypeInv, TablesInv
    <2>6. Sum(SoldQty', LiveSales') \in Int
      <3>1. \A u \in LiveSales' : u \in LiveSales /\ SoldQty'[u] = SoldQty[u]
        BY <2>2 DEF LiveSales, SoldQty
      <3> QED
        BY <2>4, <3>1, SumInt, SoldQtyType
    <2> QED
      BY <2>2, <2>3, <2>4, <2>5, <2>6 DEF Accounted
  <1> QED
    BY <1>2, <1>3

LEMMA InitAccounted == ASSUME Init PROVE Accounted
  <1>1. Reserved = {} /\ LiveSales = {} /\ stock = InitialStock
    BY DEF Init, Reserved, LiveSales
  <1> QED
    BY <1>1, FS_EmptySet, SumEmpty, PaymentAssumption DEF Accounted

LEMMA NextAccounted ==
    ASSUME TypeInv, SafetyInv, SafeSetting, Accounted, [Next]_vars
    PROVE  Accounted'
  <1>1. CASE UNCHANGED <<stock, payment, sale>>
    BY <1>1 DEF Accounted, Reserved, LiveSales, SoldQty, Sold, IsSaleOf
  <1>2. ASSUME NEW w \in Workers, Step(w) PROVE Accounted'
    <2>1. CASE \/ Reserve(w) \/ FailPayment(w) \/ ApplyAuthoritativeStatus(w) \/ MarkSuccess(w)
      <3>1. UNCHANGED sale
        BY <2>1 DEF Reserve, FailPayment, ApplyAuthoritativeStatus, MarkSuccess
      <3> QED
        BY <2>1, <3>1, ReserveHolds, FailReleases, ApplyReleases, MarkMovesNothing, HoldAccounts
    <2>2. CASE AddPrepaidTransaction(w)
      BY <2>2, PrepaidAccounts
    <2>3. CASE DeleteTransaction(w)
      BY <2>3, DeleteAccounts
    <2>4. ~AddUnreservedTransaction(w)
      BY DEF SafetyInv, WorkerInv, AddUnreservedTransaction, In
    <2> QED
      BY <1>1, <1>2, <2>1, <2>2, <2>3, <2>4 DEF Step, ReserveRefused, ChargeAccepted,
         ChargeRefused, ChargeResponseLost, CheckStatus, CheckStatusFailed, Load, SaleFound,
         SaleMissing
  <1>3. ASSUME NEW i \in Counter, CounterSale(i) PROVE Accounted'
    BY <1>3, CounterAccounts
  <1> QED
    BY <1>1, <1>2, <1>3 DEF Next, vars, Abort, BuildOrder, HandleNotification, AssertDeletable,
       SweepSettling, SweepStale, BuyerPays, GatewayCloses, UpdatePrice

(* Every item that is not on the shelf is sold by one live sale, or still   *)
(* reserved by one order without a sale: CreateWithReservation, the prepaid *)
(* sale, the restock in UpdateWithLock and DeleteTransaction neither lose   *)
(* goods nor deduct them twice, for any number of orders and workers.       *)
THEOREM StockConservedAlways == SafeSetting => (Spec => []StockConserved)
  <1> SUFFICES ASSUME SafeSetting PROVE Spec => []StockConserved
    OBVIOUS
  <1>1. Init => Accounted
    BY InitAccounted
  <1>2. TypeInv /\ SafetyInv /\ Accounted /\ [Next]_vars => Accounted'
    BY NextAccounted
  <1>3. TypeInv /\ Accounted => StockConserved
    BY SoldGoods DEF Accounted, StockConserved, Sum, Reserved, LiveSales
  <1> QED
    BY <1>1, <1>2, <1>3, Safety, PTL DEF Spec

(* Once every order has finished, what is not on the shelf is sold by live  *)
(* sales, provided nobody types an online order's number at the counter:    *)
(* the sale made under such a number is the only way to lose goods.         *)
THEOREM NothingLostAlways == SafeSetting => (Spec => []NothingLost)
  <1> SUFFICES ASSUME SafeSetting PROVE Spec => []NothingLost
    OBVIOUS
  <1>1. Init => Accounted
    BY InitAccounted
  <1>2. TypeInv /\ SafetyInv /\ Accounted /\ [Next]_vars => Accounted'
    BY NextAccounted
  <1>3. TypeInv /\ SafetyInv /\ Accounted => NothingLost
    <2> SUFFICES ASSUME TypeInv, SafetyInv, Accounted,
                        \A o \in Orders : payment[o].status \in Terminal \cup {"none"}
                 PROVE  InitialStock = stock + MapThenSumSet(LAMBDA t : Qty[sale[t].inv],
                                                             LiveSales)
      BY DEF NothingLost, LiveSales
    <2>1. Reserved = {}
      BY DEF SafetyInv, OrderInv, Reserved, Terminal
    <2>2. Sum(Qty, Reserved) = 0
      BY <2>1, SumEmpty
    <2>3. stock \in Int
      BY DEF TypeInv, TablesInv
    <2> QED
      BY <2>2, <2>3, SoldGoods DEF Accounted
  <1> QED
    BY <1>1, <1>2, <1>3, Safety, PTL DEF Spec

=============================================================================
