------------------------- MODULE OnlinePaymentProofs -------------------------
(***************************************************************************)
(* Types and safety of OnlinePayment, for any number of orders, workers    *)
(* and sales, any stock and any number of faults.                          *)
(***************************************************************************)
EXTENDS OnlinePayment, TLAPS

(* TypeOK is not inductive by itself: a worker in the middle of a request   *)
(* looks its order or its sale up in the tables, and its step is typed only *)
(* if that key is there.                                                    *)

KeyOK(s, sales) ==
    /\ s.pc \notin {"idle", "delete"} => s.order \in Orders
    /\ s.pc \in {"mark", "delete"} => s.trxID \in SaleIds
    /\ s.pc = "delete" => sales[s.trxID].state # "absent"

TablesInv ==
    /\ stock \in Nat
    /\ price \in Prices
    /\ payment \in [Orders -> PaymentRows]
    /\ sale \in [SaleIds -> SaleRows]
    /\ \A t \in SaleIds : sale[t].state # "absent" => sale[t].inv \in Invoices
    /\ gateway \in [Orders -> GatewayStates]
    /\ faults \in 0..MaxFaults

WorkersInv ==
    /\ worker \in [Workers -> WorkerStates]
    /\ \A w \in Workers : KeyOK(worker[w], sale)

TypeInv == TablesInv /\ WorkersInv

(* No step takes a row out of the transactions table or changes its number. *)
SalesStay ==
    \A t \in SaleIds : sale[t].state # "absent" =>
        sale'[t].state # "absent" /\ sale'[t].inv = sale[t].inv

LEMMA AtType ==
    ASSUME NEW p \in PCs, NEW o \in Orders \cup {NoOrder}
    PROVE  /\ At(p, o) \in WorkerStates
           /\ At(p, o).pc = p /\ At(p, o).order = o /\ At(p, o).trxID = NoSale
  BY DEF At, WorkerStates, GatewayWords

LEMMA IdleType == Idle \in WorkerStates /\ \A sales : KeyOK(Idle, sales)
  BY DEF Idle, At, WorkerStates, GatewayWords, PCs, KeyOK

(* A worker that moves to a well-formed state leaves all of them so.        *)
LEMMA GotoType ==
    ASSUME WorkersInv, NEW w \in Workers, NEW s \in WorkerStates, Goto(w, s),
           KeyOK(s, sale'), SalesStay
    PROVE  WorkersInv'
  <1>1. worker' \in [Workers -> WorkerStates]
    BY DEF WorkersInv, Goto
  <1>2. ASSUME NEW v \in Workers PROVE KeyOK(worker'[v], sale')
    <2>1. CASE v = w
      BY <2>1 DEF WorkersInv, Goto
    <2>2. CASE v # w
      <3>1. worker'[v] = worker[v] /\ KeyOK(worker[v], sale)
        BY <2>2 DEF WorkersInv, Goto
      <3> QED
        BY <3>1 DEF KeyOK, SalesStay
    <2> QED
      BY <2>1, <2>2
  <1> QED
    BY <1>1, <1>2 DEF WorkersInv

LEMMA DoneType ==
    ASSUME WorkersInv, NEW w \in Workers, Done(w), SalesStay
    PROVE  WorkersInv'
  BY IdleType, GotoType DEF Done

LEMMA SameSales == ASSUME UNCHANGED sale PROVE SalesStay
  BY DEF SalesStay

LEMMA UpdateType ==
    ASSUME TablesInv, NEW o \in Orders, NEW row \in PaymentRows,
           UpdateWithLock(o, row)
    PROVE  payment' \in [Orders -> PaymentRows] /\ stock' \in Nat
  <1>1. payment' \in [Orders -> PaymentRows]
    BY DEF TablesInv, UpdateWithLock
  <1>2. Qty[o] \in Nat /\ stock' \in {stock, stock + Qty[o]}
    BY PaymentAssumption DEF UpdateWithLock, Invoices
  <1> QED
    BY <1>1, <1>2 DEF TablesInv

LEMMA InsertType ==
    ASSUME TablesInv, NEW t \in SaleIds, NEW i \in Invoices, NEW p \in Nat,
           Insert(t, i, p)
    PROVE  /\ sale' \in [SaleIds -> SaleRows]
           /\ \A u \in SaleIds : sale'[u].state # "absent" => sale'[u].inv \in Invoices
           /\ SalesStay
  BY DEF TablesInv, Insert, SaleRows, SalesStay

LEMMA DeductType ==
    ASSUME TablesInv, NEW i \in Invoices, Deduct(i)
    PROVE  stock' \in Nat
  BY PaymentAssumption DEF TablesInv, Deduct

LEMMA InitTypeInv == ASSUME Init PROVE TypeInv
  <1>1. payment \in [Orders -> PaymentRows]
    BY DEF Init, PaymentRows, PaymentStatuses
  <1>2. sale \in [SaleIds -> SaleRows] /\ \A t \in SaleIds : sale[t].state = "absent"
    BY DEF Init, SaleRows
  <1>3. gateway \in [Orders -> GatewayStates]
    BY DEF Init, GatewayStates
  <1>4. stock \in Nat /\ price \in Prices /\ faults \in 0..MaxFaults
    BY PaymentAssumption DEF Init
  <1>5. WorkersInv
    BY IdleType DEF Init, WorkersInv
  <1> QED
    BY <1>1, <1>2, <1>3, <1>4, <1>5 DEF TypeInv, TablesInv

-----------------------------------------------------------------------------
(* One lemma per action: the tables first, then the worker that moved.      *)

LEMMA BuildOrderType ==
    ASSUME TypeInv, NEW w \in Workers, NEW o \in Orders, BuildOrder(w, o)
    PROVE  TypeInv'
  <1> DEFINE s == [At("reserve", o) EXCEPT !.unitPrice = price]
  <1>1. s \in WorkerStates /\ KeyOK(s, sale')
    BY PaymentAssumption DEF TypeInv, TablesInv, At, WorkerStates, PCs, GatewayWords, KeyOK
  <1>2. WorkersInv'
    BY <1>1, GotoType, SameSales DEF BuildOrder, TypeInv
  <1> QED
    BY <1>2 DEF TypeInv, TablesInv, BuildOrder

LEMMA ReserveType ==
    ASSUME TypeInv, NEW w \in Workers, Reserve(w)
    PROVE  TypeInv'
  <1> DEFINE o == worker[w].order
  <1>0. o \in Orders /\ worker[w] \in WorkerStates /\ KeyOK(worker[w], sale)
    BY DEF TypeInv, WorkersInv, KeyOK, In, Reserve
  <1>1. payment' \in [Orders -> PaymentRows]
    BY <1>0 DEF TypeInv, TablesInv, Reserve, PaymentRows, PaymentStatuses, WorkerStates
  <1>2. stock' \in Nat
    BY <1>0, DeductType DEF TypeInv, Reserve, Invoices
  <1>3. At("charge", o) \in WorkerStates /\ KeyOK(At("charge", o), sale')
    BY <1>0, AtType DEF PCs, KeyOK
  <1>4. WorkersInv'
    BY <1>3, GotoType, SameSales DEF Reserve, TypeInv
  <1> QED
    BY <1>1, <1>2, <1>4 DEF TypeInv, TablesInv, Reserve

LEMMA ReserveRefusedType ==
    ASSUME TypeInv, NEW w \in Workers, ReserveRefused(w)
    PROVE  TypeInv'
  <1>1. WorkersInv'
    BY DoneType, SameSales DEF ReserveRefused, TypeInv
  <1> QED
    BY <1>1 DEF TypeInv, TablesInv, ReserveRefused

LEMMA ChargeAcceptedType ==
    ASSUME TypeInv, NEW w \in Workers, ChargeAccepted(w)
    PROVE  TypeInv'
  <1> DEFINE o == worker[w].order
  <1>0. o \in Orders /\ worker[w] \in WorkerStates /\ KeyOK(worker[w], sale)
    BY DEF TypeInv, WorkersInv, KeyOK, In, ChargeAccepted
  <1>1. gateway' \in [Orders -> GatewayStates]
    BY <1>0 DEF TypeInv, TablesInv, ChargeAccepted, GatewayStates
  <1> DEFINE s == [At("apply", o) EXCEPT !.word = "settlement"]
  <1>2. s \in WorkerStates /\ KeyOK(s, sale')
    BY <1>0 DEF At, WorkerStates, PCs, GatewayWords, KeyOK
  <1>3. WorkersInv'
    BY <1>2, GotoType, DoneType, SameSales DEF ChargeAccepted, TypeInv
  <1> QED
    BY <1>1, <1>3 DEF TypeInv, TablesInv, ChargeAccepted

LEMMA ChargeRefusedType ==
    ASSUME TypeInv, NEW w \in Workers, ChargeRefused(w)
    PROVE  TypeInv'
  <1> DEFINE o == worker[w].order
  <1>0. o \in Orders /\ worker[w] \in WorkerStates /\ KeyOK(worker[w], sale)
    BY DEF TypeInv, WorkersInv, KeyOK, In, ChargeRefused
  <1>1. At("fail", o) \in WorkerStates /\ KeyOK(At("fail", o), sale')
    BY <1>0, AtType DEF PCs, KeyOK
  <1>2. WorkersInv'
    BY <1>1, GotoType, SameSales DEF ChargeRefused, TypeInv
  <1> QED
    BY <1>2 DEF TypeInv, TablesInv, ChargeRefused

LEMMA ChargeResponseLostType ==
    ASSUME TypeInv, NEW w \in Workers, ChargeResponseLost(w)
    PROVE  TypeInv'
  <1> DEFINE o == worker[w].order
  <1>0. o \in Orders /\ worker[w] \in WorkerStates /\ KeyOK(worker[w], sale)
    BY DEF TypeInv, WorkersInv, KeyOK, In, ChargeResponseLost
  <1>1. gateway' \in [Orders -> GatewayStates]
    BY <1>0 DEF TypeInv, TablesInv, ChargeResponseLost, GatewayStates
  <1>2. At("fail", o) \in WorkerStates /\ KeyOK(At("fail", o), sale')
    BY <1>0, AtType DEF PCs, KeyOK
  <1>3. WorkersInv'
    BY <1>2, GotoType, SameSales DEF ChargeResponseLost, TypeInv
  <1> QED
    BY <1>1, <1>3 DEF TypeInv, TablesInv, ChargeResponseLost

LEMMA FailPaymentType ==
    ASSUME TypeInv, NEW w \in Workers, FailPayment(w)
    PROVE  TypeInv'
  <1> DEFINE o == worker[w].order
  <1>0. o \in Orders /\ worker[w] \in WorkerStates /\ KeyOK(worker[w], sale)
    BY DEF TypeInv, WorkersInv, KeyOK, In, FailPayment
  <1>1. [payment[o] EXCEPT !.status = "failed", !.reserved = FALSE] \in PaymentRows
    BY <1>0 DEF TypeInv, TablesInv, PaymentRows, PaymentStatuses, Terminal
  <1>2. payment' \in [Orders -> PaymentRows] /\ stock' \in Nat
    BY <1>0, <1>1, UpdateType DEF TypeInv, FailPayment
  <1>3. WorkersInv'
    BY DoneType, SameSales DEF FailPayment, TypeInv
  <1> QED
    BY <1>2, <1>3 DEF TypeInv, TablesInv, FailPayment

LEMMA HandleNotificationType ==
    ASSUME TypeInv, NEW w \in Workers, NEW o \in Orders, HandleNotification(w, o)
    PROVE  TypeInv'
  <1>1. PICK word \in Sent(o) : Goto(w, [At("verify", o) EXCEPT !.word = word])
    BY DEF HandleNotification
  <1>2. word \in GatewayWords
    BY <1>1 DEF TypeInv, TablesInv, Sent, Reported, GatewayStates, GatewayWords
  <1> DEFINE s == [At("verify", o) EXCEPT !.word = word]
  <1>3. s \in WorkerStates /\ KeyOK(s, sale')
    BY <1>2 DEF At, WorkerStates, PCs, KeyOK
  <1>4. WorkersInv'
    BY <1>1, <1>3, GotoType, SameSales DEF HandleNotification, TypeInv
  <1> QED
    BY <1>4 DEF TypeInv, TablesInv, HandleNotification

LEMMA CheckStatusType ==
    ASSUME TypeInv, NEW w \in Workers, CheckStatus(w)
    PROVE  TypeInv'
  <1> DEFINE o == worker[w].order
  <1>0. o \in Orders /\ worker[w] \in WorkerStates /\ KeyOK(worker[w], sale)
    BY DEF TypeInv, WorkersInv, KeyOK, In, CheckStatus
  <1> DEFINE s == [At("apply", o) EXCEPT !.word = Reported(o)]
  <1>1. s \in WorkerStates /\ KeyOK(s, sale')
    BY <1>0 DEF TypeInv, TablesInv, Reported, GatewayStates, GatewayWords, At, WorkerStates,
                PCs, KeyOK
  <1>2. WorkersInv'
    BY <1>1, GotoType, SameSales DEF CheckStatus, TypeInv
  <1> QED
    BY <1>2 DEF TypeInv, TablesInv, CheckStatus

LEMMA CheckStatusFailedType ==
    ASSUME TypeInv, NEW w \in Workers, CheckStatusFailed(w)
    PROVE  TypeInv'
  <1> DEFINE o == worker[w].order
  <1>0. o \in Orders /\ worker[w] \in WorkerStates /\ KeyOK(worker[w], sale)
    BY DEF TypeInv, WorkersInv, KeyOK, In, CheckStatusFailed
  <1> DEFINE s == [worker[w] EXCEPT !.pc = "apply"]
  <1>1. s \in WorkerStates /\ KeyOK(s, sale')
    BY <1>0 DEF WorkerStates, PCs, KeyOK
  <1>2. WorkersInv'
    BY <1>1, IdleType, GotoType, SameSales DEF CheckStatusFailed, TypeInv
  <1>3. faults' \in 0..MaxFaults
    BY PaymentAssumption DEF TypeInv, TablesInv, CheckStatusFailed
  <1> QED
    BY <1>2, <1>3 DEF TypeInv, TablesInv, CheckStatusFailed

LEMMA ApplyAuthoritativeStatusType ==
    ASSUME TypeInv, NEW w \in Workers, ApplyAuthoritativeStatus(w)
    PROVE  TypeInv'
  <1> DEFINE o == worker[w].order
  <1>0. o \in Orders /\ worker[w] \in WorkerStates /\ KeyOK(worker[w], sale)
    BY DEF TypeInv, WorkersInv, KeyOK, In, ApplyAuthoritativeStatus
  <1> DEFINE row == AuthoritativeRow(payment[o], worker[w].word)
  <1>1. row \in PaymentRows
    <2>1. payment[o] \in PaymentRows
      BY <1>0 DEF TypeInv, TablesInv
    <2>2. MapInternalStatus(worker[w].word) \in {"success", "failed", "expired", "pending"}
      BY DEF MapInternalStatus
    <2> QED
      BY <2>1, <2>2 DEF AuthoritativeRow, PaymentRows, PaymentStatuses, Terminal
  <1>2. payment' \in [Orders -> PaymentRows] /\ stock' \in Nat
    BY <1>0, <1>1, UpdateType DEF TypeInv, TablesInv, ApplyAuthoritativeStatus
  <1>3. At("load", o) \in WorkerStates /\ KeyOK(At("load", o), sale')
    BY <1>0, AtType DEF PCs, KeyOK
  <1>4. WorkersInv'
    BY <1>3, IdleType, GotoType, DoneType, SameSales DEF ApplyAuthoritativeStatus, TypeInv
  <1> QED
    BY <1>2, <1>4 DEF TypeInv, TablesInv, ApplyAuthoritativeStatus

LEMMA LoadType ==
    ASSUME TypeInv, NEW w \in Workers, Load(w)
    PROVE  TypeInv'
  <1> DEFINE o == worker[w].order
  <1>0. o \in Orders /\ worker[w] \in WorkerStates /\ KeyOK(worker[w], sale)
    BY DEF TypeInv, WorkersInv, KeyOK, In, Load
  <1> DEFINE s == [At("lookup", o) EXCEPT !.reserved = payment[o].reserved,
                                         !.unitPrice = payment[o].unitPrice]
  <1>1. s \in WorkerStates /\ KeyOK(s, sale')
    BY <1>0 DEF TypeInv, TablesInv, PaymentRows, At, WorkerStates, PCs, GatewayWords, KeyOK
  <1>2. WorkersInv'
    BY <1>1, IdleType, GotoType, SameSales DEF Load, TypeInv
  <1> QED
    BY <1>2 DEF TypeInv, TablesInv, Load

(* The state every path into MarkSuccess reaches.                           *)
LEMMA MarkStateType ==
    ASSUME NEW o \in Orders, NEW t \in SaleIds
    PROVE  LET s == [At("mark", o) EXCEPT !.trxID = t] IN
           s \in WorkerStates /\ \A sales : KeyOK(s, sales)
  BY DEF At, WorkerStates, PCs, GatewayWords, KeyOK

LEMMA SaleFoundType ==
    ASSUME TypeInv, NEW w \in Workers, SaleFound(w)
    PROVE  TypeInv'
  <1> DEFINE o == worker[w].order
  <1>0. o \in Orders /\ worker[w] \in WorkerStates /\ KeyOK(worker[w], sale)
    BY DEF TypeInv, WorkersInv, KeyOK, In, SaleFound
  <1>1. PICK t \in SaleIds : Goto(w, [At("mark", o) EXCEPT !.trxID = t])
    BY DEF SaleFound
  <1>2. WorkersInv'
    BY <1>0, <1>1, MarkStateType, GotoType, SameSales DEF SaleFound, TypeInv
  <1> QED
    BY <1>2 DEF TypeInv, TablesInv, SaleFound

LEMMA SaleMissingType ==
    ASSUME TypeInv, NEW w \in Workers, SaleMissing(w)
    PROVE  TypeInv'
  <1> DEFINE o == worker[w].order
  <1>0. o \in Orders /\ worker[w] \in WorkerStates /\ KeyOK(worker[w], sale)
    BY DEF TypeInv, WorkersInv, KeyOK, In, SaleMissing
  <1> DEFINE s == [worker[w] EXCEPT !.pc = "create"]
  <1>1. s \in WorkerStates /\ KeyOK(s, sale')
    BY <1>0 DEF WorkerStates, PCs, KeyOK
  <1>2. WorkersInv'
    BY <1>1, GotoType, SameSales DEF SaleMissing, TypeInv
  <1> QED
    BY <1>2 DEF TypeInv, TablesInv, SaleMissing

LEMMA AddPrepaidTransactionType ==
    ASSUME TypeInv, NEW w \in Workers, AddPrepaidTransaction(w)
    PROVE  TypeInv'
  <1> DEFINE o == worker[w].order
  <1>0. o \in Orders /\ worker[w] \in WorkerStates /\ KeyOK(worker[w], sale)
    BY DEF TypeInv, WorkersInv, KeyOK, In, AddPrepaidTransaction
  <1> DEFINE p == SalePrice(worker[w].unitPrice)
  <1>1. p \in Nat
    BY <1>0, PaymentAssumption DEF TypeInv, TablesInv, SalePrice, WorkerStates
  <1>2. PICK t \in SaleIds : Insert(t, o, p) /\ Goto(w, [At("mark", o) EXCEPT !.trxID = t])
    BY DEF AddPrepaidTransaction
  <1>3. /\ sale' \in [SaleIds -> SaleRows]
        /\ \A u \in SaleIds : sale'[u].state # "absent" => sale'[u].inv \in Invoices
        /\ SalesStay
    BY <1>0, <1>1, <1>2, InsertType DEF TypeInv, Invoices
  <1>4. WorkersInv'
    BY <1>0, <1>2, <1>3, MarkStateType, GotoType DEF TypeInv
  <1> QED
    BY <1>3, <1>4 DEF TypeInv, TablesInv, AddPrepaidTransaction

LEMMA AddUnreservedTransactionType ==
    ASSUME TypeInv, NEW w \in Workers, AddUnreservedTransaction(w)
    PROVE  TypeInv'
  <1> DEFINE o == worker[w].order
  <1>0. o \in Orders /\ worker[w] \in WorkerStates /\ KeyOK(worker[w], sale)
    BY DEF TypeInv, WorkersInv, KeyOK, In, AddUnreservedTransaction
  <1>1. CASE Deduct(o) /\ \E t \in SaleIds : /\ Insert(t, o, price)
                                             /\ Goto(w, [At("mark", o) EXCEPT !.trxID = t])
    <2>1. PICK t \in SaleIds : /\ Insert(t, o, price)
                               /\ Goto(w, [At("mark", o) EXCEPT !.trxID = t])
      BY <1>1
    <2>2. /\ sale' \in [SaleIds -> SaleRows]
          /\ \A u \in SaleIds : sale'[u].state # "absent" => sale'[u].inv \in Invoices
          /\ SalesStay
      BY <1>0, <2>1, InsertType, PaymentAssumption DEF TypeInv, TablesInv, Invoices
    <2>3. stock' \in Nat
      BY <1>0, <1>1, DeductType DEF TypeInv, Invoices
    <2>4. WorkersInv'
      BY <1>0, <2>1, <2>2, MarkStateType, GotoType DEF TypeInv
    <2> QED
      BY <2>2, <2>3, <2>4 DEF TypeInv, TablesInv, AddUnreservedTransaction
  <1>2. CASE Done(w) /\ UNCHANGED <<stock, sale>>
    <2>1. WorkersInv'
      BY <1>2, DoneType, SameSales DEF TypeInv
    <2> QED
      BY <1>2, <2>1 DEF TypeInv, TablesInv, AddUnreservedTransaction
  <1> QED
    BY <1>1, <1>2 DEF AddUnreservedTransaction

LEMMA MarkSuccessType ==
    ASSUME TypeInv, NEW w \in Workers, MarkSuccess(w)
    PROVE  TypeInv'
  <1> DEFINE o == worker[w].order
  <1>0. o \in Orders /\ worker[w] \in WorkerStates /\ KeyOK(worker[w], sale)
    BY DEF TypeInv, WorkersInv, KeyOK, In, MarkSuccess
  <1>1. SettledRow(payment[o], worker[w].trxID) \in PaymentRows
    <2>1. worker[w].trxID \in SaleIds /\ payment[o] \in PaymentRows
      BY <1>0 DEF TypeInv, TablesInv, KeyOK, In, MarkSuccess
    <2> QED
      BY <2>1 DEF SettledRow, PaymentRows, PaymentStatuses, Terminal
  <1>2. payment' \in [Orders -> PaymentRows] /\ stock' \in Nat
    BY <1>0, <1>1, UpdateType DEF TypeInv, TablesInv, MarkSuccess
  <1>3. WorkersInv'
    BY DoneType, SameSales DEF MarkSuccess, TypeInv
  <1> QED
    BY <1>2, <1>3 DEF TypeInv, TablesInv, MarkSuccess

LEMMA SweepType ==
    ASSUME TypeInv, NEW o \in Orders, SweepSettling(o) \/ SweepStale(o)
    PROVE  TypeInv'
  <1>1. /\ At("load", o) \in WorkerStates /\ KeyOK(At("load", o), sale')
        /\ At("verify", o) \in WorkerStates /\ KeyOK(At("verify", o), sale')
    BY AtType DEF PCs, KeyOK
  <1>2. WorkersInv'
    BY <1>1, GotoType, SameSales DEF SweepSettling, SweepStale, TypeInv, Workers
  <1> QED
    BY <1>2 DEF TypeInv, TablesInv, SweepSettling, SweepStale

LEMMA CounterSaleType ==
    ASSUME TypeInv, NEW i \in Counter, CounterSale(i)
    PROVE  TypeInv'
  <1>1. PICK t \in SaleIds : Insert(t, i, price)
    BY DEF CounterSale
  <1>2. /\ sale' \in [SaleIds -> SaleRows]
        /\ \A u \in SaleIds : sale'[u].state # "absent" => sale'[u].inv \in Invoices
        /\ SalesStay
    BY <1>1, InsertType, PaymentAssumption DEF TypeInv, TablesInv, Invoices
  <1>3. stock' \in Nat
    BY DeductType DEF TypeInv, CounterSale, Invoices
  <1>4. WorkersInv'
    BY <1>2 DEF TypeInv, WorkersInv, CounterSale, KeyOK, SalesStay
  <1> QED
    BY <1>2, <1>3, <1>4 DEF TypeInv, TablesInv, CounterSale

LEMMA AssertDeletableType ==
    ASSUME TypeInv, NEW w \in Workers, NEW t \in SaleIds, AssertDeletable(w, t)
    PROVE  TypeInv'
  <1> DEFINE s == [Idle EXCEPT !.pc = "delete", !.trxID = t]
  <1>1. s \in WorkerStates /\ KeyOK(s, sale')
    BY DEF AssertDeletable, Idle, At, WorkerStates, PCs, GatewayWords, KeyOK
  <1>2. WorkersInv'
    BY <1>1, GotoType, SameSales DEF AssertDeletable, TypeInv
  <1> QED
    BY <1>2 DEF TypeInv, TablesInv, AssertDeletable

LEMMA DeleteTransactionType ==
    ASSUME TypeInv, NEW w \in Workers, DeleteTransaction(w)
    PROVE  TypeInv'
  <1> DEFINE t == worker[w].trxID
  <1>0. t \in SaleIds /\ sale[t].state # "absent" /\ sale[t].inv \in Invoices
    BY DEF TypeInv, TablesInv, WorkersInv, KeyOK, In, DeleteTransaction
  <1>1. /\ sale' \in [SaleIds -> SaleRows]
        /\ \A u \in SaleIds : sale'[u].state # "absent" => sale'[u].inv \in Invoices
        /\ SalesStay
    BY <1>0 DEF TypeInv, TablesInv, DeleteTransaction, SaleRows, SalesStay
  <1>2. stock' \in Nat
    BY <1>0, PaymentAssumption DEF TypeInv, TablesInv, DeleteTransaction
  <1>3. WorkersInv'
    BY <1>1, DoneType DEF DeleteTransaction, TypeInv
  <1> QED
    BY <1>1, <1>2, <1>3 DEF TypeInv, TablesInv, DeleteTransaction

LEMMA EnvironmentType ==
    ASSUME TypeInv, UpdatePrice \/ \E o \in Orders : BuyerPays(o) \/ GatewayCloses(o)
    PROVE  TypeInv'
  <1>1. WorkersInv'
    BY DEF TypeInv, WorkersInv, KeyOK, UpdatePrice, BuyerPays, GatewayCloses
  <1>2. gateway' \in [Orders -> GatewayStates]
    BY DEF TypeInv, TablesInv, GatewayStates, UpdatePrice, BuyerPays, GatewayCloses
  <1> QED
    BY <1>1, <1>2 DEF TypeInv, TablesInv, UpdatePrice, BuyerPays, GatewayCloses

LEMMA AbortType ==
    ASSUME TypeInv, NEW w \in Workers, Abort(w)
    PROVE  TypeInv'
  <1>1. WorkersInv'
    BY DoneType, SameSales DEF Abort, TypeInv
  <1>2. faults' \in 0..MaxFaults
    BY PaymentAssumption DEF TypeInv, TablesInv, Abort
  <1> QED
    BY <1>1, <1>2 DEF TypeInv, TablesInv, Abort

LEMMA NextSalesStay == ASSUME TypeInv, [Next]_vars PROVE SalesStay
  <1>1. ASSUME NEW t \in SaleIds, NEW i, NEW p, Insert(t, i, p) PROVE SalesStay
    BY <1>1 DEF SalesStay, Insert, TypeInv, TablesInv
  <1>2. ASSUME NEW w \in Workers, DeleteTransaction(w) PROVE SalesStay
    <2>1. sale \in [SaleIds -> SaleRows]
      BY DEF TypeInv, TablesInv
    <2> QED
      BY <1>2, <2>1 DEF SalesStay, DeleteTransaction, SaleRows
  <1>3. CASE UNCHANGED sale
    BY <1>3 DEF SalesStay
  <1>4. ASSUME NEW w \in Workers, Step(w) PROVE SalesStay
    BY <1>1, <1>2, <1>3, <1>4 DEF Step, Reserve, ReserveRefused, ChargeAccepted, ChargeRefused,
       ChargeResponseLost, FailPayment, CheckStatus, CheckStatusFailed,
       ApplyAuthoritativeStatus, Load, SaleFound, SaleMissing, AddPrepaidTransaction,
       AddUnreservedTransaction, MarkSuccess
  <1> QED
    BY <1>1, <1>3, <1>4 DEF Next, vars, Abort, BuildOrder, HandleNotification, AssertDeletable,
       SweepSettling, SweepStale, BuyerPays, GatewayCloses, CounterSale, UpdatePrice

LEMMA NextTypeInv == ASSUME TypeInv, [Next]_vars PROVE TypeInv'
  <1>1. ASSUME NEW w \in Workers, Step(w) PROVE TypeInv'
    BY <1>1, ReserveType, ReserveRefusedType, ChargeAcceptedType, ChargeRefusedType,
       ChargeResponseLostType, FailPaymentType, CheckStatusType, CheckStatusFailedType,
       ApplyAuthoritativeStatusType, LoadType, SaleFoundType, SaleMissingType,
       AddPrepaidTransactionType, AddUnreservedTransactionType, MarkSuccessType,
       DeleteTransactionType DEF Step
  <1>2. CASE UNCHANGED vars
    BY <1>2 DEF vars, TypeInv, TablesInv, WorkersInv, KeyOK
  <1>3. CASE Next
    BY <1>1, <1>3, AbortType, BuildOrderType, HandleNotificationType, AssertDeletableType,
       SweepType, EnvironmentType, CounterSaleType DEF Next
  <1> QED
    BY <1>2, <1>3

(* The tables stay typed, stock never goes below zero and no worker ever    *)
(* looks up a row that is not there.                                        *)
THEOREM TypeCorrect == Spec => []TypeOK
  <1>1. Init => TypeInv
    BY InitTypeInv
  <1>2. TypeInv /\ [Next]_vars => TypeInv'
    BY NextTypeInv
  <1>3. TypeInv => TypeOK
    BY DEF TypeInv, TablesInv, WorkersInv, TypeOK
  <1> QED
    BY <1>1, <1>2, <1>3, PTL DEF Spec

-----------------------------------------------------------------------------

(* Safety.  The properties of OnlinePayment follow from an invariant that   *)
(* ties the three places an order lives in together: its payment row, its   *)
(* sale, and what the gateway knows of it; and that says, for each point of *)
(* each request, what the worker may still rely on although others have     *)
(* moved since it last looked.                                              *)

Settled(o) == payment[o].status \in {"settling", "success"}

(* A row is settled only if the gateway settled; a refused one can no       *)
(* longer be paid; goods are reserved exactly while the order is open.      *)
OrderInv(o) ==
    /\ Settled(o) => gateway[o] = "settlement"
    /\ payment[o].status \in {"failed", "expired"} => gateway[o] \notin {"pending", "settlement"}
    /\ payment[o].reserved <=> payment[o].status \in {"pending", "settling"}
    /\ payment[o].trxID # NoSale <=> payment[o].status = "success"
    /\ payment[o].status = "success" => IsSaleOf(payment[o].trxID, o)
    /\ payment[o].status = "none" => gateway[o] = "none"

(* A sale of an online order exists only once the order is claimed, is      *)
(* never deleted, and is the only one.                                      *)
SaleInv(t) ==
    /\ sale[t].inv \in Orders => sale[t].state = "live" /\ Settled(sale[t].inv)
    /\ sale[t].state = "absent" => sale[t].inv = NoOrder
    /\ \A u \in SaleIds : sale[t].state = "live" /\ sale[u].state = "live"
                            /\ sale[t].inv = sale[u].inv => t = u

(* What holds at each point of a request.  The order being charged has one  *)
(* worker; a verdict of the gateway in a worker's hands is the final one; a *)
(* worker that finalizes has a settled order that still holds its goods.    *)
WorkerInv(w) ==
    LET pc == worker[w].pc
        o  == worker[w].order
    IN
    /\ pc = "charge" => payment[o].status = "pending" /\ gateway[o] = "none"
    /\ pc = "fail" =>
        /\ gateway[o] = "none" => payment[o].status = "pending"
        /\ gateway[o] # "none" => LostResponse /\ gateway[o] \in {"unseen", "expire"}
    /\ pc \in {"charge", "fail"} => \A v \in Workers \ {w} :
            ~(worker[v].pc \in {"charge", "fail"} /\ worker[v].order = o)
    /\ pc \in {"verify", "apply"} =>
        /\ payment[o].status # "none"
        /\ worker[w].word = "settlement" => gateway[o] = "settlement"
        /\ worker[w].word \in {"deny", "expire"} => gateway[o] = worker[w].word
        /\ pc = "apply" \/ w # Sweeper => gateway[o] # "none"
    /\ pc \in {"load", "lookup", "create", "mark"} => Settled(o)
    /\ pc \in {"lookup", "create"} => worker[w].reserved
    /\ pc = "mark" => IsSaleOf(worker[w].trxID, o)
    /\ pc = "delete" => sale[worker[w].trxID].inv \notin Orders

SafetyInv ==
    /\ \A o \in Orders : OrderInv(o)
    /\ \A t \in SaleIds : SaleInv(t)
    /\ \A w \in Workers : WorkerInv(w)

-----------------------------------------------------------------------------
(* What a step may do to the tables behind the back of other workers.       *)

Forward ==
    /\ \A o \in Orders :
        /\ gateway[o] # "none" => gateway'[o] # "none"
        /\ gateway[o] \in {"settlement", "deny", "expire"} => gateway'[o] = gateway[o]
        /\ payment[o].status # "none" => payment'[o].status # "none"
        /\ Settled(o) => Settled(o)'
        /\ \A t \in SaleIds : IsSaleOf(t, o) => IsSaleOf(t, o)'
    /\ \A t \in SaleIds : sale[t].state # "absent" => sale'[t].inv = sale[t].inv

Charging(k) == k.pc \in {"charge", "fail"}

(* An order that worker v is charging is left as it is.                     *)
Undisturbed(v) ==
    LET o == worker[v].order IN
    Charging(worker[v]) =>
        /\ gateway'[o] = gateway[o] \/ (gateway[o] = "unseen" /\ gateway'[o] = "expire")
        /\ gateway[o] = "none" => payment'[o].status = payment[o].status

LEMMA OthersKeep ==
    ASSUME TypeInv, SafetyInv, Forward, NEW v \in Workers, worker'[v] = worker[v],
           Undisturbed(v),
           Charging(worker[v]) => \A u \in Workers \ {v} :
                ~(Charging(worker'[u]) /\ worker'[u].order = worker[v].order)
    PROVE  WorkerInv(v)'
  <1> DEFINE k == worker[v]
  <1>0. WorkerInv(v) /\ KeyOK(k, sale)
    BY DEF SafetyInv, TypeInv, WorkersInv
  <1>1. CASE k.pc \in {"charge", "fail"}
    <2>1. k.order \in Orders
      BY <1>0, <1>1 DEF KeyOK
    <2> QED
      BY <1>0, <1>1, <2>1 DEF WorkerInv, Undisturbed, Charging, OrderInv, SafetyInv
  <1>2. CASE k.pc \in {"verify", "apply", "load", "lookup", "create", "mark"}
    <2>1. k.order \in Orders /\ (k.pc = "mark" => k.trxID \in SaleIds)
      BY <1>0, <1>2 DEF KeyOK
    <2> QED
      BY <1>0, <1>2, <2>1 DEF WorkerInv, Forward
  <1>3. CASE k.pc = "delete"
    BY <1>0, <1>3 DEF WorkerInv, Forward, KeyOK
  <1>4. CASE k.pc \in {"idle", "reserve"}
    BY <1>4 DEF WorkerInv
  <1> QED
    BY <1>1, <1>2, <1>3, <1>4 DEF TypeInv, WorkersInv, WorkerStates, PCs

(* A worker's step keeps the invariant if it keeps it for the tables and    *)
(* for itself, and starts no second charge.                                 *)
LEMMA StepKeeps ==
    ASSUME TypeInv, SafetyInv, NEW w \in Workers, NEW s \in WorkerStates, Goto(w, s),
           \A o \in Orders : OrderInv(o)', \A t \in SaleIds : SaleInv(t)', Forward,
           WorkerInv(w)',
           \A v \in Workers \ {w} : Undisturbed(v),
           Charging(s) => \A v \in Workers \ {w} :
                ~(Charging(worker[v]) /\ worker[v].order = s.order)
    PROVE  SafetyInv'
  <1>1. ASSUME NEW v \in Workers, v # w PROVE WorkerInv(v)'
    <2>1. /\ worker'[w] = s
          /\ \A u \in Workers \ {w} : worker'[u] = worker[u]
      BY DEF Goto, TypeInv, WorkersInv
    <2>2. Charging(worker[v]) => \A u \in Workers \ {v} :
                ~(Charging(worker'[u]) /\ worker'[u].order = worker[v].order)
      BY <1>1, <2>1 DEF SafetyInv, WorkerInv, Charging
    <2> QED
      BY <1>1, <2>1, <2>2, OthersKeep
  <1> QED
    BY <1>1 DEF SafetyInv

(* Steps that change one payment row, and steps that change one charge.     *)
LEMMA PaymentStep ==
    ASSUME TypeInv, SafetyInv, NEW o \in Orders, NEW row \in PaymentRows,
           payment' = [payment EXCEPT ![o] = row], UNCHANGED <<sale, gateway>>,
           OrderInv(o)', row.status # "none", Settled(o) => row.status \in {"settling", "success"}
    PROVE  /\ \A q \in Orders : OrderInv(q)'
           /\ \A t \in SaleIds : SaleInv(t)'
           /\ Forward
  <1>1. payment'[o] = row /\ \A q \in Orders \ {o} : payment'[q] = payment[q]
    BY DEF TypeInv, TablesInv
  <1>2. ASSUME NEW q \in Orders, q # o PROVE OrderInv(q)'
    BY <1>1, <1>2 DEF SafetyInv, OrderInv, Settled, IsSaleOf
  <1>3. Forward
    BY <1>1 DEF Forward, Settled, IsSaleOf
  <1>4. ASSUME NEW t \in SaleIds PROVE SaleInv(t)'
    BY <1>3 DEF SafetyInv, SaleInv, Forward
  <1> QED
    BY <1>2, <1>3, <1>4

LEMMA GatewayStep ==
    ASSUME TypeInv, SafetyInv, NEW o \in Orders, NEW g,
           gateway' = [gateway EXCEPT ![o] = g], UNCHANGED <<sale, payment>>,
           gateway[o] \in {"none", "unseen", "pending"}, g # "none",
           payment[o].status \in {"failed", "expired"} => g \notin {"pending", "settlement"},
           payment[o].status # "none"
    PROVE  /\ \A q \in Orders : OrderInv(q)'
           /\ \A t \in SaleIds : SaleInv(t)'
           /\ Forward
  <1>1. gateway'[o] = g /\ \A q \in Orders \ {o} : gateway'[q] = gateway[q]
    BY DEF TypeInv, TablesInv
  <1>2. ASSUME NEW q \in Orders PROVE OrderInv(q)'
    BY <1>1 DEF SafetyInv, OrderInv, Settled, IsSaleOf
  <1>3. Forward
    BY <1>1 DEF Forward, Settled, IsSaleOf
  <1>4. ASSUME NEW t \in SaleIds PROVE SaleInv(t)'
    BY <1>3 DEF SafetyInv, SaleInv, Forward
  <1> QED
    BY <1>2, <1>3, <1>4

(* Steps that only move the worker.                                         *)
LEMMA QuietStep ==
    ASSUME TypeInv, SafetyInv, UNCHANGED <<payment, sale, gateway>>
    PROVE  /\ \A o \in Orders : OrderInv(o)'
           /\ \A t \in SaleIds : SaleInv(t)'
           /\ Forward
           /\ \A v \in Workers : Undisturbed(v)
  <1>1. \A o \in Orders : OrderInv(o)'
    BY DEF SafetyInv, OrderInv, Settled, IsSaleOf
  <1>2. Forward /\ \A v \in Workers : Undisturbed(v)
    BY DEF Forward, Undisturbed, Settled, IsSaleOf
  <1>3. \A t \in SaleIds : SaleInv(t)'
    BY DEF SafetyInv, SaleInv, Settled
  <1> QED
    BY <1>1, <1>2, <1>3

LEMMA IdleSafe ==
    ASSUME NEW w \in Workers, worker'[w] = Idle
    PROVE  WorkerInv(w)' /\ ~Charging(Idle)
  BY DEF WorkerInv, Idle, At, Charging

LEMMA InitSafetyInv == ASSUME Init PROVE SafetyInv
  <1>1. \A o \in Orders : OrderInv(o)
    BY DEF Init, OrderInv, Settled, IsSaleOf
  <1>2. \A t \in SaleIds : SaleInv(t)
    BY PaymentAssumption DEF Init, SaleInv, Settled
  <1>3. \A w \in Workers : WorkerInv(w)
    BY DEF Init, WorkerInv, Idle, At
  <1> QED
    BY <1>1, <1>2, <1>3 DEF SafetyInv

LEMMA GotoEffect ==
    ASSUME TypeInv, NEW w \in Workers, NEW s, Goto(w, s)
    PROVE  worker'[w] = s
  BY DEF TypeInv, WorkersInv, Goto

(* Every request that ends in a step which moves only the worker.           *)
LEMMA QuietDone ==
    ASSUME TypeInv, SafetyInv, NEW w \in Workers, Done(w), UNCHANGED <<payment, sale, gateway>>
    PROVE  SafetyInv'
  <1>1. worker'[w] = Idle
    BY GotoEffect DEF Done
  <1> QED
    BY <1>1, QuietStep, IdleSafe, IdleType, StepKeeps DEF Done

-----------------------------------------------------------------------------
(* One lemma per action.                                                    *)

(* The theorems hold where counter invoices are not order ids, and where an *)
(* accepted charge that settles at once is not reported as an error.  Where *)
(* either happens, TLC shows what goes wrong.                               *)
SafeSetting == Orders \cap Counter = {} /\ ~(SyncSettle /\ LostResponse)

LEMMA BuildOrderSafe ==
    ASSUME TypeInv, SafetyInv, NEW w \in Workers, NEW o \in Orders, BuildOrder(w, o)
    PROVE  SafetyInv'
  <1> DEFINE s == [At("reserve", o) EXCEPT !.unitPrice = price]
  <1>1. s \in WorkerStates /\ ~Charging(s)
    BY PaymentAssumption DEF TypeInv, TablesInv, At, WorkerStates, PCs, GatewayWords, Charging
  <1>2. worker'[w] = s
    BY GotoEffect DEF BuildOrder
  <1>3. WorkerInv(w)'
    BY <1>2 DEF WorkerInv, At
  <1> QED
    BY <1>1, <1>2, <1>3, QuietStep, StepKeeps DEF BuildOrder

LEMMA ReserveSafe ==
    ASSUME TypeInv, SafetyInv, NEW w \in Workers, Reserve(w)
    PROVE  SafetyInv'
  <1>a. worker[w].order \in Orders
    BY DEF TypeInv, WorkersInv, KeyOK, In, Reserve
  <1>b. PICK o \in Orders : o = worker[w].order
    BY <1>a
  <1>0. /\ o = worker[w].order /\ o \in Orders
        /\ worker[w] \in WorkerStates /\ WorkerInv(w) /\ OrderInv(o)
    BY <1>b DEF TypeInv, WorkersInv, SafetyInv
  <1> DEFINE s   == At("charge", o)
             row == [status |-> "pending", reserved |-> TRUE, trxID |-> NoSale,
                     unitPrice |-> worker[w].unitPrice]
  <1>1. s \in WorkerStates /\ s.pc = "charge" /\ s.order = o
    BY <1>0, AtType DEF PCs
  <1>2. worker'[w] = s
    BY <1>0, GotoEffect DEF Reserve
  <1>3. payment'[o] = row /\ payment[o].status = "none" /\ gateway'[o] = "none"
    BY <1>0 DEF TypeInv, TablesInv, Reserve, OrderInv
  <1>4. OrderInv(o)'
    BY <1>3 DEF OrderInv, Settled
  <1>5. row \in PaymentRows
    BY <1>0 DEF PaymentRows, PaymentStatuses, WorkerStates
  <1>6. /\ \A q \in Orders : OrderInv(q)'
        /\ \A t \in SaleIds : SaleInv(t)'
        /\ Forward
    <2>1. payment' = [payment EXCEPT ![o] = row] /\ UNCHANGED <<sale, gateway>>
      BY <1>0 DEF Reserve
    <2>2. row.status # "none" /\ ~Settled(o)
      BY <1>3 DEF Settled
    <2> QED
      BY <1>0, <1>4, <1>5, <2>1, <2>2, PaymentStep
  <1>7. ASSUME NEW v \in Workers \ {w}
        PROVE  Undisturbed(v) /\ ~(Charging(worker[v]) /\ worker[v].order = o)
    <2>1. ~(Charging(worker[v]) /\ worker[v].order = o)
      BY <1>0, <1>3 DEF SafetyInv, WorkerInv, Charging, OrderInv, Reserve
    <2> QED
      BY <1>0, <2>1 DEF Undisturbed, Reserve, TypeInv, TablesInv
  <1>8. WorkerInv(w)'
    <2>1. ASSUME NEW v \in Workers \ {w}
          PROVE  ~(Charging(worker'[v]) /\ worker'[v].order = o)
      BY <1>7 DEF Reserve, Goto, TypeInv, WorkersInv
    <2> QED
      BY <1>1, <1>2, <1>3, <2>1 DEF WorkerInv, Charging
  <1> QED
    BY <1>0, <1>1, <1>6, <1>7, <1>8, StepKeeps DEF Reserve

LEMMA ReserveRefusedSafe ==
    ASSUME TypeInv, SafetyInv, NEW w \in Workers, ReserveRefused(w)
    PROVE  SafetyInv'
  BY QuietDone DEF ReserveRefused

LEMMA HandleNotificationSafe ==
    ASSUME TypeInv, SafetyInv, NEW w \in Workers, NEW o \in Orders, HandleNotification(w, o)
    PROVE  SafetyInv'
  <1>1. PICK word \in Sent(o) : Goto(w, [At("verify", o) EXCEPT !.word = word])
    BY DEF HandleNotification
  <1> DEFINE s == [At("verify", o) EXCEPT !.word = word]
  <1>2. s \in WorkerStates /\ ~Charging(s)
    BY <1>1 DEF TypeInv, TablesInv, Sent, Reported, GatewayStates, GatewayWords, At,
                WorkerStates, PCs, Charging
  <1>3. worker'[w] = s
    BY <1>1, GotoEffect
  <1>4. /\ gateway[o] # "none" /\ payment[o].status # "none"
        /\ word \in {"settlement", "deny", "expire"} => gateway[o] = word
    BY <1>1 DEF HandleNotification, Sent, Reported
  <1>5. WorkerInv(w)'
    BY <1>3, <1>4 DEF WorkerInv, At, HandleNotification
  <1> QED
    BY <1>1, <1>2, <1>5, QuietStep, StepKeeps DEF HandleNotification

LEMMA CheckStatusSafe ==
    ASSUME TypeInv, SafetyInv, NEW w \in Workers, CheckStatus(w)
    PROVE  SafetyInv'
  <1>a. worker[w].order \in Orders
    BY DEF TypeInv, WorkersInv, KeyOK, In, CheckStatus
  <1>b. PICK o \in Orders : o = worker[w].order
    BY <1>a
  <1>0. /\ o = worker[w].order /\ o \in Orders
        /\ worker[w] \in WorkerStates /\ WorkerInv(w) /\ OrderInv(o)
    BY <1>b DEF TypeInv, WorkersInv, SafetyInv
  <1> DEFINE s == [At("apply", o) EXCEPT !.word = Reported(o)]
  <1>1. s \in WorkerStates /\ ~Charging(s)
    BY <1>0 DEF TypeInv, TablesInv, Reported, GatewayStates, GatewayWords, At, WorkerStates, PCs,
                Charging
  <1>2. worker'[w] = s
    BY <1>0, GotoEffect DEF CheckStatus
  <1>3. WorkerInv(w)'
    BY <1>0, <1>2 DEF WorkerInv, At, CheckStatus, Reported, In
  <1> QED
    BY <1>0, <1>1, <1>2, <1>3, QuietStep, StepKeeps DEF CheckStatus

LEMMA CheckStatusFailedSafe ==
    ASSUME TypeInv, SafetyInv, NEW w \in Workers, CheckStatusFailed(w)
    PROVE  SafetyInv'
  <1>a. worker[w].order \in Orders
    BY DEF TypeInv, WorkersInv, KeyOK, In, CheckStatusFailed
  <1>b. PICK o \in Orders : o = worker[w].order
    BY <1>a
  <1>0. /\ o = worker[w].order /\ o \in Orders
        /\ worker[w] \in WorkerStates /\ WorkerInv(w) /\ OrderInv(o)
    BY <1>b DEF TypeInv, WorkersInv, SafetyInv
  <1>1. CASE w = Sweeper
    BY <1>1, QuietDone DEF CheckStatusFailed, Done
  <1>2. CASE w # Sweeper
    <2> DEFINE s == [worker[w] EXCEPT !.pc = "apply"]
    <2>1. s \in WorkerStates /\ ~Charging(s) /\ Goto(w, s)
      BY <1>0, <1>2 DEF WorkerStates, PCs, Charging, CheckStatusFailed
    <2>2. worker'[w] = s /\ s.pc = "apply" /\ s.order = o /\ s.word = worker[w].word
      BY <1>0, <2>1, GotoEffect DEF WorkerStates
    <2>3. WorkerInv(w)'
      BY <1>0, <1>2, <2>2 DEF WorkerInv, CheckStatusFailed, In
    <2> QED
      BY <2>1, <2>3, QuietStep, StepKeeps DEF CheckStatusFailed
  <1> QED
    BY <1>1, <1>2

LEMMA LoadSafe ==
    ASSUME TypeInv, SafetyInv, NEW w \in Workers, Load(w)
    PROVE  SafetyInv'
  <1>a. worker[w].order \in Orders
    BY DEF TypeInv, WorkersInv, KeyOK, In, Load
  <1>b. PICK o \in Orders : o = worker[w].order
    BY <1>a
  <1>0. /\ o = worker[w].order /\ o \in Orders
        /\ worker[w] \in WorkerStates /\ WorkerInv(w) /\ OrderInv(o)
    BY <1>b DEF TypeInv, WorkersInv, SafetyInv
  <1>1. Settled(o)
    BY <1>0 DEF WorkerInv, Load, In
  <1>2. CASE payment[o].status = "success" /\ payment[o].trxID # NoSale
    BY <1>0, <1>2, QuietDone DEF Load, Done
  <1>3. CASE ~(payment[o].status = "success" /\ payment[o].trxID # NoSale)
    <2> DEFINE s == [At("lookup", o) EXCEPT !.reserved = payment[o].reserved,
                                           !.unitPrice = payment[o].unitPrice]
    <2>1. s \in WorkerStates /\ ~Charging(s)
      BY <1>0 DEF TypeInv, TablesInv, PaymentRows, At, WorkerStates, PCs, GatewayWords, Charging
    <2>2. worker'[w] = s
      BY <1>0, <1>3, GotoEffect DEF Load
    <2>3. payment[o].reserved
      BY <1>0, <1>1, <1>3 DEF OrderInv, Settled
    <2>4. WorkerInv(w)'
      BY <1>1, <2>2, <2>3 DEF WorkerInv, At, Load, Settled
    <2> QED
      BY <1>0, <1>3, <2>1, <2>4, QuietStep, StepKeeps DEF Load
  <1> QED
    BY <1>2, <1>3

LEMMA SaleFoundSafe ==
    ASSUME TypeInv, SafetyInv, NEW w \in Workers, SaleFound(w)
    PROVE  SafetyInv'
  <1>a. worker[w].order \in Orders
    BY DEF TypeInv, WorkersInv, KeyOK, In, SaleFound
  <1>b. PICK o \in Orders : o = worker[w].order
    BY <1>a
  <1>0. /\ o = worker[w].order /\ o \in Orders
        /\ worker[w] \in WorkerStates /\ WorkerInv(w) /\ OrderInv(o)
    BY <1>b DEF TypeInv, WorkersInv, SafetyInv
  <1>1. PICK t \in SaleIds : IsSaleOf(t, o) /\ Goto(w, [At("mark", o) EXCEPT !.trxID = t])
    BY <1>0 DEF SaleFound
  <1> DEFINE s == [At("mark", o) EXCEPT !.trxID = t]
  <1>2. s \in WorkerStates /\ ~Charging(s)
    BY <1>0, MarkStateType DEF At, Charging
  <1>3. worker'[w] = s
    BY <1>1, GotoEffect
  <1>4. Settled(o)
    BY <1>0 DEF WorkerInv, SaleFound, In
  <1>5. WorkerInv(w)'
    BY <1>1, <1>3, <1>4 DEF WorkerInv, At, SaleFound, Settled, IsSaleOf
  <1> QED
    BY <1>1, <1>2, <1>5, QuietStep, StepKeeps DEF SaleFound

LEMMA SaleMissingSafe ==
    ASSUME TypeInv, SafetyInv, NEW w \in Workers, SaleMissing(w)
    PROVE  SafetyInv'
  <1>a. worker[w].order \in Orders
    BY DEF TypeInv, WorkersInv, KeyOK, In, SaleMissing
  <1>b. PICK o \in Orders : o = worker[w].order
    BY <1>a
  <1>0. /\ o = worker[w].order /\ o \in Orders
        /\ worker[w] \in WorkerStates /\ WorkerInv(w) /\ OrderInv(o)
    BY <1>b DEF TypeInv, WorkersInv, SafetyInv
  <1> DEFINE s == [worker[w] EXCEPT !.pc = "create"]
  <1>1. s \in WorkerStates /\ ~Charging(s)
    BY <1>0 DEF WorkerStates, PCs, Charging
  <1>2. worker'[w] = s
    BY <1>0, GotoEffect DEF SaleMissing
  <1>3. WorkerInv(w)'
    BY <1>0, <1>2 DEF WorkerInv, SaleMissing, Settled, In, WorkerStates
  <1> QED
    BY <1>0, <1>1, <1>2, <1>3, QuietStep, StepKeeps DEF SaleMissing

LEMMA AssertDeletableSafe ==
    ASSUME TypeInv, SafetyInv, NEW w \in Workers, NEW t \in SaleIds, AssertDeletable(w, t)
    PROVE  SafetyInv'
  <1> DEFINE s == [Idle EXCEPT !.pc = "delete", !.trxID = t]
  <1>1. s \in WorkerStates /\ ~Charging(s)
    BY DEF Idle, At, WorkerStates, PCs, GatewayWords, Charging
  <1>2. worker'[w] = s
    BY GotoEffect DEF AssertDeletable
  <1>3. WorkerInv(w)'
    <2>1. sale[t].inv \notin Orders
      BY DEF SafetyInv, SaleInv, Settled, AssertDeletable
    <2> QED
      BY <1>2, <2>1 DEF WorkerInv, Idle, At, AssertDeletable
  <1> QED
    BY <1>1, <1>2, <1>3, QuietStep, StepKeeps DEF AssertDeletable

LEMMA SweepSafe ==
    ASSUME TypeInv, SafetyInv, NEW o \in Orders, SweepSettling(o) \/ SweepStale(o)
    PROVE  SafetyInv'
  <1>1. Sweeper \in Workers
    BY DEF Workers
  <1>2. CASE SweepSettling(o)
    <2>1. At("load", o) \in WorkerStates /\ ~Charging(At("load", o))
      BY DEF At, WorkerStates, GatewayWords, PCs, Charging
    <2>2. worker'[Sweeper] = At("load", o)
      BY <1>1, <1>2, GotoEffect DEF SweepSettling
    <2>3. WorkerInv(Sweeper)'
      BY <1>2, <2>2 DEF WorkerInv, At, SweepSettling, Settled
    <2> QED
      BY <1>1, <1>2, <2>1, <2>3, QuietStep, StepKeeps DEF SweepSettling
  <1>3. CASE SweepStale(o)
    <2>1. At("verify", o) \in WorkerStates /\ ~Charging(At("verify", o))
      BY DEF At, WorkerStates, GatewayWords, PCs, Charging
    <2>2. worker'[Sweeper] = At("verify", o)
      BY <1>1, <1>3, GotoEffect DEF SweepStale
    <2>3. WorkerInv(Sweeper)'
      BY <1>3, <2>2 DEF WorkerInv, At, SweepStale, IsStale
    <2> QED
      BY <1>1, <1>3, <2>1, <2>3, QuietStep, StepKeeps DEF SweepStale
  <1> QED
    BY <1>2, <1>3

LEMMA AbortSafe ==
    ASSUME TypeInv, SafetyInv, NEW w \in Workers, Abort(w)
    PROVE  SafetyInv'
  BY QuietDone DEF Abort

LEMMA ChargeAcceptedSafe ==
    ASSUME TypeInv, SafetyInv, NEW w \in Workers, ChargeAccepted(w)
    PROVE  SafetyInv'
  <1>a. worker[w].order \in Orders
    BY DEF TypeInv, WorkersInv, KeyOK, In, ChargeAccepted
  <1>b. PICK o \in Orders : o = worker[w].order
    BY <1>a
  <1>0. /\ o = worker[w].order /\ o \in Orders
        /\ worker[w] \in WorkerStates /\ WorkerInv(w) /\ OrderInv(o)
    BY <1>b DEF TypeInv, WorkersInv, SafetyInv
  <1>1. gateway[o] = "none" /\ payment[o].status = "pending"
    BY <1>0 DEF WorkerInv, ChargeAccepted, In
  <1>2. PICK g \in {"pending", "settlement"} :
            /\ gateway' = [gateway EXCEPT ![o] = g]
            /\ \/ g = "pending" /\ Done(w)
               \/ g = "settlement" /\ Goto(w, [At("apply", o) EXCEPT !.word = "settlement"])
    BY <1>0 DEF ChargeAccepted
  <1>3. /\ \A q \in Orders : OrderInv(q)'
        /\ \A t \in SaleIds : SaleInv(t)'
        /\ Forward
    <2>1. UNCHANGED <<sale, payment>>
      BY DEF ChargeAccepted
    <2> QED
      BY <1>1, <1>2, <2>1, GatewayStep
  <1>4. \A v \in Workers \ {w} : Undisturbed(v)
    <2>1. \A v \in Workers \ {w} : ~(Charging(worker[v]) /\ worker[v].order = o)
      BY <1>0 DEF WorkerInv, ChargeAccepted, In, Charging
    <2> QED
      BY <1>2, <2>1 DEF Undisturbed, ChargeAccepted, TypeInv, TablesInv
  <1>5. CASE g = "pending" /\ Done(w)
    <2>1. worker'[w] = Idle
      BY <1>5, GotoEffect DEF Done
    <2> QED
      BY <1>3, <1>4, <1>5, <2>1, IdleType, IdleSafe, StepKeeps DEF Done
  <1>6. CASE g = "settlement" /\ Goto(w, [At("apply", o) EXCEPT !.word = "settlement"])
    <2> DEFINE s == [At("apply", o) EXCEPT !.word = "settlement"]
    <2>1. s \in WorkerStates /\ ~Charging(s)
      BY DEF At, WorkerStates, PCs, GatewayWords, Charging
    <2>2. worker'[w] = s
      BY <1>6, GotoEffect
    <2>3. gateway'[o] = "settlement" /\ payment'[o].status = "pending"
      BY <1>1, <1>2, <1>6 DEF ChargeAccepted, TypeInv, TablesInv
    <2>4. WorkerInv(w)'
      BY <2>2, <2>3 DEF WorkerInv, At
    <2> QED
      BY <1>3, <1>4, <1>6, <2>1, <2>4, StepKeeps
  <1> QED
    BY <1>2, <1>5, <1>6

LEMMA ChargeRefusedSafe ==
    ASSUME TypeInv, SafetyInv, NEW w \in Workers, ChargeRefused(w)
    PROVE  SafetyInv'
  <1>a. worker[w].order \in Orders
    BY DEF TypeInv, WorkersInv, KeyOK, In, ChargeRefused
  <1>b. PICK o \in Orders : o = worker[w].order
    BY <1>a
  <1>0. /\ o = worker[w].order /\ o \in Orders
        /\ worker[w] \in WorkerStates /\ WorkerInv(w) /\ OrderInv(o)
    BY <1>b DEF TypeInv, WorkersInv, SafetyInv
  <1> DEFINE s == At("fail", o)
  <1>1. /\ s \in WorkerStates /\ s.pc = "fail" /\ s.order = o
        /\ worker'[w] = s /\ Goto(w, s)
    BY <1>0, AtType, GotoEffect DEF PCs, ChargeRefused
  <1>2. \A v \in Workers \ {w} : ~(Charging(worker[v]) /\ worker[v].order = o)
    BY <1>0 DEF WorkerInv, ChargeRefused, In, Charging
  <1>3. gateway[o] = "none" /\ payment[o].status = "pending"
    BY <1>0 DEF WorkerInv, ChargeRefused, In
  <1>4. \A v \in Workers \ {w} : worker'[v] = worker[v]
    BY <1>1 DEF Goto, TypeInv, WorkersInv
  <1>5. WorkerInv(w)'
    BY <1>1, <1>2, <1>3, <1>4 DEF WorkerInv, Charging, ChargeRefused
  <1> QED
    BY <1>1, <1>2, <1>5, QuietStep, StepKeeps DEF ChargeRefused

LEMMA ChargeResponseLostSafe ==
    ASSUME TypeInv, SafetyInv, SafeSetting, NEW w \in Workers, ChargeResponseLost(w)
    PROVE  SafetyInv'
  <1>a. worker[w].order \in Orders
    BY DEF TypeInv, WorkersInv, KeyOK, In, ChargeResponseLost
  <1>b. PICK o \in Orders : o = worker[w].order
    BY <1>a
  <1>0. /\ o = worker[w].order /\ o \in Orders
        /\ worker[w] \in WorkerStates /\ WorkerInv(w) /\ OrderInv(o)
    BY <1>b DEF TypeInv, WorkersInv, SafetyInv
  <1> DEFINE s == At("fail", o)
  <1>1. /\ s \in WorkerStates /\ s.pc = "fail" /\ s.order = o
        /\ worker'[w] = s /\ Goto(w, s)
    BY <1>0, AtType, GotoEffect DEF PCs, ChargeResponseLost
  <1>2. \A v \in Workers \ {w} : ~(Charging(worker[v]) /\ worker[v].order = o)
    BY <1>0 DEF WorkerInv, ChargeResponseLost, In, Charging
  <1>3. gateway[o] = "none" /\ payment[o].status = "pending"
    BY <1>0 DEF WorkerInv, ChargeResponseLost, In
  <1>4. \A v \in Workers \ {w} : worker'[v] = worker[v]
    BY <1>1 DEF Goto, TypeInv, WorkersInv
  <1>5. LostResponse /\ gateway' = [gateway EXCEPT ![o] = "unseen"]
    BY <1>0 DEF ChargeResponseLost, SafeSetting
  <1>6. gateway'[o] = "unseen" /\ payment'[o].status = "pending"
    BY <1>3, <1>5 DEF TypeInv, TablesInv, ChargeResponseLost
  <1>7. WorkerInv(w)'
    BY <1>1, <1>2, <1>4, <1>5, <1>6 DEF WorkerInv, Charging
  <1>8. /\ \A q \in Orders : OrderInv(q)'
        /\ \A t \in SaleIds : SaleInv(t)'
        /\ Forward
    <2>1. UNCHANGED <<sale, payment>>
      BY DEF ChargeResponseLost
    <2> QED
      BY <1>3, <1>5, <2>1, GatewayStep
  <1>9. \A v \in Workers \ {w} : Undisturbed(v)
    BY <1>2, <1>5 DEF Undisturbed, ChargeResponseLost, TypeInv, TablesInv
  <1> QED
    BY <1>1, <1>2, <1>7, <1>8, <1>9, StepKeeps

LEMMA FailPaymentSafe ==
    ASSUME TypeInv, SafetyInv, NEW w \in Workers, FailPayment(w)
    PROVE  SafetyInv'
  <1>a. worker[w].order \in Orders
    BY DEF TypeInv, WorkersInv, KeyOK, In, FailPayment
  <1>b. PICK o \in Orders : o = worker[w].order
    BY <1>a
  <1>0. /\ o = worker[w].order /\ o \in Orders
        /\ worker[w] \in WorkerStates /\ WorkerInv(w) /\ OrderInv(o)
    BY <1>b DEF TypeInv, WorkersInv, SafetyInv
  <1> DEFINE row == [payment[o] EXCEPT !.status = "failed", !.reserved = FALSE]
  <1>1. payment[o] \in PaymentRows
    BY DEF TypeInv, TablesInv
  <1>2. /\ row \in PaymentRows /\ row.status = "failed" /\ ~row.reserved
        /\ row.trxID = payment[o].trxID
    BY <1>1 DEF PaymentRows, PaymentStatuses, Terminal
  <1>3. gateway[o] \in {"none", "unseen", "expire"} /\ ~Settled(o)
    BY <1>0 DEF WorkerInv, FailPayment, In, OrderInv
  <1>4. payment' = [payment EXCEPT ![o] = row] /\ UNCHANGED <<sale, gateway>> /\ Done(w)
    BY <1>0 DEF FailPayment, UpdateWithLock
  <1>5. payment'[o] = row /\ gateway'[o] = gateway[o] /\ payment[o].trxID = NoSale
    BY <1>0, <1>3, <1>4 DEF TypeInv, TablesInv, OrderInv, Settled
  <1>6. OrderInv(o)'
    BY <1>2, <1>3, <1>5 DEF OrderInv, Settled
  <1>7. /\ \A q \in Orders : OrderInv(q)'
        /\ \A t \in SaleIds : SaleInv(t)'
        /\ Forward
    BY <1>2, <1>3, <1>4, <1>6, PaymentStep
  <1>8. \A v \in Workers \ {w} : Undisturbed(v)
    <2>1. \A v \in Workers \ {w} : ~(Charging(worker[v]) /\ worker[v].order = o)
      BY <1>0 DEF WorkerInv, FailPayment, In, Charging
    <2> QED
      BY <1>4, <2>1 DEF Undisturbed, TypeInv, TablesInv
  <1>9. worker'[w] = Idle
    BY <1>4, GotoEffect DEF Done
  <1> QED
    BY <1>4, <1>7, <1>8, <1>9, IdleType, IdleSafe, StepKeeps DEF Done

LEMMA ApplyAuthoritativeStatusSafe ==
    ASSUME TypeInv, SafetyInv, NEW w \in Workers, ApplyAuthoritativeStatus(w)
    PROVE  SafetyInv'
  <1>a. worker[w].order \in Orders
    BY DEF TypeInv, WorkersInv, KeyOK, In, ApplyAuthoritativeStatus
  <1>b. PICK o \in Orders : o = worker[w].order
    BY <1>a
  <1>0. /\ o = worker[w].order /\ o \in Orders
        /\ worker[w] \in WorkerStates /\ WorkerInv(w) /\ OrderInv(o)
    BY <1>b DEF TypeInv, WorkersInv, SafetyInv
  <1> DEFINE row == AuthoritativeRow(payment[o], worker[w].word)
  <1>1. CASE payment[o].status \in Terminal
    BY <1>0, <1>1, QuietDone DEF ApplyAuthoritativeStatus
  <1>2. CASE payment[o].status \notin Terminal
    <2>1. /\ payment[o].status # "none" /\ gateway[o] # "none"
          /\ worker[w].word = "settlement" => gateway[o] = "settlement"
          /\ worker[w].word \in {"deny", "expire"} => gateway[o] = worker[w].word
      BY <1>0 DEF WorkerInv, ApplyAuthoritativeStatus, In
    <2>2. payment[o] \in PaymentRows /\ payment[o].status \in {"pending", "settling"}
      BY <1>2, <2>1 DEF TypeInv, TablesInv, PaymentRows, PaymentStatuses
    <2>3. payment[o].reserved /\ payment[o].trxID = NoSale
      BY <1>0, <2>2 DEF OrderInv
    <2>4. /\ payment' = [payment EXCEPT ![o] = row] /\ UNCHANGED <<sale, gateway>>
          /\ Goto(w, IF MapInternalStatus(worker[w].word) = "success" THEN At("load", o) ELSE Idle)
      BY <1>0, <1>2 DEF ApplyAuthoritativeStatus, UpdateWithLock
    <2>5. payment'[o] = row /\ gateway'[o] = gateway[o]
      BY <2>4 DEF TypeInv, TablesInv
    <2>6. /\ row \in PaymentRows /\ row.trxID = NoSale
          /\ \/ row.status = "settling" /\ row.reserved /\ gateway[o] = "settlement"
             \/ row.status = "pending" /\ row.reserved /\ ~Settled(o)
             \/ row.status = "failed" /\ ~row.reserved /\ gateway[o] = "deny"
             \/ row.status = "expired" /\ ~row.reserved /\ gateway[o] = "expire"
          /\ MapInternalStatus(worker[w].word) = "success" => row.status = "settling"
      <3>1. CASE worker[w].word = "settlement"
        BY <2>1, <2>2, <2>3, <3>1 DEF AuthoritativeRow, MapInternalStatus, PaymentRows,
              PaymentStatuses
      <3>2. CASE worker[w].word = "deny"
        BY <2>1, <2>2, <2>3, <3>2 DEF AuthoritativeRow, MapInternalStatus, PaymentRows,
              PaymentStatuses, Terminal
      <3>3. CASE worker[w].word = "expire"
        BY <2>1, <2>2, <2>3, <3>3 DEF AuthoritativeRow, MapInternalStatus, PaymentRows,
              PaymentStatuses, Terminal
      <3>4. CASE worker[w].word \notin {"settlement", "deny", "expire"}
        <4>1. MapInternalStatus(worker[w].word) = "pending"
          BY <3>4 DEF MapInternalStatus
        <4>2. row = payment[o]
          BY <4>1 DEF AuthoritativeRow
        <4>3. payment[o].status = "settling" => gateway[o] = "settlement"
          BY <1>0 DEF OrderInv, Settled
        <4> QED
          BY <2>2, <2>3, <4>1, <4>2, <4>3 DEF Settled
      <3> QED
        BY <3>1, <3>2, <3>3, <3>4
    <2>7. OrderInv(o)'
      BY <2>5, <2>6 DEF OrderInv, Settled
    <2>8. Settled(o) => row.status \in {"settling", "success"}
      BY <1>0, <2>6 DEF OrderInv
    <2>9. /\ \A q \in Orders : OrderInv(q)'
          /\ \A t \in SaleIds : SaleInv(t)'
          /\ Forward
      BY <2>4, <2>6, <2>7, <2>8, PaymentStep
    <2>10. \A v \in Workers \ {w} : Undisturbed(v)
      BY <2>1, <2>4 DEF Undisturbed, TypeInv, TablesInv
    <2>11. CASE MapInternalStatus(worker[w].word) = "success"
      <3>1. At("load", o) \in WorkerStates /\ ~Charging(At("load", o))
        BY DEF At, WorkerStates, PCs, GatewayWords, Charging
      <3>2. worker'[w] = At("load", o)
        BY <2>4, <2>11, GotoEffect
      <3>3. WorkerInv(w)'
        BY <2>5, <2>6, <2>11, <3>2 DEF WorkerInv, At, Settled
      <3> QED
        BY <2>4, <2>9, <2>10, <2>11, <3>1, <3>3, StepKeeps
    <2>12. CASE MapInternalStatus(worker[w].word) # "success"
      <3>1. worker'[w] = Idle
        BY <2>4, <2>12, GotoEffect
      <3> QED
        BY <2>4, <2>9, <2>10, <2>12, <3>1, IdleType, IdleSafe, StepKeeps
    <2> QED
      BY <2>11, <2>12
  <1> QED
    BY <1>1, <1>2

LEMMA MarkSuccessSafe ==
    ASSUME TypeInv, SafetyInv, NEW w \in Workers, MarkSuccess(w)
    PROVE  SafetyInv'
  <1>a. worker[w].order \in Orders
    BY DEF TypeInv, WorkersInv, KeyOK, In, MarkSuccess
  <1>b. PICK o \in Orders : o = worker[w].order
    BY <1>a
  <1>0. /\ o = worker[w].order /\ o \in Orders
        /\ worker[w] \in WorkerStates /\ WorkerInv(w) /\ OrderInv(o)
    BY <1>b DEF TypeInv, WorkersInv, SafetyInv
  <1>1. CASE payment[o].status = "success" /\ payment[o].trxID # NoSale
    BY <1>0, <1>1, QuietDone DEF MarkSuccess
  <1>2. CASE ~(payment[o].status = "success" /\ payment[o].trxID # NoSale)
    <2> DEFINE t   == worker[w].trxID
               row == SettledRow(payment[o], t)
    <2>1. t \in SaleIds /\ IsSaleOf(t, o) /\ Settled(o) /\ payment[o] \in PaymentRows
      BY <1>0 DEF WorkerInv, MarkSuccess, In, TypeInv, WorkersInv, TablesInv, KeyOK
    <2>2. row \in PaymentRows /\ row.status = "success" /\ row.trxID = t /\ ~row.reserved
      BY <2>1 DEF SettledRow, PaymentRows, PaymentStatuses, Terminal
    <2>3. payment' = [payment EXCEPT ![o] = row] /\ UNCHANGED <<sale, gateway>> /\ Done(w)
      BY <1>0, <1>2 DEF MarkSuccess, UpdateWithLock
    <2>4. payment'[o] = row /\ gateway'[o] = "settlement"
      BY <1>0, <2>1, <2>3 DEF TypeInv, TablesInv, OrderInv
    <2>5. IsSaleOf(payment[o].trxID, o)' /\ t # NoSale
      BY <2>1, <2>2, <2>3, <2>4, PaymentAssumption DEF IsSaleOf
    <2>6. OrderInv(o)'
      BY <2>2, <2>4, <2>5 DEF OrderInv, Settled
    <2>7. /\ \A q \in Orders : OrderInv(q)'
          /\ \A u \in SaleIds : SaleInv(u)'
          /\ Forward
      BY <2>2, <2>3, <2>6, PaymentStep
    <2>8. \A v \in Workers \ {w} : Undisturbed(v)
      BY <1>0, <2>1, <2>3 DEF Undisturbed, TypeInv, TablesInv, OrderInv
    <2>9. worker'[w] = Idle
      BY <2>3, GotoEffect DEF Done
    <2> QED
      BY <2>3, <2>7, <2>8, <2>9, IdleType, IdleSafe, StepKeeps DEF Done
  <1> QED
    BY <1>1, <1>2

(* A sale made for a claimed order, or at the counter.                      *)
LEMMA InsertStep ==
    ASSUME TypeInv, SafetyInv, NEW t \in SaleIds, NEW i \in Invoices, NEW p, Insert(t, i, p),
           ~Sold(i), i \in Orders => Settled(i), UNCHANGED <<payment, gateway>>
    PROVE  /\ \A q \in Orders : OrderInv(q)'
           /\ \A u \in SaleIds : SaleInv(u)'
           /\ Forward
           /\ \A v \in Workers : Undisturbed(v)
           /\ IsSaleOf(t, i)'
  <1>1. /\ sale'[t] = [state |-> "live", inv |-> i, unitPrice |-> p]
        /\ \A u \in SaleIds \ {t} : sale'[u] = sale[u]
        /\ sale[t].state = "absent"
    BY DEF Insert, TypeInv, TablesInv
  <1>2. \A u \in SaleIds, q \in Orders : IsSaleOf(u, q) => IsSaleOf(u, q)'
    BY <1>1 DEF IsSaleOf
  <1>3. \A q \in Orders : OrderInv(q)'
    <2> SUFFICES ASSUME NEW q \in Orders PROVE OrderInv(q)'
      OBVIOUS
    <2>1. payment[q].status = "success" => payment[q].trxID \in SaleIds
      BY DEF TypeInv, TablesInv, PaymentRows, SafetyInv, OrderInv
    <2> QED
      BY <1>2, <2>1 DEF SafetyInv, OrderInv, Settled
  <1>4. Forward /\ \A v \in Workers : Undisturbed(v)
    BY <1>1, <1>2 DEF Forward, Undisturbed, Settled
  <1>5. \A u \in SaleIds : SaleInv(u)'
    <2> SUFFICES ASSUME NEW u \in SaleIds PROVE SaleInv(u)'
      OBVIOUS
    <2>1. CASE u = t
      BY <1>1, <2>1 DEF SafetyInv, SaleInv, Settled, Sold, IsSaleOf
    <2>2. CASE u # t
      BY <1>1, <2>2 DEF SafetyInv, SaleInv, Settled, Sold, IsSaleOf
    <2> QED
      BY <2>1, <2>2
  <1> QED
    BY <1>1, <1>3, <1>4, <1>5 DEF IsSaleOf

LEMMA AddPrepaidTransactionSafe ==
    ASSUME TypeInv, SafetyInv, NEW w \in Workers, AddPrepaidTransaction(w)
    PROVE  SafetyInv'
  <1>a. worker[w].order \in Orders
    BY DEF TypeInv, WorkersInv, KeyOK, In, AddPrepaidTransaction
  <1>b. PICK o \in Orders : o = worker[w].order
    BY <1>a
  <1>0. /\ o = worker[w].order /\ o \in Orders
        /\ worker[w] \in WorkerStates /\ WorkerInv(w) /\ OrderInv(o)
    BY <1>b DEF TypeInv, WorkersInv, SafetyInv
  <1> DEFINE p == SalePrice(worker[w].unitPrice)
  <1>1. PICK t \in SaleIds : Insert(t, o, p) /\ Goto(w, [At("mark", o) EXCEPT !.trxID = t])
    BY <1>0 DEF AddPrepaidTransaction
  <1>2. ~Sold(o) /\ Settled(o) /\ UNCHANGED <<payment, gateway>>
    BY <1>0 DEF AddPrepaidTransaction, WorkerInv, In
  <1>3. /\ \A q \in Orders : OrderInv(q)'
        /\ \A u \in SaleIds : SaleInv(u)'
        /\ Forward
        /\ \A v \in Workers : Undisturbed(v)
        /\ IsSaleOf(t, o)'
    BY <1>1, <1>2, InsertStep DEF Invoices
  <1> DEFINE s == [At("mark", o) EXCEPT !.trxID = t]
  <1>4. s \in WorkerStates /\ ~Charging(s)
    BY MarkStateType DEF At, Charging
  <1>5. worker'[w] = s
    BY <1>1, GotoEffect
  <1>6. WorkerInv(w)'
    BY <1>2, <1>3, <1>5 DEF WorkerInv, At, Settled
  <1> QED
    BY <1>1, <1>3, <1>4, <1>6, StepKeeps

LEMMA AddUnreservedTransactionSafe ==
    ASSUME TypeInv, SafetyInv, NEW w \in Workers, AddUnreservedTransaction(w)
    PROVE  SafetyInv'
  <1> QED
    BY DEF SafetyInv, WorkerInv, AddUnreservedTransaction, In

LEMMA TablesOnly ==
    ASSUME TypeInv, SafetyInv, UNCHANGED worker, Forward, \A v \in Workers : Undisturbed(v),
           \A o \in Orders : OrderInv(o)', \A t \in SaleIds : SaleInv(t)'
    PROVE  SafetyInv'
  <1>1. ASSUME NEW v \in Workers PROVE WorkerInv(v)'
    <2>1. Charging(worker[v]) => \A u \in Workers \ {v} :
                ~(Charging(worker'[u]) /\ worker'[u].order = worker[v].order)
      BY DEF SafetyInv, WorkerInv, Charging
    <2> QED
      BY <2>1, OthersKeep
  <1> QED
    BY <1>1 DEF SafetyInv

LEMMA CounterSaleSafe ==
    ASSUME TypeInv, SafetyInv, SafeSetting, NEW i \in Counter, CounterSale(i)
    PROVE  SafetyInv'
  <1>1. PICK t \in SaleIds : Insert(t, i, price)
    BY DEF CounterSale
  <1>2. i \in Invoices /\ i \notin Orders /\ ~Sold(i) /\ UNCHANGED <<payment, gateway>>
    BY DEF CounterSale, Invoices, SafeSetting
  <1>3. /\ \A q \in Orders : OrderInv(q)'
        /\ \A u \in SaleIds : SaleInv(u)'
        /\ Forward
        /\ \A v \in Workers : Undisturbed(v)
    BY <1>1, <1>2, InsertStep
  <1> QED
    BY <1>3, TablesOnly DEF CounterSale

LEMMA DeleteTransactionSafe ==
    ASSUME TypeInv, SafetyInv, NEW w \in Workers, DeleteTransaction(w)
    PROVE  SafetyInv'
  <1> DEFINE t == worker[w].trxID
  <1>1. CASE sale[t].state = "live"
    <2>1. t \in SaleIds /\ sale[t].inv \notin Orders
      BY DEF TypeInv, WorkersInv, KeyOK, SafetyInv, WorkerInv, In, DeleteTransaction
    <2>2. /\ sale'[t] = [sale[t] EXCEPT !.state = "deleted"]
          /\ \A u \in SaleIds \ {t} : sale'[u] = sale[u]
      BY <1>1, <2>1 DEF DeleteTransaction, TypeInv, TablesInv
    <2>3. sale[t] \in SaleRows
      BY <2>1 DEF TypeInv, TablesInv
    <2>4. sale'[t].state = "deleted" /\ sale'[t].inv = sale[t].inv
      BY <2>2, <2>3 DEF SaleRows
    <2>5. \A u \in SaleIds, q \in Orders : IsSaleOf(u, q) => IsSaleOf(u, q)'
      BY <2>1, <2>2 DEF IsSaleOf
    <2>6. UNCHANGED <<payment, gateway>> /\ Done(w)
      BY DEF DeleteTransaction
    <2>7. \A q \in Orders : OrderInv(q)'
      <3> SUFFICES ASSUME NEW q \in Orders PROVE OrderInv(q)'
        OBVIOUS
      <3>1. payment[q].status = "success" => payment[q].trxID \in SaleIds
        BY DEF TypeInv, TablesInv, PaymentRows, SafetyInv, OrderInv
      <3> QED
        BY <2>5, <2>6, <3>1 DEF SafetyInv, OrderInv, Settled
    <2>8. Forward /\ \A v \in Workers : Undisturbed(v)
      BY <2>2, <2>4, <2>5, <2>6 DEF Forward, Undisturbed, Settled
    <2>9. \A u \in SaleIds : SaleInv(u)'
      <3> SUFFICES ASSUME NEW u \in SaleIds PROVE SaleInv(u)'
        OBVIOUS
      <3>1. CASE u = t
        BY <2>1, <2>4, <3>1 DEF SaleInv
      <3>2. CASE u # t
        <4>1. sale'[u] = sale[u] /\ SaleInv(u)
          BY <2>2, <3>2 DEF SafetyInv
        <4>2. \A x \in SaleIds : sale'[x].state = "live" =>
                    sale[x].state = "live" /\ sale'[x].inv = sale[x].inv
          BY <2>2, <2>4
        <4> QED
          BY <2>6, <4>1, <4>2 DEF SaleInv, Settled
      <3> QED
        BY <3>1, <3>2
    <2>10. worker'[w] = Idle
      BY <2>6, GotoEffect DEF Done
    <2> QED
      BY <2>6, <2>7, <2>8, <2>9, <2>10, IdleType, IdleSafe, StepKeeps DEF Done
  <1>2. CASE sale[t].state # "live"
    BY <1>2, QuietDone DEF DeleteTransaction
  <1> QED
    BY <1>1, <1>2

LEMMA GatewaySafe ==
    ASSUME TypeInv, SafetyInv, NEW o \in Orders, BuyerPays(o) \/ GatewayCloses(o)
    PROVE  SafetyInv'
  <1>1. PICK g \in {"settlement", "deny", "expire"} :
            /\ gateway' = [gateway EXCEPT ![o] = g]
            /\ gateway[o] \in {"unseen", "pending"}
            /\ gateway[o] = "unseen" => g = "expire"
    BY DEF BuyerPays, GatewayCloses
  <1>2. UNCHANGED <<sale, payment, worker>>
    BY DEF BuyerPays, GatewayCloses
  <1>3. OrderInv(o)
    BY DEF SafetyInv
  <1>4. /\ \A q \in Orders : OrderInv(q)'
        /\ \A t \in SaleIds : SaleInv(t)'
        /\ Forward
    BY <1>1, <1>2, <1>3, GatewayStep DEF OrderInv
  <1>5. ASSUME NEW v \in Workers PROVE Undisturbed(v)
    <2>1. Charging(worker[v]) /\ worker[v].order = o => gateway[o] # "pending"
      BY DEF SafetyInv, WorkerInv, Charging
    <2> QED
      BY <1>1, <1>2, <2>1 DEF Undisturbed, TypeInv, TablesInv
  <1> QED
    BY <1>2, <1>4, <1>5, TablesOnly

LEMMA NextSafetyInv ==
    ASSUME TypeInv, SafetyInv, SafeSetting, [Next]_vars
    PROVE  SafetyInv'
  <1>1. ASSUME NEW w \in Workers, Step(w) PROVE SafetyInv'
    BY <1>1, ReserveSafe, ReserveRefusedSafe, ChargeAcceptedSafe, ChargeRefusedSafe,
       ChargeResponseLostSafe, FailPaymentSafe, CheckStatusSafe, CheckStatusFailedSafe,
       ApplyAuthoritativeStatusSafe, LoadSafe, SaleFoundSafe, SaleMissingSafe,
       AddPrepaidTransactionSafe, AddUnreservedTransactionSafe, MarkSuccessSafe,
       DeleteTransactionSafe DEF Step
  <1>2. CASE UNCHANGED <<payment, sale, gateway, worker>>
    BY <1>2, QuietStep, TablesOnly
  <1>3. CASE Next
    BY <1>1, <1>2, <1>3, AbortSafe, BuildOrderSafe, HandleNotificationSafe, AssertDeletableSafe,
       SweepSafe, GatewaySafe, CounterSaleSafe DEF Next, UpdatePrice
  <1> QED
    BY <1>2, <1>3 DEF vars

-----------------------------------------------------------------------------
(* The theorems. *)

THEOREM Safety == SafeSetting => (Spec => [](TypeInv /\ SafetyInv))
  <1> SUFFICES ASSUME SafeSetting PROVE Spec => [](TypeInv /\ SafetyInv)
    OBVIOUS
  <1>1. Init => TypeInv /\ SafetyInv
    BY InitTypeInv, InitSafetyInv
  <1>2. TypeInv /\ SafetyInv /\ [Next]_vars => (TypeInv /\ SafetyInv)'
    BY NextTypeInv, NextSafetyInv
  <1> QED
    BY <1>1, <1>2, PTL DEF Spec

(* A payment called successful has the live sale of its own order.          *)
THEOREM PaidHasSaleAlways == SafeSetting => (Spec => []PaidHasSale)
  <1> SUFFICES ASSUME SafeSetting PROVE Spec => []PaidHasSale
    OBVIOUS
  <1>1. TypeInv /\ SafetyInv => PaidHasSale
    BY DEF SafetyInv, OrderInv, PaidHasSale
  <1> QED
    BY <1>1, Safety, PTL

(* No sale of an online order exists unless the gateway settled it.         *)
THEOREM SoldOnlyIfPaidAlways == SafeSetting => (Spec => []SoldOnlyIfPaid)
  <1> SUFFICES ASSUME SafeSetting PROVE Spec => []SoldOnlyIfPaid
    OBVIOUS
  <1>1. TypeInv /\ SafetyInv => SoldOnlyIfPaid
    BY DEF SafetyInv, OrderInv, SaleInv, SoldOnlyIfPaid, Sold, IsSaleOf
  <1> QED
    BY <1>1, Safety, PTL

(* An order whose buyer has paid is never closed as failed or expired.      *)
THEOREM PaidIsNotDroppedAlways == SafeSetting => (Spec => []PaidIsNotDropped)
  <1> SUFFICES ASSUME SafeSetting PROVE Spec => []PaidIsNotDropped
    OBVIOUS
  <1>1. TypeInv /\ SafetyInv => PaidIsNotDropped
    BY DEF SafetyInv, OrderInv, PaidIsNotDropped
  <1> QED
    BY <1>1, Safety, PTL

(* The sale of an online order is never cancelled.                          *)
THEOREM OnlineSaleIsKeptAlways == SafeSetting => (Spec => OnlineSaleIsKept)
  <1> SUFFICES ASSUME SafeSetting PROVE Spec => OnlineSaleIsKept
    OBVIOUS
  <1> DEFINE Kept == \A t \in SaleIds : sale[t].state = "live" /\ sale[t].inv \in Orders =>
                        sale'[t].state = "live"
  <1>1. TypeInv /\ SafetyInv /\ (TypeInv /\ SafetyInv)' /\ [Next]_vars => Kept
    <2> SUFFICES ASSUME TypeInv, (TypeInv /\ SafetyInv)', [Next]_vars, NEW t \in SaleIds,
                        sale[t].state = "live", sale[t].inv \in Orders
                 PROVE  sale'[t].state = "live"
      OBVIOUS
    <2>1. SalesStay
      BY NextSalesStay
    <2> QED
      BY <2>1 DEF SalesStay, SafetyInv, SaleInv
  <1> QED
    BY <1>1, Safety, PTL DEF Spec, OnlineSaleIsKept

(* When no accepted charge is reported as an error, a finished payment      *)
(* keeps its status and its sale for ever.                                  *)
THEOREM TerminalIsFinalAlways == SafeSetting /\ ~LostResponse => (Spec => TerminalIsFinal)
  <1> SUFFICES ASSUME SafeSetting, ~LostResponse PROVE Spec => TerminalIsFinal
    OBVIOUS
  <1> DEFINE Final(o) == payment[o].status \in Terminal =>
                            /\ payment'[o].status = payment[o].status
                            /\ payment'[o].trxID = payment[o].trxID
  <1>1. TypeInv /\ SafetyInv /\ [Next]_vars => \A o \in Orders : Final(o)
    <2> SUFFICES ASSUME TypeInv, SafetyInv, [Next]_vars, NEW o \in Orders,
                        payment[o].status \in Terminal
                 PROVE  payment'[o] = payment[o]
      OBVIOUS
    <2>0. \A q \in Orders : \A row : payment' = [payment EXCEPT ![q] = row] /\ q # o
                => payment'[o] = payment[o]
      BY DEF TypeInv, TablesInv
    <2>1. ASSUME NEW w \in Workers, Reserve(w) PROVE payment'[o] = payment[o]
      <3>1. worker[w].order \in Orders /\ worker[w].order # o
        BY <2>1 DEF Reserve, TypeInv, WorkersInv, KeyOK, In, Terminal
      <3> QED
        BY <2>0, <2>1, <3>1 DEF Reserve
    <2>2. ASSUME NEW w \in Workers, FailPayment(w) PROVE payment'[o] = payment[o]
      <3>1. worker[w].order \in Orders /\ worker[w].order # o
        BY <2>2 DEF FailPayment, TypeInv, WorkersInv, KeyOK, In, Terminal, SafetyInv, WorkerInv
      <3> QED
        BY <2>0, <2>2, <3>1 DEF FailPayment, UpdateWithLock
    <2>3. ASSUME NEW w \in Workers, ApplyAuthoritativeStatus(w) PROVE payment'[o] = payment[o]
      <3>1. worker[w].order \in Orders
        BY <2>3 DEF ApplyAuthoritativeStatus, TypeInv, WorkersInv, KeyOK, In
      <3> QED
        BY <2>0, <2>3, <3>1 DEF ApplyAuthoritativeStatus, UpdateWithLock
    <2>4. ASSUME NEW w \in Workers, MarkSuccess(w) PROVE payment'[o] = payment[o]
      <3>1. worker[w].order \in Orders /\ Settled(worker[w].order)
        BY <2>4 DEF MarkSuccess, TypeInv, WorkersInv, KeyOK, In, SafetyInv, WorkerInv
      <3>2. worker[w].order = o => payment[o].status = "success" /\ payment[o].trxID # NoSale
        BY <3>1 DEF Settled, Terminal, SafetyInv, OrderInv
      <3> QED
        BY <2>0, <2>4, <3>1, <3>2 DEF MarkSuccess, UpdateWithLock
    <2>5. CASE UNCHANGED payment
      BY <2>5
    <2>6. ASSUME NEW w \in Workers, Step(w) PROVE payment'[o] = payment[o]
      BY <2>1, <2>2, <2>3, <2>4, <2>5, <2>6 DEF Step, ReserveRefused, ChargeAccepted,
         ChargeRefused, ChargeResponseLost, CheckStatus, CheckStatusFailed, Load, SaleFound,
         SaleMissing, AddPrepaidTransaction, AddUnreservedTransaction, DeleteTransaction
    <2> QED
      BY <2>5, <2>6 DEF Next, vars, Abort, BuildOrder, HandleNotification, AssertDeletable,
         SweepSettling, SweepStale, BuyerPays, GatewayCloses, CounterSale, UpdatePrice
  <1> QED
    BY <1>1, Safety, PTL DEF Spec, TerminalIsFinal

-----------------------------------------------------------------------------
(* Prices.  The price frozen when the order was built travels through the   *)
(* payment row and the finalizing worker into the sale.                     *)

WorkerPrice(k) ==
    /\ k.pc = "reserve" => k.unitPrice \in Prices
    /\ k.pc \in {"lookup", "create"} => k.unitPrice = payment[k.order].unitPrice

PriceInv ==
    /\ \A o \in Orders : payment[o].status # "none" => payment[o].unitPrice \in Prices
    /\ \A t \in SaleIds : sale[t].inv \in Orders =>
            sale[t].unitPrice = payment[sale[t].inv].unitPrice
    /\ \A w \in Workers : WorkerPrice(worker[w])

(* The frozen price of an order never changes once its row exists.          *)
PricesStay ==
    \A o \in Orders : payment[o].status # "none" =>
        payment'[o].status # "none" /\ payment'[o].unitPrice = payment[o].unitPrice

LEMMA RowPriceStays ==
    ASSUME TypeInv, NEW o \in Orders, NEW row, UpdateWithLock(o, row),
           payment[o].status # "none" =>
                row.status # "none" /\ row.unitPrice = payment[o].unitPrice
    PROVE  PricesStay
  BY DEF UpdateWithLock, PricesStay, TypeInv, TablesInv

LEMMA NextPricesStay == ASSUME TypeInv, SafetyInv, [Next]_vars PROVE PricesStay
  <1>1. ASSUME NEW w \in Workers, Reserve(w) PROVE PricesStay
    <2>1. worker[w].order \in Orders
      BY <1>1 DEF Reserve, TypeInv, WorkersInv, KeyOK, In
    <2> QED
      BY <1>1, <2>1 DEF Reserve, PricesStay, TypeInv, TablesInv
  <1>2. CASE UNCHANGED payment
    BY <1>2 DEF PricesStay
  <1>3. ASSUME NEW w \in Workers, FailPayment(w) \/ ApplyAuthoritativeStatus(w) \/ MarkSuccess(w)
        PROVE  PricesStay
    <2>a. worker[w].order \in Orders
      BY <1>3 DEF FailPayment, ApplyAuthoritativeStatus, MarkSuccess, TypeInv, WorkersInv,
                  KeyOK, In
    <2>b. PICK o \in Orders : o = worker[w].order
      BY <2>a
    <2>0. payment[o] \in PaymentRows
      BY DEF TypeInv, TablesInv
    <2>1. CASE FailPayment(w)
      <3> DEFINE row == [payment[o] EXCEPT !.status = "failed", !.reserved = FALSE]
      <3>1. row.status # "none" /\ row.unitPrice = payment[o].unitPrice
        BY <2>0 DEF PaymentRows
      <3> QED
        BY <2>b, <2>1, <3>1, RowPriceStays DEF FailPayment
    <2>2. CASE ApplyAuthoritativeStatus(w)
      <3> DEFINE row == AuthoritativeRow(payment[o], worker[w].word)
      <3>1. MapInternalStatus(worker[w].word) \in {"success", "failed", "expired", "pending"}
        BY DEF MapInternalStatus
      <3>2. payment[o].status # "none" =>
                row.status # "none" /\ row.unitPrice = payment[o].unitPrice
        BY <2>0, <3>1 DEF PaymentRows, AuthoritativeRow
      <3> QED
        BY <1>2, <2>b, <2>2, <3>2, RowPriceStays DEF ApplyAuthoritativeStatus
    <2>3. CASE MarkSuccess(w)
      <3> DEFINE row == SettledRow(payment[o], worker[w].trxID)
      <3>1. row.status # "none" /\ row.unitPrice = payment[o].unitPrice
        BY <2>0 DEF PaymentRows, SettledRow
      <3> QED
        BY <1>2, <2>b, <2>3, <3>1, RowPriceStays DEF MarkSuccess
    <2> QED
      BY <1>3, <2>1, <2>2, <2>3
  <1>4. ASSUME NEW w \in Workers, Step(w) PROVE PricesStay
    BY <1>1, <1>2, <1>3, <1>4 DEF Step, ReserveRefused, ChargeAccepted, ChargeRefused,
       ChargeResponseLost, CheckStatus, CheckStatusFailed, Load, SaleFound, SaleMissing,
       AddPrepaidTransaction, AddUnreservedTransaction, DeleteTransaction
  <1> QED
    BY <1>2, <1>4 DEF Next, vars, Abort, BuildOrder, HandleNotification, AssertDeletable,
       SweepSettling, SweepStale, BuyerPays, GatewayCloses, CounterSale, UpdatePrice

(* The price a payment row is created with.                                 *)
LEMMA NextOrderPrices ==
    ASSUME TypeInv, SafetyInv, PriceInv, [Next]_vars, NEW o \in Orders,
           payment'[o].status # "none"
    PROVE  payment'[o].unitPrice \in Prices
  <1>1. CASE payment[o].status # "none"
    BY <1>1, NextPricesStay DEF PricesStay, PriceInv
  <1>2. CASE payment[o].status = "none"
    <2>1. ASSUME NEW w \in Workers, Reserve(w) PROVE payment'[o].unitPrice \in Prices
      <3>1. worker[w].order \in Orders /\ worker[w].unitPrice \in Prices
        BY <2>1 DEF Reserve, TypeInv, WorkersInv, KeyOK, In, PriceInv, WorkerPrice
      <3> QED
        BY <1>2, <2>1, <3>1 DEF Reserve, TypeInv, TablesInv
    <2>2. ASSUME NEW w \in Workers, FailPayment(w) \/ ApplyAuthoritativeStatus(w) \/ MarkSuccess(w)
          PROVE  payment'[o] = payment[o]
      <3>1. /\ worker[w].order \in Orders
            /\ payment[worker[w].order].status # "none"
        BY <2>2 DEF FailPayment, ApplyAuthoritativeStatus, MarkSuccess, TypeInv, WorkersInv,
                    KeyOK, In, SafetyInv, WorkerInv, OrderInv, Settled
      <3> QED
        BY <1>2, <2>2, <3>1 DEF FailPayment, ApplyAuthoritativeStatus, MarkSuccess,
              UpdateWithLock, TypeInv, TablesInv
    <2>3. ASSUME NEW w \in Workers, Step(w) PROVE payment'[o].unitPrice \in Prices
      BY <1>2, <2>1, <2>2, <2>3 DEF Step, ReserveRefused, ChargeAccepted, ChargeRefused,
         ChargeResponseLost, CheckStatus, CheckStatusFailed, Load, SaleFound, SaleMissing,
         AddPrepaidTransaction, AddUnreservedTransaction, DeleteTransaction
    <2> QED
      BY <1>2, <2>3 DEF Next, vars, Abort, BuildOrder, HandleNotification, AssertDeletable,
         SweepSettling, SweepStale, BuyerPays, GatewayCloses, CounterSale, UpdatePrice
  <1> QED
    BY <1>1, <1>2

(* The price a sale of an online order is created with.                     *)
LEMMA NextSalePrices ==
    ASSUME TypeInv, SafetyInv, PriceInv, SafeSetting, 0 \notin Prices, [Next]_vars,
           NEW t \in SaleIds, sale'[t].inv \in Orders
    PROVE  sale'[t].unitPrice = payment'[sale'[t].inv].unitPrice
  <1>1. CASE sale'[t] = sale[t]
    <2>1. payment[sale[t].inv].status # "none"
      BY <1>1 DEF SafetyInv, SaleInv, Settled
    <2> QED
      BY <1>1, <2>1, NextPricesStay DEF PricesStay, PriceInv
  <1>2. ASSUME NEW w \in Workers, AddPrepaidTransaction(w), sale'[t] # sale[t]
        PROVE  sale'[t].unitPrice = payment'[sale'[t].inv].unitPrice
    <2>a. worker[w].order \in Orders
      BY <1>2 DEF AddPrepaidTransaction, TypeInv, WorkersInv, KeyOK, In
    <2>b. PICK o \in Orders : o = worker[w].order
      BY <2>a
    <2>1. /\ worker[w].unitPrice = payment[o].unitPrice
          /\ payment[o].status # "none"
      BY <1>2, <2>b DEF AddPrepaidTransaction, In, PriceInv, WorkerPrice, SafetyInv, WorkerInv,
                        Settled
    <2>2. SalePrice(worker[w].unitPrice) = payment[o].unitPrice
      <3>1. payment[o].unitPrice \in Prices
        BY <2>1 DEF PriceInv
      <3>2. payment[o].unitPrice \in Nat /\ payment[o].unitPrice # 0
        BY <3>1, PaymentAssumption
      <3>3. payment[o].unitPrice > 0
        BY <3>2
      <3> QED
        BY <2>1, <3>3 DEF SalePrice
    <2>3. sale'[t].inv = o /\ sale'[t].unitPrice = SalePrice(worker[w].unitPrice)
      BY <1>2, <2>b DEF AddPrepaidTransaction, Insert, TypeInv, TablesInv
    <2> QED
      BY <1>2, <2>2, <2>3 DEF AddPrepaidTransaction
  <1>3. ASSUME NEW i \in Counter, CounterSale(i) PROVE sale'[t] = sale[t]
    BY <1>3 DEF CounterSale, Insert, TypeInv, TablesInv, SafeSetting
  <1>4. ASSUME NEW w \in Workers, DeleteTransaction(w) PROVE sale'[t] = sale[t]
    <2>1. /\ worker[w].trxID \in SaleIds
          /\ sale[worker[w].trxID].inv \notin Orders
      BY <1>4 DEF DeleteTransaction, TypeInv, WorkersInv, KeyOK, In, SafetyInv, WorkerInv
    <2>2. sale[worker[w].trxID] \in SaleRows
      BY <2>1 DEF TypeInv, TablesInv
    <2> QED
      BY <1>4, <2>1, <2>2 DEF DeleteTransaction, TypeInv, TablesInv, SaleRows
  <1>5. ASSUME NEW w \in Workers PROVE ~AddUnreservedTransaction(w)
    BY DEF SafetyInv, WorkerInv, AddUnreservedTransaction, In
  <1>6. ASSUME NEW w \in Workers, Step(w)
        PROVE  sale'[t].unitPrice = payment'[sale'[t].inv].unitPrice
    BY <1>1, <1>2, <1>4, <1>5, <1>6 DEF Step, Reserve, ReserveRefused, ChargeAccepted,
       ChargeRefused, ChargeResponseLost, FailPayment, CheckStatus, CheckStatusFailed,
       ApplyAuthoritativeStatus, Load, SaleFound, SaleMissing, MarkSuccess
  <1> QED
    BY <1>1, <1>3, <1>6 DEF Next, vars, Abort, BuildOrder, HandleNotification, AssertDeletable,
       SweepSettling, SweepStale, BuyerPays, GatewayCloses, UpdatePrice

(* The price in a worker's hands.                                           *)
LEMMA NextWorkerPrices ==
    ASSUME TypeInv, SafetyInv, PriceInv, [Next]_vars, NEW v \in Workers
    PROVE  WorkerPrice(worker[v])'
  <1>1. CASE worker'[v] = worker[v]
    <2>1. worker[v].pc \in {"lookup", "create"} =>
            worker[v].order \in Orders /\ payment[worker[v].order].status # "none"
      BY DEF TypeInv, WorkersInv, KeyOK, SafetyInv, WorkerInv, Settled
    <2> QED
      BY <1>1, <2>1, NextPricesStay DEF PricesStay, PriceInv, WorkerPrice
  <1>2. CASE worker'[v].pc \notin {"reserve", "lookup", "create"}
    BY <1>2 DEF WorkerPrice
  <1>3. ASSUME NEW w \in Workers, NEW s,
               worker' = [worker EXCEPT ![w] = s]
        PROVE  worker'[v] = worker[v] \/ worker'[v] = s
    BY <1>3 DEF TypeInv, WorkersInv
  <1>4. ASSUME NEW w \in Workers, NEW o \in Orders, BuildOrder(w, o)
        PROVE  WorkerPrice(worker[v])'
    <2> DEFINE s == [At("reserve", o) EXCEPT !.unitPrice = price]
    <2>1. worker'[v] = worker[v] \/ worker'[v] = s
      BY <1>3, <1>4 DEF BuildOrder, Goto
    <2>2. s.pc = "reserve" /\ s.unitPrice \in Prices
      BY DEF At, TypeInv, TablesInv
    <2> QED
      BY <1>1, <2>1, <2>2 DEF WorkerPrice
  <1>5. ASSUME NEW w \in Workers, Load(w) PROVE WorkerPrice(worker[v])'
    <2> DEFINE o == worker[w].order
               s == [At("lookup", o) EXCEPT !.reserved = payment[o].reserved,
                                           !.unitPrice = payment[o].unitPrice]
    <2>1. worker'[v] = worker[v] \/ worker'[v] = s \/ worker'[v] = Idle
      BY <1>3, <1>5 DEF Load, Goto, Done
    <2>2. s.pc = "lookup" /\ s.order = o /\ s.unitPrice = payment[o].unitPrice
      BY DEF At
    <2>3. Idle.pc = "idle"
      BY DEF Idle, At
    <2> QED
      BY <1>1, <1>2, <1>5, <2>1, <2>2, <2>3 DEF WorkerPrice, Load
  <1>6. ASSUME NEW w \in Workers, SaleMissing(w) PROVE WorkerPrice(worker[v])'
    <2> DEFINE s == [worker[w] EXCEPT !.pc = "create"]
    <2>1. worker'[v] = worker[v] \/ worker'[v] = s
      BY <1>3, <1>6 DEF SaleMissing, Goto
    <2>2. worker[w] \in WorkerStates /\ worker[w].pc = "lookup"
      BY <1>6 DEF TypeInv, WorkersInv, SaleMissing, In
    <2>3. s.pc = "create" /\ s.order = worker[w].order /\ s.unitPrice = worker[w].unitPrice
      BY <2>2 DEF WorkerStates
    <2> QED
      BY <1>1, <1>6, <2>1, <2>2, <2>3 DEF PriceInv, WorkerPrice, SaleMissing
  <1>7. ASSUME NEW w \in Workers, Step(w) \/ Abort(w), ~Load(w), ~SaleMissing(w)
        PROVE  worker'[v] = worker[v] \/ worker'[v].pc \notin {"reserve", "lookup", "create"}
    <2>1. /\ Idle.pc = "idle"
          /\ \A o : /\ At("charge", o).pc = "charge" /\ At("fail", o).pc = "fail"
                    /\ At("load", o).pc = "load"
          /\ \A o, x : /\ [At("apply", o) EXCEPT !.word = x].pc = "apply"
                       /\ [At("mark", o) EXCEPT !.trxID = x].pc = "mark"
      BY DEF Idle, At
    <2>2. [worker[w] EXCEPT !.pc = "apply"].pc = "apply"
      BY DEF TypeInv, WorkersInv, WorkerStates
    <2>3. CASE Reserve(w) \/ ReserveRefused(w)
      BY <1>3, <2>1, <2>3 DEF Done, Goto, Reserve, ReserveRefused
    <2>4. CASE ChargeAccepted(w)
      <3>1. \/ worker' = [worker EXCEPT ![w] = Idle]
            \/ worker' = [worker EXCEPT ![w] =
                            [At("apply", worker[w].order) EXCEPT !.word = "settlement"]]
        BY <2>4 DEF ChargeAccepted, Done, Goto
      <3>2. CASE worker' = [worker EXCEPT ![w] = Idle]
        BY <1>3, <2>1, <3>2
      <3>3. CASE worker' = [worker EXCEPT ![w] =
                            [At("apply", worker[w].order) EXCEPT !.word = "settlement"]]
        BY <1>3, <2>1, <3>3
      <3> QED
        BY <3>1, <3>2, <3>3
    <2>5. CASE ChargeRefused(w) \/ ChargeResponseLost(w) \/ FailPayment(w)
      BY <1>3, <2>1, <2>5 DEF Done, Goto, ChargeRefused, ChargeResponseLost, FailPayment
    <2>6. CASE CheckStatus(w)
      BY <1>3, <2>1, <2>6 DEF CheckStatus, Goto
    <2>7. CASE CheckStatusFailed(w)
      BY <1>3, <2>1, <2>2, <2>7 DEF CheckStatusFailed, Goto
    <2>8. CASE ApplyAuthoritativeStatus(w)
      <3>1. \/ Goto(w, At("load", worker[w].order))
            \/ Goto(w, Idle)
        BY <2>8 DEF ApplyAuthoritativeStatus, Done
      <3> QED
        BY <1>3, <2>1, <3>1 DEF Goto
    <2>9. CASE SaleFound(w) \/ AddPrepaidTransaction(w)
      <3>1. PICK t \in SaleIds : Goto(w, [At("mark", worker[w].order) EXCEPT !.trxID = t])
        BY <2>9 DEF SaleFound, AddPrepaidTransaction
      <3> QED
        BY <1>3, <2>1, <3>1 DEF Goto
    <2>10. CASE AddUnreservedTransaction(w)
      <3>1. CASE Goto(w, Idle)
        BY <1>3, <2>1, <3>1 DEF Goto
      <3>2. ASSUME NEW t \in SaleIds, Goto(w, [At("mark", worker[w].order) EXCEPT !.trxID = t])
            PROVE  worker'[v] = worker[v] \/ worker'[v].pc \notin {"reserve", "lookup", "create"}
        BY <1>3, <2>1, <3>2 DEF Goto
      <3> QED
        BY <2>10, <3>1, <3>2 DEF AddUnreservedTransaction, Done
    <2>11. CASE MarkSuccess(w) \/ DeleteTransaction(w) \/ Abort(w)
      BY <1>3, <2>1, <2>11 DEF Done, Goto, MarkSuccess, DeleteTransaction, Abort
    <2> QED
      BY <1>7, <2>3, <2>4, <2>5, <2>6, <2>7, <2>8, <2>9, <2>10, <2>11 DEF Step
  <1>8. ASSUME NEW w \in Workers, NEW o \in Orders, HandleNotification(w, o)
        PROVE  worker'[v] = worker[v] \/ worker'[v].pc = "verify"
    <2>1. \A x : [At("verify", o) EXCEPT !.word = x].pc = "verify"
      BY DEF At
    <2> QED
      BY <1>3, <1>8, <2>1 DEF HandleNotification, Goto
  <1>9. ASSUME NEW w \in Workers, NEW t \in SaleIds, AssertDeletable(w, t)
        PROVE  worker'[v] = worker[v] \/ worker'[v].pc = "delete"
    <2>1. [Idle EXCEPT !.pc = "delete", !.trxID = t].pc = "delete"
      BY DEF Idle, At
    <2> QED
      BY <1>3, <1>9, <2>1 DEF AssertDeletable, Goto
  <1>10. ASSUME NEW o \in Orders, SweepSettling(o) \/ SweepStale(o)
         PROVE  worker'[v] = worker[v] \/ worker'[v].pc \in {"load", "verify"}
    <2>1. Sweeper \in Workers /\ At("load", o).pc = "load" /\ At("verify", o).pc = "verify"
      BY DEF Workers, At
    <2> QED
      BY <1>3, <1>10, <2>1 DEF SweepSettling, SweepStale, Goto
  <1>11. CASE UNCHANGED worker
    BY <1>1, <1>11
  <1> QED
    BY <1>1, <1>2, <1>4, <1>5, <1>6, <1>7, <1>8, <1>9, <1>10, <1>11
       DEF Next, vars, CounterSale, UpdatePrice, BuyerPays, GatewayCloses

LEMMA InitPriceInv == ASSUME Init PROVE PriceInv
  <1>1. \A w \in Workers : WorkerPrice(worker[w])
    BY DEF Init, WorkerPrice, Idle, At
  <1> QED
    BY <1>1, PaymentAssumption DEF Init, PriceInv

LEMMA NextPriceInv ==
    ASSUME TypeInv, SafetyInv, PriceInv, SafeSetting, 0 \notin Prices, [Next]_vars
    PROVE  PriceInv'
  <1>1. \A o \in Orders : payment'[o].status # "none" => payment'[o].unitPrice \in Prices
    BY NextOrderPrices
  <1>2. \A t \in SaleIds : sale'[t].inv \in Orders =>
            sale'[t].unitPrice = payment'[sale'[t].inv].unitPrice
    BY NextSalePrices
  <1>3. \A w \in Workers : WorkerPrice(worker[w])'
    BY NextWorkerPrices
  <1> QED
    BY <1>1, <1>2, <1>3 DEF PriceInv

(* Unless an item costs nothing, the sale of an online order is worth what  *)
(* its buyer was charged.                                                   *)
THEOREM SaleWorthSubtotalAlways ==
    SafeSetting /\ 0 \notin Prices => (Spec => []SaleWorthSubtotal)
  <1> SUFFICES ASSUME SafeSetting, 0 \notin Prices PROVE Spec => []SaleWorthSubtotal
    OBVIOUS
  <1>1. Init => TypeInv /\ SafetyInv /\ PriceInv
    BY InitTypeInv, InitSafetyInv, InitPriceInv
  <1>2. TypeInv /\ SafetyInv /\ PriceInv /\ [Next]_vars => (TypeInv /\ SafetyInv /\ PriceInv)'
    BY NextTypeInv, NextSafetyInv, NextPriceInv
  <1>3. TypeInv /\ SafetyInv /\ PriceInv => SaleWorthSubtotal
    <2> SUFFICES ASSUME TypeInv, SafetyInv, PriceInv, NEW o \in Orders,
                        payment[o].status = "success"
                 PROVE  sale[payment[o].trxID].unitPrice = payment[o].unitPrice
      BY DEF SaleWorthSubtotal
    <2>1. payment[o].trxID \in SaleIds /\ IsSaleOf(payment[o].trxID, o)
      BY DEF TypeInv, TablesInv, PaymentRows, SafetyInv, OrderInv
    <2> QED
      BY <2>1 DEF IsSaleOf, PriceInv
  <1> QED
    BY <1>1, <1>2, <1>3, PTL DEF Spec

=============================================================================
