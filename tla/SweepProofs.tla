------------------------------ MODULE SweepProofs ------------------------------
(***************************************************************************)
(* What Sweep promises its buyers holds for any number of payments,        *)
(* handlers and faults, and for lists of any length.                       *)
(***************************************************************************)
EXTENDS Sweep, TLAPS, FiniteSetTheorems

(* A buyer is told by whoever comes to "tell", so the properties rest on    *)
(* what a worker may carry there: a status only moves forward, and each     *)
(* result is captured by the worker that made it stand, or in an attempt    *)
(* that was rolled back, which costs a fault.                               *)

Claimed == {"settling", "success"}

OrderFits(o, st, goods, tld) ==
    /\ st[o] \in Claimed => Settled(o)
    /\ st[o] = "expired" => fate[o] = "expired"
    /\ st[o] = "success" => o \in goods
    /\ tld[o].good > 0 => st[o] = "success"
    /\ tld[o].bad > 0 => st[o] = "expired"

WorkerFits(t, st, goods) ==
    /\ t.pc # "idle" => t.order \in Orders
    /\ t.pc = "apply" =>
        /\ t.word = "settlement" => Settled(t.order)
        /\ t.word = "expire" => fate[t.order] = "expired"
        /\ t.final # "success" /\ (t.final = "expired" => t.word = "expire")
        /\ t.claimed => t.word = "settlement"
    /\ t.pc \in {"reload", "sell", "mark"} => st[t.order] \in Claimed
    /\ t.pc = "sell" => t.final = "none"
    /\ t.pc = "mark" => t.order \in goods /\ t.final \in {"none", "success"}
    /\ t.pc = "tell" => t.final \in Terminal /\ st[t.order] = t.final

(* What was settling when it was listed is settling or finished.            *)
ListFits(st) == part = "settling" => \A k \in DOMAIN todo : st[todo[k]] \in Claimed

(* A worker that is about to tell a result, or will be if its transaction   *)
(* finds that the result stands.                                            *)
Owes(t, o) == t.order = o /\ t.final \in Terminal /\ t.pc \in {"apply", "mark", "tell"}
Owing(o) == {w \in Workers : Owes(worker[w], o)}

One(b) == IF b THEN 1 ELSE 0

Paired(o) ==
    told[o].good + told[o].bad + Cardinality(Owing(o)) <= faults + One(status[o] \in Terminal)

IInv ==
    /\ TypeOK
    /\ \A o \in Orders : OrderFits(o, status, sold, told) /\ Paired(o)
    /\ \A w \in Workers : WorkerFits(worker[w], status, sold)
    /\ ListFits(status)

-----------------------------------------------------------------------------
(* Data.                                                                    *)

Statuses == {"pending", "settling"} \cup Terminal
Results == [Orders -> [good : Nat, bad : Nat]]

LEMMA IdleFits ==
    /\ Idle \in WorkerStates
    /\ \A st, goods : WorkerFits(Idle, st, goods)
    /\ \A o : ~Owes(Idle, o)
  BY DEF Idle, WorkerStates, PCs, Terminal, WorkerFits, Owes

LEMMA AtType ==
    ASSUME NEW p \in PCs, NEW o \in Orders
    PROVE  /\ At(p, o) \in WorkerStates
           /\ At(p, o).pc = p /\ At(p, o).order = o /\ At(p, o).word = "none"
           /\ At(p, o).final = "none" /\ ~At(p, o).claimed
  <1>1. PICK r : r = Idle
    OBVIOUS
  <1>2. /\ r \in WorkerStates
        /\ r.word = "none" /\ r.final = "none" /\ ~r.claimed
    BY <1>1, IdleFits DEF Idle
  <1>3. At(p, o) = [r EXCEPT !.pc = p, !.order = o]
    BY <1>1 DEF At
  <1> QED
    BY <1>2, <1>3 DEF WorkerStates

LEMMA Points == {"apply", "sell"} \subseteq PCs
  BY DEF PCs

LEMMA ToTheBackType == ASSUME TypeOK, NEW o \in Orders PROVE ToTheBack(o) \in Places
  <1> DEFINE N == Cardinality(Orders)
  <1>1. N \in Nat
    BY FS_CardinalityType, SweepAssumption
  <1>2. /\ place \in [Orders -> 1..N]
        /\ \A p, q \in Orders : place[p] = place[q] => p = q
    BY DEF TypeOK, Places
  <1>3. \A p \in Orders : ToTheBack(o)[p] = IF p = o THEN N
                                            ELSE IF place[p] > place[o] THEN place[p] - 1
                                            ELSE place[p]
    BY DEF ToTheBack
  <1> HIDE DEF N
  <1>4. \A p \in Orders : place[p] \in 1..N /\ (place[p] = place[o] => p = o)
    BY <1>2
  <1>5. \A p \in Orders : ToTheBack(o)[p] \in 1..N
    BY <1>1, <1>3, <1>4
  <1>6. ASSUME NEW p \in Orders, NEW q \in Orders, ToTheBack(o)[p] = ToTheBack(o)[q]
        PROVE  p = q
    BY <1>1, <1>2, <1>3, <1>4, <1>6
  <1>7. ToTheBack(o) \in [Orders -> 1..N]
    BY <1>5 DEF ToTheBack
  <1> QED
    BY <1>6, <1>7 DEF Places, N

LEMMA ListType ==
    ASSUME NEW s, NEW l \in ListOf(s)
    PROVE  l \in Seq(Orders) /\ Len(l) <= Batch /\ \A k \in DOMAIN l : status[l[k]] = s
  <1>1. PICK n \in 0..Batch : l \in [1..n -> Orders]
    BY DEF ListOf
  <1>2. n \in Nat /\ n <= Batch
    BY <1>1, SweepAssumption
  <1>3. l \in Seq(Orders) /\ Len(l) = n
    BY <1>1, <1>2
  <1> QED
    BY <1>2, <1>3 DEF ListOf


-----------------------------------------------------------------------------
(* Workers.                                                                 *)

LEMMA WorkersFinite == IsFiniteSet(Workers)
  BY FS_AddElement, SweepAssumption DEF Workers

LEMMA OwingCount ==
    ASSUME TypeOK, NEW w \in Workers, NEW s \in WorkerStates, Goto(w, s), NEW o \in Orders
    PROVE  /\ Cardinality(Owing(o)) \in Nat /\ Cardinality(Owing(o)') \in Nat
           /\ Cardinality(Owing(o)') + One(Owes(worker[w], o))
                = Cardinality(Owing(o)) + One(Owes(s, o))
  <1>1. worker'[w] = s /\ \A v \in Workers \ {w} : worker'[v] = worker[v]
    BY DEF TypeOK, Goto
  <1>2. Owing(o)' = IF Owes(s, o) THEN Owing(o) \cup {w} ELSE Owing(o) \ {w}
    BY <1>1 DEF Owing, Owes
  <1>3. w \in Owing(o) <=> Owes(worker[w], o)
    BY DEF Owing
  <1>4. IsFiniteSet(Owing(o))
    <2>1. Owing(o) \in SUBSET Workers
      BY DEF Owing
    <2> QED
      BY <2>1, WorkersFinite, FS_Subset
  <1> DEFINE O == Owing(o)
             P == Owing(o)'
  <1>5. IsFiniteSet(O) /\ (w \in O <=> Owes(worker[w], o))
        /\ P = IF Owes(s, o) THEN O \cup {w} ELSE O \ {w}
    BY <1>2, <1>3, <1>4
  <1> HIDE DEF O, P
  <1>6. /\ Cardinality(O) \in Nat
        /\ IsFiniteSet(O \cup {w}) /\ IsFiniteSet(O \ {w})
    BY <1>5, FS_CardinalityType, FS_AddElement, FS_RemoveElement
  <1>7. Cardinality(O \cup {w}) \in Nat /\ Cardinality(O \ {w}) \in Nat
    BY <1>6, FS_CardinalityType
  <1>8. Cardinality(O \cup {w}) = IF w \in O THEN Cardinality(O) ELSE Cardinality(O) + 1
    BY <1>5, FS_AddElement
  <1>9. Cardinality(O \ {w}) = IF w \in O THEN Cardinality(O) - 1 ELSE Cardinality(O)
    BY <1>5, FS_RemoveElement
  <1>10. /\ Cardinality(O) \in Nat /\ Cardinality(P) \in Nat
         /\ Cardinality(P) + One(Owes(worker[w], o)) = Cardinality(O) + One(Owes(s, o))
    <2>1. CASE Owes(s, o)
      BY <2>1, <1>5, <1>6, <1>7, <1>8 DEF One
    <2>2. CASE ~Owes(s, o)
      BY <2>2, <1>5, <1>6, <1>7, <1>9 DEF One
    <2> QED
      BY <2>1, <2>2
  <1> QED
    BY <1>10 DEF O, P

(* Statuses only move forward.                                              *)
Onward ==
    /\ status' \in [Orders -> Statuses] /\ sold \subseteq sold' /\ sold' \subseteq Orders
    /\ \A o \in Orders : \/ status'[o] = status[o]
                         \/ status[o] = "pending"
                         \/ status[o] = "settling" /\ status'[o] = "success"

(* A worker does not come to owe a result without a fault or the change     *)
(* that makes the result stand.                                             *)
Pays(w, s, o) ==
    told'[o].good + told'[o].bad + One(Owes(s, o)) + faults + One(status[o] \in Terminal)
        <= told[o].good + told[o].bad + One(Owes(worker[w], o)) + faults'
            + One(status'[o] \in Terminal)

ListOK ==
    part \in {"settling", "stale"} /\ todo \in Seq(Orders) /\ Len(todo) <= Batch /\ ListFits(status)

LEMMA ListStays == ASSUME IInv, Onward, UNCHANGED sweep PROVE ListOK'
  <1>1. \A k \in DOMAIN todo : todo[k] \in Orders
    <2>1. todo \in Seq(Orders)
      BY DEF IInv, TypeOK
    <2> QED
      BY <2>1
  <1>2. ListFits(status)'
    BY <1>1 DEF IInv, ListFits, Onward, sweep, Claimed
  <1> QED
    BY <1>2 DEF ListOK, IInv, TypeOK, sweep

LEMMA Moves ==
    ASSUME IInv, NEW w \in Workers, NEW s \in WorkerStates, Goto(w, s),
           UNCHANGED fate, ListOK', place' \in Places, told' \in Results,
           faults' \in 0..MaxFaults, Onward, WorkerFits(s, status', sold'),
           \A o \in Orders : OrderFits(o, status', sold', told') /\ Pays(w, s, o)
    PROVE  IInv'
  <1>1. /\ worker' \in [Workers -> WorkerStates] /\ worker'[w] = s
        /\ \A v \in Workers \ {w} : worker'[v] = worker[v]
    BY DEF IInv, TypeOK, Goto
  <1>2. TypeOK'
    BY <1>1 DEF IInv, TypeOK, ListOK, Onward, Results, Statuses
  <1>3. ListFits(status)'
    BY DEF ListOK
  <1>4. ASSUME NEW v \in Workers PROVE WorkerFits(worker[v], status, sold)'
    <2>1. CASE v = w
      BY <2>1, <1>1 DEF WorkerFits, Settled
    <2>2. CASE v # w
      BY <2>2, <1>1 DEF IInv, WorkerFits, Onward, Settled, Claimed, Terminal
    <2> QED
      BY <2>1, <2>2
  <1>5. ASSUME NEW o \in Orders PROVE OrderFits(o, status, sold, told)' /\ Paired(o)'
    <2>1. OrderFits(o, status, sold, told)'
      BY DEF OrderFits, Settled
    <2>2. /\ Cardinality(Owing(o)) \in Nat /\ Cardinality(Owing(o)') \in Nat
          /\ Cardinality(Owing(o)') + One(Owes(worker[w], o))
                = Cardinality(Owing(o)) + One(Owes(s, o))
      BY OwingCount DEF IInv
    <2>3. Cardinality(Owing(o))' = Cardinality(Owing(o)')
      OBVIOUS
    <2>4. /\ told[o].good \in Nat /\ told[o].bad \in Nat
          /\ told'[o].good \in Nat /\ told'[o].bad \in Nat
          /\ faults \in Nat /\ faults' \in Nat
      BY SweepAssumption DEF IInv, TypeOK, Results
    <2>5. \A b : One(b) \in {0, 1}
      BY DEF One
    <2>6. Paired(o) /\ Pays(w, s, o)
      BY DEF IInv
    <2>7. /\ One(Owes(worker[w], o)) \in {0, 1} /\ One(Owes(s, o)) \in {0, 1}
          /\ One(status[o] \in Terminal) \in {0, 1} /\ One(status'[o] \in Terminal) \in {0, 1}
      BY <2>5
    <2>8. told'[o].good + told'[o].bad + Cardinality(Owing(o)')
            <= faults' + One(status'[o] \in Terminal)
      BY <2>2, <2>4, <2>6, <2>7 DEF Paired, Pays
    <2> QED
      BY <2>1, <2>3, <2>8 DEF Paired
  <1> QED
    BY <1>2, <1>3, <1>4, <1>5 DEF IInv

(* A step that leaves the payments as they are.                             *)
LEMMA Walks ==
    ASSUME IInv, NEW w \in Workers, NEW s \in WorkerStates, Goto(w, s),
           UNCHANGED <<fate, status, told>>, ListOK', place' \in Places,
           sold \subseteq sold', sold' \subseteq Orders,
           UNCHANGED faults \/ Fault, WorkerFits(s, status, sold'),
           \A o \in Orders : Owes(s, o) => Owes(worker[w], o) \/ Fault
    PROVE  IInv'
  <1>1. /\ faults \in Nat /\ faults' \in 0..MaxFaults
        /\ (faults' = faults \/ faults' = faults + 1) /\ (Fault => faults' = faults + 1)
    BY SweepAssumption DEF IInv, TypeOK, Fault
  <1>2. Onward
    BY DEF Onward, IInv, TypeOK, Statuses
  <1>3. told' \in Results
    BY DEF IInv, TypeOK, Results
  <1>4. ASSUME NEW o \in Orders PROVE OrderFits(o, status', sold', told') /\ Pays(w, s, o)
    <2>1. OrderFits(o, status', sold', told')
      BY DEF IInv, OrderFits
    <2>2. told[o].good \in Nat /\ told[o].bad \in Nat
      BY DEF IInv, TypeOK
    <2>3. \A b : One(b) \in {0, 1}
      BY DEF One
    <2>4. One(Owes(s, o)) + faults <= One(Owes(worker[w], o)) + faults'
      <3>1. CASE faults' = faults + 1
        BY <2>3, <3>1, <1>1 DEF One
      <3>2. CASE faults' # faults + 1
        <4>1. Owes(s, o) => Owes(worker[w], o)
          BY <1>1, <3>2
        <4>2. faults' = faults
          BY <1>1, <3>2
        <4>3. CASE Owes(s, o)
          BY <4>1, <4>2, <4>3, <1>1 DEF One
        <4>4. CASE ~Owes(s, o)
          BY <4>2, <4>4, <1>1, <2>3 DEF One
        <4> QED
          BY <4>3, <4>4
      <3> QED
        BY <3>1, <3>2
    <2>5. One(Owes(s, o)) \in {0, 1} /\ One(Owes(worker[w], o)) \in {0, 1}
          /\ One(status[o] \in Terminal) \in {0, 1}
      BY <2>3
    <2>6. told' = told /\ status' = status
      OBVIOUS
    <2> QED
      BY <2>1, <2>2, <2>4, <2>5, <2>6, <1>1 DEF Pays
  <1> QED
    BY <1>1, <1>2, <1>3, <1>4, Moves

-----------------------------------------------------------------------------
(* The sweep.                                                               *)

LEMMA Still == ASSUME IInv, UNCHANGED <<status, sold>> PROVE Onward
  BY DEF Onward, IInv, TypeOK, Statuses

LEMMA ListIsOK ==
    ASSUME IInv, NEW s \in {"settling", "pending"}, todo' \in ListOf(s), UNCHANGED status,
           part' = IF s = "settling" THEN "settling" ELSE "stale"
    PROVE  ListOK'
  <1>1. todo' \in Seq(Orders) /\ Len(todo') <= Batch /\ \A k \in DOMAIN todo' : status[todo'[k]] = s
    BY ListType
  <1> QED
    BY <1>1 DEF ListOK, ListFits, Claimed

LEMMA ListKeeps ==
    ASSUME IInv, ListOK', faults' \in 0..MaxFaults, faults <= faults',
           UNCHANGED <<fate, status, place, sold, told, worker>>
    PROVE  IInv'
  <1>1. TypeOK' /\ ListFits(status)'
    BY DEF IInv, TypeOK, ListOK
  <1>2. ASSUME NEW w \in Workers PROVE WorkerFits(worker[w], status, sold)'
    BY DEF IInv, WorkerFits, Settled
  <1>3. ASSUME NEW o \in Orders PROVE OrderFits(o, status, sold, told)' /\ Paired(o)'
    <2>1. OrderFits(o, status, sold, told)'
      BY DEF IInv, OrderFits, Settled
    <2>2. Cardinality(Owing(o))' = Cardinality(Owing(o))
      BY DEF Owing
    <2>3. Cardinality(Owing(o)) \in Nat
      <3>1. Owing(o) \in SUBSET Workers
        BY DEF Owing
      <3> QED
        BY <3>1, WorkersFinite, FS_Subset, FS_CardinalityType
    <2>4. /\ told[o].good \in Nat /\ told[o].bad \in Nat /\ faults \in Nat /\ faults' \in Nat
          /\ One(status[o] \in Terminal) \in {0, 1}
      BY SweepAssumption DEF IInv, TypeOK, One
    <2>5. Paired(o)
      BY DEF IInv
    <2>6. told' = told /\ status' = status
      OBVIOUS
    <2> QED
      BY <2>1, <2>2, <2>3, <2>4, <2>5, <2>6 DEF Paired
  <1> QED
    BY <1>1, <1>2, <1>3 DEF IInv

LEMMA FaultCount == IInv => /\ faults \in 0..MaxFaults /\ faults \in Nat
                            /\ Fault => faults' \in 0..MaxFaults /\ faults <= faults'
  BY SweepAssumption DEF IInv, TypeOK, Fault

LEMMA ListsKeep ==
    ASSUME IInv, ListPendingFinalization \/ ListStalePending \/ ListFails
    PROVE  IInv'
  <1>1. CASE ListPendingFinalization
    <2>1. ListOK'
      BY <1>1, ListIsOK DEF ListPendingFinalization
    <2> QED
      BY <1>1, <2>1, ListKeeps, FaultCount DEF ListPendingFinalization
  <1>2. CASE ListStalePending
    <2>1. ListOK'
      BY <1>2, ListIsOK DEF ListStalePending
    <2> QED
      BY <1>2, <2>1, ListKeeps, FaultCount DEF ListStalePending
  <1>3. CASE ListFails
    <2>1. ListOK'
      BY <1>3 DEF ListFails, ListOK, ListFits, IInv, TypeOK
    <2> QED
      BY <1>3, <2>1, ListKeeps, FaultCount DEF ListFails
  <1> QED
    BY <1>1, <1>2, <1>3

LEMMA TakeUpKeeps == ASSUME IInv, TakeUp PROVE IInv'
  <1>1. /\ todo \in Seq(Orders) /\ todo # <<>> /\ Len(todo) <= Batch
        /\ todo' = Tail(todo) /\ part' = part /\ status' = status
    BY DEF TakeUp, IInv, TypeOK
  <1>2. /\ Head(todo) \in Orders /\ Head(todo) = todo[1] /\ 1 \in DOMAIN todo
        /\ todo' \in Seq(Orders) /\ Len(todo') = Len(todo) - 1
        /\ \A k \in DOMAIN todo' : k + 1 \in DOMAIN todo /\ todo'[k] = todo[k + 1]
    BY <1>1
  <1>3. Len(todo') <= Batch
    BY <1>1, <1>2, SweepAssumption
  <1>4. ListOK'
    <2>1. ListFits(status)'
      BY <1>1, <1>2 DEF ListFits, IInv
    <2> QED
      BY <1>1, <1>2, <1>3, <2>1 DEF ListOK, IInv, TypeOK
  <1>5. PICK p \in {"reload", "check"} : /\ Goto(Sweeper, At(p, Head(todo)))
                                         /\ p = "reload" => part = "settling"
    BY DEF TakeUp
  <1>6. PICK s : s = At(p, Head(todo))
    OBVIOUS
  <1>7. s \in WorkerStates /\ s.pc = p /\ s.order = Head(todo) /\ s.final = "none"
    <2>1. p \in PCs
      BY DEF PCs
    <2> QED
      BY <1>2, <1>6, <2>1, AtType
  <1>8. WorkerFits(s, status, sold')
    BY <1>2, <1>5, <1>7 DEF WorkerFits, IInv, ListFits
  <1>9. \A o \in Orders : ~Owes(s, o)
    BY <1>7 DEF Owes, Terminal
  <1>10. Sweeper \in Workers /\ place' \in Places /\ sold' = sold /\ sold' \subseteq Orders
    BY DEF Workers, TakeUp, IInv, TypeOK
  <1>11. Goto(Sweeper, s)
    BY <1>5, <1>6
  <1>12. UNCHANGED <<fate, status, told>> /\ UNCHANGED faults
    BY DEF TakeUp
  <1> QED
    BY <1>4, <1>7, <1>8, <1>9, <1>10, <1>11, <1>12, Walks

-----------------------------------------------------------------------------
(* Steps of a worker that leave the payments as they are.                   *)

LEMMA Own == ASSUME IInv, NEW w \in Workers
             PROVE  worker[w] \in WorkerStates /\ WorkerFits(worker[w], status, sold)
  BY DEF IInv, TypeOK

LEMMA PlaceType == IInv => place \in Places
  BY DEF IInv, TypeOK

LEMMA SoldType == IInv => sold \subseteq Orders
  BY DEF IInv, TypeOK

(* Where an error leads, a worker owes nothing.                             *)
LEMMA FailedFits ==
    ASSUME IInv, NEW w \in Workers, Failed(w), worker[w].pc # "idle"
    PROVE  \E s \in WorkerStates : /\ Goto(w, s) /\ \A o : ~Owes(s, o)
                                   /\ \A goods : WorkerFits(s, status, goods)
  <1>1. CASE w = Sweeper /\ part = "stale"
    <2>1. PICK s : s = [worker[w] EXCEPT !.pc = "touch"]
      OBVIOUS
    <2>2. s \in WorkerStates /\ s.pc = "touch" /\ s.order = worker[w].order
      BY <2>1, Own DEF WorkerStates, PCs
    <2>3. s.order \in Orders
      BY <2>2, Own DEF WorkerFits
    <2>4. Goto(w, s)
      BY <1>1, <2>1 DEF Failed, Proceed
    <2> QED
      BY <2>2, <2>3, <2>4 DEF WorkerFits, Owes
  <1>2. CASE ~(w = Sweeper /\ part = "stale")
    BY <1>2, IdleFits DEF Failed, Done
  <1> QED
    BY <1>1, <1>2

LEMMA CheckStatusKeeps == ASSUME IInv, CheckStatus PROVE IInv'
  <1> DEFINE o == worker[Sweeper].order
  <1>1. Sweeper \in Workers /\ worker[Sweeper].pc = "check"
    BY DEF CheckStatus, In, Workers
  <1>2. worker[Sweeper] \in WorkerStates /\ o \in Orders
    BY <1>1, Own DEF WorkerFits
  <1>3. ListOK' /\ place' \in Places /\ sold' = sold /\ sold \subseteq Orders
        /\ UNCHANGED <<fate, status, told>>
    BY Still, ListStays, PlaceType, SoldType DEF CheckStatus
  <1>4. CASE Proceed(Sweeper, "touch") /\ (UNCHANGED faults \/ Fault)
    <2>1. PICK s : s = [worker[Sweeper] EXCEPT !.pc = "touch"]
      OBVIOUS
    <2>2. s \in WorkerStates /\ s.pc = "touch" /\ s.order = o
      BY <2>1, <1>2 DEF WorkerStates, PCs
    <2>3. WorkerFits(s, status, sold') /\ \A q : ~Owes(s, q)
      BY <2>2, <1>2 DEF WorkerFits, Owes
    <2>4. Goto(Sweeper, s)
      BY <1>4, <2>1 DEF Proceed
    <2> QED
      BY <1>1, <1>3, <1>4, <2>2, <2>3, <2>4, Walks
  <1>5. CASE Goto(Sweeper, [At("apply", o) EXCEPT !.word = Answer(o)]) /\ UNCHANGED faults
    <2>1. PICK s : s = [At("apply", o) EXCEPT !.word = Answer(o)]
      OBVIOUS
    <2>2. /\ Answer(o) \in {"pending", "settlement", "expire"}
          /\ Answer(o) = "settlement" => Settled(o)
          /\ Answer(o) = "expire" => fate[o] = "expired"
      BY DEF Answer
    <2>3. PICK r : r = At("apply", o)
      OBVIOUS
    <2>4. /\ r \in WorkerStates /\ r.pc = "apply" /\ r.order = o
          /\ r.final = "none" /\ ~r.claimed
      BY <1>2, <2>3, AtType, Points
    <2>5. /\ s \in WorkerStates /\ s.pc = "apply" /\ s.order = o /\ s.word = Answer(o)
          /\ s.final = "none" /\ ~s.claimed
      BY <2>1, <2>2, <2>3, <2>4 DEF WorkerStates
    <2>6. WorkerFits(s, status, sold') /\ \A q : ~Owes(s, q)
      BY <1>2, <2>2, <2>5 DEF WorkerFits, Owes, Terminal
    <2>7. Goto(Sweeper, s)
      BY <1>5, <2>1
    <2> QED
      BY <1>1, <1>3, <1>5, <2>5, <2>6, <2>7, Walks
  <1> QED
    BY <1>4, <1>5 DEF CheckStatus

LEMMA NotificationKeeps ==
    ASSUME IInv, NEW w \in Handlers, NEW o \in Orders, HandleNotification(w, o)
    PROVE  IInv'
  <1>1. w \in Workers
    BY DEF Workers
  <1>2. ListOK' /\ place' \in Places /\ sold' = sold /\ sold \subseteq Orders
        /\ UNCHANGED <<fate, status, told>>
    BY Still, ListStays, PlaceType, SoldType DEF HandleNotification
  <1>3. PICK word \in {Answer(o), "pending"} :
            /\ Goto(w, [At("apply", o) EXCEPT !.word = word])
            /\ UNCHANGED faults \/ Fault
    BY DEF HandleNotification
  <1>4. /\ word \in {"pending", "settlement", "expire"}
        /\ word = "settlement" => Settled(o)
        /\ word = "expire" => fate[o] = "expired"
    BY DEF Answer
  <1>5. PICK r : r = At("apply", o)
    OBVIOUS
  <1>6. /\ r \in WorkerStates /\ r.pc = "apply" /\ r.order = o
        /\ r.final = "none" /\ ~r.claimed
    BY <1>5, AtType, Points
  <1>7. PICK s : s = [r EXCEPT !.word = word]
    OBVIOUS
  <1>8. /\ s \in WorkerStates /\ s.pc = "apply" /\ s.order = o /\ s.word = word
        /\ s.final = "none" /\ ~s.claimed
    BY <1>4, <1>6, <1>7 DEF WorkerStates
  <1>9. WorkerFits(s, status, sold') /\ \A q : ~Owes(s, q)
    BY <1>4, <1>8 DEF WorkerFits, Owes, Terminal
  <1>10. Goto(w, s)
    BY <1>3, <1>5, <1>7
  <1> QED
    BY <1>1, <1>2, <1>3, <1>8, <1>9, <1>10, Walks

(* Touch and TouchSale.                                                     *)
LEMMA TouchKeeps ==
    ASSUME IInv, NEW w \in Workers, Touch(w) \/ TouchSale(w)
    PROVE  IInv'
  <1>1. worker[w].pc \in {"touch", "touchSale"} /\ worker[w].pc # "idle"
    BY DEF Touch, TouchSale, In
  <1>2. worker[w].order \in Orders
    BY <1>1, Own DEF WorkerFits
  <1>3. UNCHANGED <<fate, status, sold, told, sweep>> /\ (UNCHANGED faults \/ Fault)
        /\ (UNCHANGED place \/ place' = ToTheBack(worker[w].order))
    BY DEF Touch, TouchSale
  <1>4. place' \in Places
    BY <1>2, <1>3, PlaceType, ToTheBackType DEF IInv
  <1>5. ListOK' /\ sold \subseteq Orders
    BY <1>3, Still, ListStays, SoldType
  <1>6. PICK s \in WorkerStates : /\ Goto(w, s) /\ \A o : ~Owes(s, o)
                                  /\ \A goods : WorkerFits(s, status, goods)
    <2>1. CASE Touch(w)
      BY <2>1, IdleFits DEF Touch, Done
    <2>2. CASE TouchSale(w)
      BY <2>2, <1>1, FailedFits DEF TouchSale
    <2> QED
      BY <2>1, <2>2
  <1> QED
    BY <1>3, <1>4, <1>5, <1>6, Walks

LEMMA ReloadKeeps == ASSUME IInv, NEW w \in Workers, Reload(w) PROVE IInv'
  <1>1. worker[w].pc = "reload" /\ worker[w].order \in Orders /\ status[worker[w].order] \in Claimed
    BY Own DEF Reload, In, WorkerFits
  <1>2. ListOK' /\ place' \in Places /\ sold' = sold /\ sold \subseteq Orders
        /\ UNCHANGED <<fate, status, told>> /\ (UNCHANGED faults \/ Fault)
    BY Still, ListStays, PlaceType, SoldType DEF Reload
  <1>3. PICK s \in WorkerStates : Goto(w, s) /\ WorkerFits(s, status, sold') /\ \A o : ~Owes(s, o)
    <2>1. CASE Done(w)
      BY <2>1, IdleFits DEF Done
    <2>2. CASE Failed(w)
      BY <1>1, <2>2, FailedFits
    <2>3. CASE Goto(w, At("sell", worker[w].order))
      <3>1. PICK s : s = At("sell", worker[w].order)
        OBVIOUS
      <3>2. s \in WorkerStates /\ s.pc = "sell" /\ s.order = worker[w].order /\ s.final = "none"
        BY <1>1, <3>1, AtType, Points
      <3>3. WorkerFits(s, status, sold') /\ \A o : ~Owes(s, o)
        BY <1>1, <3>2 DEF WorkerFits, Owes
      <3> QED
        BY <2>3, <3>1, <3>2, <3>3
    <2> QED
      BY <2>1, <2>2, <2>3 DEF Reload
  <1> QED
    BY <1>2, <1>3, Walks

LEMMA EnsureTransactionKeeps == ASSUME IInv, NEW w \in Workers, EnsureTransaction(w) PROVE IInv'
  <1> DEFINE o == worker[w].order
  <1>1. /\ worker[w] \in WorkerStates /\ worker[w].pc = "sell" /\ worker[w].final = "none"
        /\ o \in Orders /\ status[o] \in Claimed
    BY Own DEF EnsureTransaction, In, WorkerFits
  <1>2. /\ UNCHANGED <<fate, status, place, told, sweep>> /\ (UNCHANGED faults \/ Fault)
        /\ (sold' = sold \/ sold' = sold \cup {o})
    BY DEF EnsureTransaction
  <1>3. sold \subseteq sold' /\ sold' \subseteq Orders
    BY <1>1, <1>2, SoldType
  <1>4. Onward
    BY <1>2, <1>3 DEF Onward, IInv, TypeOK, Statuses
  <1>5. ListOK' /\ place' \in Places
    BY <1>2, <1>4, ListStays, PlaceType
  <1>6. PICK p \in {"mark", "touchSale"} : Proceed(w, p) /\ (p = "mark" => o \in sold')
    BY DEF EnsureTransaction
  <1>7. PICK s : s = [worker[w] EXCEPT !.pc = p]
    OBVIOUS
  <1>8. s \in WorkerStates /\ s.pc = p /\ s.order = o /\ s.final = "none"
    BY <1>1, <1>7 DEF WorkerStates, PCs
  <1>9. WorkerFits(s, status, sold') /\ \A q : ~Owes(s, q)
    BY <1>1, <1>6, <1>8 DEF WorkerFits, Owes, Terminal
  <1>10. Goto(w, s)
    BY <1>6, <1>7 DEF Proceed
  <1> QED
    BY <1>2, <1>3, <1>5, <1>8, <1>9, <1>10, Walks

-----------------------------------------------------------------------------
(* Transactions.                                                            *)

(* What an attempt that is rolled back leaves behind.                       *)
LEMMA CapturedFits ==
    ASSUME IInv, NEW w \in Workers, worker[w].pc = "apply"
    PROVE  /\ Captured(w) \in WorkerStates /\ Captured(w).pc = "apply"
           /\ Captured(w).order = worker[w].order /\ Captured(w).word = worker[w].word
           /\ WorkerFits(Captured(w), status, sold)
  <1> DEFINE o == worker[w].order
  <1>1. PICK t : t = worker[w]
    OBVIOUS
  <1>2. t \in WorkerStates /\ t.pc = "apply" /\ t.order \in Orders /\ WorkerFits(t, status, sold)
    BY <1>1, Own DEF WorkerFits
  <1>3. CASE status[t.order] \in Terminal
    BY <1>1, <1>2, <1>3 DEF Captured
  <1>4. CASE status[t.order] \notin Terminal
    <2>1. PICK n : n = NewStatus(t.order, t.word)
      OBVIOUS
    <2>2. status[t.order] \in {"pending", "settling"}
      BY <1>2, <1>4 DEF IInv, TypeOK
    <2>3. /\ n \in {"pending", "settling", "expired"}
          /\ n = "expired" => t.word = "expire"
      BY <2>1, <2>2 DEF NewStatus
    <2>4. PICK r : r = [t EXCEPT !.final = n, !.claimed = t.claimed \/ t.word = "settlement"]
      OBVIOUS
    <2>5. Captured(w) = r
      BY <1>1, <1>4, <2>1, <2>4 DEF Captured
    <2>6. t.claimed \in BOOLEAN
      BY <1>2 DEF WorkerStates
    <2>7. /\ r \in WorkerStates /\ r.pc = "apply" /\ r.order = t.order /\ r.word = t.word
          /\ r.final = n /\ r.claimed = (t.claimed \/ t.word = "settlement")
      BY <1>2, <2>3, <2>4 DEF WorkerStates, Terminal
    <2>8. WorkerFits(r, status, sold)
      BY <1>2, <2>3, <2>7 DEF WorkerFits
    <2> QED
      BY <1>1, <2>5, <2>7, <2>8
  <1> QED
    BY <1>3, <1>4

LEMMA ApplyRetriesKeeps == ASSUME IInv, NEW w \in Workers, ApplyRetries(w) PROVE IInv'
  <1>1. worker[w].pc = "apply" /\ Fault /\ Goto(w, Captured(w))
        /\ UNCHANGED <<fate, status, place, sold, told, sweep>>
    BY DEF ApplyRetries, In
  <1>2. PICK s : s = Captured(w)
    OBVIOUS
  <1>3. s \in WorkerStates /\ WorkerFits(s, status, sold') /\ Goto(w, s)
    BY <1>1, <1>2, CapturedFits
  <1>4. ListOK' /\ place' \in Places /\ sold \subseteq sold' /\ sold' \subseteq Orders
    BY <1>1, Still, ListStays, PlaceType, SoldType
  <1> QED
    BY <1>1, <1>3, <1>4, Walks

LEMMA FailsKeep ==
    ASSUME IInv, NEW w \in Workers,
           Failed(w), worker[w].pc # "idle", Fault,
           UNCHANGED <<fate, status, place, sold, told, sweep>>
    PROVE  IInv'
  <1>1. PICK s \in WorkerStates : /\ Goto(w, s) /\ \A o : ~Owes(s, o)
                                  /\ \A goods : WorkerFits(s, status, goods)
    BY FailedFits
  <1>2. ListOK' /\ place' \in Places /\ sold \subseteq sold' /\ sold' \subseteq Orders
    BY Still, ListStays, PlaceType, SoldType
  <1> QED
    BY <1>1, <1>2, Walks

LEMMA MarkRetriesKeeps == ASSUME IInv, NEW w \in Workers, MarkRetries(w) PROVE IInv'
  <1>1. /\ worker[w] \in WorkerStates /\ worker[w].pc = "mark" /\ worker[w].order \in Orders
        /\ WorkerFits(worker[w], status, sold)
    BY Own DEF MarkRetries, In, WorkerFits
  <1>2. Fault /\ UNCHANGED <<fate, status, place, sold, told, sweep>>
    BY DEF MarkRetries
  <1>3. CASE Failed(w)
    BY <1>1, <1>2, <1>3, FailsKeep
  <1>4. CASE Goto(w, [worker[w] EXCEPT !.final = "success"])
    <2>1. PICK s : s = [worker[w] EXCEPT !.final = "success"]
      OBVIOUS
    <2>2. s \in WorkerStates /\ s.pc = "mark" /\ s.order = worker[w].order /\ s.final = "success"
      BY <1>1, <2>1 DEF WorkerStates, Terminal
    <2>3. WorkerFits(s, status, sold') /\ Goto(w, s)
      BY <1>1, <1>2, <1>4, <2>1, <2>2 DEF WorkerFits
    <2>4. ListOK' /\ place' \in Places /\ sold \subseteq sold' /\ sold' \subseteq Orders
      BY <1>2, Still, ListStays, PlaceType, SoldType
    <2> QED
      BY <1>2, <2>2, <2>3, <2>4, Walks
  <1> QED
    BY <1>3, <1>4 DEF MarkRetries

LEMMA AbortKeeps == ASSUME IInv, NEW w \in Workers, Abort(w) PROVE IInv'
  <1>1. Fault /\ UNCHANGED <<fate, status, place, sold, told>> /\ Goto(w, Idle)
    BY DEF Abort, Done
  <1>2. ListOK'
    <2>1. CASE UNCHANGED sweep
      BY <1>1, <2>1, Still, ListStays
    <2>2. CASE part' = "stale" /\ todo' = <<>>
      BY <2>2, SweepAssumption DEF ListOK, ListFits
    <2> QED
      BY <2>1, <2>2 DEF Abort
  <1>3. place' \in Places /\ sold \subseteq sold' /\ sold' \subseteq Orders
    BY <1>1, PlaceType, SoldType
  <1> QED
    BY <1>1, <1>2, <1>3, IdleFits, Walks

LEMMA AfterApplyMeans ==
    ASSUME NEW w, NEW c, AfterApply(w, c)
    PROVE  /\ c.claimed => Goto(w, [c EXCEPT !.pc = "reload"])
           /\ ~c.claimed /\ c.final = "expired" => Goto(w, [c EXCEPT !.pc = "tell"])
           /\ ~c.claimed /\ c.final # "expired" => Goto(w, Idle)
  BY DEF AfterApply, Done

(* What a worker takes out of the transaction fits what it left behind.     *)
LEMMA AppliedFits ==
    ASSUME IInv, NEW w \in Workers, worker[w].pc = "apply", NEW st, AfterApply(w, Captured(w)),
           Captured(w).claimed => st[worker[w].order] \in Claimed,
           ~Captured(w).claimed /\ Captured(w).final = "expired"
                => st[worker[w].order] = "expired"
    PROVE  \E s \in WorkerStates :
                /\ Goto(w, s) /\ WorkerFits(s, st, sold)
                /\ \A q : Owes(s, q) => /\ q = worker[w].order /\ ~Captured(w).claimed
                                        /\ Captured(w).final = "expired"
  <1>1. PICK c : c = Captured(w)
    OBVIOUS
  <1>2. c \in WorkerStates /\ c.pc = "apply" /\ c.order = worker[w].order /\ c.order \in Orders
    BY <1>1, CapturedFits, Own DEF WorkerFits
  <1>3. AfterApply(w, c)
    BY <1>1
  <1>4. CASE c.claimed
    <2>1. PICK s : s = [c EXCEPT !.pc = "reload"]
      OBVIOUS
    <2>2. s \in WorkerStates /\ s.pc = "reload" /\ s.order = c.order
      BY <1>2, <2>1 DEF WorkerStates, PCs
    <2>3. Goto(w, s)
      BY <1>3, <1>4, <2>1, AfterApplyMeans
    <2>4. WorkerFits(s, st, sold) /\ \A q : ~Owes(s, q)
      BY <1>1, <1>2, <1>4, <2>2 DEF WorkerFits, Owes
    <2> QED
      BY <2>2, <2>3, <2>4
  <1>5. CASE ~c.claimed /\ c.final = "expired"
    <2>1. PICK s : s = [c EXCEPT !.pc = "tell"]
      OBVIOUS
    <2>2. s \in WorkerStates /\ s.pc = "tell" /\ s.order = c.order /\ s.final = "expired"
      BY <1>2, <1>5, <2>1 DEF WorkerStates, PCs
    <2>3. Goto(w, s)
      BY <1>3, <1>5, <2>1, AfterApplyMeans
    <2>4. WorkerFits(s, st, sold) /\ \A q : Owes(s, q) => q = worker[w].order
      BY <1>1, <1>2, <1>5, <2>2 DEF WorkerFits, Owes, Terminal
    <2> QED
      BY <1>1, <1>5, <2>2, <2>3, <2>4
  <1>6. CASE ~c.claimed /\ c.final # "expired"
    <2>1. Goto(w, Idle)
      BY <1>3, <1>6, AfterApplyMeans
    <2> QED
      BY <2>1, IdleFits
  <1> QED
    BY <1>4, <1>5, <1>6

LEMMA ApplyKeeps == ASSUME IInv, NEW w \in Workers, Apply(w) PROVE IInv'
  <1>1. PICK o \in Orders : o = worker[w].order
    BY Own DEF Apply, In, WorkerFits
  <1>2. PICK t \in WorkerStates : t = worker[w] /\ t.pc = "apply" /\ t.order = o
                                  /\ WorkerFits(t, status, sold)
    BY <1>1, Own DEF Apply, In
  <1>3. /\ AfterApply(w, Captured(w)) /\ worker[w].pc = "apply"
        /\ UNCHANGED <<fate, sold, told, sweep, faults>>
    BY DEF Apply, In
  <1>4. OrderFits(o, status, sold, told)
    BY DEF IInv
  <1>5. CASE status[o] \in Terminal
    <2>1. Captured(w) = t /\ UNCHANGED <<status, place>>
      BY <1>1, <1>2, <1>5 DEF Captured, Apply
    <2>2. /\ t.claimed => status[o] \in Claimed
          /\ t.final = "expired" => status[o] = "expired"
      BY <1>2, <1>4, <1>5 DEF WorkerFits, OrderFits, Claimed, Terminal, Settled
    <2>3. PICK s \in WorkerStates : /\ Goto(w, s) /\ WorkerFits(s, status, sold)
                                    /\ \A q : Owes(s, q) => q = o /\ t.final = "expired"
      BY <1>1, <1>3, <2>1, <2>2, AppliedFits
    <2>4. \A q : Owes(s, q) => Owes(worker[w], q)
      BY <1>2, <2>3 DEF Owes, Terminal
    <2>5. ListOK' /\ place' \in Places /\ sold \subseteq sold' /\ sold' \subseteq Orders
      BY <1>3, <2>1, Still, ListStays, PlaceType, SoldType
    <2> QED
      BY <1>3, <2>1, <2>3, <2>4, <2>5, Walks
  <1>6. CASE status[o] \notin Terminal
    <2>1. PICK n : n = NewStatus(o, t.word)
      OBVIOUS
    <2>2. status' = [status EXCEPT ![o] = n] /\ place' = ToTheBack(o)
      BY <1>1, <1>2, <1>6, <2>1 DEF Apply
    <2>3. status[o] \in {"pending", "settling"}
      BY <1>6 DEF IInv, TypeOK
    <2>4. /\ t.word = "settlement" => n = "settling"
          /\ t.word = "expire" => n = "expired"
          /\ t.word \notin {"settlement", "expire"} => n = status[o]
      BY <2>1 DEF NewStatus
    <2>5. /\ t.word = "settlement" => Settled(o)
          /\ t.word = "expire" => fate[o] = "expired"
          /\ t.claimed => t.word = "settlement"
      BY <1>2 DEF WorkerFits
    <2>6. /\ n \in {"pending", "settling", "expired"}
          /\ n = "settling" => Settled(o)
          /\ n = "expired" => fate[o] = "expired"
          /\ status[o] = "settling" => n = "settling"
      BY <1>4, <2>3, <2>4, <2>5 DEF OrderFits, Claimed, Settled
    <2>7. Captured(w).final = n /\ (Captured(w).claimed <=> t.word = "settlement")
      <3>1. Captured(w) = [t EXCEPT !.final = n, !.claimed = t.claimed \/ t.word = "settlement"]
        BY <1>1, <1>2, <1>6, <2>1 DEF Captured
      <3>2. t.claimed \in BOOLEAN
        BY <1>2 DEF WorkerStates
      <3> QED
        BY <1>2, <2>5, <3>1, <3>2 DEF WorkerStates
    <2>8. status \in [Orders -> Statuses] /\ status'[o] = n
          /\ \A q \in Orders \ {o} : status'[q] = status[q]
      BY <2>2 DEF IInv, TypeOK, Statuses
    <2>9. Onward
      <3>1. status' \in [Orders -> Statuses]
        BY <2>2, <2>6, <2>8 DEF Statuses, Terminal
      <3> QED
        BY <1>3, <2>3, <2>6, <2>8, <3>1, SoldType DEF Onward
    <2>10. PICK s \in WorkerStates : /\ Goto(w, s) /\ WorkerFits(s, status', sold)
                                     /\ \A q : Owes(s, q) => q = o /\ n = "expired"
      <3>1. /\ Captured(w).claimed => status'[worker[w].order] \in Claimed
            /\ ~Captured(w).claimed /\ Captured(w).final = "expired"
                    => status'[worker[w].order] = "expired"
        BY <1>1, <2>4, <2>7, <2>8 DEF Claimed
      <3>2. \E s \in WorkerStates :
                /\ Goto(w, s) /\ WorkerFits(s, status', sold)
                /\ \A q : Owes(s, q) => /\ q = worker[w].order /\ ~Captured(w).claimed
                                        /\ Captured(w).final = "expired"
        BY <1>3, <3>1, AppliedFits
      <3> QED
        BY <1>1, <2>7, <3>2
    <2>11. ListOK' /\ place' \in Places
      BY <1>3, <2>2, <2>9, ListStays, ToTheBackType DEF IInv
    <2>12. ASSUME NEW q \in Orders PROVE OrderFits(q, status', sold', told') /\ Pays(w, s, q)
      <3>1. OrderFits(q, status, sold, told) /\ told[q].good \in Nat /\ told[q].bad \in Nat
            /\ faults \in Nat
        BY FaultCount DEF IInv, TypeOK
      <3>2. told' = told /\ sold' = sold /\ faults' = faults
        BY <1>3
      <3>3. CASE q = o
        <4>1. OrderFits(o, status', sold', told')
          BY <1>4, <1>6, <2>6, <2>8, <3>2 DEF OrderFits, Claimed, Terminal
        <4>2. /\ One(status[o] \in Terminal) = 0
              /\ One(Owes(worker[w], o)) \in {0, 1}
              /\ One(Owes(s, o)) <= One(status'[o] \in Terminal)
              /\ One(Owes(s, o)) \in {0, 1} /\ One(status'[o] \in Terminal) \in {0, 1}
          BY <1>6, <2>8, <2>10 DEF One, Terminal
        <4> QED
          BY <3>1, <3>2, <3>3, <4>1, <4>2 DEF Pays
      <3>4. CASE q # o
        <4>1. OrderFits(q, status', sold', told')
          BY <2>8, <3>1, <3>2, <3>4 DEF OrderFits
        <4>2. One(Owes(s, q)) = 0 /\ One(Owes(worker[w], q)) \in {0, 1}
              /\ One(status'[q] \in Terminal) = One(status[q] \in Terminal)
              /\ One(status[q] \in Terminal) \in {0, 1}
          BY <2>8, <2>10, <3>4 DEF One
        <4> QED
          BY <3>1, <3>2, <4>1, <4>2 DEF Pays
      <3> QED
        BY <3>3, <3>4
    <2>13. faults' \in 0..MaxFaults /\ told' \in Results /\ UNCHANGED fate
      BY <1>3, FaultCount DEF IInv, TypeOK, Results
    <2>14. WorkerFits(s, status', sold')
      BY <1>3, <2>10
    <2> QED
      BY <2>9, <2>10, <2>11, <2>12, <2>13, <2>14, Moves
  <1> QED
    BY <1>5, <1>6

LEMMA MarkSuccessKeeps == ASSUME IInv, NEW w \in Workers, MarkSuccess(w) PROVE IInv'
  <1>1. PICK o \in Orders : o = worker[w].order
    BY Own DEF MarkSuccess, In, WorkerFits
  <1>2. PICK t \in WorkerStates : /\ t = worker[w] /\ t.pc = "mark" /\ t.order = o
                                  /\ status[o] \in Claimed /\ o \in sold
                                  /\ t.final \in {"none", "success"}
    BY <1>1, Own DEF MarkSuccess, In, WorkerFits
  <1>3. UNCHANGED <<fate, sold, told, sweep, faults>>
    BY DEF MarkSuccess
  <1>4. PICK s : s = [t EXCEPT !.pc = "tell", !.final = "success"]
    OBVIOUS
  <1>5. s \in WorkerStates /\ s.pc = "tell" /\ s.order = o /\ s.final = "success"
    BY <1>2, <1>4 DEF WorkerStates, PCs, Terminal
  <1>6. CASE status[o] = "success"
    <2>1. UNCHANGED <<status, place>>
      BY <1>1, <1>6 DEF MarkSuccess
    <2>2. ListOK' /\ place' \in Places /\ sold \subseteq sold' /\ sold' \subseteq Orders
      BY <1>3, <2>1, Still, ListStays, PlaceType, SoldType
    <2>3. CASE t.final = "success"
      <3>1. PICK r : r = [t EXCEPT !.pc = "tell"]
        OBVIOUS
      <3>2. r \in WorkerStates /\ r.pc = "tell" /\ r.order = o /\ r.final = "success"
        BY <1>2, <2>3, <3>1 DEF WorkerStates, PCs
      <3>3. Goto(w, r)
        BY <1>1, <1>2, <1>6, <2>3, <3>1 DEF MarkSuccess, Proceed
      <3>4. WorkerFits(r, status, sold') /\ \A q : Owes(r, q) => Owes(worker[w], q)
        BY <1>2, <1>6, <2>3, <3>2 DEF WorkerFits, Owes, Terminal
      <3> QED
        BY <1>3, <2>1, <2>2, <3>2, <3>3, <3>4, Walks
    <2>4. CASE t.final # "success"
      <3>1. Goto(w, Idle)
        BY <1>1, <1>2, <1>6, <2>4 DEF MarkSuccess, Done
      <3> QED
        BY <1>3, <2>1, <2>2, <3>1, IdleFits, Walks
    <2> QED
      BY <2>3, <2>4
  <1>7. CASE status[o] # "success"
    <2>1. status' = [status EXCEPT ![o] = "success"] /\ place' = ToTheBack(o) /\ Goto(w, s)
      BY <1>1, <1>2, <1>4, <1>7 DEF MarkSuccess
    <2>2. status \in [Orders -> Statuses] /\ status'[o] = "success"
          /\ \A q \in Orders \ {o} : status'[q] = status[q]
      BY <2>1 DEF IInv, TypeOK, Statuses
    <2>3. status[o] = "settling"
      BY <1>2, <1>7 DEF Claimed
    <2>4. Onward
      <3>1. status' \in [Orders -> Statuses]
        BY <2>1, <2>2 DEF Statuses, Terminal
      <3> QED
        BY <1>3, <2>2, <2>3, <3>1, SoldType DEF Onward
    <2>5. ListOK' /\ place' \in Places
      BY <1>3, <2>1, <2>4, ListStays, ToTheBackType DEF IInv
    <2>6. WorkerFits(s, status', sold') /\ \A q : Owes(s, q) => q = o
      BY <1>5, <2>2 DEF WorkerFits, Owes, Terminal
    <2>7. ASSUME NEW q \in Orders PROVE OrderFits(q, status', sold', told') /\ Pays(w, s, q)
      <3>1. OrderFits(q, status, sold, told) /\ told[q].good \in Nat /\ told[q].bad \in Nat
            /\ faults \in Nat
        BY FaultCount DEF IInv, TypeOK
      <3>2. told' = told /\ sold' = sold /\ faults' = faults
        BY <1>3
      <3>3. CASE q = o
        <4>1. OrderFits(o, status', sold', told')
          BY <1>2, <2>2, <2>3, <3>1, <3>2, <3>3 DEF OrderFits, Claimed, Settled
        <4>2. /\ One(status[o] \in Terminal) = 0 /\ One(status'[o] \in Terminal) = 1
              /\ One(Owes(worker[w], o)) \in {0, 1} /\ One(Owes(s, o)) \in {0, 1}
          BY <2>2, <2>3 DEF One, Terminal
        <4> QED
          BY <3>1, <3>2, <3>3, <4>1, <4>2 DEF Pays
      <3>4. CASE q # o
        <4>1. OrderFits(q, status', sold', told')
          BY <2>2, <3>1, <3>2, <3>4 DEF OrderFits
        <4>2. One(Owes(s, q)) = 0 /\ One(Owes(worker[w], q)) \in {0, 1}
              /\ One(status'[q] \in Terminal) = One(status[q] \in Terminal)
              /\ One(status[q] \in Terminal) \in {0, 1}
          BY <2>2, <2>6, <3>4 DEF One
        <4> QED
          BY <3>1, <3>2, <4>1, <4>2 DEF Pays
      <3> QED
        BY <3>3, <3>4
    <2>8. faults' \in 0..MaxFaults /\ told' \in Results /\ UNCHANGED fate
      BY <1>3, FaultCount DEF IInv, TypeOK, Results
    <2> QED
      BY <1>5, <2>1, <2>4, <2>5, <2>6, <2>7, <2>8, Moves
  <1> QED
    BY <1>6, <1>7

LEMMA TellKeeps == ASSUME IInv, NEW w \in Workers, Tell(w) PROVE IInv'
  <1>1. PICK o \in Orders : o = worker[w].order
    BY Own DEF Tell, In, WorkerFits
  <1>2. PICK t : /\ t = worker[w] /\ t.pc = "tell" /\ t.order = o
                 /\ t.final \in Terminal /\ status[o] = t.final
    BY <1>1, Own DEF Tell, In, WorkerFits
  <1>3. UNCHANGED <<fate, status, place, sold, sweep, faults>> /\ Goto(w, Idle)
    BY DEF Tell, Done
  <1>4. told \in Results
    BY DEF IInv, TypeOK, Results
  <1>5. /\ told' \in Results
        /\ \A q \in Orders \ {o} : told'[q] = told[q]
        /\ status[o] = "success" => told'[o].good = told[o].good + 1 /\ told'[o].bad = told[o].bad
        /\ status[o] = "expired" => told'[o].good = told[o].good /\ told'[o].bad = told[o].bad + 1
    <2>1. told[o].good \in Nat /\ told[o].bad \in Nat
          /\ told[o].good + 1 \in Nat /\ told[o].bad + 1 \in Nat
      BY <1>4 DEF Results
    <2>2. CASE t.final = "success"
      <3>1. told' = [told EXCEPT ![o].good = @ + 1]
        BY <1>1, <1>2, <2>2 DEF Tell
      <3> QED
        BY <1>2, <1>4, <2>1, <2>2, <3>1 DEF Results
    <2>3. CASE t.final = "expired"
      <3>1. told' = [told EXCEPT ![o].bad = @ + 1]
        BY <1>1, <1>2, <2>3 DEF Tell
      <3> QED
        BY <1>2, <1>4, <2>1, <2>3, <3>1 DEF Results
    <2> QED
      BY <1>2, <2>2, <2>3 DEF Terminal
  <1>6. Onward /\ ListOK' /\ place' \in Places
    BY <1>3, Still, ListStays, PlaceType
  <1>7. ASSUME NEW q \in Orders PROVE OrderFits(q, status', sold', told') /\ Pays(w, Idle, q)
    <2>1. OrderFits(q, status, sold, told) /\ faults \in Nat
          /\ told[q].good \in Nat /\ told[q].bad \in Nat
      BY FaultCount DEF IInv, TypeOK
    <2>2. One(Owes(Idle, q)) = 0 /\ One(status[q] \in Terminal) \in {0, 1}
      BY IdleFits DEF One
    <2>3. CASE q = o
      <3>1. OrderFits(o, status', sold', told')
        BY <1>2, <1>3, <1>5, <2>1, <2>3 DEF OrderFits, Terminal
      <3>2. One(Owes(worker[w], o)) = 1
        BY <1>2 DEF One, Owes
      <3>3. told'[o].good + told'[o].bad = told[o].good + told[o].bad + 1
        BY <1>2, <1>5, <2>1, <2>3 DEF Terminal
      <3> QED
        BY <1>3, <2>1, <2>2, <2>3, <3>1, <3>2, <3>3 DEF Pays
    <2>4. CASE q # o
      <3>1. OrderFits(q, status', sold', told') /\ told'[q] = told[q]
        BY <1>3, <1>5, <2>1, <2>4 DEF OrderFits
      <3>2. One(Owes(worker[w], q)) \in {0, 1}
        BY DEF One
      <3> QED
        BY <1>3, <2>1, <2>2, <3>1, <3>2 DEF Pays
    <2> QED
      BY <2>3, <2>4
  <1>8. faults' \in 0..MaxFaults
    BY <1>3, FaultCount
  <1>9. WorkerFits(Idle, status', sold') /\ Idle \in WorkerStates
    BY IdleFits
  <1> QED
    BY <1>3, <1>5, <1>6, <1>7, <1>8, <1>9, Moves

-----------------------------------------------------------------------------
(* Every step.                                                              *)

LEMMA InitIInv == Init => IInv
  <1> SUFFICES ASSUME Init PROVE IInv
    OBVIOUS
  <1>1. status \in [Orders -> {"pending", "settling"}]
        /\ \A o \in Orders : status[o] = "settling" => Settled(o)
    BY DEF Init
  <1>2. sold \subseteq Orders
    BY DEF Init
  <1>3. TypeOK
    BY <1>1, <1>2, IdleFits, SweepAssumption DEF Init, TypeOK
  <1>4. ASSUME NEW o \in Orders PROVE OrderFits(o, status, sold, told) /\ Paired(o)
    <2>1. told[o].good = 0 /\ told[o].bad = 0 /\ faults = 0 /\ status[o] \notin Terminal
      BY <1>1 DEF Init, Terminal
    <2>2. Owing(o) = {}
      BY IdleFits DEF Init, Owing
    <2>3. Cardinality(Owing(o)) = 0
      BY <2>2, FS_EmptySet
    <2>4. Paired(o)
      BY <2>1, <2>3 DEF Paired, One
    <2>5. OrderFits(o, status, sold, told)
      BY <1>1, <2>1 DEF OrderFits, Claimed, Terminal
    <2> QED
      BY <2>4, <2>5
  <1>5. \A w \in Workers : WorkerFits(worker[w], status, sold)
    BY IdleFits DEF Init
  <1>6. ListFits(status)
    BY DEF Init, ListFits
  <1> QED
    BY <1>3, <1>4, <1>5, <1>6 DEF IInv

LEMMA StepKeeps == ASSUME IInv, NEW w \in Workers, Step(w) PROVE IInv'
  <1>1. ASSUME ApplyFails(w) PROVE IInv'
    BY <1>1, FailsKeep DEF ApplyFails, In
  <1> QED
    BY <1>1, TouchKeeps, ApplyKeeps, ApplyRetriesKeeps, ReloadKeeps, EnsureTransactionKeeps,
       MarkSuccessKeeps, MarkRetriesKeeps, TellKeeps DEF Step

LEMMA NextIInv == IInv /\ [Next]_vars => IInv'
  <1> SUFFICES ASSUME IInv, [Next]_vars PROVE IInv'
    OBVIOUS
  <1>1. ASSUME Reconcile PROVE IInv'
    BY <1>1, ListsKeep, TakeUpKeeps, CheckStatusKeeps DEF Reconcile
  <1>2. ASSUME NEW w \in Workers, Step(w) \/ Abort(w) PROVE IInv'
    BY <1>2, StepKeeps, AbortKeeps
  <1>3. ASSUME NEW w \in Handlers, NEW o \in Orders, HandleNotification(w, o) PROVE IInv'
    BY <1>3, NotificationKeeps
  <1>4. CASE UNCHANGED vars
    <2>1. ListOK'
      BY <1>4 DEF vars, IInv, TypeOK, ListOK, ListFits
    <2> QED
      BY <1>4, <2>1, FaultCount, ListKeeps DEF vars
  <1> QED
    BY <1>1, <1>2, <1>3, <1>4 DEF Next

LEMMA Inductive == Spec => []IInv
  BY InitIInv, NextIInv, PTL DEF Spec

-----------------------------------------------------------------------------
(* What it gives.                                                           *)

(* The lists hold live payments and never more than was asked for, every    *)
(* payment keeps a rank of its own, and every worker stands at a call of    *)
(* its handler.                                                             *)
THEOREM TypeCorrect == Spec => []TypeOK
  <1>1. IInv => TypeOK
    BY DEF IInv
  <1> QED
    BY <1>1, Inductive, PTL

(* Whatever is retried, rolled back or done twice, a buyer is never told a  *)
(* result that does not stand.                                              *)
THEOREM ToldTheTruthHolds == Spec => []ToldTheTruth
  <1>1. IInv => ToldTheTruth
    BY DEF IInv, OrderFits, ToldTheTruth
  <1> QED
    BY <1>1, Inductive, PTL

(* However many workers find the same result, the buyer is told once, and   *)
(* once more for each failed transaction at most.                           *)
THEOREM ToldOnceHolds == Spec => []ToldOnce
  <1>1. ASSUME IInv, NEW o \in Orders PROVE told[o].good + told[o].bad <= 1 + faults
    <2>1. told[o].good \in Nat /\ told[o].bad \in Nat /\ faults \in Nat
      BY <1>1, FaultCount DEF IInv, TypeOK
    <2>2. Cardinality(Owing(o)) \in Nat
      <3>1. Owing(o) \in SUBSET Workers
        BY DEF Owing
      <3> QED
        BY <3>1, WorkersFinite, FS_Subset, FS_CardinalityType
    <2>3. One(status[o] \in Terminal) \in {0, 1}
      BY DEF One
    <2>4. Paired(o)
      BY <1>1 DEF IInv
    <2> QED
      BY <2>1, <2>2, <2>3, <2>4 DEF Paired
  <1>2. IInv => ToldOnce
    BY <1>1 DEF ToldOnce
  <1> QED
    BY <1>2, Inductive, PTL

=============================================================================
