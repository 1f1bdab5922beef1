-------------------------------- MODULE Sweep --------------------------------
(***************************************************************************)
(* The reconciliation sweep of internal/usecase/payment_usecase.go, with   *)
(* its two lists and their order, beside the handlers of Midtrans          *)
(* notifications.  OnlinePayment says what happens to one order; this      *)
(* module says in which turn the orders are taken up, what the retries of  *)
(* runTxDB do to the variables a closure has captured, and what the buyer  *)
(* is told.  Its orders are those the sweep is there for: pending past     *)
(* their expiry, or settling.                                              *)
(***************************************************************************)
EXTENDS Integers, Sequences, FiniteSets

CONSTANTS
    Orders,     \* the payments
    Handlers,   \* goroutines that serve notifications
    Sweeper,    \* the goroutine of the two-minute ticker
    Batch,      \* how many payments one list holds
    Fates,      \* bound: what may await the orders, functions on Orders
    MaxFaults,  \* bound: failed transactions, failed calls and crashes
    NoOrder

Workers == Handlers \cup {Sweeper}

(* "settled" and "expired" are the gateway's last word; "unsellable" is     *)
(* settled too, but the sale is refused each time it is tried; "refund" is  *)
(* a word mapInternalStatus does not know; the gateway does not answer for  *)
(* an "unknown" order.                                                      *)
FateWords == {"settled", "unsellable", "expired", "refund", "unknown"}

ASSUME SweepAssumption ==
    /\ IsFiniteSet(Orders) /\ IsFiniteSet(Handlers) /\ Sweeper \notin Handlers
    /\ Batch \in Nat \ {0}
    /\ Fates \subseteq [Orders -> FateWords]
    /\ MaxFaults \in Nat
    /\ NoOrder \notin Orders

VARIABLES
    fate,       \* what the gateway and the shop will say of each order
    status,     \* payments.status
    place,      \* the rank of each payment by updated_at, the oldest first
    sold,       \* orders with a live sale
    told,       \* results pushed to each buyer
    part,       \* the list the sweep is working on
    todo,       \* the rest of that list
    worker,     \* the payment each worker is in the middle of
    faults      \* faults so far

vars == <<fate, status, place, sold, told, part, todo, worker, faults>>
sweep == <<part, todo>>

Terminal == {"success", "expired"}
PCs == {"idle", "check", "apply", "reload", "sell", "mark", "tell", "touchSale", "touch"}

(* final and claimed are the variables the closures of UpdateWithLock set:  *)
(* they keep their values when the transaction is retried.                  *)
WorkerStates == [pc : PCs, order : Orders \cup {NoOrder},
                 word : {"none", "pending", "settlement", "expire"},
                 final : {"none", "pending", "settling"} \cup Terminal, claimed : BOOLEAN]

(* No two payments were changed at the same time.                           *)
Places == {f \in [Orders -> 1..Cardinality(Orders)] : \A o, p \in Orders : f[o] = f[p] => o = p}

TypeOK ==
    /\ fate \in Fates
    /\ status \in [Orders -> {"pending", "settling"} \cup Terminal]
    /\ place \in Places
    /\ sold \subseteq Orders
    /\ told \in [Orders -> [good : Nat, bad : Nat]]
    /\ part \in {"settling", "stale"}
    /\ todo \in Seq(Orders) /\ Len(todo) <= Batch
    /\ worker \in [Workers -> WorkerStates]
    /\ faults \in 0..MaxFaults

Settled(o) == fate[o] \in {"settled", "unsellable"}

Idle == [pc |-> "idle", order |-> NoOrder, word |-> "none", final |-> "none", claimed |-> FALSE]
At(p, o) == [Idle EXCEPT !.pc = p, !.order = o]

(* A payment may have been claimed, and even sold, before a crash.          *)
Init ==
    /\ fate \in Fates
    /\ status \in {s \in [Orders -> {"pending", "settling"}] :
                        \A o \in Orders : s[o] = "settling" => Settled(o)}
    /\ place \in Places
    /\ sold \in SUBSET {o \in Orders : status[o] = "settling" /\ fate[o] = "settled"}
    /\ told = [o \in Orders |-> [good |-> 0, bad |-> 0]]
    /\ part = "stale" /\ todo = <<>>
    /\ worker = [w \in Workers |-> Idle]
    /\ faults = 0

-----------------------------------------------------------------------------

In(w, p)   == worker[w].pc = p
Goto(w, s) == worker' = [worker EXCEPT ![w] = s]
Proceed(w, p) == Goto(w, [worker[w] EXCEPT !.pc = p])
Done(w)    == Goto(w, Idle)

Fault == faults < MaxFaults /\ faults' = faults + 1

(* tx.Save and Touch set updated_at.                                        *)
ToTheBack(o) ==
    [p \in Orders |-> IF p = o THEN Cardinality(Orders)
                     ELSE IF place[p] > place[o] THEN place[p] - 1 ELSE place[p]]

(* Mutant: the list is one longer than asked for.                           *)
ListOneMore(s) ==
    {l \in UNION {[1..n -> Orders] : n \in 0 .. Batch + 1} :
        LET rest == {o \in Orders : status[o] = s} \ {l[k] : k \in DOMAIN l} IN
        /\ \A k \in DOMAIN l : status[l[k]] = s
        /\ \A j, k \in DOMAIN l : j < k => place[l[j]] < place[l[k]]
        /\ rest # {} => /\ Len(l) = Batch + 1
                       /\ \A o \in rest, k \in DOMAIN l : place[l[k]] < place[o]}

(* WHERE status = s ORDER BY updated_at LIMIT Batch: one sequence.          *)
ListOf(s) ==
    {l \in UNION {[1..n -> Orders] : n \in 0..Batch} :
        LET rest == {o \in Orders : status[o] = s} \ {l[k] : k \in DOMAIN l} IN
        /\ \A k \in DOMAIN l : status[l[k]] = s
        /\ \A j, k \in DOMAIN l : j < k => place[l[j]] < place[l[k]]
        /\ rest # {} => /\ Len(l) = Batch
                       /\ \A o \in rest, k \in DOMAIN l : place[l[k]] < place[o]}

(* An error that reaches the sweep: on the second list it touches the       *)
(* payment, on the first it only logs; a handler answers the gateway.       *)
Failed(w) == IF w = Sweeper /\ part = "stale" THEN Proceed(w, "touch") ELSE Done(w)

-----------------------------------------------------------------------------
(* ReconcileStalePayments.                                                  *)

Between == In(Sweeper, "idle") /\ todo = <<>>

ListPendingFinalization ==
    /\ Between /\ part = "stale"
    /\ part' = "settling"
    /\ todo' \in ListOf("settling")
    /\ UNCHANGED <<fate, status, place, sold, told, worker, faults>>

ListStalePending ==
    /\ Between /\ part = "settling"
    /\ part' = "stale"
    /\ todo' \in ListOf("pending")
    /\ UNCHANGED <<fate, status, place, sold, told, worker, faults>>

(* Without the first list the sweep does not look at the second.            *)
ListFails ==
    /\ Between
    /\ Fault
    /\ part' = "stale"
    /\ UNCHANGED <<fate, status, place, sold, told, todo, worker>>

TakeUp ==
    /\ In(Sweeper, "idle") /\ todo # <<>>
    /\ Goto(Sweeper, At(IF part = "settling" THEN "reload" ELSE "check", Head(todo)))
    /\ todo' = Tail(todo)
    /\ UNCHANGED <<fate, status, place, sold, told, part, faults>>

Answer(o) ==
    CASE Settled(o) -> "settlement" [] fate[o] = "expired" -> "expire" [] OTHER -> "pending"

CheckStatus ==
    LET o == worker[Sweeper].order IN
    /\ In(Sweeper, "check")
    /\ \/ /\ fate[o] # "unknown"
          /\ Goto(Sweeper, [At("apply", o) EXCEPT !.word = Answer(o)])
          /\ UNCHANGED faults
       \/ /\ fate[o] = "unknown" /\ UNCHANGED faults
          /\ Proceed(Sweeper, "touch")
       \/ Fault /\ Proceed(Sweeper, "touch")
    /\ UNCHANGED <<fate, status, place, sold, told, sweep>>

(* A failed touch is only logged.                                           *)
Touch(w) ==
    /\ w = Sweeper /\ In(w, "touch")
    /\ \/ place' = ToTheBack(worker[w].order) /\ UNCHANGED faults
       \/ UNCHANGED place /\ Fault
    /\ Done(w)
    /\ UNCHANGED <<fate, status, sold, told, sweep>>

-----------------------------------------------------------------------------
(* HandleNotification: the status call, or what the notification says.      *)
HandleNotification(w, o) ==
    /\ w \in Handlers /\ In(w, "idle")
    /\ status[o] \notin Terminal /\ fate[o] # "unknown"
    /\ \/ Goto(w, [At("apply", o) EXCEPT !.word = Answer(o)]) /\ UNCHANGED faults
       \/ Goto(w, [At("apply", o) EXCEPT !.word = "pending"]) /\ Fault
    /\ UNCHANGED <<fate, status, place, sold, told, sweep>>

-----------------------------------------------------------------------------
(* applyAuthoritativeStatus.                                                *)

NewStatus(o, word) ==
    CASE word = "settlement" -> "settling"
      [] word = "expire"     -> "expired"
      [] OTHER               -> status[o]

(* What the closure leaves in the captured variables.                       *)
Captured(w) ==
    LET o == worker[w].order IN
    IF status[o] \in Terminal THEN worker[w]
    ELSE [worker[w] EXCEPT !.final = NewStatus(o, worker[w].word),
                           !.claimed = @ \/ worker[w].word = "settlement"]

AfterApply(w, c) ==
    CASE c.claimed                      -> Goto(w, [c EXCEPT !.pc = "reload"])
      [] ~c.claimed /\ c.final = "expired" -> Goto(w, [c EXCEPT !.pc = "tell"])
      [] OTHER                          -> Done(w)

(* Mutants: an answer that changes nothing is not saved; the result is told *)
(* although the transaction failed.                                         *)
ApplySavesChangesOnly(w) ==
    LET o == worker[w].order IN
    /\ In(w, "apply")
    /\ IF status[o] \in Terminal \/ NewStatus(o, worker[w].word) = status[o]
       THEN UNCHANGED <<status, place>>
       ELSE /\ status' = [status EXCEPT ![o] = NewStatus(o, worker[w].word)]
            /\ place' = ToTheBack(o)
    /\ AfterApply(w, Captured(w))
    /\ UNCHANGED <<fate, sold, told, sweep, faults>>

ApplyFailsUnnoticed(w) ==
    /\ In(w, "apply")
    /\ Fault
    /\ AfterApply(w, Captured(w))
    /\ UNCHANGED <<fate, status, place, sold, told, sweep>>

(* The transaction commits.  A pending payment that stays pending is saved  *)
(* all the same.                                                            *)
Apply(w) ==
    LET o == worker[w].order IN
    /\ In(w, "apply")
    /\ IF status[o] \in Terminal
       THEN UNCHANGED <<status, place>>
       ELSE /\ status' = [status EXCEPT ![o] = NewStatus(o, worker[w].word)]
            /\ place' = ToTheBack(o)
    /\ AfterApply(w, Captured(w))
    /\ UNCHANGED <<fate, sold, told, sweep, faults>>

(* It is rolled back after the closure ran, and runs once more.             *)
ApplyRetries(w) ==
    /\ In(w, "apply")
    /\ Fault
    /\ Goto(w, Captured(w))
    /\ UNCHANGED <<fate, status, place, sold, told, sweep>>

(* It fails for good.                                                       *)
ApplyFails(w) ==
    /\ In(w, "apply")
    /\ Fault
    /\ Failed(w)
    /\ UNCHANGED <<fate, status, place, sold, told, sweep>>

-----------------------------------------------------------------------------
(* finalizeSettlement.                                                      *)

Reload(w) ==
    /\ In(w, "reload")
    /\ \/ /\ IF status[worker[w].order] = "success" THEN Done(w)
             ELSE Goto(w, At("sell", worker[w].order))
          /\ UNCHANGED faults
       \/ Fault /\ Failed(w)
    /\ UNCHANGED <<fate, status, place, sold, told, sweep>>

(* ensureTransaction finds the sale or makes it, and may report an error    *)
(* although the sale was made.                                              *)
EnsureTransaction(w) ==
    LET o == worker[w].order IN
    /\ In(w, "sell")
    /\ \/ /\ fate[o] # "unsellable"
          /\ sold' = sold \cup {o}
          /\ Proceed(w, "mark") /\ UNCHANGED faults
       \/ /\ fate[o] = "unsellable"
          /\ Proceed(w, "touchSale") /\ UNCHANGED <<sold, faults>>
       \/ /\ Fault
          /\ Proceed(w, "touchSale")
          /\ \/ UNCHANGED sold
             \/ fate[o] # "unsellable" /\ sold' = sold \cup {o}
    /\ UNCHANGED <<fate, status, place, told, sweep>>

(* Mutant: a payment without a sale keeps its place.                        *)
TouchSaleNothing(w) ==
    /\ In(w, "touchSale")
    /\ Failed(w)
    /\ UNCHANGED <<fate, status, place, sold, told, sweep, faults>>

TouchSale(w) ==
    /\ In(w, "touchSale")
    /\ \/ place' = ToTheBack(worker[w].order) /\ UNCHANGED faults
       \/ UNCHANGED place /\ Fault
    /\ Failed(w)
    /\ UNCHANGED <<fate, status, sold, told, sweep>>

(* Mutant: a payment somebody else has finished is finished again.          *)
MarkSuccessAgain(w) ==
    LET o == worker[w].order IN
    /\ In(w, "mark")
    /\ status' = [status EXCEPT ![o] = "success"]
    /\ place' = ToTheBack(o)
    /\ Goto(w, [worker[w] EXCEPT !.pc = "tell", !.final = "success"])
    /\ UNCHANGED <<fate, sold, told, sweep, faults>>

(* The payment is marked; if another worker was faster, only what an        *)
(* attempt before this one captured is left to tell.                        *)
MarkSuccess(w) ==
    LET o == worker[w].order IN
    /\ In(w, "mark")
    /\ IF status[o] = "success"
       THEN /\ IF worker[w].final = "success" THEN Proceed(w, "tell") ELSE Done(w)
            /\ UNCHANGED <<status, place>>
       ELSE /\ status' = [status EXCEPT ![o] = "success"]
            /\ place' = ToTheBack(o)
            /\ Goto(w, [worker[w] EXCEPT !.pc = "tell", !.final = "success"])
    /\ UNCHANGED <<fate, sold, told, sweep, faults>>

MarkRetries(w) ==
    /\ In(w, "mark")
    /\ Fault
    /\ \/ status[worker[w].order] # "success" /\ Goto(w, [worker[w] EXCEPT !.final = "success"])
       \/ Failed(w)
    /\ UNCHANGED <<fate, status, place, sold, told, sweep>>

(* notifyPaymentResult.                                                     *)
Tell(w) ==
    LET o == worker[w].order IN
    /\ In(w, "tell")
    /\ told' = IF worker[w].final = "success" THEN [told EXCEPT ![o].good = @ + 1]
               ELSE [told EXCEPT ![o].bad = @ + 1]
    /\ Done(w)
    /\ UNCHANGED <<fate, status, place, sold, sweep, faults>>

(* A crash: the sweep starts over at the next tick.                         *)
Abort(w) ==
    /\ ~In(w, "idle")
    /\ Fault
    /\ Done(w)
    /\ IF w = Sweeper THEN part' = "stale" /\ todo' = <<>> ELSE UNCHANGED sweep
    /\ UNCHANGED <<fate, status, place, sold, told>>

-----------------------------------------------------------------------------

Step(w) ==
    \/ Touch(w)
    \/ Apply(w) \/ ApplyRetries(w) \/ ApplyFails(w)
    \/ Reload(w) \/ EnsureTransaction(w) \/ TouchSale(w)
    \/ MarkSuccess(w) \/ MarkRetries(w) \/ Tell(w)

Reconcile == ListPendingFinalization \/ ListStalePending \/ ListFails \/ TakeUp \/ CheckStatus

Next ==
    \/ Reconcile
    \/ \E w \in Workers : Step(w) \/ Abort(w)
    \/ \E w \in Handlers, o \in Orders : HandleNotification(w, o)

(* The ticker fires for ever and a worker that has begun runs on.  Nothing  *)
(* is assumed of notifications.                                             *)
Fairness ==
    /\ WF_vars(Reconcile)
    /\ \A w \in Workers : WF_vars(Step(w))

Spec == Init /\ [][Next]_vars /\ Fairness

-----------------------------------------------------------------------------
(* Properties. *)

(* A buyer is told the result that stands: never a failure of a payment     *)
(* that was rolled back, claimed or finished meanwhile, never a success     *)
(* without a sale.                                                          *)
ToldTheTruth ==
    \A o \in Orders :
        /\ told[o].good > 0 => status[o] = "success" /\ o \in sold
        /\ told[o].bad > 0 => status[o] = "expired"

(* A buyer is told once, however many notifications and sweeps find the     *)
(* same result; only a retried transaction can make it once more.           *)
ToldOnce ==
    \A o \in Orders : told[o].good + told[o].bad <= 1 + faults

(* Payments the sweep can do nothing for do not keep the others from being  *)
(* finished, although a list holds only the first Batch.                    *)
NobodyStarves ==
    \A o \in Orders :
        /\ fate[o] = "settled" ~> status[o] = "success"
        /\ fate[o] = "expired" ~> status[o] = "expired"

(* They are not given up either: every payment that stays on a list is      *)
(* tried again and again, by the sweep unless notifications of the same     *)
(* payment keep being served.  This is the fairness OnlinePayment assumes.  *)
TakenUp ==
    \A o \in Orders : []<>(status[o] \in Terminal \/ \E w \in Workers : worker[w].order = o)

=============================================================================
