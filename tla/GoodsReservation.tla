-------------------------- MODULE GoodsReservation --------------------------
(***************************************************************************)
(* What the shop promises about goods, whoever asks for them and however   *)
(* many times: stock leaves the shelf once per invoice.  The goods of an   *)
(* online order are held while its buyer may still pay, and then either    *)
(* sold or put back, for good; the goods of a counter invoice are sold at  *)
(* once and come back if the sale is cancelled, after which the number can *)
(* be used again.  OnlinePayment is the design that must keep the promise. *)
(***************************************************************************)
EXTENDS Integers

CONSTANTS
    Orders,        \* invoice numbers of online orders
    Counter,       \* invoice numbers typed at the counter
    Qty,           \* goods on each invoice
    InitialStock   \* goods on the shelf at first

Invoices == Orders \cup Counter

VARIABLES
    shelf,         \* goods that can still be promised to a buyer
    phase          \* where the goods of each invoice are

goodsVars == <<shelf, phase>>

GoodsInit ==
    /\ shelf = InitialStock
    /\ phase = [i \in Invoices |-> "absent"]

\* An online order takes its goods off the shelf.
Hold(o) ==
    /\ phase[o] = "absent"
    /\ Qty[o] <= shelf
    /\ shelf' = shelf - Qty[o]
    /\ phase' = [phase EXCEPT ![o] = "held"]

\* The order is paid: the goods are sold, and the shelf is not touched again.
Sell(o) ==
    /\ phase[o] = "held"
    /\ phase' = [phase EXCEPT ![o] = "sold"]
    /\ UNCHANGED shelf

\* The order will not be paid: its goods go back, once.
Release(o) ==
    /\ phase[o] = "held"
    /\ shelf' = shelf + Qty[o]
    /\ phase' = [phase EXCEPT ![o] = "released"]

\* A sale at the counter.
SellNow(i) ==
    /\ phase[i] \in {"absent", "released"}
    /\ Qty[i] <= shelf
    /\ shelf' = shelf - Qty[i]
    /\ phase' = [phase EXCEPT ![i] = "sold"]

\* A sale at the counter is cancelled.
Return(i) ==
    /\ phase[i] = "sold"
    /\ shelf' = shelf + Qty[i]
    /\ phase' = [phase EXCEPT ![i] = "released"]

GoodsNext ==
    \/ \E o \in Orders : Hold(o) \/ Sell(o) \/ Release(o)
    \/ \E i \in Counter : SellNow(i) \/ Return(i)

GoodsSpec == GoodsInit /\ [][GoodsNext]_goodsVars

=============================================================================
