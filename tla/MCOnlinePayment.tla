--------------------------- MODULE MCOnlinePayment ---------------------------
(***************************************************************************)
(* Instances of OnlinePayment small enough for TLC.                        *)
(***************************************************************************)
EXTENDS OnlinePayment, TLC

CONSTANTS o1, o2, c1, h1, h2, t1, t2, t3

MCQty == [i \in Invoices |-> IF i = o2 THEN 2 ELSE 1]

MCSymmetry == Permutations(Handlers) \cup Permutations(SaleIds)

=============================================================================
