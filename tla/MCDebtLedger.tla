----------------------------- MODULE MCDebtLedger -----------------------------
(***************************************************************************)
(* Instances of DebtLedger small enough for TLC.                           *)
(***************************************************************************)
EXTENDS DebtLedger

CONSTANTS c1, c2, d1, d2, d3, t1, t2, w1, w2, k1, k2

MCSymmetry == Permutations(Customers) \cup Permutations(DebtIds)
                \cup Permutations(SaleIds) \cup Permutations(Workers)
                \cup Permutations(Keys \ {BlankKey})

=============================================================================
