----------------------------- MODULE MCCatalogue -----------------------------
(***************************************************************************)
(* Instances of Catalogue small enough for TLC.                            *)
(***************************************************************************)
EXTENDS Catalogue, TLC

CONSTANTS w1, w2

R(s, k) == [sku |-> s, is |-> k]

(* Two files with the same SKUs in opposite orders, one of them with a      *)
(* duplicate, a row without a readable price and a blank one; and a file    *)
(* with a row the database refuses and an invalid row before a valid one.   *)
MCFiles == {<<R(1, "good"), R(2, "good")>>,
            <<R(2, "good"), R(1, "empty"), R(1, "good"), R(2, "good"), R(1, "unreadable")>>,
            <<R(1, "untyped"), R(1, "good"), R(2, "refused")>>}

MCSymmetry == Permutations(Importers)

=============================================================================
