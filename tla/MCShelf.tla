------------------------------- MODULE MCShelf -------------------------------
(***************************************************************************)
(* Instances of Shelf small enough for TLC.                                *)
(***************************************************************************)
EXTENDS Shelf, TLC

CONSTANTS w1, w2, s1, s2, o1

Line(p, q) == [product |-> p, qty |-> q]

(* Both orders of the lines, a product twice, and half a cent of one.       *)
MCCarts == {<<Line(2, 2), Line(1, 1)>>, <<Line(1, 1), Line(3, 2), Line(1, 2)>>}
MCDeltas == {-2, 3}

MCSymmetry == Permutations(Workers) \cup Permutations(Sales)

=============================================================================
