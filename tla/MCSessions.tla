------------------------------ MODULE MCSessions ------------------------------
(***************************************************************************)
(* Instances of Sessions small enough for TLC.                             *)
(***************************************************************************)
EXTENDS Sessions, TLC

CONSTANTS p1, p2, p3, w1, w2

MCSymmetry == Permutations(Pairs) \cup Permutations(Workers)

=============================================================================
