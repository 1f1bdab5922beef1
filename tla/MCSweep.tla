------------------------------- MODULE MCSweep -------------------------------
(***************************************************************************)
(* Instances of Sweep small enough for TLC.                                *)
(***************************************************************************)
EXTENDS Sweep, TLC

CONSTANTS o1, o2, o3, h1

(* More orders the sweep can do nothing for than one list holds, and one it *)
(* can finish; and two it can finish that may overtake each other.          *)
MCFates == {(o1 :> "unsellable") @@ (o2 :> "settled") @@ (o3 :> "unsellable"),
            (o1 :> "refund") @@ (o2 :> "expired") @@ (o3 :> "unknown"),
            (o1 :> "settled") @@ (o2 :> "expired") @@ (o3 :> "refund")}

=============================================================================
