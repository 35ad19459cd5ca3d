------------------------------ MODULE MCQtEngine -------------------------------
(* Instances of QtEngine for TLC: a computer with two processors and one   *)
(* with one.                                                               *)
EXTENDS QtEngine, TLC

CONSTANTS m1, m2

TwoAndOne == m1 :> 2 @@ m2 :> 1
===============================================================================
