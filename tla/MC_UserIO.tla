------------------------------ MODULE MC_UserIO ------------------------------
(* Model values for checking UserIO with TLC.                              *)
EXTENDS UserIO, TLC

CONSTANTS net, can, t1, t2

(* The LEDs are interchangeable.                                           *)
SymmLeds == Permutations({net, can})

=============================================================================
