------------------------------- MODULE Params -------------------------------
(***************************************************************************)
(* The ring degree.  HAWK-512 fixes N = 512 and LOGN = 9 (src/src/lib.rs); *)
(* the models run the same code paths with 4 or 8 coefficients.            *)
(***************************************************************************)
EXTENDS Sums

CONSTANTS N, LOGN

ASSUME ParamsAssumption == /\ N \in Nat /\ N > 3
                           /\ LOGN \in Nat
                           /\ N = Pow2(LOGN)

Coeffs == 0..(N - 1)                \* indices of a polynomial
Slots == 0..(N \div 2 - 1)          \* complex lanes of an FFT
=============================================================================
