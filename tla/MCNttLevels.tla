---------------------------- MODULE MCNttLevels ----------------------------
(***************************************************************************)
(* NttLevels with sixteen coefficients, so levels that are lazy, full,     *)
(* lazy, full, and the primes 97 and 193 (both 1 mod 32) in lanes of nine  *)
(* bits: as in the code two of the larger prime just fit a lane and three  *)
(* do not.                                                                 *)
(***************************************************************************)
EXTENDS NttLevels

Extremes == {-96, 0, 96}

MCSources == {[n \in Coeffs |-> IF n % 4 = r THEN a ELSE IF n < 8 THEN b ELSE c] :
                r \in {1, 2}, a \in Extremes \cup {1}, b \in Extremes, c \in Extremes}

\* The levels as ntt and ntt_conv write them out for 512 coefficients, by hand:
\* <<L, whether the level is lazy>>.
WrittenLevels == <<<<256, TRUE>>, <<128, FALSE>>, <<64, TRUE>>, <<32, FALSE>>, <<16, TRUE>>,
                   <<8, FALSE>>, <<4, TRUE>>, <<2, FALSE>>, <<1, FALSE>>>>

\* They are the levels of NTT (Half, IsLazy), taken at nine levels.
ASSUME LevelsAsWritten ==
  \A n \in 1..9 : WrittenLevels[n] = <<512 \div 2^n, n % 2 = 1 /\ n # 9>>
=============================================================================
