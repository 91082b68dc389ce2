---------------------------- MODULE MCPolyQnorm ----------------------------
(***************************************************************************)
(* PolyQnorm with four coefficients and the primes 17, 97 (both 1 mod 8).  *)
(* The keys are Gram polynomials of known bases, so that the residues can  *)
(* be held against the norm they stand for; the last one has a q00 that    *)
(* vanishes at a root of X^4 + 1 modulo 17.                                *)
(***************************************************************************)
EXTENDS PolyQnorm

Poly(p0, p1, p2, p3) == [j \in Coeffs |-> <<p0, p1, p2, p3>>[j + 1]]

MCBases == {UnitBasis(g, F) : g \in {Zero, Poly(0, 1, 0, 0), Poly(1, 1, 0, -1)},
                              F \in {Zero, Poly(1, 0, -1, 0)}}

NotInvertible == {[q00 |-> Poly(6, 1, 0, -1), q01 |-> Zero]}

MCKeys == {KeyOf(b) : b \in MCBases} \cup NotInvertible

Small == {Poly(a, 0, b, d) : a \in {0, 1}, b \in {-1, 0}, d \in {0, 2}}

MCVectors == Small \X {Zero, Poly(1, 0, 0, 0), Poly(0, 1, -1, 0), Poly(1, 1, 1, 1)}

\* No vector is out of the reach of two primes.
ASSUME NormsDistinct ==
  \A b \in MCBases, x \in MCVectors : N * LatticeNorm(b, x[1], x[2]) < P1 * P2
=============================================================================
