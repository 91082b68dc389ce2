------------------------------ MODULE RingNorm ------------------------------
(***************************************************************************)
(* Reference arithmetic in Z[X]/(X^N + 1), with no transform in it.  A     *)
(* lattice basis B = [[f, F], [g, G]] of determinant one has the Gram      *)
(* polynomials q00 and q01, and the norm that a verifier bounds is the     *)
(* squared length of B*(w0, w1).                                           *)
(***************************************************************************)
EXTENDS Params

PolyAdd(a, b) == [k \in Coeffs |-> a[k] + b[k]]

\* X^N = -1, so a product term that wraps around changes sign.
PolyMul(a, b) ==
  [k \in Coeffs |->
     SumTo([j \in Coeffs |-> IF j <= k THEN a[j] * b[k - j] ELSE -(a[j] * b[N + k - j])], N)]

\* The adjoint: X becomes 1/X.
PolyAdj(a) == [k \in Coeffs |-> IF k = 0 THEN a[0] ELSE -a[N - k]]

SquaredLength(a) == SumTo([k \in Coeffs |-> a[k] * a[k]], N)

One == [k \in Coeffs |-> IF k = 0 THEN 1 ELSE 0]

IsBasis(b) ==
  /\ \A a \in {b.f, b.g, b.F, b.G} : a \in [Coeffs -> Int]
  /\ PolyMul(b.f, b.G) = PolyAdd(One, PolyMul(b.g, b.F))

GramQ00(b) == PolyAdd(PolyMul(b.f, PolyAdj(b.f)), PolyMul(b.g, PolyAdj(b.g)))
GramQ01(b) == PolyAdd(PolyMul(b.F, PolyAdj(b.f)), PolyMul(b.G, PolyAdj(b.g)))

LatticeNorm(b, w0, w1) ==
  SquaredLength(PolyAdd(PolyMul(b.f, w0), PolyMul(b.F, w1)))
    + SquaredLength(PolyAdd(PolyMul(b.g, w0), PolyMul(b.G, w1)))

\* The basis with f = 1: any g and F have a G that makes the determinant one.
UnitBasis(g, F) ==
  [f |-> One, g |-> g, F |-> F, G |-> PolyAdd(One, PolyMul(g, F))]
=============================================================================
