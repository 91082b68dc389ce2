------------------------------- MODULE Qnorm -------------------------------
(***************************************************************************)
(* PolyQnorm over precomputed key factors, and the final bound test of     *)
(* src/src/ntt.rs.                                                         *)
(***************************************************************************)
EXTENDS NTT

CONSTANTS NormScale,   \* 1600, and
          NormLimit    \* 13307904: accept when NormScale * norm <= NormLimit

\* Reading a transform backwards is the transform of the adjoint.
Adj(f) == [i \in Coeffs |-> f[N - 1 - i]]

\* The sum of q00*e*adj(e) + d*adj(w1); one reduction at the end is exact.
QnormSum(a, c, e, d, p) ==
  LET term(i) == MulMod(MulMod(a[i], c[i], p), Adj(c)[i], p) + MulMod(e[i], Adj(d)[i], p)
  IN  SumTo([i \in Coeffs |-> term(i)], N) % p

\* d = w1/q00, and e = w0 + d*q01 left below 2p.
DHat(d, q00inv, p) == [i \in Coeffs |-> MulMod(d[i], q00inv[i], p)]
EHat(c, dh, q01n, p) == [i \in Coeffs |-> c[i] + MulMod(dh[i], q01n[i], p)]

QnormPrepared(q00n, q00inv, q01n, w0, w1, p) ==
  LET d == Ntt(w1, p)
      dh == DHat(d, q00inv, p)
  IN  QnormSum(q00n, EHat(Ntt(w0, p), dh, q01n, p), dh, d, p)

\* The two residues must agree on a multiple of N within the limit.
BoundOnFirst(r1, r2) == r1 % N = 0 /\ NormScale * (r1 \div N) <= NormLimit  \* mutant

BoundHolds(r1, r2) ==
  /\ r1 = r2
  /\ r1 % N = 0
  /\ NormScale * (r1 \div N) <= NormLimit

\* key holds the per-prime factors q00n, q00inv and q01n of a prepared key.
QnormInBoundPrepared(key, w0, w1) ==
  LET r(l) == QnormPrepared(key.q00n[l], key.q00inv[l], key.q01n[l], w0, w1, Prime(l))
  IN  BoundHolds(r(1), r(2))
=============================================================================
