-------------------------------- MODULE FFT --------------------------------
(***************************************************************************)
(* The fixed-point FFT of src/src/fft.rs and the RebuildS0 arithmetic      *)
(* built on it.  A transform holds N/2 complex lanes, kept by the code as  *)
(* two arrays of i64 whose values were wrapped to i32; sums and products   *)
(* wrap to i64, and a right shift is a floor division.  The scales are     *)
(* parameters so that a model with a small N can keep every product inside *)
(* TLC's integers.                                                         *)
(***************************************************************************)
EXTENDS Params

CONSTANTS DELTA,                    \* twiddles, scaled by DeltaOne
          DeltaOne,                 \* 2^31
          WordSize,                 \* 2^32: the range of an i32
          WideSize,                 \* 2^64: the range of an i64
          C_W1, C_Q00, C_Q01, C_S0, \* input scales of the three FFTs and of s0
          BoundScale,               \* 2^32: the bound is BoundScale * v
          DivisorMax,               \* 2^30: the divisor v lies in 1..DivisorMax-1
          S0Max                     \* 2^HIGH_S0

\* The widths, and the part of the table that the transforms read: points of
\* the circle, each coordinate rounded up.
ASSUME FftAssumption ==
  /\ DeltaOne \in Nat \ {0} /\ WordSize = 2 * DeltaOne /\ WideSize = WordSize * WordSize
  /\ {C_W1, C_Q00, C_Q01} \subseteq Int /\ BoundScale \in Nat \ {0} /\ DivisorMax \in 0..WideSize
  /\ \A k \in 1..(LOGN - 1) : \A block \in 0..(Pow2(k - 1) - 1) :
       LET e == DELTA[Pow2(k) + block]
       IN  /\ e.re \in Int /\ e.im \in Int
           /\ e.re * e.re + e.im * e.im <= (DeltaOne + 2) * (DeltaOne + 2)

Complex == [re : [Slots -> Int], im : [Slots -> Int]]

\* Lanes as the code keeps them, in an i32 each.
Words == (-DeltaOne)..(DeltaOne - 1)
WordLanes == [re : [Slots -> Words], im : [Slots -> Words]]

AsI32(x) == ((x + WordSize \div 2) % WordSize) - WordSize \div 2
AsI64(x) == ((x + WideSize \div 2) % WideSize) - WideSize \div 2

Abs(x) == IF x < 0 THEN -x ELSE x

(***************************************************************************)
(* Forward transform.                                                      *)
(***************************************************************************)

\* One butterfly: (x1, x2) -> ((x1 + e*x2)/2, (x1 - e*x2)/2).
Fold(x1, t, sign) == AsI32(AsI64(x1 * DeltaOne + sign * t) \div (2 * DeltaOne))

\* Level with m/2 blocks of t slots, twiddle DELTA[m + block].
FftLevel(z, m, t) ==
  LET h == t \div 2
      e(u) == DELTA[m + u \div t]
      tre(u) == z.re[u] * e(u).re - z.im[u] * e(u).im
      tim(u) == z.re[u] * e(u).im + z.im[u] * e(u).re
      low(u) == u % t < h
  IN  [re |-> [u \in Slots |-> IF low(u) THEN Fold(z.re[u], tre(u + h), 1)
                                         ELSE Fold(z.re[u - h], tre(u), -1)],
       im |-> [u \in Slots |-> IF low(u) THEN Fold(z.im[u], tim(u + h), 1)
                                         ELSE Fold(z.im[u - h], tim(u), -1)]]

\* Scaling: the first half of the source is the real part, the second half
\* the imaginary part; q00 is transformed with its first coefficient zeroed.
Scaled(src, c, zeroFirst) ==
  [re |-> [u \in Slots |-> IF zeroFirst /\ u = 0 THEN 0 ELSE AsI32(AsI64(c * src[u]))],
   im |-> [u \in Slots |-> AsI32(AsI64(c * src[u + N \div 2]))]]

\* Scaled coefficients that are short enough for each level to add four to the
\* length of a lane, and lanes no longer than r.
Short(src, c) == \A n \in Coeffs : 2 * Abs(c * src[n]) <= DeltaOne - 4 * LOGN
ShortLanes(z, r) == \A n \in Slots : z.re[n] * z.re[n] + z.im[n] * z.im[n] <= r * r

\* The lanes after each of the levels.
FftLevels(src, c, zeroFirst) ==
  LET after[k \in 0..(LOGN - 1)] ==
        IF k = 0 THEN Scaled(src, c, zeroFirst)
        ELSE FftLevel(after[k - 1], Pow2(k), N \div Pow2(k))
  IN  after

FftConv(src, c, zeroFirst) == FftLevels(src, c, zeroFirst)[LOGN - 1]

(***************************************************************************)
(* The divide loop of RebuildS0.                                           *)
(***************************************************************************)

Alpha(q00) == (2 * C_Q00 * q00[0]) \div N

Divisor(q00) ==
  LET fq00 == FftConv(q00, C_Q00, TRUE)
  IN  [u \in Slots |-> Alpha(q00) + fq00.re[u]]

InRange(v) == v > 0 /\ v < DivisorMax

XRe(q, w, u) == AsI64(q.re[u] * w.re[u] - q.im[u] * w.im[u])
XIm(q, w, u) == AsI64(q.re[u] * w.im[u] + q.im[u] * w.re[u])

\* unsigned_abs, seen as an i64: the least i64 is its own magnitude.
Magnitude(x) == AsI64(Abs(x))

\* The check that lets slot u be divided: the magnitude bound bnd is exclusive.
WithinBound(q, w, u, bnd) == Magnitude(XRe(q, w, u)) < bnd /\ Magnitude(XIm(q, w, u)) < bnd

\* udiv on the magnitude, unsigned, and the sign restored: rounds towards zero.
DivTrunc(x, v) == LET y == Abs(x) \div (v % WideSize) IN IF x < 0 THEN -y ELSE y

DivideStep(q, w, u, v) == [re |-> AsI32(DivTrunc(XRe(q, w, u), v)),
                           im |-> AsI32(DivTrunc(XIm(q, w, u), v))]

(***************************************************************************)
(* Inverse transform, and w0 = h0 - 2 s0 with the range check on s0.       *)
(***************************************************************************)

\* The product with the conjugate twiddle, before the final shift.
ConjRe(dre, dim, e) == AsI64(dre * e.re + dim * e.im) \div (2 * DeltaOne)
ConjIm(dre, dim, e) == AsI64(dim * e.re - dre * e.im) \div (2 * DeltaOne)

\* One inverse level, not yet wrapped: the last, fused one is used as it is.
InvLevel(z, m, t) ==
  LET h == t \div 2
      e(u) == DELTA[m + u \div t]
      low(u) == u % t < h
      dre(u) == z.re[u - h] - z.re[u]
      dim(u) == z.im[u - h] - z.im[u]
  IN  [re |-> [u \in Slots |-> IF low(u) THEN (z.re[u] + z.re[u + h]) \div 2
                               ELSE ConjRe(dre(u), dim(u), e(u))],
       im |-> [u \in Slots |-> IF low(u) THEN (z.im[u] + z.im[u + h]) \div 2
                               ELSE ConjIm(dre(u), dim(u), e(u))]]

Wrapped(z) == [re |-> [u \in Slots |-> AsI32(z.re[u])],
               im |-> [u \in Slots |-> AsI32(z.im[u])]]

\* The lanes before the level with m = Pow2(k).
InvLevels(z) ==
  LET before[k \in 1..(LOGN - 1)] ==
        IF k = LOGN - 1 THEN z
        ELSE Wrapped(InvLevel(before[k + 1], Pow2(k + 1), N \div Pow2(k + 1)))
  IN  before

InvFft(z) ==
  LET last == InvLevel(InvLevels(z)[1], 2, N \div 2)
  IN  [i \in Coeffs |-> IF i < N \div 2 THEN last.re[i] ELSE last.im[i - N \div 2]]

S0(t, h0) == [i \in Coeffs |-> (C_S0 * h0[i] + t[i] + C_S0) \div (2 * C_S0)]

S0InRange(s0) == \A i \in Coeffs : s0[i] >= -S0Max /\ s0[i] < S0Max

W0(s0, h0) == [i \in Coeffs |-> h0[i] - 2 * s0[i]]
=============================================================================
