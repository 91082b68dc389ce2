---------------------------- MODULE RebuildLoops ----------------------------
(***************************************************************************)
(* rebuild_s0 (src/src/fft.rs) as the loops it is: three forward FFTs, the *)
(* divide loop, the inverse FFT and its fused last level, in place.  A     *)
(* lane is a complex number kept in two i32 (sign-extended to i64), and    *)
(* every intermediate value an i64 that wraps.                             *)
(***************************************************************************)
EXTENDS RebuildS0, RingNorm, Functions

CONSTANT Inputs   \* [q00, q01, w1, h0], as the decoders and hashes give them

\* The decoders bound the coefficients that the transforms scale; q00[0] is not
\* among them.
ASSUME InputsAssumption ==
  \A i \in Inputs :
    /\ {i.q00, i.q01, i.w1, i.h0} \subseteq [Coeffs -> Int]
    /\ Short([i.q00 EXCEPT ![0] = 0], C_Q00) /\ Short(i.q01, C_Q01) /\ Short(i.w1, C_W1)

VARIABLES in,         \* the arguments
          job,        \* what is being computed
          hat,        \* the transforms of w1, q00 and q01
          m,          \* M of the level
          u, j,       \* block and index in it; u or j alone in the other loops
          w0          \* the result

vars == <<in, job, hat, m, u, j, w0>>

Forward == {"w1", "q00", "q01"}
Refused == {"indivisible", "outOfRange"}    \* what the code tells by false
Done == {"ok"} \union Refused

(***************************************************************************)
(* Complex arithmetic of the butterflies.                                  *)
(***************************************************************************)

Plus(a, b) == [re |-> a.re + b.re, im |-> a.im + b.im]
Minus(a, b) == [re |-> a.re - b.re, im |-> a.im - b.im]
Times(a, b) == [re |-> a.re * b.re - a.im * b.im, im |-> a.re * b.im + a.im * b.re]
\* Mutant: the inverse transform turns the way of the forward one.
ConjForgotten(e) == e

Conj(e) == [re |-> e.re, im |-> -e.im]
Shl(a) == [re |-> a.re * DeltaOne, im |-> a.im * DeltaOne]
Shr(a, n) == [re |-> AsI64(a.re) \div n, im |-> AsI64(a.im) \div n]
\* Mutant: a level adds and does not halve.
Unhalved(a) == Shr(a, DeltaOne)

\* The shift by 32 after the one by 31: a level halves what it adds.
Halved(a) == Shr(a, 2 * DeltaOne)

Truncated(a) == [re |-> AsI32(a.re), im |-> AsI32(a.im)]

Fits(size, a) == a.re \in -(size \div 2)..(size \div 2 - 1) /\ a.im \in -(size \div 2)..(size \div 2 - 1)

-----------------------------------------------------------------------------

Init ==
  /\ in \in Inputs
  /\ job = IF in.q00[0] < 0 THEN "indivisible" ELSE "w1"
  /\ hat = [a \in Forward |-> [n \in Slots |-> [re |-> 0, im |-> 0]]]
  /\ m = 2 /\ u = 0 /\ j = 0
  /\ w0 = [n \in Coeffs |-> 0]

\* Mutant: the length that a block of a whole polynomial would have.
TOfPolynomial == (2 * N) \div m

\* The lanes of a butterfly: block u starts at slot u * T.
T == N \div m
Low == u * T + j
High == Low + T \div 2
E == DELTA[u + m]

\* Mutant: the next block is the same one.
AdvanceInPlace(after) ==
  IF j + 1 < T \div 2 THEN j' = j + 1 /\ UNCHANGED <<u, m, job>>
  ELSE IF u + 1 < m \div 2 THEN j' = 0 /\ UNCHANGED <<u, m, job>>
  ELSE u' = 0 /\ j' = 0 /\ after

\* The loops over blocks and within a block, and what follows them.
Advance(after) ==
  IF j + 1 < T \div 2 THEN j' = j + 1 /\ UNCHANGED <<u, m, job>>
  ELSE IF u + 1 < m \div 2 THEN u' = u + 1 /\ j' = 0 /\ UNCHANGED <<m, job>>
  ELSE u' = 0 /\ j' = 0 /\ after

\* The scaled source, which the first level of fft_conv reads.
Source(n) ==
  CASE job = "w1" -> AsI32(AsI64(C_W1 * in.w1[n]))
    [] job = "q01" -> AsI32(AsI64(C_Q01 * in.q01[n]))
    [] job = "q00" -> IF n = 0 THEN 0 ELSE AsI32(AsI64(C_Q00 * in.q00[n]))

LaneAt(n) == IF job \in Forward
           THEN IF m = 2 THEN [re |-> Source(n), im |-> Source(N \div 2 + n)] ELSE hat[job][n]
           ELSE hat["q01"][n]

Write(a, low, high) == hat' = [hat EXCEPT ![a] = [@ EXCEPT ![Low] = low, ![High] = high]]

\* What follows the last level of a transform.
Then == [w1 |-> "q00", q00 |-> "q01", q01 |-> "divide"]

Twisted == Times(LaneAt(High), E)
Sum == Plus(Shl(LaneAt(Low)), Twisted)
Difference == Minus(Shl(LaneAt(Low)), Twisted)

ForwardButterfly ==
  /\ job \in Forward
  /\ Write(job, Truncated(Halved(Sum)), Truncated(Halved(Difference)))
  /\ Advance(IF m < N \div 2 THEN m' = 2 * m /\ job' = job ELSE m' = 2 /\ job' = Then[job])
  /\ UNCHANGED <<in, w0>>

V == Alpha(in.q00) + hat["q00"][u].re
X == Times(hat["q01"][u], hat["w1"][u])

TooLarge == Magnitude(AsI64(X.re)) >= BoundScale * V \/ Magnitude(AsI64(X.im)) >= BoundScale * V

Divide ==
  /\ job = "divide"
  /\ IF ~InRange(V) \/ TooLarge
     THEN job' = "indivisible" /\ UNCHANGED <<hat, m, u>>
     ELSE /\ hat' = [hat EXCEPT !["q01"][u] = [re |-> AsI32(DivTrunc(AsI64(X.re), V)),
                                              im |-> AsI32(DivTrunc(AsI64(X.im), V))]]
          /\ IF u + 1 < N \div 2 THEN u' = u + 1 /\ UNCHANGED <<m, job>>
                                 ELSE u' = 0 /\ m' = N \div 2 /\ job' = "inverse"
  /\ UNCHANGED <<in, j, w0>>

Gap == Times(Minus(LaneAt(Low), LaneAt(High)), Conj(E))
HalfSum == Shr(Plus(LaneAt(Low), LaneAt(High)), 2)
Untwisted == Halved(Gap)

InverseButterfly ==
  /\ job = "inverse" /\ m > 2
  /\ Write("q01", Truncated(HalfSum), Truncated(Untwisted))
  /\ Advance(m' = m \div 2 /\ job' = job)
  /\ UNCHANGED <<in, w0>>

\* The last level goes straight into w0, in this order.
Outputs == <<[at |-> j, t |-> HalfSum.re],
             [at |-> N \div 2 + j, t |-> HalfSum.im],
             [at |-> j + N \div 4, t |-> Untwisted.re],
             [at |-> N \div 2 + j + N \div 4, t |-> Untwisted.im]>>

\* Mutant: floor instead of round.
RoundedDown(o) == (C_S0 * in.h0[o.at] + o.t) \div (2 * C_S0)

Rounded(o) == (C_S0 * in.h0[o.at] + o.t + C_S0) \div (2 * C_S0)
\* Mutant: the least s0 is refused.
AdmittedInside(z) == z > -S0Max /\ z < S0Max

Admitted(z) == z >= -S0Max /\ z < S0Max

Finalize ==
  /\ job = "inverse" /\ m = 2
  /\ LET bad == {o \in 1..4 : ~Admitted(Rounded(Outputs[o]))}
         written == {o \in 1..4 : \A b \in bad : o < b}
     IN  /\ w0' = [n \in Coeffs |->
                     IF \E o \in written : Outputs[o].at = n
                     THEN LET o == CHOOSE o \in written : Outputs[o].at = n
                          IN  in.h0[n] - 2 * Rounded(Outputs[o])
                     ELSE w0[n]]
         /\ IF bad # {} THEN job' = "outOfRange" /\ UNCHANGED j
            ELSE IF j + 1 < N \div 4 THEN j' = j + 1 /\ UNCHANGED job
            ELSE job' = "ok" /\ j' = 0
  /\ UNCHANGED <<in, hat, m, u>>

Next == ForwardButterfly \/ Divide \/ InverseButterfly \/ Finalize

Spec == Init /\ [][Next]_vars /\ WF_vars(Next)

(***************************************************************************)
(* Properties.                                                             *)
(***************************************************************************)

\* The loops, with their wrapping words, compute what the levels, taken as
\* functions, compute: no lane is read after its overwriting and each level
\* meets its own twiddles.  HawkVerify, and with it the prepared path, is
\* modelled by those functions.
SameAsFunction ==
  LET r == RebuildDirect(in.q00, in.q01, in.w1, in.h0)
  IN  /\ job = "ok" => r = [fate |-> "w0", w0 |-> w0]
      /\ job \in Refused => r = Rejected

\* Every index that the loops assert, and hand to the compiler as a fact.
AssertedInBounds ==
  /\ job \in Forward \union {"inverse"} => u + m < N /\ (u + 1) * T <= N \div 2 /\ High < N \div 2
  /\ job = "divide" => u < N \div 2

\* The hazard of the magnitude test: the least i64 is its own magnitude and
\* passes as a negative one.  No sum reaches it, nor does a forward butterfly
\* overflow or lose bits in its i32: the levels halve what they add, and a lane
\* stays as short as the scaled coefficients that the decoders admit.
ForwardFits ==
  /\ job \in Forward =>
       /\ \A a \in {Twisted, Sum, Difference} : Fits(WideSize, a)
       /\ \A a \in {Sum, Difference} : Fits(WordSize, Halved(a))
  /\ job = "divide" => Fits(WideSize, X)

\* The quotients of the divide loop, before `as i32` cuts them.
Quotients ==
  LET q == FftConv(in.q01, C_Q01, FALSE)
      w == FftConv(in.w1, C_W1, FALSE)
      v == Divisor(in.q00)
  IN  [n \in Slots |-> [re |-> DivTrunc(XRe(q, w, n), v[n]), im |-> DivTrunc(XIm(q, w, n), v[n])]]

L1(a) == SumFunction([n \in Coeffs |-> Abs(a[n])])

\* What RebuildS0 is for, with no transform in it: 2 s0 - h0 is q01 w1 / q00
\* rounded, so the remainder q00 w0 + q01 w1 has no coefficient above the
\* length of q00.  The quotient that passes the bound may still lose its
\* 32nd bit in `as i32`; nothing is promised of what is rebuilt from that.
RoundsTheQuotient ==
  job = "ok" /\ (\A n \in Slots : Fits(WordSize, Quotients[n])) =>
    LET remainder == PolyAdd(PolyMul(in.q00, w0), PolyMul(in.q01, in.w1))
    IN  \A n \in Coeffs : Abs(remainder[n]) <= L1(in.q00)

\* The range test takes the whole of [-S0Max, S0Max) and comes after the
\* rounding: when q00 is a constant c, a call is refused there only if, for
\* some coefficient, h0/2 + q01 w1 / 2c rounds to no s0 in that range (or lies
\* on the lower half-integer, which the fixed point may put on either side).
RefusesOnlyBeyond ==
  LET c == in.q00[0]
      product == PolyMul(in.q01, in.w1)
      twice(n) == c * in.h0[n] + product[n]         \* 2 c s0, exactly
  IN  job = "outOfRange" /\ (\A n \in Coeffs \ {0} : in.q00[n] = 0) =>
        \E n \in Coeffs : twice(n) >= c * (2 * S0Max - 1) \/ twice(n) <= -c * (2 * S0Max + 1)

\* The loops end, with w0 or with a refusal.
Returns == <>(job \in Done)
=============================================================================
