----------------------------- MODULE RebuildS0 -----------------------------
(***************************************************************************)
(* RebuildS0 (src/src/fft.rs), on the decoded key and on a prepared one.   *)
(* Both divide slot by slot and stop at the first slot they cannot divide; *)
(* what differs is who guarantees that the divisor is not zero: the direct *)
(* path tests it, the prepared path trusts the blob.                       *)
(***************************************************************************)
EXTENDS FFT

Rejected == [fate |-> "reject"]
Panicked == [fate |-> "panic"]

\* The last stage: back to w0, unless some s0 is out of range.
InvFftToW0(t, h0) ==
  LET s0 == S0(InvFft(t), h0)
  IN  IF S0InRange(s0) THEN [fate |-> "w0", w0 |-> W0(s0, h0)] ELSE Rejected

\* The divide loop.  It ends at the first slot that it does not divide: one
\* that is not allowed or out of bounds, or, with a panic, one whose divisor is
\* zero.
DivideLoop(q, w, v, bnd, h0, allowed) ==
  LET refused == {u \in Slots : u \notin allowed \/ ~WithinBound(q, w, u, bnd[u])}
      zero == {u \in Slots : v[u] = 0}
      y(u) == DivideStep(q, w, u, v[u])
  IN  CASE refused \union zero = {} ->
             InvFftToW0([re |-> [u \in Slots |-> y(u).re], im |-> [u \in Slots |-> y(u).im]], h0)
        [] \E u \in zero \ refused : \A t \in refused : u < t -> Panicked
        [] OTHER -> Rejected

\* The bound that a divisor puts on the magnitude of its slot.
Bounds(v) == [u \in Slots |-> BoundScale * v[u]]

\* Mutant: the divisors' range is not tested.
RebuildUnchecked(q00, q01, w1, h0) ==
  LET v == Divisor(q00)
  IN  IF q00[0] < 0 THEN Rejected
      ELSE DivideLoop(FftConv(q01, C_Q01, FALSE), FftConv(w1, C_W1, FALSE), v, Bounds(v), h0, Slots)

RebuildDirect(q00, q01, w1, h0) ==
  LET v == Divisor(q00)
  IN  IF q00[0] < 0 THEN Rejected
      ELSE DivideLoop(FftConv(q01, C_Q01, FALSE), FftConv(w1, C_W1, FALSE),
                      v, Bounds(v), h0, {u \in Slots : InRange(v[u])})

\* The prepared path shifts the divisor out of the stored bound; the mutant
\* shifts by one bit less.
HalfShifted(pvbound) == [u \in Slots |-> (2 * pvbound[u]) \div BoundScale]

StoredDivisor(pvbound) == [u \in Slots |-> pvbound[u] \div BoundScale]

RebuildPrepared(pvbound, fq01, w1, h0) ==
  DivideLoop(fq01, FftConv(w1, C_W1, FALSE), StoredDivisor(pvbound), pvbound, h0, Slots)
=============================================================================
