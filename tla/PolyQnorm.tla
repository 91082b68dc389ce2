----------------------------- MODULE PolyQnorm -----------------------------
(***************************************************************************)
(* qnorm_in_bound (src/src/ntt.rs), the last stage of the direct verifier:  *)
(* once per prime it transforms q00, q01, w0 and w1, divides by q00 with    *)
(* Montgomery's trick and sums the norm.  pq_e fuses the division with the *)
(* accumulation of e into one backward pass over arrays that still hold    *)
(* earlier values: e[i] turns from a running product into a quotient while *)
(* e[i-1] is still to be read as a product, and c[i] from w0 into e.       *)
(***************************************************************************)
EXTENDS Qnorm, BatchInversion, RingNorm

CONSTANTS Keys,      \* decoded keys [q00, q01]
          Vectors,   \* pairs <<w0, w1>>
          LaneMax,   \* 2^32, the range of a u32 lane
          Bases      \* secret bases, that the norms are measured in

VARIABLES pc, key, w,   \* the call: its key and its <<w0, w1>>
          lane, i, acc, \* prime, loop index, running product
          c, e,         \* w0 then e; running products then d
          r1,           \* the first prime's residue
          verdict

vars == <<pc, key, w, lane, i, acc, c, e, r1, verdict>>

\* The transforms of each call: pq_a to pq_d compute a, b, c and d.  Only c is
\* written after.
ANtt == [k \in Keys |-> [l \in Lane |-> Ntt(k.q00, Prime(l))]]
BNtt == [k \in Keys |-> [l \in Lane |-> Ntt(k.q01, Prime(l))]]
CNtt == [x \in Vectors |-> [l \in Lane |-> Ntt(x[1], Prime(l))]]
DNtt == [x \in Vectors |-> [l \in Lane |-> Ntt(x[2], Prime(l))]]

Zero == [j \in Coeffs |-> 0]

ASSUME PrimesAssumption ==
  \A p \in {P1, P2} : /\ p \in Nat /\ p > 1 /\ NoZeroDivisors(p) /\ Fermat(p)
                      /\ 2 * p <= LaneMax

ASSUME LaneMaxAssumption == LaneMax \in Nat

\* One conditional addition reduces what is transformed.
ASSUME InputsAssumption ==
  /\ \A k \in Keys : Reducible(k.q00) /\ Reducible(k.q01)
  /\ \A x \in Vectors : Reducible(x[1]) /\ Reducible(x[2])

\* A norm that is accepted is one that the residues tell apart.
ASSUME LimitAssumption ==
  /\ P1 # P2 /\ NormScale \in Nat \ {0} /\ NormLimit \in Nat
  /\ \A p \in Primes : N * (NormLimit \div NormScale) < p

ASSUME BasesAssumption == \A b \in Bases : IsBasis(b)

\* A call starts on fresh stack frames.
Init == /\ pc = "ntt" /\ verdict = FALSE
        /\ key \in Keys /\ w \in Vectors
        /\ lane = 1 /\ i = 0 /\ acc = 1 /\ r1 = 0
        /\ c = Zero /\ e = Zero

\* pq_a to pq_d: each frame transforms one polynomial; e starts zeroed.
TransformInto(c0) ==
  /\ pc = "ntt"
  /\ c' = c0 /\ e' = Zero
  /\ acc' = 1 /\ i' = 0 /\ pc' = "prefix"
  /\ UNCHANGED <<key, w, lane, r1, verdict>>

\* Mutant: the second prime starts from what the first left in c.
TransformOnce == TransformInto(IF lane = 1 THEN CNtt[w][lane] ELSE c)

Transform == TransformInto(CNtt[w][lane])

PrefixProduct ==
  /\ pc = "prefix"
  /\ acc' = MulMod(acc, ANtt[key][lane][i], Prime(lane))
  /\ e' = [e EXCEPT ![i] = acc']
  /\ i' = i + 1
  /\ pc' = IF i + 1 < N THEN "prefix" ELSE "invert"
  /\ UNCHANGED <<key, w, lane, c, r1, verdict>>

\* A zero product rejects the signature.
InvertProduct ==
  /\ pc = "invert"
  /\ LET x == Inv(acc, Prime(lane)) IN
       IF x = None THEN pc' = "done" /\ verdict' = FALSE /\ UNCHANGED <<acc, i>>
                   ELSE pc' = "back" /\ acc' = x /\ i' = N /\ UNCHANGED verdict
  /\ UNCHANGED <<key, w, lane, c, e, r1>>

\* The quotient w1/q00 of slot j; the mutant reads the product that the slot
\* itself still holds.
QuotientFromSlot(j) ==
  LET p == Prime(lane) IN MulMod(DNtt[w][lane][j], MulMod(acc, e[j], p), p)

Quotient(j) ==
  LET p == Prime(lane) IN MulMod(DNtt[w][lane][j], MulMod(acc, Product(e, j), p), p)

\* What slot j of c becomes; the sum is left unreduced.  The mutant leaves the
\* product unreduced as well.
FusedLazier(j, dh) == c[j] + dh * BNtt[key][lane][j]

Fused(j, dh) == c[j] + MulMod(dh, BNtt[key][lane][j], Prime(lane))

BackwardPass ==
  /\ pc = "back"
  /\ LET p == Prime(lane)
         j == i - 1
         dh == Quotient(j)
     IN  /\ acc' = MulMod(acc, ANtt[key][lane][j], p)
         /\ e' = [e EXCEPT ![j] = dh]
         /\ c' = [c EXCEPT ![j] = Fused(j, dh)]
         /\ i' = j
         /\ pc' = IF j > 0 THEN "back" ELSE "sum"
  /\ UNCHANGED <<key, w, lane, r1, verdict>>

Residue == QnormSum(ANtt[key][lane], c, e, DNtt[w][lane], Prime(lane))

\* The first residue waits for the second, which decides.
FinishLane ==
  /\ pc = "sum"
  /\ IF lane = 1
     THEN r1' = Residue /\ lane' = 2 /\ pc' = "ntt" /\ UNCHANGED verdict
     ELSE verdict' = BoundHolds(r1, Residue) /\ pc' = "done" /\ UNCHANGED <<r1, lane>>
  /\ UNCHANGED <<key, w, i, acc, c, e>>

Next == Transform \/ PrefixProduct \/ InvertProduct \/ BackwardPass \/ FinishLane

Spec == Init /\ [][Next]_vars

-----------------------------------------------------------------------------
(***************************************************************************)
(* Reference: the prepared path on exact inverses.                         *)
(***************************************************************************)

Invertible(k) == \A l \in Lane : \A j \in Coeffs : ANtt[k][l][j] # 0

KeyOf(b) == [q00 |-> GramQ00(b), q01 |-> GramQ01(b)]

InverseOf(x, p) == CHOOSE y \in 0..(p - 1) : IsInverse(x, y, p)

PreparedFactors(k) ==
  [q00n   |-> [l \in Lane |-> ANtt[k][l]],
   q00inv |-> [l \in Lane |-> [j \in Coeffs |-> InverseOf(ANtt[k][l][j], Prime(l))]],
   q01n   |-> [l \in Lane |-> BNtt[k][l]]]

PreparedVerdict(k, x) ==
  Invertible(k) /\ QnormInBoundPrepared(PreparedFactors(k), x[1], x[2])

-----------------------------------------------------------------------------
(***************************************************************************)
(* Properties.                                                             *)
(***************************************************************************)

\* Every lane value fits a u32, also where the code leaves sums unreduced,
\* and every index asserted to be below N is.
TypeOK ==
  /\ pc \in {"ntt", "prefix", "invert", "back", "sum", "done"}
  /\ key \in Keys /\ w \in Vectors
  /\ lane \in Lane /\ i \in 0..N
  /\ acc \in Nat /\ verdict \in BOOLEAN
  /\ c \in [Coeffs -> 0..(LaneMax - 1)]
  /\ e \in [Coeffs -> 0..(LaneMax - 1)]
  /\ pc = "prefix" => i \in Coeffs
  /\ pc = "back" => i - 1 \in Coeffs

\* The fused in-place pass decides exactly as the prepared path does, and a
\* key that is not invertible is rejected on both.
SameAsPrepared == pc = "done" => (verdict <=> PreparedVerdict(key, w))

\* The verdict is the truth about the lattice vector: on the Gram polynomials
\* of a basis it accepts exactly the vectors whose squared length is within the
\* limit, whatever the residues wrap to, as long as two primes can tell it.
MeasuresNorm ==
  pc = "done" =>
    \A b \in Bases :
      LET norm == LatticeNorm(b, w[1], w[2]) IN
      key = KeyOf(b) /\ Invertible(key) /\ N * norm < P1 * P2 =>
        (verdict <=> NormScale * norm <= NormLimit)

(***************************************************************************)
(* The inductive invariant behind SameAsPrepared.                          *)
(***************************************************************************)

\* What the fused pass must have left in slot j when it has passed it.
DoneSlot(j, p) ==
  LET dh == MulMod(DNtt[w][lane][j], InverseOf(ANtt[key][lane][j], p), p)
  IN  e[j] = dh /\ c[j] = CNtt[w][lane][j] + MulMod(dh, BNtt[key][lane][j], p)

FusedInv ==
  LET a == ANtt[key][lane]
      p == Prime(lane)
  IN  /\ pc = "prefix" => ForwardInv(a, e, i, acc, p)
      /\ pc = "invert" => ForwardInv(a, e, N, acc, p)
      /\ pc = "back" => BackwardInv(a, e, i, acc, p)
      /\ pc \in {"back", "sum"} => \A j \in Coeffs : a[j] # 0
      /\ pc = "back" => \A j \in Coeffs : j >= i => DoneSlot(j, p)
      /\ pc = "sum" => \A j \in Coeffs : DoneSlot(j, p)
      /\ pc \in {"prefix", "invert"} => c = CNtt[w][lane]
      /\ pc = "back" => \A j \in Coeffs : j < i => c[j] = CNtt[w][lane][j]

\* The first prime's result, once the second is under way.
FirstResidue ==
  pc \in {"ntt", "prefix", "invert", "back", "sum"} /\ lane = 2 =>
    LET f == PreparedFactors(key) IN
    /\ \A j \in Coeffs : ANtt[key][1][j] # 0
    /\ r1 = QnormPrepared(f.q00n[1], f.q00inv[1], f.q01n[1], w[1], w[2], P1)

IndInv == FusedInv /\ FirstResidue /\ SameAsPrepared
=============================================================================
