----------------------------- MODULE HawkVerify -----------------------------
(***************************************************************************)
(* HawkVerify (src/src/lib.rs), from the wire key and from a prepared key. *)
(* A verdict is "accept", "reject" or, where the code can reach a division *)
(* by zero, "panic".                                                       *)
(***************************************************************************)
EXTENDS RebuildS0, Qnorm, PublicKey

CONSTANTS DecodeSignature(_),  \* signature -> [ok, salt, s1]
          ComputeM(_, _),      \* SHAKE256(message || hpub)
          Expand(_, _)         \* SHAKE256(M || salt) -> [h0, h1], binary polynomials

\* The first non-zero coefficient must exist and be positive.
SymBreak(w) == \E i \in Coeffs : w[i] > 0 /\ \A j \in 0..(i - 1) : w[j] = 0

W1(h1, s1) == [i \in Coeffs |-> h1[i] - 2 * s1[i]]

\* A signature that decodes and what is expanded from its hashes are polynomials,
\* and the decoder bounds the coefficients that the transform scales.
DecodesTo(msg, sig, hashes) ==
  LET s == DecodeSignature(sig)
  IN  s.ok => /\ s.s1 \in [Coeffs -> Int]
              /\ \A h \in hashes :
                   LET h1 == Expand(ComputeM(msg, h), s.salt).h1
                   IN  h1 \in [Coeffs -> Int] /\ Short(W1(h1, s.s1), C_W1)

\* What both verifiers do first: decode the signature, hash, and break the
\* symmetry.  They differ in where hpub comes from.
FillW1H0(hpub, msg, sig) ==
  LET s == DecodeSignature(sig)
      h == Expand(ComputeM(msg, hpub), s.salt)
      w1 == W1(h.h1, s.s1)
  IN  [ok |-> s.ok /\ SymBreak(w1), w1 |-> w1, h0 |-> h.h0]

\* What both do with the outcome r of RebuildS0.
Judged(r, inBound) ==
  CASE r.fate = "w0" -> IF inBound THEN "accept" ELSE "reject"
    [] r.fate = "reject" -> "reject"
    [] OTHER -> "panic"

\* poly_qnorm divides by q00 itself: PolyQnorm shows that it decides like the
\* prepared computation on exact inverses.
DirectFactors(k) ==
  [q00n   |-> [l \in Lane |-> Q00n(k, l)],
   q00inv |-> [l \in Lane |-> [j \in Coeffs |-> Inv(Q00n(k, l)[j], Prime(l))]],
   q01n   |-> [l \in Lane |-> Q01n(k, l)]]

\* What prepare_into leaves for a usable key, as one value; the program has
\* the one of its fixed signer baked in.
PreparedBlob(k) ==
  LET f == DirectFactors(k)
  IN  [pvbound |-> Bounds(V(k)), fq01 |-> Fq01(k),
       q00n |-> f.q00n, q00inv |-> f.q00inv, q01n |-> f.q01n, hpub |-> Hpub(k)]

DirectInBound(k, w0, w1) == Invertible(k) /\ QnormInBoundPrepared(DirectFactors(k), w0, w1)

Verify(k, msg, sig) ==
  LET f == FillW1H0(Hpub(k), msg, sig)
      r == RebuildDirect(Q00(k), Q01(k), f.w1, f.h0)
  IN  IF DecodePublic(k).ok /\ f.ok THEN Judged(r, DirectInBound(k, r.w0, f.w1)) ELSE "reject"

VerifyPrepared(blob, msg, sig) ==
  LET f == FillW1H0(blob.hpub, msg, sig)
      r == RebuildPrepared(blob.pvbound, blob.fq01, f.w1, f.h0)
  IN  IF f.ok THEN Judged(r, QnormInBoundPrepared(blob, r.w0, f.w1)) ELSE "reject"
=============================================================================
