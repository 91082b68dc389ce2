------------------------------- MODULE MCKeys -------------------------------
(***************************************************************************)
(* Keys, messages and signatures for models with four coefficients and the *)
(* primes 41, 97 (both 1 mod 8).  Two keys are Gram polynomials of lattice *)
(* bases, under which some of the signatures verify; the others fail to    *)
(* decode, have q00[0] < 0, a divisor out of range, or a q00 that is not   *)
(* invertible mod 41 (17^2 = 2) or mod 97 (14^2 = 2).                      *)
(***************************************************************************)
EXTENDS HawkVerify, RingNorm

MCDelta == [k \in {2} |-> [re |-> 1449, im |-> 1449]]   \* ceil(2^11 * e^(i pi/4))

Poly(p0, p1, p2, p3) == [j \in Coeffs |-> <<p0, p1, p2, p3>>[j + 1]]
Nought == Poly(0, 0, 0, 0)

Unit == UnitBasis(Nought, Nought)
Skew == UnitBasis(Poly(0, 1, 0, 0), Poly(1, 0, -1, 0))

\* Its vectors are too long for the divisors, but <<w0, w1>> = <<-1, g>> is short.
Long == UnitBasis(Poly(5, 3, 0, 0), Nought)

Decoded(q00, q01) == [ok |-> TRUE, q00 |-> q00, q01 |-> q01]

MCWire == {"unit", "skew", "not41", "not97", "wide", "negative", "junk"}

KeyTable == [w \in MCWire |->
  CASE w = "unit" -> Decoded(GramQ00(Unit), GramQ01(Unit))
    [] w = "skew" -> Decoded(GramQ00(Skew), GramQ01(Skew))
    [] w = "not41" -> Decoded(Poly(17, 1, 0, -1), Poly(0, 1, 0, 0))
    [] w = "not97" -> Decoded(Poly(14, 1, 0, -1), Poly(0, 1, 0, 0))
    [] w = "wide" -> Decoded(GramQ00(Long), GramQ01(Long))
    [] w = "negative" -> Decoded(Poly(-1, 0, 0, 0), Nought)
    [] OTHER -> [ok |-> FALSE]]

MCDecodePublic(w) == KeyTable[w]

MCHpub(w) == w

MCHashes == MCWire \cup {"zero"}

\* A signature is a salt and an s1, or malformed.
MCS1 == {Nought, Poly(1, 0, 0, 0), Poly(0, 0, 1, 0), Poly(-2, -1, 0, 0)}
MCSignatures == {[ok |-> TRUE, salt |-> t, s1 |-> s] : t \in 0..1, s \in MCS1}
                  \cup {[ok |-> FALSE, salt |-> 0, s1 |-> Nought]}
MCDecodeSignature(sig) == sig

MCMessages == {1, 6}

HashSeed(h) == CASE h = "unit" -> 3 [] h = "skew" -> 8 [] h = "zero" -> 0 [] h = "wide" -> 9 [] OTHER -> 5

MCComputeM(msg, h) == msg + HashSeed(h)

Bits == [n \in 0..63 |-> [j \in Coeffs |-> (n \div 2^j) % 2]]

MCExpand(m, salt) == [h0 |-> Bits[m + 7 * salt], h1 |-> Bits[3 * m + 5 * salt]]

MCZeroBlob ==
  [pvbound |-> [u \in Slots |-> 0],
   fq01    |-> [re |-> [u \in Slots |-> 0], im |-> [u \in Slots |-> 0]],
   q00n    |-> [l \in Lane |-> [j \in Coeffs |-> 0]],
   q00inv  |-> [l \in Lane |-> [j \in Coeffs |-> 0]],
   q01n    |-> [l \in Lane |-> [j \in Coeffs |-> 0]],
   hpub    |-> "zero"]
=============================================================================
