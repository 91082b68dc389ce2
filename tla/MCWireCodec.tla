---------------------------- MODULE MCWireCodec ----------------------------
(***************************************************************************)
(* WireCodec for N = 4 with three-bit bytes and words of two bytes.  The   *)
(* coded q00 takes six to eight bits and two extra ones, so the padding    *)
(* before q01 takes zero to two bits; q01 takes 12 to 24 of the 18 or 21   *)
(* bits left, so some tails have words, some single bits, and some codes   *)
(* do not fit.                                                             *)
(***************************************************************************)
EXTENDS WireEncoding

Polys(S) == [Coeffs -> S]

MCSampled00 == {[n \in Coeffs |-> CASE n = 0 -> a [] n = 1 -> b [] n = 2 -> 0 [] n = 3 -> -b] :
                  a \in {-16, -3, 6, 15}, b \in {-4, 0, 3}}

\* Short codes, and codes with one long run.
MCSampled01 == {p \in Polys({-1, 0, 2, -8}) :
                  /\ p[0] = -1 /\ p[1] # -1
                  /\ Cardinality({n \in Coeffs : p[n] = -8}) <= 1}

MCSampledS1 == {p \in Polys({-2, 0, 7}) : p[1] = 0 /\ p[2] # 7}

MCSalts == {<<0, 0, 0>>, <<1, 0, 1>>}

\* The encodings, with one bit flipped, and one byte longer.
Flip(b, t) == [b EXCEPT !.bits[t] = 1 - @]
Longer(b) == [bytes |-> b.bytes + 1,
              bits  |-> [t \in 0..(b.bytes * BYTE + BYTE - 1) |->
                           IF t < b.bytes * BYTE THEN b.bits[t] ELSE 0]]
Shorter(b) == [bytes |-> b.bytes - 1,
               bits  |-> [t \in 0..(b.bytes * BYTE - BYTE - 1) |-> b.bits[t]]]

Blank(n) == [bytes |-> n, bits |-> [t \in 0..(n * BYTE - 1) |-> 0]]

OneBitOff(E) == UNION {{Flip(b, t) : t \in DOMAIN b.bits} : b \in E}

MCKeys == EncodedKeys \cup OneBitOff(EncodedKeys)
            \cup {Longer(b) : b \in EncodedKeys} \cup {Shorter(b) : b \in EncodedKeys}

MCSignatures == EncodedSigs \cup OneBitOff(EncodedSigs)
            \cup {Longer(b) : b \in EncodedSigs} \cup {Blank(n) : n \in 0..2}
=============================================================================
