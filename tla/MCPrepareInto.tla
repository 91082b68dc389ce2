--------------------------- MODULE MCPrepareInto ---------------------------
(***************************************************************************)
(* PrepareInto on the ring with four coefficients and the primes 41, 97    *)
(* (both 1 mod 8).  A wire key <<a, b, c>> stands for the encoding of      *)
(* q00 = a + bX - bX^3 and q01 = c + X - X^2; <<>> for a malformed one.    *)
(* 17 + X - X^3 is not invertible mod 41 nor 14 + X - X^3 mod 97, since    *)
(* their first coefficient is a square root of 2.                          *)
(***************************************************************************)
EXTENDS PrepareInto

MCDelta == [k \in {2} |-> [re |-> 1449, im |-> 1449]]   \* ceil(2^11 * e^(i pi/4))

MCWire == {<<>>} \cup ({-1, 0, 2, 14, 17, 40} \X {0, 1} \X {0, 1})

MCDecodePublic(w) ==
  IF w = <<>> THEN [ok |-> FALSE]
  ELSE [ok  |-> TRUE,
        q00 |-> [j \in Coeffs |-> CASE j = 0 -> w[1] [] j = 1 -> w[2]
                                    [] j = 2 -> 0    [] OTHER -> -w[2]],
        q01 |-> [j \in Coeffs |-> CASE j = 0 -> w[3] [] j = 1 -> 1
                                    [] j = 2 -> -1   [] OTHER -> 0]]

MCHpub(w) == w

\* A fresh account is zeroed; garbage looks like a finished inversion.
MCBlob(n, h) ==
  [pvbound |-> [u \in Slots |-> n],
   fq01    |-> [re |-> [u \in Slots |-> n], im |-> [u \in Slots |-> n]],
   q00n    |-> [l \in Lane |-> [j \in Coeffs |-> n]],
   q00inv  |-> [l \in Lane |-> [j \in Coeffs |-> n]],
   q01n    |-> [l \in Lane |-> [j \in Coeffs |-> n]],
   hpub    |-> h]

MCInitBlobs == {MCBlob(0, <<0>>), MCBlob(1, <<0>>)}

MCHashes == MCWire \cup {<<0>>}
=============================================================================
