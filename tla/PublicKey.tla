----------------------------- MODULE PublicKey -----------------------------
(***************************************************************************)
(* Public keys, and what the two transforms make of one.  Decoding and     *)
(* hashing are parameters: a key is a name, its decoding a pair of         *)
(* polynomials.                                                            *)
(***************************************************************************)
EXTENDS NTT, FFT

CONSTANTS Wire,             \* wire public keys
          DecodePublic(_),  \* key -> [ok, q00, q01]
          Hpub(_)           \* SHAKE256 of the key

Q00(k) == DecodePublic(k).q00
Q01(k) == DecodePublic(k).q01

\* The fields of a prepared key: the FFT of q01, the divisors of RebuildS0,
\* and the NTT forms of both polynomials for each prime.
Fq01(k) == FftConv(Q01(k), C_Q01, FALSE)
V(k) == Divisor(Q00(k))
Q00n(k, l) == Ntt(Q00(k), Prime(l))
Q01n(k, l) == Ntt(Q01(k), Prime(l))

(***************************************************************************)
(* Reference: which keys can be used at all.                               *)
(***************************************************************************)

Invertible(k) == \A l \in Lane : \A j \in Coeffs : Q00n(k, l)[j] # 0

Usable(k) ==
  /\ DecodePublic(k).ok
  /\ Q00(k)[0] >= 0
  /\ \A u \in Slots : InRange(V(k)[u])
  /\ Invertible(k)
=============================================================================
