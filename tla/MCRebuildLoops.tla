--------------------------- MODULE MCRebuildLoops ---------------------------
(***************************************************************************)
(* Eight coefficients and words of 12 bits for 32: the scales are those of *)
(* fft.rs for inputs of 3 bits, so that every value has the same distance, *)
(* in bits, from the end of its word.                                      *)
(***************************************************************************)
EXTENDS RebuildLoops

\* exp(i pi / 4), exp(i pi / 8) and exp(5 i pi / 8), scaled by 2^11 and rounded
\* up.
MCDelta == [k \in 2..7 |->
   CASE k = 2 -> [re |-> 1449, im |-> 1449]
     [] k = 4 -> [re |-> 1893, im |-> 784]
     [] k = 5 -> [re |-> -783, im |-> 1893]
     [] OTHER -> [re |-> 0, im |-> 0]]

Poly(s) == [n \in Coeffs |-> s[n + 1]]

\* q00 is its own adjoint; its first coefficient is the only one that a
\* rejected key may have below zero.
Self(a, b, c, d) == Poly(<<a, b, c, d, 0, -d, -c, -b>>)

Q00s == {Self(7, 0, 0, 0), Self(2, 0, 0, 0), Self(1, 0, 0, 0), Self(-1, 0, 0, 0),
         Self(7, -2, 1, 1), Self(3, 1, 0, 1), Self(7, -8, 7, -8)}
Q01s == {Poly(<<a, b, c, d, 0, b, a, c>>) : a \in {-8, 0, 1}, b \in {-1, 7}, c \in {7, -2}, d \in {0, 3}}
        \union {Poly(<<-8, -8, -8, -8, -8, -8, -8, -8>>)}
W1s == {Poly(<<a, b, 0, c, a, 0, 1, 0>>) : a \in {-2, 0, 5}, b \in {0, 1}, c \in {0, -1}}
       \union {Poly(<<5, 5, 5, 5, 5, 5, 5, 5>>)}

MCInputs == [q00 : Q00s, q01 : Q01s, w1 : W1s, h0 : {Poly(<<0, 1, 1, 0, 1, 0, 0, 1>>)}]

\* The middle levels as fft.rs writes them out for 512 coefficients, <<M, T>> by
\* hand, and their order in the inverse transform.
ForwardLevels == <<<<4, 128>>, <<8, 64>>, <<16, 32>>, <<32, 16>>, <<64, 8>>, <<128, 4>>, <<256, 2>>>>
InverseLevels == <<<<256, 2>>, <<128, 4>>, <<64, 8>>, <<32, 16>>, <<16, 32>>, <<8, 64>>, <<4, 128>>>>

\* They are the levels of RebuildLoops: M doubles, or halves, and T = N / M.
ASSUME LevelsAsWritten ==
  \A n \in 1..7 : LET level == <<2^(n + 1), 512 \div 2^(n + 1)>>
                 IN  ForwardLevels[n] = level /\ InverseLevels[8 - n] = level
=============================================================================
