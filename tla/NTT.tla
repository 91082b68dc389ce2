-------------------------------- MODULE NTT --------------------------------
(***************************************************************************)
(* The forward negacyclic number-theoretic transform of src/src/ntt.rs, in *)
(* the code's butterfly order, with its alternating lazy and full levels.  *)
(* N and the primes are parameters: 512 and two 31-bit primes in the code, *)
(* a few lanes and two small primes p with 2N | p - 1 in the models.       *)
(***************************************************************************)
EXTENDS Params, ModArith

CONSTANTS P1, P2   \* the two primes

Primes == {P1, P2}

\* The two runs of everything that is done once per prime.
Lane == {1, 2}
Prime(l) == IF l = 1 THEN P1 ELSE P2

\* Mutant: a power of 2, whatever its order.
FindRootOfTwo(p) == PowMod(2, (p - 1) \div (2 * N), p)

\* The power of a base that find_root tries, and its test: order exactly 2N.
RootOf(x, p) == PowMod(x, (p - 1) \div (2 * N), p)
IsRoot(x, p) == PowMod(RootOf(x, p), N, p) = p - 1

\* The root found by the smallest base that passes.
FindRoot(p) == RootOf(CHOOSE x \in 2..(p - 1) : IsRoot(x, p) /\ \A y \in 2..(x - 1) : ~IsRoot(y, p), p)

\* The two twiddle tables, W[p][i] = root^bitrev(i).
W == [p \in Primes |-> LET h == FindRoot(p) IN [i \in Coeffs |-> PowMod(h, BitRev(i, LOGN), p)]]

\* find_root returns: it runs when the tables are compiled.
ASSUME RootAssumption ==
  \A p \in Primes : p \in Nat /\ p > 1 /\ \E x \in 2..(p - 1) : IsRoot(x, p)

\* Level k of the transform (1..LOGN) works on half-blocks of this size ...
Half(k) == N \div Pow2(k)

\* ... and defers its additive reductions on odd levels other than the last;
\* in the mutant, on all levels but the last.
IsLazyAlways(k) == k # LOGN

IsLazy(k) == k % 2 = 1 /\ k # LOGN

\* The twiddle of a block: the counter wi has run over all earlier levels.
Twiddle(p, k, block) == W[p][N \div (2 * Half(k)) + block]

NttLevel(f, p, k) ==
  LET l == Half(k)
      reduce(v) == IF IsLazy(k) THEN v ELSE v % p
      butterfly(i) == MulMod(f[i], Twiddle(p, k, i \div (2 * l)), p)
  IN  [i \in Coeffs |-> IF i % (2 * l) < l
                       THEN reduce(f[i] + butterfly(i + l))
                       ELSE reduce(f[i - l] + p - butterfly(i))]

\* ntt_conv fuses the reduction of the signed source into the first level;
\* ntt runs it as a pass of its own.  Both store the same lanes.
NttInit(src, p) == [i \in Coeffs |-> Red(src[i], p)]

\* The polynomials that can be transformed: one conditional addition reduces
\* a coefficient, whichever the prime.
Reducible(src) ==
  src \in [Coeffs -> Int] /\ \A p \in Primes : \A i \in Coeffs : -p < src[i] /\ src[i] < p

Ntt(src, p) ==
  LET after[k \in 0..LOGN] ==
        IF k = 0 THEN NttInit(src, p) ELSE NttLevel(after[k - 1], p, k)
  IN  after[LOGN]
=============================================================================
