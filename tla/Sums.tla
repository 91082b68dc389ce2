-------------------------------- MODULE Sums --------------------------------
(***************************************************************************)
(* Running sums, powers of two and reversed bits, as recursive functions.  *)
(***************************************************************************)
EXTENDS Integers

\* f[0] + ... + f[n - 1].
SumTo(f, n) == LET s[k \in 0..n] == IF k = 0 THEN 0 ELSE s[k - 1] + f[k - 1] IN s[n]

\* 1 << n.
Pow2(n) == LET s[k \in 0..n] == IF k = 0 THEN 1 ELSE 2 * s[k - 1] IN s[n]

\* The low l bits of x, in reverse order.
BitRev(x, l) ==
  LET rev[k \in 0..l] ==
        IF k = 0 THEN 0 ELSE 2 * rev[k - 1] + ((x \div Pow2(k - 1)) % 2)
  IN  rev[l]
=============================================================================
