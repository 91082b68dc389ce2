--------------------------- MODULE BatchInversion ---------------------------
(***************************************************************************)
(* Montgomery's trick, as prepare_ntt and pq_e (src/src/ntt.rs) both run   *)
(* it: running products of f are stored in g, the last one is inverted     *)
(* once, and a backward pass peels one factor at a time while it overwrites *)
(* g from the top.  These are the relations between f, g and the           *)
(* accumulator that hold along the way.                                    *)
(***************************************************************************)
EXTENDS ModArith

Product(g, n) == IF n = 0 THEN 1 ELSE g[n - 1]

\* The first n entries of g are the running products of f.
PrefixProducts(f, g, n, p) ==
  \A j \in 0..(n - 1) : /\ g[j] \in 0..(p - 1)
                        /\ g[j] = MulMod(Product(g, j), f[j], p)

ZeroBefore(f, n) == \E j \in 0..(n - 1) : f[j] = 0

\* While the products build up, acc is the last one, and it vanishes exactly
\* when a factor has: a zero product is proof that f is not invertible.
ForwardInv(f, g, n, acc, p) ==
  /\ PrefixProducts(f, g, n, p)
  /\ acc = Product(g, n)
  /\ acc \in 0..(p - 1)
  /\ acc = 0 <=> ZeroBefore(f, n)

\* On the way back the slots below n are still products, and acc inverts the
\* product that ends just below n.
BackwardInv(f, g, n, acc, p) ==
  /\ PrefixProducts(f, g, n, p)
  /\ acc \in 0..(p - 1)
  /\ MulMod(acc, Product(g, n), p) = 1

IsInverse(x, y, p) == y \in 0..(p - 1) /\ MulMod(x, y, p) = 1

\* Entries from n on of g are inverses of those of f.
InvertedFrom(f, g, n, p) == \A j \in DOMAIN f : j >= n => IsInverse(f[j], g[j], p)
=============================================================================
