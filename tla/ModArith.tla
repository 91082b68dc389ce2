------------------------------ MODULE ModArith ------------------------------
(***************************************************************************)
(* Arithmetic modulo one of the two NTT primes (src/src/ntt.rs).  A lane   *)
(* holds a residue of a prime p; every product is reduced at once.         *)
(***************************************************************************)
EXTENDS Integers

\* What a fallible Rust function returns in place of Some(value).
None == -1

\* Reduce a signed coefficient with |x| < p into [0, p): one conditional add.
Red(x, p) == IF x >= 0 THEN x ELSE x + p

MulMod(a, b, p) == (a * b) % p

\* Square and multiply, least significant exponent bit first.
PowMod(base, exp, p) ==
  LET loop[s \in [base : Nat, exp : Nat, acc : Nat]] ==
        IF s.exp = 0 THEN s.acc
        ELSE loop[[base |-> MulMod(s.base, s.base, p),
                   exp  |-> s.exp \div 2,
                   acc  |-> IF s.exp % 2 = 1 THEN MulMod(s.acc, s.base, p) ELSE s.acc]]
  IN  loop[[base |-> base % p, exp |-> exp, acc |-> 1]]

\* Fermat inverse; None for zero, which is how a non-invertible q00 shows.
Inv(x, p) == IF x = 0 THEN None ELSE PowMod(x, p - 2, p)

(***************************************************************************)
(* What the code relies on when it calls P1 and P2 primes.                 *)
(***************************************************************************)

NoZeroDivisors(p) == \A a, b \in 1..(p - 1) : MulMod(a, b, p) # 0

Fermat(p) == \A x \in 1..(p - 1) : /\ PowMod(x, p - 2, p) \in 0..(p - 1)
                                   /\ MulMod(x, PowMod(x, p - 2, p), p) = 1
=============================================================================
