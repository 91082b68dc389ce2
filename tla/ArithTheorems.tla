--------------------------- MODULE ArithTheorems ---------------------------
(***************************************************************************)
(* What the other proofs take from arithmetic: induction and recursion on  *)
(* the naturals, running sums, powers of two and reversed bits, products   *)
(* and powers modulo p, and the steps of the batch inversion.              *)
(***************************************************************************)
EXTENDS BatchInversion, Sums, WellFoundedInduction, TLAPS

\* The order of the naturals is well-founded,
LEMMA NatOrder ==
  \E R : IsWellFoundedOn(R, Nat) /\ \A a, b \in Nat : a < b => <<a, b>> \in R
<1> DEFINE R == OpToRel(<, Nat)
<1>1. IsWellFoundedOn(R, Nat)
  BY NatLessThanWellFounded
<1>2. \A a, b \in Nat : a < b => <<a, b>> \in R
  BY DEF OpToRel
<1> HIDE DEF R
<1> QED BY <1>1, <1>2

\* so a set of naturals has a least element,
LEMMA NatLeast ==
  ASSUME NEW T \in SUBSET Nat, T # {}
  PROVE  \E x \in T : \A y \in T : x <= y
<1>1. PICK R : IsWellFoundedOn(R, Nat) /\ \A a, b \in Nat : a < b => <<a, b>> \in R
  BY NatOrder
<1>2. \E x \in T : \A y \in T : ~(<<y, x>> \in R)
  <2>1. \A RR, SS, TT : IsWellFoundedOn(RR, SS) /\ TT \subseteq SS /\ TT # {}
                          => \E x \in TT : \A y \in TT : ~(<<y, x>> \in RR)
    BY WFMin
  <2>2. IsWellFoundedOn(R, Nat) /\ T \subseteq Nat /\ T # {}
    BY <1>1
  <2>. QED
    BY <2>1, <2>2
<1>3. PICK x \in T : \A y \in T : ~(<<y, x>> \in R)
  BY <1>2
<1>4. ASSUME NEW y \in T PROVE x <= y
  <2>1. ~(y < x)
    BY <1>1, <1>3
  <2>. QED
    BY <2>1
<1>. QED
  BY <1>4

\* and one that has zero and every successor has all of them.
LEMMA SetInduction ==
  ASSUME NEW S, 0 \in S, \A n \in Nat : n \in S => n + 1 \in S
  PROVE  Nat \subseteq S
<1> SUFFICES ASSUME Nat \ S # {} PROVE FALSE
  OBVIOUS
<1>1. PICK x \in Nat \ S : \A y \in Nat \ S : x <= y
  BY NatLeast
<1>2. x # 0 /\ x - 1 \in Nat /\ x - 1 \in S
  BY <1>1
<1>3. x - 1 + 1 = x
  BY <1>1
<1> QED BY <1>1, <1>2, <1>3

\* s is defined by recursion from a with D, up to m.
Follows(s, a, D, m) == s[0] = a /\ \A k \in 1..m : s[k] = D[<<s[k - 1], k - 1>>]

\* There is a sequence on 0..m that starts with a and follows D, a function on
\* pairs <<value, index>>: what a recursive definition chooses exists.
LEMMA Recursion ==
  ASSUME NEW T, NEW a \in T, NEW D \in [T \X Nat -> T], NEW m \in Nat
  PROVE  \E s \in [0..m -> T] : Follows(s, a, D, m)
<1> DEFINE S == {n \in Nat : \E s \in [0..n -> T] : Follows(s, a, D, n)}
<1>1. 0 \in S
  <2>1. [k \in 0..0 |-> a] \in [0..0 -> T] /\ Follows([k \in 0..0 |-> a], a, D, 0)
    BY DEF Follows
  <2>. QED
    BY <2>1
<1>2. ASSUME NEW n \in Nat, n \in S PROVE n + 1 \in S
  <2>1. PICK s \in [0..n -> T] : Follows(s, a, D, n)
    BY <1>2
  <2> DEFINE t == [k \in 0..(n + 1) |-> IF k = n + 1 THEN D[<<s[n], n>>] ELSE s[k]]
  <2>2. t \in [0..(n + 1) -> T]
    OBVIOUS
  <2>3. t[0] = a
    BY <2>1 DEF Follows
  <2>4. ASSUME NEW k \in 1..(n + 1) PROVE t[k] = D[<<t[k - 1], k - 1>>]
    <3>1. t[k - 1] = s[k - 1]
      OBVIOUS
    <3>2. CASE k = n + 1
      <4>1. t[k] = D[<<s[n], n>>] /\ k - 1 = n
        BY <3>2
      <4>. QED
        BY <3>1, <4>1
    <3>3. CASE k # n + 1
      <4>1. k \in 1..n /\ t[k] = s[k]
        BY <3>3
      <4>. QED
        BY <2>1, <3>1, <4>1 DEF Follows
    <3>. QED
      BY <3>2, <3>3
  <2>5. Follows(t, a, D, n + 1)
    BY <2>3, <2>4 DEF Follows
  <2> HIDE DEF t
  <2>. QED
    BY <2>2, <2>5
<1> HIDE DEF S
<1>3. Nat \subseteq S
  BY <1>1, <1>2, SetInduction
<1>. QED
  BY <1>3 DEF S

\* What the recursion determines it determines uniquely.
LEMMA RecursionUnique ==
  ASSUME NEW T, NEW a \in T, NEW D \in [T \X Nat -> T], NEW m \in Nat,
         NEW s, Follows(s, a, D, m), NEW t, Follows(t, a, D, m)
  PROVE  \A k \in 0..m : s[k] = t[k] /\ s[k] \in T
<1> DEFINE S == {n \in Nat : n <= m => s[n] = t[n] /\ s[n] \in T}
<1>1. 0 \in S
  BY DEF Follows
<1>2. ASSUME NEW n \in Nat, n \in S PROVE n + 1 \in S
  <2>1. SUFFICES ASSUME n + 1 <= m PROVE s[n + 1] = t[n + 1] /\ s[n + 1] \in T
    OBVIOUS
  <2>2. n <= m /\ n + 1 \in 1..m /\ (n + 1) - 1 = n
    BY <2>1
  <2>3. s[n] = t[n] /\ s[n] \in T
    BY <1>2, <2>2
  <2>4. s[n + 1] = D[<<s[n], n>>] /\ t[n + 1] = D[<<t[n], n>>]
    BY <2>2 DEF Follows
  <2>. QED
    BY <2>3, <2>4
<1> HIDE DEF S
<1>3. Nat \subseteq S
  BY <1>1, <1>2, SetInduction
<1>. QED
  BY <1>3 DEF S

\* A running sum adds one element at a time.
LEMMA SumFacts ==
  ASSUME NEW m \in Nat, NEW f, \A k \in 0..(m - 1) : f[k] \in Int
  PROVE  /\ SumTo(f, 0) = 0
         /\ \A n \in 0..m : SumTo(f, n) \in Int
         /\ \A n \in 0..(m - 1) : SumTo(f, n + 1) = SumTo(f, n) + f[n]
<1> DEFINE g == [k \in Nat |-> IF k < m THEN f[k] ELSE 0]
           D == [x \in Int \X Nat |-> x[1] + g[x[2]]]
<1>1. g \in [Nat -> Int] /\ \A k \in 0..(m - 1) : g[k] = f[k]
  OBVIOUS
<1> HIDE DEF g
<1>2. D \in [Int \X Nat -> Int] /\ \A v \in Int, k \in Nat : D[<<v, k>>] = v + g[k]
  BY <1>1
<1> HIDE DEF D
<1>3. PICK s \in [0..m -> Int] : Follows(s, 0, D, m)
  <2>1. D \in [Int \X Nat -> Int] /\ 0 \in Int
    BY <1>2
  <2>. QED
    BY <2>1, Recursion
<1>4. ASSUME NEW n \in 0..m PROVE SumTo(f, n) = s[n]
  <2> DEFINE P(c) == c = [k \in 0..n |-> IF k = 0 THEN 0 ELSE c[k - 1] + f[k - 1]]
             c == CHOOSE c : P(c)
             r == [k \in 0..n |-> s[k]]
  <2>1. ASSUME NEW k \in 0..n PROVE r[k] = IF k = 0 THEN 0 ELSE r[k - 1] + f[k - 1]
    <3>1. CASE k = 0
      BY <1>3, <3>1 DEF Follows
    <3>2. CASE k # 0
      <4>1. k \in 1..m /\ k - 1 \in Nat /\ s[k - 1] \in Int /\ k - 1 \in 0..(m - 1) /\ k - 1 \in 0..n
        BY <1>3, <3>2
      <4>2. s[k] = D[<<s[k - 1], k - 1>>]
        BY <1>3, <4>1 DEF Follows
      <4>3. s[k] = s[k - 1] + g[k - 1]
        BY <1>2, <4>1, <4>2
      <4>. QED
        BY <1>1, <3>2, <4>1, <4>3
    <3>. QED
      BY <3>1, <3>2
  <2>2. P(r)
    BY <2>1
  <2>3. P(c)
    <3> HIDE DEF P, r
    <3>. QED
      BY <2>2
  <2>4. SumTo(f, n) = c[n]
    BY DEF SumTo
  <2> HIDE DEF c
  <2>5. c[0] = 0 /\ \A k \in 1..n : c[k] = c[k - 1] + f[k - 1]
    BY <2>3
  <2> DEFINE S == {k \in Nat : k <= n => c[k] = s[k]}
  <2>6. 0 \in S
    BY <1>3, <2>5 DEF Follows
  <2>7. ASSUME NEW k \in Nat, k \in S PROVE k + 1 \in S
    <3>1. SUFFICES ASSUME k + 1 <= n PROVE c[k + 1] = s[k + 1]
      OBVIOUS
    <3>2. k + 1 \in 1..n /\ k + 1 \in 1..m /\ k \in 0..(m - 1) /\ (k + 1) - 1 = k /\ s[k] \in Int
      BY <3>1
    <3>3. c[k] = s[k]
      BY <2>7, <3>2
    <3>4. c[k + 1] = c[k] + f[k]
      BY <2>5, <3>2
    <3>5. s[k + 1] = D[<<s[k], k>>]
      BY <1>3, <3>2 DEF Follows
    <3>. QED
      BY <1>1, <1>2, <3>2, <3>3, <3>4, <3>5
  <2> HIDE DEF S
  <2>8. Nat \subseteq S
    BY <2>6, <2>7, SetInduction
  <2>. QED
    BY <2>4, <2>8 DEF S
<1>5. SumTo(f, 0) = 0 /\ \A n \in 0..m : SumTo(f, n) \in Int
  BY <1>3, <1>4 DEF Follows
<1>6. ASSUME NEW n \in 0..(m - 1) PROVE SumTo(f, n + 1) = SumTo(f, n) + f[n]
  <2>1. n + 1 \in 1..m /\ n \in 0..m /\ (n + 1) - 1 = n /\ s[n] \in Int /\ n + 1 \in 0..m
    OBVIOUS
  <2>2. s[n + 1] = D[<<s[n], n>>]
    BY <1>3, <2>1 DEF Follows
  <2>. QED
    BY <1>1, <1>2, <1>4, <2>1, <2>2
<1>. QED
  BY <1>5, <1>6

\* Powers of two double.
LEMMA Pow2Facts == /\ Pow2(0) = 1
                   /\ \A n \in Nat : Pow2(n) \in Nat /\ Pow2(n) > 0 /\ Pow2(n + 1) = 2 * Pow2(n)
<1> DEFINE T == Nat \ {0}
           D == [x \in T \X Nat |-> 2 * x[1]]
<1>1. D \in [T \X Nat -> T] /\ 1 \in T /\ \A v \in T, k \in Nat : D[<<v, k>>] = 2 * v
  OBVIOUS
<1> HIDE DEF D, T
<1>2. ASSUME NEW n \in Nat
      PROVE  \E c : /\ \A k \in 0..n : c[k] \in T
                    /\ Pow2(n) = c[n] /\ Follows(c, 1, D, n)
  <2>1. PICK s \in [0..n -> T] : Follows(s, 1, D, n)
    BY <1>1, Recursion
  <2> DEFINE P(c) == c = [k \in 0..n |-> IF k = 0 THEN 1 ELSE 2 * c[k - 1]]
             c == CHOOSE c : P(c)
  <2>2. ASSUME NEW k \in 0..n PROVE s[k] = IF k = 0 THEN 1 ELSE 2 * s[k - 1]
    <3>1. CASE k # 0
      <4>1. k \in 1..n /\ s[k - 1] \in T /\ k - 1 \in Nat
        BY <3>1
      <4>. QED
        BY <1>1, <2>1, <4>1 DEF Follows
    <3>. QED
      BY <2>1, <3>1 DEF Follows
  <2>3. P(s)
    BY <2>2
  <2>4. P(c)
    <3> HIDE DEF P
    <3>. QED
      BY <2>3
  <2>5. Pow2(n) = c[n]
    BY DEF Pow2
  <2> HIDE DEF c
  <2>6. c[0] = 1 /\ \A k \in 1..n : c[k] = 2 * c[k - 1]
    BY <2>4
  <2> DEFINE S == {k \in Nat : k <= n => c[k] \in T}
  <2>7. 0 \in S
    BY <1>1, <2>6
  <2>8. ASSUME NEW k \in Nat, k \in S PROVE k + 1 \in S
    <3>1. k + 1 <= n => k + 1 \in 1..n /\ (k + 1) - 1 = k /\ k <= n
      OBVIOUS
    <3>. QED
      BY <2>6, <2>8, <3>1 DEF T
  <2> HIDE DEF S
  <2>9. Nat \subseteq S
    BY <2>7, <2>8, SetInduction
  <2>10. \A k \in 0..n : c[k] \in T
    BY <2>9 DEF S
  <2>11. Follows(c, 1, D, n)
    BY <1>1, <2>6, <2>10 DEF Follows
  <2>. QED
    BY <2>5, <2>10, <2>11
<1>3. Pow2(0) = 1
  BY <1>2 DEF Follows
<1>4. ASSUME NEW n \in Nat PROVE Pow2(n) \in Nat /\ Pow2(n) > 0 /\ Pow2(n + 1) = 2 * Pow2(n)
  <2>1. PICK c : /\ \A k \in 0..n : c[k] \in T
                 /\ Pow2(n) = c[n] /\ Follows(c, 1, D, n)
    BY <1>2
  <2>2. PICK d : /\ \A k \in 0..(n + 1) : d[k] \in T
                 /\ Pow2(n + 1) = d[n + 1] /\ Follows(d, 1, D, n + 1)
    BY <1>2
  <2>3. Follows(d, 1, D, n)
    BY <2>2 DEF Follows
  <2>4. c[n] = d[n]
    <3>1. D \in [T \X Nat -> T] /\ 1 \in T /\ Follows(c, 1, D, n)
      BY <1>1, <2>1
    <3>2. \A k \in 0..n : c[k] = d[k] /\ c[k] \in T
      BY <2>3, <3>1, RecursionUnique
    <3>. QED
      BY <3>2
  <2>5. d[n + 1] = D[<<d[n], n>>]
    BY <2>2 DEF Follows
  <2>. QED
    BY <1>1, <2>1, <2>2, <2>4, <2>5 DEF T
<1>. QED
  BY <1>3, <1>4

-----------------------------------------------------------------------------
\* Division with remainder, as the prover needs it spelt out.
LEMMA DivMod ==
  ASSUME NEW p \in Nat, p > 0, NEW x \in Int
  PROVE  /\ x \div p \in Int
         /\ x % p \in 0..(p - 1)
         /\ x = p * (x \div p) + (x % p)
OBVIOUS

\* The remainder is unique.
LEMMA ModUnique ==
  ASSUME NEW p \in Nat, p > 0, NEW q \in Int, NEW r \in 0..(p - 1)
  PROVE  (p * q + r) % p = r
OBVIOUS

\* Sums of the same terms are equal.
LEMMA SumCongruence ==
  ASSUME NEW m \in Nat, NEW f, NEW g,
         \A k \in 0..(m - 1) : f[k] \in Int /\ f[k] = g[k]
  PROVE  \A n \in 0..m : SumTo(f, n) = SumTo(g, n)
<1> DEFINE S == {n \in Nat : n <= m => SumTo(f, n) = SumTo(g, n)}
<1>1. /\ SumTo(f, 0) = 0 /\ \A n \in 0..(m - 1) : SumTo(f, n + 1) = SumTo(f, n) + f[n]
      /\ SumTo(g, 0) = 0 /\ \A n \in 0..(m - 1) : SumTo(g, n + 1) = SumTo(g, n) + g[n]
  BY SumFacts
<1>2. 0 \in S
  BY <1>1
<1>3. ASSUME NEW n \in Nat, n \in S PROVE n + 1 \in S
  <2>1. SUFFICES ASSUME n + 1 <= m PROVE SumTo(f, n + 1) = SumTo(g, n + 1)
    OBVIOUS
  <2>2. n \in 0..(m - 1) /\ SumTo(f, n) = SumTo(g, n)
    BY <1>3, <2>1
  <2>. QED
    BY <1>1, <2>2
<1> HIDE DEF S
<1>4. Nat \subseteq S
  BY <1>2, <1>3, SetInduction
<1>. QED
  BY <1>4 DEF S

\* A sum of naturals grows.
LEMMA SumGrows ==
  ASSUME NEW m \in Nat, NEW f, \A k \in 0..(m - 1) : f[k] \in Nat, NEW l \in 0..m
  PROVE  SumTo(f, l) \in Nat /\ \A n \in 0..m : l <= n => SumTo(f, l) <= SumTo(f, n)
<1>1. /\ SumTo(f, 0) = 0 /\ \A n \in 0..m : SumTo(f, n) \in Int
      /\ \A n \in 0..(m - 1) : SumTo(f, n + 1) = SumTo(f, n) + f[n]
  BY SumFacts
<1> DEFINE S == {n \in Nat : n <= m => SumTo(f, n) >= 0 /\ (l <= n => SumTo(f, l) <= SumTo(f, n))}
<1>2. 0 \in S
  BY <1>1
<1>3. ASSUME NEW n \in Nat, n \in S PROVE n + 1 \in S
  <2>1. SUFFICES ASSUME n + 1 <= m
                 PROVE  SumTo(f, n + 1) >= 0 /\ (l <= n + 1 => SumTo(f, l) <= SumTo(f, n + 1))
    OBVIOUS
  <2>2. /\ n \in 0..(m - 1) /\ n \in 0..m /\ SumTo(f, n) >= 0 /\ f[n] \in Nat
        /\ l <= n => SumTo(f, l) <= SumTo(f, n)
    BY <1>3, <2>1
  <2>3. SumTo(f, n + 1) = SumTo(f, n) + f[n] /\ SumTo(f, n) \in Int /\ SumTo(f, l) \in Int
    BY <1>1, <2>2
  <2>4. l <= n + 1 => l <= n \/ l = n + 1
    OBVIOUS
  <2>. QED
    BY <2>2, <2>3, <2>4
<1> HIDE DEF S
<1>4. Nat \subseteq S
  BY <1>2, <1>3, SetInduction
<1>. QED
  BY <1>1, <1>4 DEF S

\* Exponents add.
LEMMA Pow2Sum == \A a, b \in Nat : Pow2(a + b) = Pow2(a) * Pow2(b)
<1> SUFFICES ASSUME NEW a \in Nat PROVE \A b \in Nat : Pow2(a + b) = Pow2(a) * Pow2(b)
  OBVIOUS
<1> DEFINE S == {b \in Nat : Pow2(a + b) = Pow2(a) * Pow2(b)}
<1>1. 0 \in S
  BY Pow2Facts
<1>2. ASSUME NEW b \in Nat, b \in S PROVE b + 1 \in S
  <2>1. a + b \in Nat /\ a + (b + 1) = (a + b) + 1
    OBVIOUS
  <2>2. Pow2(a + (b + 1)) = 2 * Pow2(a + b)
    BY <2>1, Pow2Facts
  <2>3. Pow2(b + 1) = 2 * Pow2(b) /\ Pow2(a) \in Nat /\ Pow2(b) \in Nat
    BY Pow2Facts
  <2>4. Pow2(a) * (2 * Pow2(b)) = 2 * (Pow2(a) * Pow2(b))
    BY <2>3, Z3
  <2>. QED
    BY <1>2, <2>2, <2>3, <2>4
<1> HIDE DEF S
<1>3. Nat \subseteq S
  BY <1>1, <1>2, SetInduction
<1>. QED
  BY <1>3 DEF S

\* Quotient and remainder are determined by what they make together.
LEMMA DivUnique ==
  ASSUME NEW d \in Nat, d > 0, NEW q \in Int, NEW r \in 0..(d - 1)
  PROVE  (d * q + r) \div d = q /\ (d * q + r) % d = r
OBVIOUS

\* A multiple of the divisor passes through a division.
LEMMA DivShift ==
  ASSUME NEW d \in Nat, d > 0, NEW a \in Int, NEW q \in Int
  PROVE  (a + q * d) \div d = a \div d + q /\ (a + q * d) % d = a % d
<1>1. a \div d \in Int /\ a % d \in 0..(d - 1) /\ a = d * (a \div d) + (a % d)
  BY DivMod
<1> DEFINE s == a \div d
           r == a % d
<1> HIDE DEF s, r
<1>2. s \in Int /\ r \in 0..(d - 1) /\ a = d * s + r
  BY <1>1 DEF s, r
<1>3. a + q * d = d * (s + q) + r
  BY <1>2, Z3
<1>4. s + q \in Int
  BY <1>2
<1>. QED
  BY <1>2, <1>3, <1>4, DivUnique DEF s, r

\* The weights of the digits of B bits.
LEMMA Places ==
  ASSUME NEW B \in Nat
  PROVE  /\ Pow2(B * 0) = 1
         /\ \A t \in Nat : /\ Pow2(B * t) \in Nat /\ Pow2(B * t) > 0
                           /\ Pow2(B * (t + 1)) = Pow2(B * t) * Pow2(B)
         /\ \A t, d \in Nat : Pow2(B * (t + d)) = Pow2(B * t) * Pow2(B * d)
<1>1. \A t, d \in Nat : B * t \in Nat /\ B * (t + d) = B * t + B * d /\ B * (t + 1) = B * t + B
  BY Z3
<1>2. B * 0 = 0
  OBVIOUS
<1>3. ASSUME NEW t \in Nat
      PROVE  /\ Pow2(B * t) \in Nat /\ Pow2(B * t) > 0
             /\ Pow2(B * (t + 1)) = Pow2(B * t) * Pow2(B)
  <2>1. B * t \in Nat /\ Pow2(B * (t + 1)) = Pow2(B * t + B)
    BY <1>1
  <2>. QED
    BY <2>1, Pow2Facts, Pow2Sum
<1>4. ASSUME NEW t \in Nat, NEW d \in Nat
      PROVE  Pow2(B * (t + d)) = Pow2(B * t) * Pow2(B * d)
  <2>1. B * t \in Nat /\ B * d \in Nat /\ Pow2(B * (t + d)) = Pow2(B * t + B * d)
    BY <1>1
  <2>. QED
    BY <2>1, Pow2Sum
<1>. QED
  BY <1>2, <1>3, <1>4, Pow2Facts

\* What a digit is worth at most.
LEMMA DigitWorth ==
  ASSUME NEW p \in Nat, NEW r \in Nat, NEW x \in 0..(r - 1)
  PROVE  p * x \in Nat /\ p * x <= p * r - p /\ p * r \in Nat
<1>1. r - 1 - x \in Nat /\ x \in Nat
  OBVIOUS
<1>2. p * (r - 1 - x) \in Nat /\ p * (r - 1 - x) = p * r - p - p * x /\ p * x \in Nat /\ p * r \in Nat
  BY <1>1, Z3
<1>. QED
  BY <1>2

\* The weights of digits to the base R.
Weights(P, R) ==
  /\ R \in Nat /\ R > 0 /\ P[0] = 1
  /\ \A t \in Nat : P[t] \in Nat /\ P[t] > 0
  /\ \A t \in Nat : P[t + 1] = P[t] * R
  /\ \A t, d \in Nat : P[t + d] = P[t] * P[d]

\* The digits b, and what they are worth.
Digits(b, g, P, R, m) == \A t \in 0..(m - 1) : b[t] \in 0..(R - 1) /\ g[t] = P[t] * b[t]

\* A number put together from digits has those digits.
LEMMA DigitsOfNumber ==
  ASSUME NEW R, NEW P, Weights(P, R), NEW m \in Nat, NEW b, NEW g, Digits(b, g, P, R, m)
  PROVE  /\ SumTo(g, m) \in 0..(P[m] - 1)
         /\ \A t \in 0..(m - 1) : (SumTo(g, m) \div P[t]) % R = b[t]
<1>0. /\ R \in Nat /\ R > 0 /\ P[0] = 1
      /\ \A t \in Nat : P[t] \in Nat /\ P[t] > 0
  BY DEF Weights
<1>b. \A t \in Nat : P[t + 1] = P[t] * R
  BY DEF Weights
<1>c. \A t, d \in Nat : P[t + d] = P[t] * P[d]
  BY DEF Weights
<1>a. \A t \in 0..(m - 1) : b[t] \in 0..(R - 1) /\ g[t] = P[t] * b[t]
  BY DEF Digits
<1>1. \A t \in 0..(m - 1) : g[t] \in Int
  <2> SUFFICES ASSUME NEW t \in 0..(m - 1) PROVE g[t] \in Int
    OBVIOUS
  <2>1. P[t] \in Int /\ b[t] \in Int /\ g[t] = P[t] * b[t]
    BY <1>0, <1>a
  <2>. QED
    BY <2>1, Z3
<1>2. /\ SumTo(g, 0) = 0 /\ \A n \in 0..m : SumTo(g, n) \in Int
      /\ \A n \in 0..(m - 1) : SumTo(g, n + 1) = SumTo(g, n) + g[n]
  BY <1>1, SumFacts
<1> DEFINE Right(n) == /\ SumTo(g, n) \in 0..(P[n] - 1)
                       /\ \A t \in 0..(n - 1) : (SumTo(g, n) \div P[t]) % R = b[t]
           S == {n \in Nat : n <= m => Right(n)}
<1>3. 0 \in S
  BY <1>0, <1>2
<1>4. ASSUME NEW n \in Nat, n \in S PROVE n + 1 \in S
  <2>1. SUFFICES ASSUME n + 1 <= m PROVE Right(n + 1)
    OBVIOUS
  <2> DEFINE v == SumTo(g, n)
             w == SumTo(g, n + 1)
  <2>2. n \in 0..(m - 1) /\ Right(n) /\ b[n] \in 0..(R - 1) /\ b[n] \in Int
    BY <1>a, <1>4, <2>1
  <2>3. v \in 0..(P[n] - 1) /\ w = v + P[n] * b[n] /\ w = P[n] * b[n] + v
    BY <1>0, <1>2, <1>a, <2>2
  <2>4. P[n + 1] = P[n] * R /\ P[n] \in Nat /\ P[n] > 0
    BY <1>0, <1>b
  <2>6. w \in 0..(P[n + 1] - 1)
    <3> HIDE DEF v, w
    <3>1. R \in Nat /\ P[n] \in Nat
      BY <1>0, <2>2
    <3>2. P[n] * b[n] \in Nat /\ P[n] * b[n] <= P[n] * R - P[n] /\ P[n] * R \in Nat
      BY <2>2, <3>1, DigitWorth, Zenon
    <3>. QED
      BY <2>3, <2>4, <3>2
  <2>7. ASSUME NEW t \in 0..n PROVE (w \div P[t]) % R = b[t]
    <3>0. t \in Nat /\ P[t] \in Nat /\ P[t] > 0 /\ v \in Int
      BY <1>0, <2>3
    <3>1. CASE t = n
      <4>1. w \div P[n] = b[n]
        <5> HIDE DEF v, w
        <5>1. P[n] \in Nat /\ P[n] > 0 /\ b[n] \in Int /\ v \in 0..(P[n] - 1)
          BY <2>2, <2>3, <2>4
        <5>2. (P[n] * b[n] + v) \div P[n] = b[n]
          BY <5>1, DivUnique, Zenon
        <5>. QED
          BY <2>3, <5>2, Zenon
      <4>2. b[n] % R = b[n]
        BY <1>0, <2>2
      <4>. QED
        BY <3>1, <4>1, <4>2
    <3>2. CASE t # n
      <4>1. t \in 0..(n - 1) /\ n - t - 1 \in Nat /\ (n - t - 1) + 1 \in Nat /\ t + ((n - t - 1) + 1) = n
        BY <3>2
      <4> DEFINE h == P[n - t - 1]
                 c == h * b[n]
      <4>2. h \in Nat /\ P[n] = P[t] * (h * R)
        <5>1. P[t + ((n - t - 1) + 1)] = P[t] * P[(n - t - 1) + 1] /\ P[(n - t - 1) + 1] = h * R
          BY <1>b, <1>c, <3>0, <4>1
        <5>. QED
          BY <1>0, <4>1, <5>1
      <4>3. c \in Int /\ c * R \in Int /\ P[n] * b[n] = (c * R) * P[t]
        <5> HIDE DEF h
        <5>. QED
          BY <1>0, <2>2, <3>0, <4>2, Z3
      <4> HIDE DEF v, w, c, h
      <4>4. w \div P[t] = v \div P[t] + c * R
        BY <2>3, <3>0, <4>3, DivShift
      <4>5. v \div P[t] \in Int
        BY <3>0, DivMod
      <4>6. (v \div P[t] + c * R) % R = (v \div P[t]) % R
        BY <1>0, <4>3, <4>5, DivShift
      <4>7. (v \div P[t]) % R = b[t]
        BY <2>2, <4>1 DEF v
      <4>. QED
        BY <4>4, <4>6, <4>7
    <3>. QED
      BY <3>1, <3>2
  <2>8. 0..((n + 1) - 1) = 0..n
    OBVIOUS
  <2> HIDE DEF v
  <2>. QED
    BY <2>6, <2>7, <2>8
<1> HIDE DEF S
<1>5. Nat \subseteq S
  BY <1>3, <1>4, SetInduction
<1>. QED
  BY <1>5 DEF S

\* Binary digits, above all.
LEMMA DigitsOfSum ==
  ASSUME NEW m \in Nat, NEW b, NEW g,
         \A t \in 0..(m - 1) : b[t] \in 0..1 /\ g[t] = Pow2(t) * b[t]
  PROVE  /\ SumTo(g, m) \in 0..(Pow2(m) - 1)
         /\ \A t \in 0..(m - 1) : (SumTo(g, m) \div Pow2(t)) % 2 = b[t]
<1> DEFINE P == [t \in Nat |-> Pow2(t)]
<1>1. Weights(P, 2)
  <2>1. \A t \in Nat : Pow2(t + 1) = Pow2(t) * 2 /\ t + 1 \in Nat
    BY Pow2Facts
  <2>2. \A t, d \in Nat : P[t + d] = P[t] * P[d]
    BY Pow2Sum
  <2>3. P[0] = 1 /\ \A t \in Nat : P[t] \in Nat /\ P[t] > 0 /\ P[t + 1] = P[t] * 2
    BY <2>1, Pow2Facts
  <2>4. 2 \in Nat /\ 2 > 0
    OBVIOUS
  <2> HIDE DEF P
  <2>. QED
    BY <2>2, <2>3, <2>4, Zenon DEF Weights
<1>2. Digits(b, g, P, 2, m) /\ \A t \in 0..(m - 1) : P[t] = Pow2(t)
  BY DEF Digits
<1>3. P[m] = Pow2(m)
  OBVIOUS
<1> HIDE DEF P
<1>4. SumTo(g, m) \in 0..(P[m] - 1) /\ \A t \in 0..(m - 1) : (SumTo(g, m) \div P[t]) % 2 = b[t]
  BY <1>1, <1>2, DigitsOfNumber
<1>. QED
  BY <1>2, <1>3, <1>4

\* The bytes b of a number, of B bits each, and what they are worth.
Bytes(b, g, B, m) ==
  \A t \in 0..(m - 1) : b[t] \in 0..(Pow2(B) - 1) /\ g[t] = Pow2(B * t) * b[t]

\* A number put together from bytes of B bits has those bytes.
LEMMA BytesOfNumber ==
  ASSUME NEW B \in Nat, NEW m \in Nat, NEW b, NEW g, Bytes(b, g, B, m)
  PROVE  /\ SumTo(g, m) \in 0..(Pow2(B * m) - 1)
         /\ \A t \in 0..(m - 1) : (SumTo(g, m) \div Pow2(B * t)) % Pow2(B) = b[t]
<1> DEFINE P == [t \in Nat |-> Pow2(B * t)]
           R == Pow2(B)
<1>1. Weights(P, R)
  <2>1. R \in Nat /\ R > 0 /\ P[0] = 1 /\ \A t \in Nat : P[t] \in Nat /\ P[t] > 0
    BY Places, Pow2Facts
  <2>2. \A t \in Nat : P[t + 1] = P[t] * R
    BY Places
  <2>3. ASSUME NEW t \in Nat, NEW d \in Nat PROVE P[t + d] = P[t] * P[d]
    <3>1. t + d \in Nat /\ P[t + d] = Pow2(B * (t + d)) /\ P[t] = Pow2(B * t) /\ P[d] = Pow2(B * d)
      OBVIOUS
    <3> HIDE DEF P
    <3>2. Pow2(B * (t + d)) = Pow2(B * t) * Pow2(B * d)
      <4>1. \A x, y \in Nat : Pow2(B * (x + y)) = Pow2(B * x) * Pow2(B * y)
        BY Places, Zenon
      <4>. QED
        BY <4>1, Zenon
    <3>. QED
      BY <3>1, <3>2
  <2> HIDE DEF P, R
  <2>. QED
    BY <2>1, <2>2, <2>3 DEF Weights
<1>2. Digits(b, g, P, R, m)
  BY DEF Digits, Bytes
<1> HIDE DEF P, R
<1>4. SumTo(g, m) \in 0..(P[m] - 1) /\ \A t \in 0..(m - 1) : (SumTo(g, m) \div P[t]) % R = b[t]
  BY <1>1, <1>2, DigitsOfNumber
<1>. QED
  BY <1>4 DEF P, R

\* A reduced product is a residue.
LEMMA MulModType ==
  ASSUME NEW p \in Nat, p > 0, NEW a \in Nat, NEW b \in Nat
  PROVE  /\ MulMod(a, b, p) \in 0..(p - 1)
         /\ MulMod(a, b, p) \in Nat
         /\ MulMod(a, b, p) < p
<1>1. a * b \in Nat
  BY Z3
<1>2. MulMod(a, b, p) \in 0..(p - 1)
  BY <1>1, DivMod DEF MulMod
<1>. QED
  BY <1>2

\* A factor may be reduced before it is multiplied.
LEMMA MulModReduce ==
  ASSUME NEW p \in Nat, p > 0, NEW x \in Nat, NEW b \in Nat
  PROVE  ((x % p) * b) % p = (x * b) % p
<1>. DEFINE q == x \div p
            r == x % p
            m == r * b
<1>1. q \in Int /\ r \in 0..(p - 1) /\ x = p * q + r
  BY DivMod
<1>2. m \in Int /\ m \div p \in Int /\ m % p \in 0..(p - 1) /\ m = p * (m \div p) + (m % p)
  BY <1>1, DivMod
<1>3. x * b = p * (q * b + (m \div p)) + (m % p)
  <2>. HIDE DEF q, r
  <2>1. x * b = p * (q * b) + r * b
    BY <1>1, Z3
  <2>. QED
    BY <2>1, <1>1, <1>2, Z3
<1>4. q * b + (m \div p) \in Int
  BY <1>1, <1>2
<1>. HIDE DEF m
<1>5. (p * (q * b + (m \div p)) + (m % p)) % p = m % p
  BY <1>2, <1>4, ModUnique
<1>. QED
  BY <1>3, <1>5 DEF m

\* The order of two factors does not matter,
LEMMA MulModCommutes ==
  ASSUME NEW p \in Nat, NEW a \in Nat, NEW b \in Nat
  PROVE  MulMod(a, b, p) = MulMod(b, a, p)
<1>1. a * b = b * a
  BY Z3
<1>. QED
  BY <1>1 DEF MulMod

\* nor does the grouping of three.
LEMMA MulModAssociates ==
  ASSUME NEW p \in Nat, p > 0, NEW a \in Nat, NEW b \in Nat, NEW c \in Nat
  PROVE  MulMod(MulMod(a, b, p), c, p) = MulMod(a, MulMod(b, c, p), p)
<1>1. a * b \in Nat /\ b * c \in Nat
  BY Z3
<1>2. MulMod(MulMod(a, b, p), c, p) = ((a * b) * c) % p
  BY <1>1, MulModReduce DEF MulMod
<1>3. MulMod(a, MulMod(b, c, p), p) = ((b * c) * a) % p
  <2>1. MulMod(b, c, p) \in Nat
    BY MulModType
  <2>2. MulMod(a, MulMod(b, c, p), p) = MulMod(MulMod(b, c, p), a, p)
    BY <2>1, MulModCommutes
  <2>. QED
    BY <1>1, <2>2, MulModReduce DEF MulMod
<1>4. (a * b) * c = (b * c) * a
  BY Z3
<1>. QED
  BY <1>2, <1>3, <1>4

\* A product of residues of a prime vanishes only with one of its factors.
LEMMA MulModZero ==
  ASSUME NEW p \in Nat, p > 0, NoZeroDivisors(p),
         NEW a \in 0..(p - 1), NEW b \in 0..(p - 1)
  PROVE  MulMod(a, b, p) = 0 <=> a = 0 \/ b = 0
<1>1. CASE a = 0 \/ b = 0
  <2>1. a * b = 0
    BY <1>1
  <2>2. 0 % p = 0
    OBVIOUS
  <2>. QED
    BY <1>1, <2>1, <2>2 DEF MulMod
<1>2. CASE a # 0 /\ b # 0
  BY <1>2 DEF NoZeroDivisors
<1>. QED
  BY <1>1, <1>2

\* One step of Montgomery's trick.  When acc inverts the product of prev and
\* f, acc * prev inverts f, and acc * f inverts prev.
LEMMA PeelFactor ==
  ASSUME NEW p \in Nat, p > 0, NEW acc \in Nat, NEW prev \in Nat, NEW f \in Nat,
         MulMod(acc, MulMod(prev, f, p), p) = 1
  PROVE  /\ MulMod(f, MulMod(acc, prev, p), p) = 1
         /\ MulMod(MulMod(acc, f, p), prev, p) = 1
<1>1. MulMod(acc, prev, p) \in Nat
  BY MulModType
<1>2. MulMod(f, MulMod(acc, prev, p), p) = MulMod(MulMod(acc, prev, p), f, p)
  BY <1>1, MulModCommutes
<1>3. MulMod(MulMod(acc, prev, p), f, p) = MulMod(acc, MulMod(prev, f, p), p)
  BY MulModAssociates
<1>4. MulMod(MulMod(acc, f, p), prev, p) = MulMod(acc, MulMod(f, prev, p), p)
  BY MulModAssociates
<1>5. MulMod(f, prev, p) = MulMod(prev, f, p)
  BY MulModCommutes
<1>. QED
  BY <1>2, <1>3, <1>4, <1>5

\* What has an inverse is not zero.
LEMMA InvertibleNotZero ==
  ASSUME NEW p \in Nat, p > 0, NEW a \in Nat, NEW b \in Nat, MulMod(a, b, p) = 1
  PROVE  a # 0
<1>. SUFFICES ASSUME a = 0 PROVE FALSE
  OBVIOUS
<1>1. a * b = 0 /\ 0 % p = 0
  OBVIOUS
<1>. QED
  BY <1>1 DEF MulMod

\* The Fermat inverse of a non-zero residue is a residue and its inverse.
LEMMA InvInverts ==
  ASSUME NEW p \in Nat, p > 1, Fermat(p), NEW x \in 0..(p - 1)
  PROVE  /\ Inv(x, p) = None <=> x = 0
         /\ x # 0 => /\ Inv(x, p) \in 0..(p - 1)
                     /\ MulMod(x, Inv(x, p), p) = 1
BY DEF Inv, Fermat, None

\* A residue has at most one inverse.
LEMMA InverseUnique ==
  ASSUME NEW p \in Nat, p > 1, NEW x \in Nat,
         NEW y \in 0..(p - 1), NEW z \in 0..(p - 1),
         MulMod(x, y, p) = 1, MulMod(x, z, p) = 1
  PROVE  y = z
<1>1. ASSUME NEW u \in 0..(p - 1) PROVE MulMod(u, 1, p) = u /\ MulMod(1, u, p) = u
  <2>1. u % p = u
    BY ModUnique, p * 0 + u = u
  <2>. QED
    BY <2>1 DEF MulMod
<1>2. MulMod(MulMod(y, x, p), z, p) = MulMod(y, MulMod(x, z, p), p)
  BY MulModAssociates
<1>3. MulMod(y, x, p) = 1
  BY MulModCommutes
<1>4. MulMod(y, MulMod(x, z, p), p) = y
  BY <1>1
<1>5. MulMod(MulMod(y, x, p), z, p) = z
  BY <1>1, <1>3
<1>. QED
  BY <1>2, <1>4, <1>5

-----------------------------------------------------------------------------
\* Storing the next product extends the prefixes and remembers a zero factor.
LEMMA ForwardStep ==
  ASSUME NEW p \in Nat, p > 1, NoZeroDivisors(p),
         NEW len \in Nat, NEW f, f \in [0..(len - 1) -> 0..(p - 1)],
         NEW g, g \in [0..(len - 1) -> Nat],
         NEW n \in 0..(len - 1), NEW acc,
         ForwardInv(f, g, n, acc, p)
  PROVE  LET x == MulMod(acc, f[n], p)
         IN  ForwardInv(f, [g EXCEPT ![n] = x], n + 1, x, p)
<1>. DEFINE x == MulMod(acc, f[n], p)
            h == [g EXCEPT ![n] = x]
<1>1. f[n] \in 0..(p - 1) /\ acc \in 0..(p - 1) /\ acc = Product(g, n)
  BY DEF ForwardInv
<1>2. x \in 0..(p - 1)
  BY <1>1, MulModType
<1>3. x = 0 <=> acc = 0 \/ f[n] = 0
  BY <1>1, MulModZero
<1>4. h[n] = x /\ \A j \in 0..(len - 1) : j # n => h[j] = g[j]
  OBVIOUS
<1>. HIDE DEF x, h
<1>5. \A j \in 0..(len - 1) : j <= n => Product(h, j) = Product(g, j)
  BY <1>4 DEF Product
<1>6. PrefixProducts(f, h, n + 1, p)
  <2>1. SUFFICES ASSUME NEW j \in 0..(len - 1), j < n + 1
                 PROVE  h[j] \in 0..(p - 1) /\ h[j] = MulMod(Product(h, j), f[j], p)
    BY DEF PrefixProducts
  <2>2. CASE j = n
    BY <1>1, <1>2, <1>4, <1>5, <2>2 DEF x
  <2>3. CASE j < n
    BY <1>4, <1>5, <2>3 DEF ForwardInv, PrefixProducts
  <2>. QED
    BY <2>1, <2>2, <2>3
<1>7. Product(h, n + 1) = x
  BY <1>4 DEF Product
<1>8. ZeroBefore(f, n + 1) <=> ZeroBefore(f, n) \/ f[n] = 0
  <2>1. 0..((n + 1) - 1) = 0..(n - 1) \cup {n}
    OBVIOUS
  <2>. QED
    BY <2>1 DEF ZeroBefore
<1>9. ForwardInv(f, h, n + 1, x, p)
  BY <1>2, <1>3, <1>6, <1>7, <1>8 DEF ForwardInv
<1>. QED
  BY <1>9 DEF x, h

\* Before the first product is stored the accumulator is one.
LEMMA ForwardStart ==
  ASSUME NEW p \in Nat, p > 1, NEW f, NEW g
  PROVE  ForwardInv(f, g, 0, 1, p)
BY DEF ForwardInv, PrefixProducts, Product, ZeroBefore

\* The inversion fails exactly on a zero factor; otherwise the way back starts.
LEMMA TurnStep ==
  ASSUME NEW p \in Nat, p > 1, Fermat(p),
         NEW len \in Nat, NEW f, f \in [0..(len - 1) -> 0..(p - 1)],
         NEW g, g \in [0..(len - 1) -> Nat],
         NEW acc, ForwardInv(f, g, len, acc, p)
  PROVE  /\ Inv(acc, p) = None <=> \E j \in 0..(len - 1) : f[j] = 0
         /\ Inv(acc, p) # None => BackwardInv(f, g, len, Inv(acc, p), p)
<1>1. acc \in 0..(p - 1) /\ acc = Product(g, len) /\ PrefixProducts(f, g, len, p)
  BY DEF ForwardInv
<1>2. ZeroBefore(f, len) <=> \E j \in 0..(len - 1) : f[j] = 0
  BY DEF ZeroBefore
<1>3. Inv(acc, p) = None <=> acc = 0
  BY <1>1, InvInverts
<1>4. ASSUME acc # 0
      PROVE  Inv(acc, p) \in 0..(p - 1) /\ MulMod(Inv(acc, p), acc, p) = 1
  <2>1. Inv(acc, p) \in 0..(p - 1) /\ MulMod(acc, Inv(acc, p), p) = 1
    BY <1>1, <1>4, InvInverts
  <2>. QED
    BY <1>1, <2>1, MulModCommutes
<1>. QED
  BY <1>1, <1>2, <1>3, <1>4 DEF ForwardInv, BackwardInv

\* Peeling a factor yields its inverse and keeps the relation, whatever is
\* written to the slot the factor's product has just left.
LEMMA BackwardStep ==
  ASSUME NEW p \in Nat, p > 1,
         NEW len \in Nat, NEW f, f \in [0..(len - 1) -> 0..(p - 1)],
         NEW g, g \in [0..(len - 1) -> Nat],
         NEW j \in 0..(len - 1), NEW acc,
         BackwardInv(f, g, j + 1, acc, p),
         NEW y
  PROVE  /\ IsInverse(f[j], MulMod(acc, Product(g, j), p), p)
         /\ BackwardInv(f, [g EXCEPT ![j] = y], j, MulMod(acc, f[j], p), p)
<1>. DEFINE h == [g EXCEPT ![j] = y]
            prev == Product(g, j)
<1>1. acc \in Nat /\ f[j] \in Nat /\ prev \in Nat
  BY DEF BackwardInv, Product
<1>2. Product(g, j + 1) = MulMod(prev, f[j], p)
  BY DEF BackwardInv, PrefixProducts, Product
<1>3. MulMod(acc, MulMod(prev, f[j], p), p) = 1
  BY <1>2 DEF BackwardInv
<1>4. /\ MulMod(f[j], MulMod(acc, prev, p), p) = 1
      /\ MulMod(MulMod(acc, f[j], p), prev, p) = 1
  <2>. HIDE DEF prev
  <2>. QED
    BY <1>1, <1>3, PeelFactor
<1>5. MulMod(acc, prev, p) \in 0..(p - 1) /\ MulMod(acc, f[j], p) \in 0..(p - 1)
  <2>. HIDE DEF prev, h
  <2>1. p \in Nat /\ p > 0 /\ acc \in Nat /\ prev \in Nat
    BY <1>1
  <2>2. MulMod(acc, prev, p) \in 0..(p - 1)
    BY ONLY <2>1, MulModType
  <2>3. MulMod(acc, f[j], p) \in 0..(p - 1)
    BY <1>1, MulModType
  <2>. QED
    BY <2>2, <2>3
<1>6. \A k \in 0..(len - 1) : k < j => h[k] = g[k] /\ Product(h, k) = Product(g, k)
  BY DEF Product
<1>7. Product(h, j) = prev
  BY DEF Product
<1>8. PrefixProducts(f, h, j, p)
  <2>1. \A k \in 0..(len - 1) : k < j => /\ g[k] \in 0..(p - 1)
                                   /\ g[k] = MulMod(Product(g, k), f[k], p)
    BY DEF BackwardInv, PrefixProducts
  <2>. HIDE DEF h
  <2>. QED
    BY <1>6, <2>1 DEF PrefixProducts
<1>. QED
  BY <1>4, <1>5, <1>7, <1>8 DEF IsInverse, BackwardInv
-----------------------------------------------------------------------------
(***************************************************************************)
(* The transforms.                                                         *)
(***************************************************************************)

\* A power of two is divided evenly by the smaller ones.
LEMMA PowerParts ==
  ASSUME NEW n \in Nat, NEW l \in Nat, n = Pow2(l), NEW k \in 0..l
  PROVE  /\ Pow2(k) \in Nat \ {0} /\ Pow2(l - k) \in Nat \ {0}
         /\ n = Pow2(k) * Pow2(l - k)
         /\ n \div Pow2(k) = Pow2(l - k)
<1>1. k \in Nat /\ l - k \in Nat /\ k + (l - k) = l
  OBVIOUS
<1>2. Pow2(k) \in Nat /\ Pow2(k) > 0 /\ Pow2(l - k) \in Nat /\ Pow2(l - k) > 0
  BY <1>1, Pow2Facts
<1>3. Pow2(k + (l - k)) = Pow2(k) * Pow2(l - k)
  BY <1>1, Pow2Sum
<1>4. n = Pow2(k) * Pow2(l - k)
  BY <1>1, <1>3
<1> DEFINE d == Pow2(k)
           q == Pow2(l - k)
<1> HIDE DEF d, q
<1>5. n = d * q + 0 /\ d \in Nat /\ d > 0 /\ q \in Int
  BY <1>2, <1>4 DEF d, q
<1>6. n \div d = q
  BY <1>5, DivUnique
<1>. QED
  BY <1>2, <1>4, <1>6 DEF d, q

\* The degree of a ring is halved evenly.
LEMMA PowerSizes ==
  ASSUME NEW n \in Nat, n > 3, NEW l \in Nat, n = Pow2(l)
  PROVE  l > 1 /\ n \div 2 \in Nat /\ n = 2 * (n \div 2)
<1>1. n \in Nat /\ n > 3 /\ l \in Nat /\ n = Pow2(l)
  OBVIOUS
<1>2. l > 1
  <2>1. Pow2(0) = 1 /\ Pow2(0 + 1) = 2 * Pow2(0)
    BY Pow2Facts
  <2>2. l # 0 /\ l # 1
    BY <1>1, <2>1
  <2>. QED
    BY <1>1, <2>2
<1>3. n = 2 * (n \div 2)
  <2>1. l - 1 \in Nat /\ (l - 1) + 1 = l
    BY <1>1, <1>2
  <2>2. Pow2(l - 1) \in Nat /\ Pow2((l - 1) + 1) = 2 * Pow2(l - 1)
    BY <2>1, Pow2Facts
  <2>. QED
    BY <1>1, <2>1, <2>2
<1>4. n \div 2 \in Nat
  BY <1>1
<1>. QED
  BY <1>2, <1>3, <1>4

\* The blocks of a level: the partner of an element is in its block.
LEMMA BlockOf ==
  ASSUME NEW h \in Nat \ {0}, NEW m \in Nat, NEW n, n = m * (2 * h), NEW x \in 0..(n - 1)
  PROVE  /\ x \div (2 * h) \in 0..(m - 1)
         /\ x % (2 * h) < h => x + h \in 0..(n - 1)
         /\ ~(x % (2 * h) < h) => x - h \in 0..(n - 1)
<1> DEFINE t == 2 * h
           q == x \div t
           r == x % t
<1>1. t \in Nat /\ t > 0 /\ x \in Int /\ x >= 0
  BY Z3
<1>2. q \in Int /\ r \in 0..(t - 1) /\ x = t * q + r
  <2> HIDE DEF t
  <2>. QED
    BY <1>1, DivMod
<1> HIDE DEF q, r
<1>3. q >= 0 /\ r <= x
  <2>1. t * q + r >= 0 /\ r < t
    BY <1>1, <1>2
  <2>2. q < 0 => t * q <= t * (-1)
    <3> HIDE DEF t
    <3>. QED
      BY <1>1, <1>2, Z3
  <2>3. q >= 0
    BY <1>1, <1>2, <2>1, <2>2
  <2>4. t * q >= 0
    <3> HIDE DEF t
    <3>. QED
      BY <1>1, <1>2, <2>3, Z3
  <2>. QED
    BY <1>1, <1>2, <2>3, <2>4
<1>4. n = t * m /\ n \in Nat
  BY Z3
<1>5. q < m
  <2>1. q >= m => t * q >= t * m
    <3> HIDE DEF t
    <3>. QED
      BY <1>1, <1>2, Z3
  <2>. QED
    BY <1>1, <1>2, <1>4, <2>1
<1>6. t * q + t <= n
  <2>1. t * (q + 1) <= t * m
    <3> HIDE DEF t
    <3>. QED
      BY <1>1, <1>2, <1>5, Z3
  <2>2. t * (q + 1) = t * q + t
    <3> HIDE DEF t
    <3>. QED
      BY <1>1, <1>2, Z3
  <2>. QED
    BY <1>4, <2>1, <2>2
<1>7. r < h => x + h \in 0..(n - 1)
  BY <1>1, <1>2, <1>4, <1>6
<1>8. ~(r < h) => x - h \in 0..(n - 1)
  BY <1>1, <1>2, <1>3, <1>4
<1>. QED
  BY <1>2, <1>3, <1>5, <1>7, <1>8 DEF q, r

\* The halves of the levels of a transform of n elements, n a power of two.
LEMMA HalfSizes ==
  ASSUME NEW n \in Nat, n > 3, NEW l \in Nat, n = Pow2(l), NEW k \in 1..l
  PROVE  /\ n \div Pow2(k) = Pow2(l - k) /\ n \div Pow2(k) \in Nat \ {0}
         /\ n = Pow2(k - 1) * (2 * (n \div Pow2(k))) /\ Pow2(k - 1) \in Nat \ {0}
         /\ k < l => n \div Pow2(k) = 2 * (n \div Pow2(k + 1))
<1> DEFINE Half(x) == n \div Pow2(x)
<1>0. l \in Nat /\ l > 1 /\ n \in Nat
  BY PowerSizes
<1>1. Half(k) = Pow2(l - k) /\ Half(k) \in Nat \ {0}
  <2>1. k \in 0..l
    BY <1>0
  <2>2. n \div Pow2(k) = Pow2(l - k) /\ Pow2(l - k) \in Nat \ {0}
    BY <2>1, PowerParts, Zenon
  <2>. QED
    BY <2>2
<1>2. k - 1 \in 0..l /\ l - (k - 1) = (l - k) + 1 /\ l - k \in Nat
  BY <1>0
<1>3. n = Pow2(k - 1) * Pow2((l - k) + 1) /\ Pow2(k - 1) \in Nat \ {0}
  <2> DEFINE j == k - 1
  <2>1. j \in 0..l
    BY <1>2
  <2> HIDE DEF j
  <2>2. n = Pow2(j) * Pow2(l - j) /\ Pow2(j) \in Nat \ {0}
    BY <2>1, PowerParts, Zenon
  <2>. QED
    BY <1>2, <2>2 DEF j
<1>4. Pow2((l - k) + 1) = 2 * Pow2(l - k)
  BY <1>2, Pow2Facts
<1>5. ASSUME k < l PROVE Half(k) = 2 * Half(k + 1)
  <2>1. k + 1 \in 0..l /\ l - (k + 1) \in Nat /\ (l - (k + 1)) + 1 = l - k
    BY <1>0, <1>5
  <2>2. Half(k + 1) = Pow2(l - (k + 1))
    BY <2>1, PowerParts
  <2>3. Pow2((l - (k + 1)) + 1) = 2 * Pow2(l - (k + 1))
    BY <2>1, Pow2Facts
  <2>. QED
    BY <1>1, <2>1, <2>2, <2>3
<1>. QED
  BY <1>1, <1>3, <1>4, <1>5

\* Words wrap around: the result is in the word, and what fits is kept.
LEMMA WrapFacts ==
  ASSUME NEW h \in Nat, h > 0, NEW x \in Int
  PROVE  /\ ((x + h) % (2 * h)) - h \in (-h)..(h - 1)
         /\ -h <= x /\ x < h => ((x + h) % (2 * h)) - h = x
<1>1. 2 * h \in Nat /\ 2 * h > 0 /\ x + h \in Int
  OBVIOUS
<1>2. (x + h) % (2 * h) \in 0..(2 * h - 1)
  BY <1>1, DivMod
<1>3. ASSUME -h <= x, x < h PROVE (x + h) % (2 * h) = x + h
  <2>1. x + h \in 0..(2 * h - 1) /\ (2 * h) * 0 + (x + h) = x + h
    BY <1>3
  <2>2. ((2 * h) * 0 + (x + h)) % (2 * h) = x + h
    BY <1>1, <2>1, ModUnique
  <2>. QED
    BY <2>1, <2>2
<1>. QED
  BY <1>2, <1>3

\* A square bounds its root.
LEMMA RootBound ==
  ASSUME NEW m \in Nat, NEW x \in Int, NEW y \in Int, x * x + y * y <= m * m
  PROVE  -m <= x /\ x <= m /\ -m <= y /\ y <= m
<1>1. ASSUME NEW a \in Int, NEW b \in Int, a * a + b * b <= m * m PROVE a <= m /\ -m <= a
  <2>1. b * b >= 0
    BY Z3
  <2>2. a * a <= m * m
    BY <1>1, <2>1, Z3
  <2>3. a > m => a * a > m * m
    BY Z3
  <2>4. a < -m => a * a > m * m
    BY Z3
  <2>. QED
    BY <2>2, <2>3, <2>4
<1>2. x * x + y * y <= m * m /\ y * y + x * x <= m * m
  BY Z3
<1>. QED
  BY <1>1, <1>2

\* The length of a product is the product of the lengths.
LEMMA TwistedLength ==
  ASSUME NEW c \in Int, NEW d \in Int, NEW p \in Int, NEW q \in Int, NEW r \in Nat, NEW s \in Nat,
         c * c + d * d <= r * r, p * p + q * q <= s * s
  PROVE  (c * p - d * q) * (c * p - d * q) + (c * q + d * p) * (c * q + d * p) <= (r * s) * (r * s)
<1> DEFINE a == c * c + d * d
           b == p * p + q * q
<1>1. (c * p - d * q) * (c * p - d * q) + (c * q + d * p) * (c * q + d * p) = a * b
  BY Z3
<1>2. a \in Nat /\ b \in Nat /\ a <= r * r /\ b <= s * s
  <2>1. c * c >= 0 /\ d * d >= 0 /\ p * p >= 0 /\ q * q >= 0
    BY Z3
  <2>. QED
    BY <2>1, Z3
<1> HIDE DEF a, b
<1>3. a * b <= (r * r) * (s * s)
  <2> DEFINE rr == r * r
             ss == s * s
  <2>1. rr \in Nat /\ ss \in Nat
    BY Z3
  <2>2. a <= rr /\ b <= ss
    BY <1>2
  <2> HIDE DEF rr, ss
  <2>3. a * b <= rr * b
    BY <1>2, <2>1, <2>2, Z3
  <2>4. rr * b <= rr * ss
    BY <1>2, <2>1, <2>2, Z3
  <2>5. a * b \in Int /\ rr * b \in Int /\ rr * ss \in Int
    BY <1>2, <2>1, Z3
  <2>6. a * b <= rr * ss
    BY <2>3, <2>4, <2>5
  <2>. QED
    BY <2>6 DEF rr, ss
<1>4. (r * r) * (s * s) = (r * s) * (r * s)
  BY Z3
<1>. QED
  BY <1>1, <1>3, <1>4

\* The parallelogram: a sum and a difference of two short numbers.
LEMMA SumLength ==
  ASSUME NEW a \in Int, NEW b \in Int, NEW x \in Int, NEW y \in Int, NEW m \in Nat,
         a * a + b * b <= m * m, x * x + y * y <= m * m
  PROVE  /\ (a + x) * (a + x) + (b + y) * (b + y) <= (2 * m) * (2 * m)
         /\ (a - x) * (a - x) + (b - y) * (b - y) <= (2 * m) * (2 * m)
<1> DEFINE u == (a + x) * (a + x) + (b + y) * (b + y)
           v == (a - x) * (a - x) + (b - y) * (b - y)
<1>1. u + v = 2 * (a * a + b * b) + 2 * (x * x + y * y)
  BY Z3
<1>2. u \in Nat /\ v \in Nat
  <2>1. \A n \in Int : n * n \in Nat
    BY Z3
  <2>2. a + x \in Int /\ b + y \in Int /\ a - x \in Int /\ b - y \in Int
    OBVIOUS
  <2>3. (a + x) * (a + x) \in Nat /\ (b + y) * (b + y) \in Nat /\ (a - x) * (a - x) \in Nat /\ (b - y) * (b - y) \in Nat
    BY <2>1, <2>2
  <2>. QED
    BY <2>3
<1>3. (2 * m) * (2 * m) = 4 * (m * m)
  BY Z3
<1>4. m * m \in Int /\ a * a + b * b \in Int /\ x * x + y * y \in Int
  BY Z3
<1> HIDE DEF u, v
<1>5. u <= 4 * (m * m) /\ v <= 4 * (m * m)
  BY <1>1, <1>2, <1>4
<1>. QED
  BY <1>3, <1>5 DEF u, v

\* Rounding down costs less than two of the divisor in length.
LEMMA FlooredLength ==
  ASSUME NEW x \in Int, NEW y \in Int, NEW w \in Nat, w > 0, NEW k \in Nat,
         x * x + y * y <= (w * k) * (w * k)
  PROVE  (x \div w) * (x \div w) + (y \div w) * (y \div w) <= (k + 2) * (k + 2)
<1> DEFINE a == x \div w
           b == y \div w
           r == x % w
           s == y % w
<1>1. a \in Int /\ b \in Int /\ r \in Int /\ s \in Int /\ 0 <= r /\ r < w /\ 0 <= s /\ s < w
      /\ x = w * a + r /\ y = w * b + s
  OBVIOUS
<1> HIDE DEF a, b, r, s
<1>2. -(w * k) <= x /\ -(w * k) <= y /\ x <= w * k /\ y <= w * k /\ w * k \in Nat
  <2>1. w * k \in Nat
    BY Z3
  <2>2. -(w * k) <= x /\ x <= w * k /\ -(w * k) <= y /\ y <= w * k
    BY <2>1, RootBound
  <2>. QED
    BY <2>1, <2>2
<1>3. (w * a) * (w * a) + (w * b) * (w * b) = (x * x + y * y) - 2 * (x * r) - 2 * (y * s) + (r * r + s * s)
  <2>1. w * a = x - r /\ w * b = y - s
    BY <1>1
  <2>2. (x - r) * (x - r) = x * x - 2 * (x * r) + r * r
    BY <1>1, Z3
  <2>3. (y - s) * (y - s) = y * y - 2 * (y * s) + s * s
    BY <1>1, Z3
  <2>4. x * x \in Int /\ y * y \in Int /\ x * r \in Int /\ y * s \in Int /\ r * r \in Int /\ s * s \in Int
    BY <1>1, Z3
  <2>. QED
    BY <2>1, <2>2, <2>3, <2>4
<1>4. ASSUME NEW z \in Int, NEW t \in Int, 0 <= t, t < w, -(w * k) <= z, z <= w * k
      PROVE  z * t \in Int /\ -(z * t) <= w * (w * k) /\ t * t \in Int /\ t * t <= w * w
  <2> DEFINE m == w * k
  <2>1. m \in Nat
    BY <1>2
  <2>2. -m <= z
    BY <1>4
  <2> HIDE DEF m
  <2>3. (-z) * t <= m * t
    BY <1>4, <2>1, <2>2, Z3
  <2>4. m * t <= m * w
    BY <1>4, <2>1, Z3
  <2>5. (-z) * t = -(z * t) /\ m * w = w * m /\ m * t \in Int /\ m * w \in Int /\ z * t \in Int
    BY <1>4, <2>1, Z3
  <2>6. -(z * t) <= w * m
    BY <2>3, <2>4, <2>5
  <2>7. t * t <= w * w /\ t * t \in Int
    BY <1>4, Z3
  <2>. QED
    BY <2>5, <2>6, <2>7 DEF m
<1>5. x * r \in Int /\ -(x * r) <= w * (w * k) /\ r * r \in Int /\ r * r <= w * w
  BY <1>1, <1>2, <1>4
<1>6. y * s \in Int /\ -(y * s) <= w * (w * k) /\ s * s \in Int /\ s * s <= w * w
  BY <1>1, <1>2, <1>4
<1> DEFINE W == w * w
<1>7. W \in Nat /\ W > 0 /\ w * (w * k) = W * k /\ (w * k) * (w * k) = W * (k * k)
      /\ (w * a) * (w * a) + (w * b) * (w * b) = W * (a * a + b * b) /\ W * k \in Int /\ W * (k * k) \in Int
  BY <1>1, Z3
<1>8. x * x + y * y \in Int /\ w * w = W
  BY Z3
<1>9. a * a + b * b \in Int /\ k * k + 4 * k + 2 \in Int /\ W * (a * a + b * b) \in Int
  BY <1>1, <1>7, Z3
<1> HIDE DEF W
<1>10. W * (a * a + b * b) <= W * (k * k) + 4 * (W * k) + 2 * W
  BY <1>3, <1>5, <1>6, <1>7, <1>8, <1>9
<1>11. W * (k * k) + 4 * (W * k) + 2 * W = W * (k * k + 4 * k + 2)
  BY <1>7, Z3
<1>12. a * a + b * b <= k * k + 4 * k + 2
  <2> DEFINE A == a * a + b * b
             K == k * k + 4 * k + 2
  <2>1. A \in Int /\ K \in Int /\ W * A <= W * K
    BY <1>9, <1>10, <1>11
  <2> HIDE DEF A, K
  <2>2. A > K => W * A > W * K
    BY <1>7, <2>1, Z3
  <2>3. W * A \in Int /\ W * K \in Int
    BY <1>7, <2>1, Z3
  <2>4. A <= K
    BY <2>1, <2>2, <2>3
  <2>. QED
    BY <2>4 DEF A, K
<1>13. k * k + 4 * k + 2 <= (k + 2) * (k + 2)
  BY Z3
<1>14. (k + 2) * (k + 2) \in Int
  BY Z3
<1>. QED
  BY <1>9, <1>12, <1>13, <1>14 DEF a, b

\* A butterfly lengthens its lanes by at most four, and stays within its words.
LEMMA ShortButterfly ==
  ASSUME NEW D \in Nat, D > 0, NEW R \in Nat, R + 4 <= D,
         NEW a \in Int, NEW b \in Int, a * a + b * b <= R * R,
         NEW c \in Int, NEW d \in Int, c * c + d * d <= R * R,
         NEW p \in Int, NEW q \in Int, p * p + q * q <= (D + 2) * (D + 2)
  PROVE  LET x == c * p - d * q
             y == c * q + d * p
         IN  /\ x \in Int /\ y \in Int
             /\ \A z \in {x, y, a * D + x, b * D + y, a * D - x, b * D - y} :
                  z \in Int /\ -(2 * D * D) < z /\ z < 2 * D * D
             /\ \A z \in {<<a * D + x, b * D + y>>, <<a * D - x, b * D - y>>} :
                  (z[1] \div (2 * D)) * (z[1] \div (2 * D)) + (z[2] \div (2 * D)) * (z[2] \div (2 * D))
                    <= (R + 4) * (R + 4)
<1> DEFINE x == c * p - d * q
           y == c * q + d * p
           m == R * (D + 2)
           M == 2 * D * (R + 2)
           aD == a * D
           bD == b * D
<1>1. x \in Int /\ y \in Int /\ m \in Nat /\ M \in Nat /\ aD \in Int /\ bD \in Int
  BY Z3
<1>2. x * x + y * y <= m * m
  <2>1. D + 2 \in Nat
    OBVIOUS
  <2>. QED
    BY <2>1, TwistedLength
<1>3. aD * aD + bD * bD <= m * m
  <2>1. aD * aD + bD * bD = (a * a + b * b) * (D * D)
    BY Z3
  <2>2. (a * a + b * b) * (D * D) <= (R * R) * (D * D)
    <3> DEFINE n == a * a + b * b
               r == R * R
               e == D * D
    <3>1. n \in Int /\ r \in Int /\ e \in Nat /\ n <= r
      BY Z3
    <3> HIDE DEF n, r, e
    <3>2. n * e <= r * e
      BY <3>1, Z3
    <3>. QED
      BY <3>2 DEF n, r, e
  <2>3. (R * R) * (D * D) <= (R * R) * ((D + 2) * (D + 2))
    <3> DEFINE r == R * R
               e == D * D
               f == (D + 2) * (D + 2)
    <3>1. r \in Nat /\ e \in Int /\ f \in Int /\ e <= f
      BY Z3
    <3> HIDE DEF r, e, f
    <3>2. r * e <= r * f
      BY <3>1, Z3
    <3>. QED
      BY <3>2 DEF r, e, f
  <2>4. m * m = (R * R) * ((D + 2) * (D + 2))
    BY Z3
  <2>5. aD * aD + bD * bD \in Int /\ (a * a + b * b) * (D * D) \in Int /\ (R * R) * (D * D) \in Int
        /\ (R * R) * ((D + 2) * (D + 2)) \in Int
    BY Z3
  <2> HIDE DEF aD, bD, m
  <2>. QED
    BY <2>1, <2>2, <2>3, <2>4, <2>5
<1>4. 2 * m <= M
  <2>1. m = R * D + 2 * R /\ M = 2 * (R * D) + 4 * D /\ R * D \in Int
    BY Z3
  <2> HIDE DEF m, M
  <2>. QED
    BY <2>1
<1>5. M < 2 * D * D /\ M = (2 * D) * (R + 2)
  <2>1. M = 2 * (R * D) + 4 * D /\ R * D \in Int /\ D * D \in Int /\ 2 * D * D = 2 * (D * D)
    BY Z3
  <2>2. R * D <= (D - 4) * D
    BY Z3
  <2>3. (D - 4) * D = D * D - 4 * D
    BY Z3
  <2>4. M = (2 * D) * (R + 2)
    BY Z3
  <2> HIDE DEF M
  <2>. QED
    BY <2>1, <2>2, <2>3, <2>4
<1> HIDE DEF x, y, m, M, aD, bD
<1>6. (2 * m) * (2 * m) <= M * M /\ (2 * m) * (2 * m) \in Int /\ M * M \in Int
  BY <1>1, <1>4, Z3
<1>7. /\ (aD + x) * (aD + x) + (bD + y) * (bD + y) <= (2 * m) * (2 * m)
      /\ (aD - x) * (aD - x) + (bD - y) * (bD - y) <= (2 * m) * (2 * m)
  BY <1>1, <1>2, <1>3, SumLength
<1>8. ASSUME NEW u \in Int, NEW v \in Int, u * u + v * v <= (2 * m) * (2 * m)
      PROVE  /\ -(2 * D * D) < u /\ u < 2 * D * D /\ -(2 * D * D) < v /\ v < 2 * D * D
             /\ (u \div (2 * D)) * (u \div (2 * D)) + (v \div (2 * D)) * (v \div (2 * D)) <= (R + 4) * (R + 4)
  <2>1. u * u + v * v \in Int
    BY Z3
  <2>2. u * u + v * v <= M * M
    BY <1>6, <1>8, <2>1
  <2>3. -M <= u /\ u <= M /\ -M <= v /\ v <= M
    BY <1>1, <2>2, RootBound
  <2>4. u * u + v * v <= ((2 * D) * (R + 2)) * ((2 * D) * (R + 2))
    BY <1>5, <2>2
  <2>5. 2 * D \in Nat /\ 2 * D > 0 /\ R + 2 \in Nat /\ (R + 2) + 2 = R + 4
    OBVIOUS
  <2>6. (u \div (2 * D)) * (u \div (2 * D)) + (v \div (2 * D)) * (v \div (2 * D)) <= ((R + 2) + 2) * ((R + 2) + 2)
    BY <2>4, <2>5, FlooredLength
  <2>7. 2 * D * D \in Int
    BY Z3
  <2>8. -(2 * D * D) < u /\ u < 2 * D * D /\ -(2 * D * D) < v /\ v < 2 * D * D
    BY <1>1, <1>5, <2>3, <2>7
  <2>. QED
    BY <2>5, <2>6, <2>8
<1>9. aD + x \in Int /\ bD + y \in Int /\ aD - x \in Int /\ bD - y \in Int
  BY <1>1
<1>10. /\ -(2 * D * D) < aD + x /\ aD + x < 2 * D * D /\ -(2 * D * D) < bD + y /\ bD + y < 2 * D * D
       /\ ((aD + x) \div (2 * D)) * ((aD + x) \div (2 * D)) + ((bD + y) \div (2 * D)) * ((bD + y) \div (2 * D))
            <= (R + 4) * (R + 4)
  BY <1>7, <1>8, <1>9
<1>11. /\ -(2 * D * D) < aD - x /\ aD - x < 2 * D * D /\ -(2 * D * D) < bD - y /\ bD - y < 2 * D * D
       /\ ((aD - x) \div (2 * D)) * ((aD - x) \div (2 * D)) + ((bD - y) \div (2 * D)) * ((bD - y) \div (2 * D))
            <= (R + 4) * (R + 4)
  BY <1>7, <1>8, <1>9
<1>12. /\ -(2 * D * D) < x /\ x < 2 * D * D /\ -(2 * D * D) < y /\ y < 2 * D * D
  <2>1. -m <= x /\ x <= m /\ -m <= y /\ y <= m
    BY <1>1, <1>2, RootBound
  <2>2. 2 * D * D \in Int
    BY Z3
  <2>. QED
    BY <1>1, <1>4, <1>5, <2>1, <2>2
<1>. QED
  BY <1>1, <1>9, <1>10, <1>11, <1>12 DEF x, y, aD, bD

-----------------------------------------------------------------------------
(***************************************************************************)
(* Bit reversal.                                                           *)
(***************************************************************************)

\* One more bit doubles what is reversed and comes in below it.
LEMMA BitRevFacts ==
  ASSUME NEW x \in Nat
  PROVE  /\ BitRev(x, 0) = 0
         /\ \A n \in Nat : /\ BitRev(x, n) \in Nat
                           /\ BitRev(x, n + 1) = 2 * BitRev(x, n) + ((x \div Pow2(n)) % 2)
<1> DEFINE D == [y \in Nat \X Nat |-> 2 * y[1] + ((x \div Pow2(y[2])) % 2)]
<1>1. /\ D \in [Nat \X Nat -> Nat] /\ 0 \in Nat
      /\ \A v \in Nat, k \in Nat : /\ D[<<v, k>>] = 2 * v + ((x \div Pow2(k)) % 2)
                                   /\ 2 * v + ((x \div Pow2(k)) % 2) \in Nat
  <2>1. \A k \in Nat : (x \div Pow2(k)) % 2 \in Nat
    <3> SUFFICES ASSUME NEW k \in Nat PROVE (x \div Pow2(k)) % 2 \in Nat
      OBVIOUS
    <3>1. Pow2(k) \in Nat /\ Pow2(k) > 0
      BY Pow2Facts
    <3>2. x \div Pow2(k) \in Int
      BY <3>1, DivMod
    <3>. QED
      BY <3>2
  <2>. QED
    BY <2>1
<1> HIDE DEF D
<1>2. ASSUME NEW n \in Nat
      PROVE  \E c : /\ \A k \in 0..n : c[k] \in Nat
                    /\ BitRev(x, n) = c[n] /\ Follows(c, 0, D, n)
  <2>1. PICK s \in [0..n -> Nat] : Follows(s, 0, D, n)
    BY <1>1, Recursion
  <2> DEFINE P(c) == c = [k \in 0..n |-> IF k = 0 THEN 0 ELSE 2 * c[k - 1] + ((x \div Pow2(k - 1)) % 2)]
             c == CHOOSE c : P(c)
  <2>2. ASSUME NEW k \in 0..n
        PROVE  s[k] = IF k = 0 THEN 0 ELSE 2 * s[k - 1] + ((x \div Pow2(k - 1)) % 2)
    <3>1. CASE k # 0
      <4>1. k \in 1..n /\ s[k - 1] \in Nat /\ k - 1 \in Nat
        BY <3>1
      <4>2. s[k] = D[<<s[k - 1], k - 1>>]
        BY <2>1, <4>1 DEF Follows
      <4>. QED
        BY <1>1, <3>1, <4>1, <4>2
    <3>. QED
      BY <2>1, <3>1 DEF Follows
  <2>3. P(s)
    BY <2>2
  <2>4. P(c)
    <3> HIDE DEF P
    <3>. QED
      BY <2>3
  <2>5. BitRev(x, n) = c[n]
    BY DEF BitRev
  <2> HIDE DEF c
  <2>6. c[0] = 0 /\ \A k \in 1..n : c[k] = 2 * c[k - 1] + ((x \div Pow2(k - 1)) % 2)
    BY <2>4
  <2> DEFINE S == {k \in Nat : k <= n => c[k] \in Nat}
  <2>7. 0 \in S
    BY <1>1, <2>6
  <2>8. ASSUME NEW k \in Nat, k \in S PROVE k + 1 \in S
    <3>1. SUFFICES ASSUME k + 1 <= n PROVE c[k + 1] \in Nat
      OBVIOUS
    <3>2. k + 1 \in 1..n /\ (k + 1) - 1 = k /\ k <= n
      BY <3>1
    <3>3. c[k + 1] = 2 * c[k] + ((x \div Pow2(k)) % 2) /\ c[k] \in Nat
      BY <2>6, <2>8, <3>2
    <3>. QED
      BY <1>1, <3>3
  <2> HIDE DEF S
  <2>9. Nat \subseteq S
    BY <2>7, <2>8, SetInduction
  <2>10. \A k \in 0..n : c[k] \in Nat
    BY <2>9 DEF S
  <2>11. Follows(c, 0, D, n)
    <3>1. \A k \in 1..n : k - 1 \in Nat /\ c[k - 1] \in Nat
      BY <2>10
    <3>. QED
      BY <1>1, <2>6, <3>1 DEF Follows
  <2>. QED
    BY <2>5, <2>10, <2>11
<1>3. BitRev(x, 0) = 0
  BY <1>2 DEF Follows
<1>4. ASSUME NEW n \in Nat
      PROVE  BitRev(x, n) \in Nat /\ BitRev(x, n + 1) = 2 * BitRev(x, n) + ((x \div Pow2(n)) % 2)
  <2>1. PICK c : /\ \A k \in 0..n : c[k] \in Nat
                 /\ BitRev(x, n) = c[n] /\ Follows(c, 0, D, n)
    BY <1>2
  <2>2. PICK d : /\ \A k \in 0..(n + 1) : d[k] \in Nat
                 /\ BitRev(x, n + 1) = d[n + 1] /\ Follows(d, 0, D, n + 1)
    BY <1>2
  <2>3. Follows(d, 0, D, n)
    BY <2>2 DEF Follows
  <2>4. c[n] = d[n]
    <3>1. D \in [Nat \X Nat -> Nat] /\ 0 \in Nat /\ Follows(c, 0, D, n)
      BY <1>1, <2>1
    <3>2. \A k \in 0..n : c[k] = d[k] /\ c[k] \in Nat
      BY <2>3, <3>1, RecursionUnique
    <3>. QED
      BY <3>2
  <2>5. d[n + 1] = D[<<d[n], n>>] /\ d[n] \in Nat
    BY <2>2 DEF Follows
  <2>. QED
    BY <1>1, <2>1, <2>2, <2>4, <2>5
<1>. QED
  BY <1>3, <1>4

\* The reversal of n bits is of the low n bits.
LEMMA BitRevLow ==
  ASSUME NEW x \in Nat, NEW y \in Nat, NEW n \in Nat,
         \A i \in 0..(n - 1) : (x \div Pow2(i)) % 2 = (y \div Pow2(i)) % 2
  PROVE  BitRev(x, n) = BitRev(y, n)
<1> DEFINE S == {m \in Nat : m <= n => BitRev(x, m) = BitRev(y, m)}
<1>1. 0 \in S
  BY BitRevFacts
<1>2. ASSUME NEW m \in Nat, m \in S PROVE m + 1 \in S
  <2>1. SUFFICES ASSUME m + 1 <= n PROVE BitRev(x, m + 1) = BitRev(y, m + 1)
    OBVIOUS
  <2>2. m \in 0..(n - 1) /\ BitRev(x, m) = BitRev(y, m)
    BY <1>2, <2>1
  <2>3. /\ BitRev(x, m + 1) = 2 * BitRev(x, m) + ((x \div Pow2(m)) % 2)
        /\ BitRev(y, m + 1) = 2 * BitRev(y, m) + ((y \div Pow2(m)) % 2)
    BY BitRevFacts
  <2>. QED
    BY <2>2, <2>3
<1> HIDE DEF S
<1>3. Nat \subseteq S
  BY <1>1, <1>2, SetInduction
<1>. QED
  BY <1>3 DEF S

\* The reversed index of a twiddle: block b of the level with 2^k blocks.
LEMMA BitRevTwiddle ==
  ASSUME NEW k \in Nat, NEW b \in 0..(Pow2(k) - 1), NEW d \in Nat
  PROVE  BitRev(Pow2(k) + b, k + 1 + d) = Pow2(d) * (2 * BitRev(b, k) + 1)
<1> DEFINE x == Pow2(k) + b
           v == 2 * BitRev(b, k) + 1
<1>0. Pow2(k) \in Nat /\ Pow2(k) > 0 /\ b \in Nat /\ x \in Nat /\ Pow2(k + 1) = 2 * Pow2(k)
  BY Pow2Facts
<1>1. ASSUME NEW i \in 0..(k - 1) PROVE (x \div Pow2(i)) % 2 = (b \div Pow2(i)) % 2
  <2>1. i \in Nat /\ (k - 1) - i \in Nat /\ k = i + (((k - 1) - i) + 1)
    OBVIOUS
  <2> DEFINE w == Pow2((k - 1) - i)
             e == Pow2(i)
  <2>2. w \in Nat /\ e \in Nat /\ e > 0 /\ Pow2(((k - 1) - i) + 1) = 2 * w
    BY <2>1, Pow2Facts
  <2>3. Pow2(k) = e * (2 * w)
    BY <2>1, <2>2, Pow2Sum
  <2> HIDE DEF w, e
  <2>4. x = b + (2 * w) * e
    BY <1>0, <2>2, <2>3, Z3
  <2>5. x \div e = b \div e + 2 * w
    BY <1>0, <2>2, <2>4, DivShift
  <2>6. b \div e \in Int
    BY <1>0, <2>2, DivMod
  <2>7. \A a \in Int : (a + 2 * w) % 2 = a % 2
    BY <2>2
  <2>. QED
    BY <2>5, <2>6, <2>7 DEF e
<1>2. BitRev(x, k) = BitRev(b, k)
  BY <1>0, <1>1, BitRevLow
<1>3. (x \div Pow2(k)) % 2 = 1
  <2> DEFINE e == Pow2(k)
  <2>1. e \in Nat /\ e > 0 /\ b \in 0..(e - 1) /\ x = e * 1 + b
    BY <1>0
  <2> HIDE DEF e, x
  <2>2. x \div e = 1
    BY <2>1, DivUnique
  <2>. QED
    BY <2>2 DEF e
<1>4. BitRev(x, k + 1) = v /\ v \in Nat
  BY <1>0, <1>2, <1>3, BitRevFacts
<1> DEFINE S == {n \in Nat : BitRev(x, k + 1 + n) = Pow2(n) * v}
<1>5. 0 \in S
  <2>1. k + 1 + 0 = k + 1 /\ 1 * v = v /\ Pow2(0) = 1
    BY <1>4, Pow2Facts
  <2>. QED
    BY <1>4, <2>1
<1>6. ASSUME NEW n \in Nat, n \in S PROVE n + 1 \in S
  <2> DEFINE e == Pow2(k + 1 + n)
  <2>1. k + 1 + n \in Nat /\ k + 1 + (n + 1) = (k + 1 + n) + 1
    OBVIOUS
  <2>2. e \in Nat /\ e > 0 /\ x < e
    <3>1. Pow2(k + 1 + n) = Pow2(k + 1) * Pow2(n) /\ Pow2(n) \in Nat /\ Pow2(n) > 0
      <4>1. k + 1 \in Nat
        OBVIOUS
      <4>. QED
        BY <4>1, Pow2Sum, Pow2Facts
    <3>2. Pow2(k + 1) \in Nat /\ x < Pow2(k + 1)
      BY <1>0
    <3>3. \A a, c \in Nat : c > 0 => a <= a * c
      BY Z3
    <3>. QED
      BY <1>0, <2>1, <3>1, <3>2, <3>3, Pow2Facts
  <2>3. x \div e = 0
    <3>1. x = e * 0 + x /\ x \in 0..(e - 1)
      BY <1>0, <2>2
    <3> HIDE DEF e, x
    <3>. QED
      BY <2>2, <3>1, DivUnique
  <2>4. BitRev(x, (k + 1 + n) + 1) = 2 * BitRev(x, k + 1 + n) + ((x \div e) % 2)
    BY <1>0, <2>1, BitRevFacts
  <2>5. BitRev(x, k + 1 + n) = Pow2(n) * v
    BY <1>6
  <2>6. Pow2(n + 1) = 2 * Pow2(n) /\ Pow2(n) \in Nat
    BY Pow2Facts
  <2> HIDE DEF v, e, x
  <2>7. 2 * (Pow2(n) * v) + (0 % 2) = (2 * Pow2(n)) * v
    <3>1. 2 * (Pow2(n) * v) = (2 * Pow2(n)) * v
      BY <1>4, <2>6, Z3
    <3>2. 0 % 2 = 0
      OBVIOUS
    <3>3. Pow2(n) * v \in Int
      BY <1>4, <2>6, Z3
    <3>. QED
      BY <3>1, <3>2, <3>3
  <2>. QED
    BY <2>1, <2>3, <2>4, <2>5, <2>6, <2>7
<1> HIDE DEF S
<1>7. Nat \subseteq S
  BY <1>5, <1>6, SetInduction
<1>. QED
  BY <1>7 DEF S

\* The halves of block b, one bit further.
LEMMA BitRevDouble ==
  ASSUME NEW b \in Nat, NEW k \in Nat
  PROVE  BitRev(2 * b, k + 1) = BitRev(b, k) /\ BitRev(2 * b + 1, k + 1) = BitRev(b, k) + Pow2(k)
<1>0. 2 * b \in Nat /\ 2 * b + 1 \in Nat
  OBVIOUS
<1> DEFINE S == {n \in Nat : /\ BitRev(2 * b, n + 1) = BitRev(b, n)
                             /\ BitRev(2 * b + 1, n + 1) = BitRev(b, n) + Pow2(n)}
<1>1. 0 \in S
  <2>1. Pow2(0) = 1 /\ BitRev(b, 0) = 0 /\ BitRev(2 * b, 0) = 0 /\ BitRev(2 * b + 1, 0) = 0
    BY <1>0, BitRevFacts, Pow2Facts
  <2>2. /\ BitRev(2 * b, 0 + 1) = 2 * 0 + (((2 * b) \div 1) % 2)
        /\ BitRev(2 * b + 1, 0 + 1) = 2 * 0 + (((2 * b + 1) \div 1) % 2)
    BY <1>0, <2>1, BitRevFacts
  <2>3. ((2 * b) \div 1) % 2 = 0 /\ ((2 * b + 1) \div 1) % 2 = 1
    OBVIOUS
  <2>. QED
    BY <2>1, <2>2, <2>3
<1>2. ASSUME NEW n \in Nat, n \in S PROVE n + 1 \in S
  <2> DEFINE e == Pow2(n)
  <2>1. e \in Nat /\ e > 0 /\ Pow2(n + 1) = 2 * e
    BY Pow2Facts
  <2>2. ASSUME NEW r \in 0..1 PROVE (2 * b + r) \div (2 * e) = b \div e
    <3> HIDE DEF e
    <3> DEFINE q == b \div e
               w == b % e
    <3>1. q \in Int /\ w \in 0..(e - 1) /\ b = e * q + w
      BY <2>1, DivMod
    <3> HIDE DEF q, w
    <3>2. 2 * e \in Nat /\ 2 * e > 0 /\ 2 * w + r \in 0..(2 * e - 1)
      BY <2>1, <3>1
    <3>3. 2 * b + r = (2 * e) * q + (2 * w + r)
      <4>1. w \in Int /\ r \in Int
        BY <3>1
      <4>. QED
        BY <2>1, <3>1, <4>1, Z3
    <3>4. (2 * b + r) \div (2 * e) = q
      BY <3>1, <3>2, <3>3, DivUnique
    <3>. QED
      BY <3>4 DEF q
  <2>3. (2 * b) \div (2 * e) = b \div e /\ (2 * b + 1) \div (2 * e) = b \div e
    <3>1. 2 * b + 0 = 2 * b /\ 0 \in 0..1 /\ 1 \in 0..1
      OBVIOUS
    <3> HIDE DEF e
    <3>. QED
      BY <2>2, <3>1
  <2>4. /\ BitRev(2 * b, (n + 1) + 1) = 2 * BitRev(2 * b, n + 1) + (((2 * b) \div Pow2(n + 1)) % 2)
        /\ BitRev(2 * b + 1, (n + 1) + 1) = 2 * BitRev(2 * b + 1, n + 1) + (((2 * b + 1) \div Pow2(n + 1)) % 2)
        /\ BitRev(b, n + 1) = 2 * BitRev(b, n) + ((b \div e) % 2)
        /\ BitRev(b, n) \in Nat
    <3>1. n + 1 \in Nat
      OBVIOUS
    <3>. QED
      BY <1>0, <3>1, BitRevFacts
  <2>5. BitRev(2 * b, n + 1) = BitRev(b, n) /\ BitRev(2 * b + 1, n + 1) = BitRev(b, n) + Pow2(n)
    BY <1>2
  <2>6. (b \div e) % 2 \in Int
    BY <2>1, DivMod
  <2> DEFINE u == (b \div e) % 2
             R == BitRev(b, n)
  <2>7. /\ BitRev(2 * b, (n + 1) + 1) = 2 * R + u
        /\ BitRev(2 * b + 1, (n + 1) + 1) = 2 * (R + e) + u
        /\ BitRev(b, n + 1) = 2 * R + u /\ R \in Nat /\ u \in Int
    BY <2>1, <2>3, <2>4, <2>5, <2>6
  <2> HIDE DEF u, R, e
  <2>. QED
    BY <2>1, <2>7
<1> HIDE DEF S
<1>3. Nat \subseteq S
  BY <1>1, <1>2, SetInduction
<1>. QED
  BY <1>3 DEF S

-----------------------------------------------------------------------------
(***************************************************************************)
(* Congruences, powers and square and multiply.                            *)
(***************************************************************************)

\* a and b differ by a multiple of p.
Cong(a, b, p) == \E q \in Int : a = b + p * q

\* Congruence is an equivalence that sums and products respect.
LEMMA CongFacts ==
  ASSUME NEW p \in Nat
  PROVE  /\ \A a \in Int : Cong(a, a, p)
         /\ \A a, b \in Int : Cong(a, b, p) => Cong(b, a, p)
         /\ \A a, b, c \in Int : Cong(a, b, p) /\ Cong(b, c, p) => Cong(a, c, p)
         /\ \A a, b, c, d \in Int : Cong(a, b, p) /\ Cong(c, d, p) => Cong(a + c, b + d, p)
         /\ \A a, b, c, d \in Int : Cong(a, b, p) /\ Cong(c, d, p) => Cong(a * c, b * d, p)
<1>1. ASSUME NEW a \in Int PROVE Cong(a, a, p)
  <2>1. a = a + p * 0 /\ 0 \in Int
    OBVIOUS
  <2>. QED
    BY <2>1 DEF Cong
<1>2. ASSUME NEW a \in Int, NEW b \in Int, Cong(a, b, p) PROVE Cong(b, a, p)
  <2>1. PICK q \in Int : a = b + p * q
    BY <1>2 DEF Cong
  <2>2. b = a + p * (-q) /\ -q \in Int
    BY <2>1, Z3
  <2>. QED
    BY <2>2 DEF Cong
<1>3. ASSUME NEW a \in Int, NEW b \in Int, NEW c \in Int, Cong(a, b, p), Cong(b, c, p)
      PROVE  Cong(a, c, p)
  <2>1. PICK q \in Int : a = b + p * q
    BY <1>3 DEF Cong
  <2>2. PICK r \in Int : b = c + p * r
    BY <1>3 DEF Cong
  <2>3. a = c + p * (q + r) /\ q + r \in Int
    BY <2>1, <2>2, Z3
  <2>. QED
    BY <2>3 DEF Cong
<1>4. ASSUME NEW a \in Int, NEW b \in Int, NEW c \in Int, NEW d \in Int, Cong(a, b, p), Cong(c, d, p)
      PROVE  Cong(a + c, b + d, p) /\ Cong(a * c, b * d, p)
  <2>1. PICK q \in Int : a = b + p * q
    BY <1>4 DEF Cong
  <2>2. PICK r \in Int : c = d + p * r
    BY <1>4 DEF Cong
  <2>3. a + c = (b + d) + p * (q + r) /\ q + r \in Int
    BY <2>1, <2>2, Z3
  <2>4. a * c = b * d + p * (b * r + q * d + p * (q * r)) /\ b * r + q * d + p * (q * r) \in Int
    BY <2>1, <2>2, Z3
  <2>. QED
    BY <2>3, <2>4 DEF Cong
<1>. QED
  BY <1>1, <1>2, <1>3, <1>4

\* A remainder is congruent to the number, and congruent numbers have the same.
LEMMA CongMod ==
  ASSUME NEW p \in Nat, p > 0
  PROVE  /\ \A a \in Int : a % p \in 0..(p - 1) /\ a % p \in Int /\ Cong(a % p, a, p)
         /\ \A a, b \in Int : Cong(a, b, p) => a % p = b % p
         /\ \A a \in 0..(p - 1) : a % p = a
<1>1. ASSUME NEW a \in Int PROVE a % p \in 0..(p - 1) /\ a % p \in Int /\ Cong(a % p, a, p)
  <2>1. a \div p \in Int /\ a % p \in 0..(p - 1) /\ a = p * (a \div p) + (a % p)
    BY DivMod
  <2>2. a % p \in Int
    BY <2>1
  <2> DEFINE q == a \div p
             r == a % p
  <2> HIDE DEF q, r
  <2>3. r = a + p * (-q) /\ -q \in Int
    <3>1. q \in Int /\ r \in Int /\ a = p * q + r
      BY <2>1, <2>2 DEF q, r
    <3>. QED
      BY <3>1, Z3
  <2>. QED
    BY <2>1, <2>2, <2>3 DEF Cong, r
<1>2. ASSUME NEW a \in Int, NEW b \in Int, Cong(a, b, p) PROVE a % p = b % p
  <2>1. PICK q \in Int : a = b + p * q
    BY <1>2 DEF Cong
  <2>2. p * q = q * p
    BY Z3
  <2>. QED
    BY <2>1, <2>2, DivShift
<1>3. ASSUME NEW a \in 0..(p - 1) PROVE a % p = a
  OBVIOUS
<1>. QED
  BY <1>1, <1>2, <1>3

\* Products as the code reduces them.
LEMMA CongMulMod ==
  ASSUME NEW p \in Nat, p > 0, NEW a \in Nat, NEW b \in Nat
  PROVE  Cong(MulMod(a, b, p), a * b, p) /\ MulMod(a, b, p) \in Nat
<1>1. a * b \in Nat
  BY Z3
<1>2. (a * b) % p \in 0..(p - 1) /\ Cong((a * b) % p, a * b, p)
  BY <1>1, CongMod
<1>. QED
  BY <1>2 DEF MulMod

\* b to the e.
Power(b, e) == LET s[k \in 0..e] == IF k = 0 THEN 1 ELSE b * s[k - 1] IN s[e]

\* Powers are products.
LEMMA PowerFacts ==
  ASSUME NEW b \in Nat
  PROVE  /\ Power(b, 0) = 1
         /\ \A n \in Nat : Power(b, n) \in Nat /\ Power(b, n + 1) = b * Power(b, n)
<1> DEFINE D == [x \in Nat \X Nat |-> b * x[1]]
<1>1. D \in [Nat \X Nat -> Nat] /\ 1 \in Nat /\ \A v \in Nat, k \in Nat : D[<<v, k>>] = b * v
  <2>1. \A v \in Nat : b * v \in Nat
    BY Z3
  <2>. QED
    BY <2>1
<1> HIDE DEF D
<1>2. ASSUME NEW n \in Nat
      PROVE  \E c : /\ \A k \in 0..n : c[k] \in Nat
                    /\ Power(b, n) = c[n] /\ Follows(c, 1, D, n)
  <2>1. PICK s \in [0..n -> Nat] : Follows(s, 1, D, n)
    BY <1>1, Recursion
  <2> DEFINE P(c) == c = [k \in 0..n |-> IF k = 0 THEN 1 ELSE b * c[k - 1]]
             c == CHOOSE c : P(c)
  <2>2. ASSUME NEW k \in 0..n PROVE s[k] = IF k = 0 THEN 1 ELSE b * s[k - 1]
    <3>1. CASE k # 0
      <4>1. k \in 1..n /\ s[k - 1] \in Nat /\ k - 1 \in Nat
        BY <3>1
      <4>2. s[k] = D[<<s[k - 1], k - 1>>]
        BY <2>1, <4>1 DEF Follows
      <4>. QED
        BY <1>1, <3>1, <4>1, <4>2
    <3>. QED
      BY <2>1, <3>1 DEF Follows
  <2>3. P(s)
    BY <2>2
  <2>4. P(c)
    <3> HIDE DEF P
    <3>. QED
      BY <2>3
  <2>5. Power(b, n) = c[n]
    BY DEF Power
  <2> HIDE DEF c
  <2>6. c[0] = 1 /\ \A k \in 1..n : c[k] = b * c[k - 1]
    BY <2>4
  <2> DEFINE S == {k \in Nat : k <= n => c[k] \in Nat}
  <2>7. 0 \in S
    BY <1>1, <2>6
  <2>8. ASSUME NEW k \in Nat, k \in S PROVE k + 1 \in S
    <3>1. SUFFICES ASSUME k + 1 <= n PROVE c[k + 1] \in Nat
      OBVIOUS
    <3>2. k + 1 \in 1..n /\ (k + 1) - 1 = k /\ k <= n
      BY <3>1
    <3>3. c[k + 1] = b * c[k] /\ c[k] \in Nat
      BY <2>6, <2>8, <3>2
    <3>. QED
      BY <3>3, Z3
  <2> HIDE DEF S
  <2>9. Nat \subseteq S
    BY <2>7, <2>8, SetInduction
  <2>10. \A k \in 0..n : c[k] \in Nat
    BY <2>9 DEF S
  <2>11. Follows(c, 1, D, n)
    BY <1>1, <2>6, <2>10 DEF Follows
  <2>. QED
    BY <2>5, <2>10, <2>11
<1>3. Power(b, 0) = 1
  BY <1>2 DEF Follows
<1>4. ASSUME NEW n \in Nat PROVE Power(b, n) \in Nat /\ Power(b, n + 1) = b * Power(b, n)
  <2>1. PICK c : /\ \A k \in 0..n : c[k] \in Nat
                 /\ Power(b, n) = c[n] /\ Follows(c, 1, D, n)
    BY <1>2
  <2>2. PICK d : /\ \A k \in 0..(n + 1) : d[k] \in Nat
                 /\ Power(b, n + 1) = d[n + 1] /\ Follows(d, 1, D, n + 1)
    BY <1>2
  <2>3. Follows(d, 1, D, n)
    BY <2>2 DEF Follows
  <2>4. c[n] = d[n]
    <3>1. D \in [Nat \X Nat -> Nat] /\ 1 \in Nat /\ Follows(c, 1, D, n)
      BY <1>1, <2>1
    <3>2. \A k \in 0..n : c[k] = d[k] /\ c[k] \in Nat
      BY <2>3, <3>1, RecursionUnique
    <3>. QED
      BY <3>2
  <2>5. d[n + 1] = D[<<d[n], n>>]
    BY <2>2 DEF Follows
  <2>. QED
    BY <1>1, <2>1, <2>2, <2>4, <2>5
<1>. QED
  BY <1>3, <1>4

\* Exponents add,
LEMMA PowerSum ==
  ASSUME NEW b \in Nat, NEW m \in Nat, NEW n \in Nat
  PROVE  Power(b, m + n) = Power(b, m) * Power(b, n)
<1> DEFINE S == {k \in Nat : Power(b, m + k) = Power(b, m) * Power(b, k)}
<1>1. 0 \in S
  BY PowerFacts
<1>2. ASSUME NEW k \in Nat, k \in S PROVE k + 1 \in S
  <2>1. m + k \in Nat /\ m + (k + 1) = (m + k) + 1
    OBVIOUS
  <2>2. Power(b, m + (k + 1)) = b * Power(b, m + k)
    BY <2>1, PowerFacts
  <2>3. Power(b, k + 1) = b * Power(b, k) /\ Power(b, m) \in Nat /\ Power(b, k) \in Nat
    BY PowerFacts
  <2>4. Power(b, m) * (b * Power(b, k)) = b * (Power(b, m) * Power(b, k))
    BY <2>3, Z3
  <2>. QED
    BY <1>2, <2>2, <2>3, <2>4
<1> HIDE DEF S
<1>3. Nat \subseteq S
  BY <1>1, <1>2, SetInduction
<1>. QED
  BY <1>3 DEF S

\* and multiply.
LEMMA PowerPower ==
  ASSUME NEW b \in Nat, NEW m \in Nat, NEW n \in Nat
  PROVE  Power(b, m * n) = Power(Power(b, m), n)
<1>0. Power(b, m) \in Nat
  BY PowerFacts
<1> DEFINE c == Power(b, m)
           S == {k \in Nat : Power(b, m * k) = Power(c, k)}
<1>1. 0 \in S
  <2>1. m * 0 = 0
    OBVIOUS
  <2>2. Power(b, 0) = 1 /\ Power(c, 0) = 1
    BY <1>0, PowerFacts
  <2>. QED
    BY <2>1, <2>2
<1>2. ASSUME NEW k \in Nat, k \in S PROVE k + 1 \in S
  <2>1. m * (k + 1) = m * k + m /\ m * k \in Nat
    BY Z3
  <2>2. Power(b, m * k + m) = Power(b, m * k) * Power(b, m)
    BY <2>1, PowerSum
  <2>3. Power(c, k + 1) = c * Power(c, k) /\ Power(c, k) \in Nat
    BY <1>0, PowerFacts
  <2>4. Power(c, k) * c = c * Power(c, k)
    BY <1>0, <2>3, Z3
  <2>5. Power(b, m * k) = Power(c, k)
    BY <1>2
  <2>. QED
    BY <2>1, <2>2, <2>3, <2>4, <2>5
<1> HIDE DEF S
<1>3. Nat \subseteq S
  BY <1>1, <1>2, SetInduction
<1>. QED
  BY <1>3 DEF S

\* Powers of congruent numbers are congruent.
LEMMA CongPower ==
  ASSUME NEW p \in Nat, NEW a \in Nat, NEW b \in Nat, Cong(a, b, p), NEW n \in Nat
  PROVE  Cong(Power(a, n), Power(b, n), p)
<1>0. /\ Power(a, 0) = 1 /\ Power(b, 0) = 1
      /\ \A k \in Nat : /\ Power(a, k) \in Nat /\ Power(a, k + 1) = a * Power(a, k)
                        /\ Power(b, k) \in Nat /\ Power(b, k + 1) = b * Power(b, k)
  BY PowerFacts
<1> DEFINE S == {k \in Nat : Cong(Power(a, k), Power(b, k), p)}
<1>1. 0 \in S
  BY <1>0, CongFacts
<1>2. ASSUME NEW k \in Nat, k \in S PROVE k + 1 \in S
  <2>1. Cong(Power(a, k), Power(b, k), p) /\ Power(a, k) \in Int /\ Power(b, k) \in Int
    BY <1>0, <1>2
  <2>2. Cong(a * Power(a, k), b * Power(b, k), p)
    BY <2>1, CongFacts
  <2>. QED
    BY <1>0, <2>2
<1> HIDE DEF S
<1>3. Nat \subseteq S
  BY <1>1, <1>2, SetInduction
<1>. QED
  BY <1>3 DEF S

\* One turn of square and multiply keeps what the accumulator and the power
\* still to be taken make together.
LEMMA SquareTurn ==
  ASSUME NEW p \in Nat, p > 0, NEW b \in Nat, NEW e \in Nat, e # 0, NEW a \in Nat,
         NEW b2 \in Nat, b2 = MulMod(b, b, p), NEW e2 \in Nat, e2 = e \div 2,
         NEW a2 \in Nat, a2 = IF e % 2 = 1 THEN MulMod(a, b, p) ELSE a
  PROVE  /\ e2 < e
         /\ (a2 * Power(b2, e2)) % p = (a * Power(b, e)) % p
         /\ e2 = 0 => a2 = (a * Power(b, e)) % p
<1>1. e2 \in Nat /\ e2 < e /\ e % 2 \in {0, 1} /\ e = e2 + e2 + (e % 2) /\ (e2 = 0 => e % 2 = 1)
  OBVIOUS
<1>2. b * b \in Nat /\ b2 \in Nat /\ Cong(b2, b * b, p)
  <2>1. b * b \in Nat
    BY Z3
  <2>. QED
    BY <2>1, CongMulMod
<1>3. a2 \in Nat
  BY CongMulMod
<1>4. /\ Power(b, 0) = 1 /\ Power(b, 1) = b
      /\ \A n \in Nat : Power(b, n) \in Nat /\ Power(b2, n) \in Nat /\ Power(b * b, n) \in Nat
  <2>1. Power(b, 0) = 1 /\ Power(b, 0 + 1) = b * Power(b, 0)
    BY PowerFacts
  <2>2. Power(b, 1) = b
    BY <2>1
  <2>3. \A n \in Nat : Power(b, n) \in Nat /\ Power(b2, n) \in Nat
    BY <1>2, PowerFacts
  <2>4. \A c \in Nat, n \in Nat : Power(c, n) \in Nat
    BY PowerFacts
  <2>. QED
    BY <1>2, <2>1, <2>2, <2>3, <2>4
<1> DEFINE u == Power(b, e2)
           r == e % 2
<1>5. Cong(Power(b2, e2), u * u, p)
  <2>1. Cong(Power(b2, e2), Power(b * b, e2), p)
    BY <1>1, <1>2, CongPower
  <2>2. Power(b, 2) = b * b
    <3>1. Power(b, 1 + 1) = Power(b, 1) * Power(b, 1)
      BY PowerSum
    <3>. QED
      BY <1>4, <3>1
  <2>3. Power(b * b, e2) = u * u
    <3>1. Power(b, 2 * e2) = Power(Power(b, 2), e2)
      BY <1>1, PowerPower
    <3>2. Power(b, e2 + e2) = u * u
      BY <1>1, PowerSum
    <3>3. 2 * e2 = e2 + e2
      BY <1>1
    <3>. QED
      BY <2>2, <3>1, <3>2, <3>3
  <2>. QED
    BY <2>1, <2>3
<1>6. Power(b, e) = (u * u) * Power(b, r)
  <2>1. Power(b, (e2 + e2) + r) = Power(b, e2 + e2) * Power(b, r)
    BY <1>1, PowerSum
  <2>2. Power(b, e2 + e2) = u * u
    BY <1>1, PowerSum
  <2>. QED
    BY <1>1, <2>1, <2>2
<1>7. Cong(a2, a * Power(b, r), p)
  <2>1. CASE r = 1
    BY <1>4, <2>1, CongMulMod
  <2>2. CASE r = 0
    <3>1. a * Power(b, r) = a /\ a2 = a
      BY <1>4, <2>2
    <3>2. Cong(a, a, p)
      BY CongFacts
    <3>. QED
      BY <3>1, <3>2
  <2>. QED
    BY <1>1, <2>1, <2>2
<1>8. u \in Nat /\ Power(b, r) \in Nat /\ Power(b2, e2) \in Nat /\ u * u \in Nat /\ a * Power(b, r) \in Nat
  <2>1. u \in Nat /\ Power(b, r) \in Nat /\ Power(b2, e2) \in Nat
    BY <1>1, <1>4
  <2>. QED
    BY <2>1, Z3
<1>9. a * Power(b, e) = (a * Power(b, r)) * (u * u) /\ a * Power(b, e) \in Nat /\ a2 * Power(b2, e2) \in Nat
  <2> HIDE DEF u, r
  <2>. QED
    BY <1>3, <1>6, <1>8, Z3
<1>10. Cong(a2 * Power(b2, e2), (a * Power(b, r)) * (u * u), p)
  <2> HIDE DEF u, r
  <2>1. \A w, x, y, z \in Int : Cong(w, x, p) /\ Cong(y, z, p) => Cong(w * y, x * z, p)
    BY CongFacts
  <2>2. a2 \in Int /\ a * Power(b, r) \in Int /\ Power(b2, e2) \in Int /\ u * u \in Int
    BY <1>3, <1>8
  <2>. QED
    BY <1>5, <1>7, <2>1, <2>2
<1>11. (a2 * Power(b2, e2)) % p = (a * Power(b, e)) % p
  <2> HIDE DEF u, r
  <2>1. Cong(a2 * Power(b2, e2), a * Power(b, e), p)
    BY <1>9, <1>10
  <2>2. a2 * Power(b2, e2) \in Int /\ a * Power(b, e) \in Int
    BY <1>9
  <2>. QED
    BY <2>1, <2>2, CongMod
<1>12. ASSUME e2 = 0 PROVE a2 = (a * Power(b, e)) % p
  <2>1. e = 1
    BY <1>1, <1>12
  <2>2. a2 = (a * b) % p
    BY <2>1 DEF MulMod
  <2>. QED
    BY <1>4, <2>1, <2>2
<1>. QED
  BY <1>1, <1>2, <1>3, <1>11, <1>12

\* powmod computes the power.
LEMMA PowModPower ==
  ASSUME NEW p \in Nat, p > 1, NEW base \in Nat, NEW exp \in Nat
  PROVE  /\ PowMod(base, exp, p) = Power(base, exp) % p
         /\ PowMod(base, exp, p) \in 0..(p - 1)
         /\ PowMod(base, exp, p) \in Nat
         /\ Cong(PowMod(base, exp, p), Power(base, exp), p)
<1> DEFINE R == [base : Nat, exp : Nat, acc : Nat]
           Turn(s) == [base |-> MulMod(s.base, s.base, p),
                       exp  |-> s.exp \div 2,
                       acc  |-> IF s.exp % 2 = 1 THEN MulMod(s.acc, s.base, p) ELSE s.acc]
           P(l) == l = [s \in R |-> IF s.exp = 0 THEN s.acc ELSE l[Turn(s)]]
           C == [s \in R |-> IF s.exp = 0 THEN s.acc ELSE (s.acc * Power(s.base, s.exp)) % p]
           loop == CHOOSE l : P(l)
           start == [base |-> base % p, exp |-> exp, acc |-> 1]
<1>1. ASSUME NEW s \in R, s.exp # 0
      PROVE  /\ Turn(s) \in R /\ Turn(s).exp < s.exp /\ C[Turn(s)] = C[s]
  <2> DEFINE t == Turn(s)
             v == (s.acc * Power(s.base, s.exp)) % p
  <2>1. s.base \in Nat /\ s.exp \in Nat /\ s.acc \in Nat /\ p \in Nat /\ p > 0
    OBVIOUS
  <2> DEFINE b == s.base
             e == s.exp
             a == s.acc
             b2 == MulMod(b, b, p)
             e2 == e \div 2
             a2 == IF e % 2 = 1 THEN MulMod(a, b, p) ELSE a
  <2>a. t.base = b2 /\ t.exp = e2 /\ t.acc = a2
    OBVIOUS
  <2>b. /\ b2 \in Nat /\ e2 \in Nat /\ e2 < e /\ a2 \in Nat
        /\ (a2 * Power(b2, e2)) % p = (a * Power(b, e)) % p
        /\ e2 = 0 => a2 = (a * Power(b, e)) % p
    <3>1. b \in Nat /\ e \in Nat /\ a \in Nat /\ e # 0
      BY <1>1, <2>1
    <3> HIDE DEF b, e, a
    <3>3. b2 = MulMod(b, b, p) /\ e2 = e \div 2 /\ a2 = IF e % 2 = 1 THEN MulMod(a, b, p) ELSE a
      OBVIOUS
    <3>2. b2 \in Nat /\ e2 \in Nat /\ a2 \in Nat /\ p > 0
      BY <3>1, CongMulMod
    <3> HIDE DEF b2, e2, a2
    <3>. QED
      BY <3>1, <3>2, <3>3, SquareTurn
  <2>2. /\ t.base \in Nat /\ t.exp \in Nat /\ t.exp < s.exp /\ t.acc \in Nat
        /\ (t.acc * Power(t.base, t.exp)) % p = v
        /\ t.exp = 0 => t.acc = v
    <3> HIDE DEF t, b2, e2, a2
    <3>. QED
      BY <2>a, <2>b
  <2>3. t \in R
    BY <2>2
  <2>4. C[s] = v
    BY <1>1
  <2> HIDE DEF t, v
  <2>5. C[t] = v
    BY <2>2, <2>3
  <2>. QED
    BY <2>2, <2>3, <2>4, <2>5 DEF t
<1>2. P(C)
  <2>1. ASSUME NEW s \in R PROVE C[s] = IF s.exp = 0 THEN s.acc ELSE C[Turn(s)]
    <3>1. CASE s.exp = 0
      BY <3>1
    <3>2. CASE s.exp # 0
      <4>1. C[Turn(s)] = C[s]
        BY <1>1, <3>2
      <4> HIDE DEF C, Turn
      <4>. QED
        BY <3>2, <4>1
    <3>. QED
      BY <3>1, <3>2
  <2>2. C = [s \in R |-> C[s]]
    OBVIOUS
  <2> HIDE DEF C, Turn, R
  <2>. QED
    BY <2>1, <2>2
<1>3. P(loop)
  <2> HIDE DEF P
  <2>. QED
    BY <1>2
<1>4. PowMod(base, exp, p) = loop[start]
  BY DEF PowMod
<1> HIDE DEF loop
<1> DEFINE S == {n \in Nat : \A s \in R : s.exp <= n => loop[s] = C[s]}
<1>5. \A s \in R : loop[s] = IF s.exp = 0 THEN s.acc ELSE loop[Turn(s)]
  <2> HIDE DEF R, Turn
  <2>. QED
    BY <1>3
<1>6. \A s \in R : s.exp = 0 => loop[s] = s.acc /\ C[s] = s.acc
  BY <1>5
<1> HIDE DEF C, Turn
<1>7. 0 \in S
  <2>1. \A s \in R : s.exp <= 0 => s.exp = 0
    OBVIOUS
  <2>. QED
    BY <1>6, <2>1
<1>8. ASSUME NEW n \in Nat, n \in S PROVE n + 1 \in S
  <2>1. SUFFICES ASSUME NEW s \in R, s.exp <= n + 1, s.exp # 0 PROVE loop[s] = C[s]
    BY <1>6
  <2>2. Turn(s) \in R /\ Turn(s).exp <= n /\ C[Turn(s)] = C[s]
    <3>1. Turn(s) \in R /\ Turn(s).exp < s.exp /\ C[Turn(s)] = C[s]
      BY <1>1, <2>1
    <3>. QED
      BY <2>1, <3>1
  <2>3. loop[Turn(s)] = C[Turn(s)]
    BY <1>8, <2>2
  <2>. QED
    BY <1>5, <2>1, <2>2, <2>3
<1> HIDE DEF S
<1>9. Nat \subseteq S
  BY <1>7, <1>8, SetInduction
<1>10. base % p \in Nat /\ base % p \in Int /\ Cong(base % p, base, p)
  BY CongMod
<1>11. start \in R /\ start.exp = exp /\ start.acc = 1 /\ start.base = base % p
  BY <1>10
<1> HIDE DEF start
<1>12. loop[start] = C[start]
  BY <1>9, <1>11 DEF S
<1>13. Power(base % p, exp) \in Nat /\ Power(base, exp) \in Nat /\ Cong(Power(base % p, exp), Power(base, exp), p)
  BY <1>10, CongPower, PowerFacts
<1>14. C[start] = Power(base % p, exp) % p
  <2>1. CASE exp = 0
    <3>1. C[start] = 1
      BY <1>11, <2>1 DEF C
    <3>2. Power(base % p, exp) = 1
      BY <1>10, <2>1, PowerFacts
    <3>3. 1 % p = 1
      BY CongMod
    <3>. QED
      BY <3>1, <3>2, <3>3
  <2>2. CASE exp # 0
    <3>1. C[start] = (1 * Power(base % p, exp)) % p
      BY <1>11, <2>2 DEF C
    <3>. QED
      BY <1>13, <3>1
  <2>. QED
    BY <2>1, <2>2
<1>15. Power(base % p, exp) % p = Power(base, exp) % p
  <2>1. Power(base % p, exp) \in Int /\ Power(base, exp) \in Int /\ p > 0
    BY <1>13
  <2>. QED
    BY <1>13, <2>1, CongMod
<1>16. /\ Power(base, exp) % p \in 0..(p - 1) /\ Power(base, exp) % p \in Nat
       /\ Cong(Power(base, exp) % p, Power(base, exp), p)
  <2>1. Power(base, exp) \in Int /\ p > 0
    BY <1>13
  <2>2. Power(base, exp) % p \in 0..(p - 1) /\ Cong(Power(base, exp) % p, Power(base, exp), p)
    BY <2>1, CongMod
  <2>. QED
    BY <2>2
<1>. QED
  BY <1>4, <1>12, <1>14, <1>15, <1>16

\* A sum over twice as many terms, taken in pairs.
LEMMA PairedSum ==
  ASSUME NEW p \in Nat, NEW m \in Nat, NEW x \in Int, NEW f, NEW u, NEW v,
         \A k \in 0..(2 * m - 1) : f[k] \in Int,
         \A k \in 0..(m - 1) : /\ u[k] \in Int /\ v[k] \in Int
                               /\ Cong(f[2 * k] + f[2 * k + 1], u[k] + x * v[k], p)
  PROVE  Cong(SumTo(f, 2 * m), SumTo(u, m) + x * SumTo(v, m), p)
<1>1. /\ SumTo(f, 0) = 0 /\ \A n \in 0..(2 * m) : SumTo(f, n) \in Int
      /\ \A n \in 0..(2 * m - 1) : SumTo(f, n + 1) = SumTo(f, n) + f[n]
  <2>1. 2 * m \in Nat
    OBVIOUS
  <2>. QED
    BY <2>1, SumFacts
<1>2. /\ SumTo(u, 0) = 0 /\ \A n \in 0..m : SumTo(u, n) \in Int
      /\ \A n \in 0..(m - 1) : SumTo(u, n + 1) = SumTo(u, n) + u[n]
  BY SumFacts
<1>3. /\ SumTo(v, 0) = 0 /\ \A n \in 0..m : SumTo(v, n) \in Int
      /\ \A n \in 0..(m - 1) : SumTo(v, n + 1) = SumTo(v, n) + v[n]
  BY SumFacts
<1> DEFINE S == {n \in Nat : n <= m => Cong(SumTo(f, 2 * n), SumTo(u, n) + x * SumTo(v, n), p)}
<1>4. 0 \in S
  <2>1. 2 * 0 = 0 /\ 0 + x * 0 = 0
    OBVIOUS
  <2>2. Cong(0, 0, p)
    BY CongFacts
  <2>. QED
    BY <1>1, <1>2, <1>3, <2>1, <2>2
<1>5. ASSUME NEW n \in Nat, n \in S PROVE n + 1 \in S
  <2>1. SUFFICES ASSUME n + 1 <= m
                 PROVE  Cong(SumTo(f, 2 * (n + 1)), SumTo(u, n + 1) + x * SumTo(v, n + 1), p)
    OBVIOUS
  <2>2. /\ n \in 0..(m - 1) /\ n \in 0..m /\ 2 * n \in 0..(2 * m - 1) /\ 2 * n + 1 \in 0..(2 * m - 1)
        /\ 2 * n \in 0..(2 * m) /\ 2 * (n + 1) = (2 * n + 1) + 1
    BY <2>1
  <2> DEFINE F == SumTo(f, 2 * n)
             U == SumTo(u, n)
             V == SumTo(v, n)
             a == f[2 * n]
             b == f[2 * n + 1]
             y == u[n]
             z == v[n]
  <2>3. /\ F \in Int /\ U \in Int /\ V \in Int /\ a \in Int /\ b \in Int /\ y \in Int /\ z \in Int
        /\ SumTo(u, n + 1) = U + y /\ SumTo(v, n + 1) = V + z
        /\ Cong(a + b, y + x * z, p)
    BY <1>1, <1>2, <1>3, <2>2
  <2>4. SumTo(f, 2 * (n + 1)) = F + (a + b)
    <3>1. SumTo(f, 2 * n + 1) = F + a /\ SumTo(f, (2 * n + 1) + 1) = SumTo(f, 2 * n + 1) + b
      BY <1>1, <2>2
    <3> HIDE DEF F, a, b
    <3>. QED
      BY <2>2, <2>3, <3>1
  <2>5. Cong(F, U + x * V, p)
    BY <1>5, <2>2
  <2> HIDE DEF F, U, V, a, b, y, z
  <2>6. /\ x * V \in Int /\ x * z \in Int /\ U + x * V \in Int /\ y + x * z \in Int /\ a + b \in Int
        /\ (U + x * V) + (y + x * z) = (U + y) + x * (V + z)
    BY <2>3, Z3
  <2>7. Cong(F + (a + b), (U + x * V) + (y + x * z), p)
    BY <2>3, <2>5, <2>6, CongFacts
  <2>. QED
    BY <2>3, <2>4, <2>6, <2>7
<1> HIDE DEF S
<1>6. Nat \subseteq S
  BY <1>4, <1>5, SetInduction
<1>. QED
  BY <1>6 DEF S

\* The polynomial with every s-th coefficient of c from t on, m of them, at x.
Strand(c, x, t, s, m) == SumTo([r \in 0..(m - 1) |-> c[t + r * s] * Power(x, r)], m)

\* Its value is an integer.
LEMMA StrandType ==
  ASSUME NEW m \in Nat, NEW s \in Nat, NEW t \in Nat, NEW c, NEW x \in Nat,
         \A r \in 0..(m - 1) : c[t + r * s] \in Int
  PROVE  Strand(c, x, t, s, m) \in Int
<1> DEFINE f == [r \in 0..(m - 1) |-> c[t + r * s] * Power(x, r)]
<1>1. \A r \in 0..(m - 1) : f[r] \in Int
  <2>1. \A r \in 0..(m - 1) : Power(x, r) \in Int
    BY PowerFacts
  <2>2. \A a, b \in Int : a * b \in Int
    BY Z3
  <2>. QED
    BY <2>1, <2>2
<1>2. SumTo(f, m) \in Int
  <2> HIDE DEF f
  <2>. QED
    BY <1>1, SumFacts
<1>. QED
  BY <1>2 DEF Strand

\* Its even and its odd terms, at the square.
LEMMA EvenAndOdd ==
  ASSUME NEW p \in Nat, NEW m \in Nat, NEW s \in Nat, NEW t \in Nat, NEW c,
         \A r \in 0..(2 * m - 1) : c[t + r * s] \in Int,
         NEW x \in Nat, NEW z \in Nat, Cong(x * x, z, p)
  PROVE  Cong(Strand(c, x, t, s, 2 * m),
              Strand(c, z, t, 2 * s, m) + x * Strand(c, z, t + s, 2 * s, m), p)
<1> DEFINE f == [r \in 0..(2 * m - 1) |-> c[t + r * s] * Power(x, r)]
           u == [r \in 0..(m - 1) |-> c[t + r * (2 * s)] * Power(z, r)]
           v == [r \in 0..(m - 1) |-> c[t + s + r * (2 * s)] * Power(z, r)]
<1>0. \A a, b \in Int : a * b \in Int
  BY Z3
<1>1. \A r \in 0..(2 * m - 1) : f[r] \in Int
  <2>1. \A r \in 0..(2 * m - 1) : Power(x, r) \in Int
    BY PowerFacts
  <2>. QED
    BY <1>0, <2>1
<1>2. ASSUME NEW k \in 0..(m - 1)
      PROVE  u[k] \in Int /\ v[k] \in Int /\ Cong(f[2 * k] + f[2 * k + 1], u[k] + x * v[k], p)
  <2>1. 2 * k \in 0..(2 * m - 1) /\ 2 * k + 1 \in 0..(2 * m - 1) /\ k \in Nat /\ 2 * k \in Nat
    OBVIOUS
  <2>2. t + (2 * k) * s = t + k * (2 * s) /\ t + (2 * k + 1) * s = t + s + k * (2 * s)
    BY <2>1, Z3
  <2> DEFINE a == c[t + k * (2 * s)]
             b == c[t + s + k * (2 * s)]
             P == Power(x, 2 * k)
             Q == Power(z, k)
  <2>3. a \in Int /\ b \in Int
    BY <2>1, <2>2
  <2>4. P \in Nat /\ Q \in Nat /\ Power(x, 2 * k + 1) = x * P
    BY <2>1, PowerFacts
  <2>5. Cong(P, Q, p)
    <3>1. x * x \in Nat
      BY Z3
    <3>2. Power(x, 2) = x * x
      <4>1. Power(x, 0) = 1 /\ Power(x, 0 + 1) = x * Power(x, 0) /\ Power(x, 1 + 1) = x * Power(x, 1)
        BY PowerFacts
      <4>. QED
        BY <4>1
    <3>3. Power(x, 2 * k) = Power(Power(x, 2), k)
      BY <2>1, PowerPower
    <3>. QED
      BY <2>1, <3>1, <3>2, <3>3, CongPower
  <2>6. f[2 * k] = a * P /\ f[2 * k + 1] = b * (x * P) /\ u[k] = a * Q /\ v[k] = b * Q
    BY <2>1, <2>2, <2>4
  <2> HIDE DEF a, b, P, Q, f, u, v
  <2>7. /\ a * P + b * (x * P) = (a + x * b) * P /\ a * Q + x * (b * Q) = (a + x * b) * Q
        /\ a + x * b \in Int /\ a * Q \in Int /\ b * Q \in Int
    BY <2>3, <2>4, Z3
  <2>8. Cong((a + x * b) * P, (a + x * b) * Q, p)
    <3>1. Cong(a + x * b, a + x * b, p) /\ P \in Int /\ Q \in Int
      BY <2>4, <2>7, CongFacts
    <3>. QED
      BY <2>5, <2>7, <3>1, CongFacts
  <2>. QED
    BY <2>6, <2>7, <2>8
<1>3. Cong(SumTo(f, 2 * m), SumTo(u, m) + x * SumTo(v, m), p)
  <2> HIDE DEF f, u, v
  <2>. QED
    BY <1>1, <1>2, PairedSum
<1>4. Strand(c, x, t, s, 2 * m) = SumTo(f, 2 * m) /\ Strand(c, z, t, 2 * s, m) = SumTo(u, m)
  BY DEF Strand
<1>5. Strand(c, z, t + s, 2 * s, m) = SumTo(v, m)
  BY DEF Strand
<1>. QED
  BY <1>3, <1>4, <1>5

\* Sums of congruent terms are congruent.
LEMMA CongSum ==
  ASSUME NEW p \in Nat, NEW m \in Nat, NEW f, NEW g,
         \A k \in 0..(m - 1) : f[k] \in Int /\ g[k] \in Int /\ Cong(f[k], g[k], p)
  PROVE  Cong(SumTo(f, m), SumTo(g, m), p) /\ SumTo(f, m) \in Int /\ SumTo(g, m) \in Int
<1>1. /\ SumTo(f, 0) = 0 /\ \A n \in 0..m : SumTo(f, n) \in Int
      /\ \A n \in 0..(m - 1) : SumTo(f, n + 1) = SumTo(f, n) + f[n]
  BY SumFacts
<1>2. /\ SumTo(g, 0) = 0 /\ \A n \in 0..m : SumTo(g, n) \in Int
      /\ \A n \in 0..(m - 1) : SumTo(g, n + 1) = SumTo(g, n) + g[n]
  BY SumFacts
<1> DEFINE S == {n \in Nat : n <= m => Cong(SumTo(f, n), SumTo(g, n), p)}
<1>3. 0 \in S
  <2>1. Cong(0, 0, p)
    BY CongFacts
  <2>. QED
    BY <1>1, <1>2, <2>1
<1>4. ASSUME NEW n \in Nat, n \in S PROVE n + 1 \in S
  <2>1. SUFFICES ASSUME n + 1 <= m PROVE Cong(SumTo(f, n + 1), SumTo(g, n + 1), p)
    OBVIOUS
  <2>2. n \in 0..(m - 1) /\ n \in 0..m /\ Cong(SumTo(f, n), SumTo(g, n), p)
    BY <1>4, <2>1
  <2>3. /\ SumTo(f, n) \in Int /\ SumTo(g, n) \in Int /\ f[n] \in Int /\ g[n] \in Int
        /\ Cong(f[n], g[n], p)
    BY <1>1, <1>2, <2>2
  <2>4. Cong(SumTo(f, n) + f[n], SumTo(g, n) + g[n], p)
    BY <2>2, <2>3, CongFacts
  <2>. QED
    BY <1>1, <1>2, <2>2, <2>4
<1> HIDE DEF S
<1>5. Nat \subseteq S
  BY <1>3, <1>4, SetInduction
<1>6. m \in 0..m
  OBVIOUS
<1>. QED
  BY <1>1, <1>2, <1>5, <1>6 DEF S

\* Powers repeat once one of them is congruent to 1.
LEMMA PowerPeriod ==
  ASSUME NEW p \in Nat, NEW h \in Nat, NEW d \in Nat, d > 0, Cong(Power(h, d), 1, p), NEW e \in Nat
  PROVE  e % d \in 0..(d - 1) /\ Cong(Power(h, e), Power(h, e % d), p)
<1> DEFINE q == e \div d
           r == e % d
           S == {n \in Nat : Power(1, n) = 1}
<1>1. 0 \in S
  BY PowerFacts
<1>2. ASSUME NEW n \in Nat, n \in S PROVE n + 1 \in S
  <2>1. Power(1, n + 1) = 1 * Power(1, n)
    BY PowerFacts
  <2>. QED
    BY <1>2, <2>1
<1> HIDE DEF S
<1>3. Nat \subseteq S
  BY <1>1, <1>2, SetInduction
<1>4. q \in Nat /\ r \in 0..(d - 1) /\ r \in Nat /\ e = d * q + r /\ d * q \in Nat
  <2>1. e \div d \in Int /\ e % d \in 0..(d - 1) /\ e = d * (e \div d) + (e % d)
    BY DivMod
  <2>2. \A a, b \in Nat : b > 0 => a \div b \in Nat
    OBVIOUS
  <2>3. q \in Nat /\ r \in Nat /\ r \in 0..(d - 1) /\ e = d * q + r
    BY <2>1, <2>2
  <2> HIDE DEF q, r
  <2>. QED
    BY <2>3, Z3
<1> HIDE DEF q, r
<1>5. Power(h, d) \in Nat /\ Power(h, d * q) \in Nat /\ Power(h, r) \in Nat
  BY <1>4, PowerFacts
<1>6. Cong(Power(h, d * q), 1, p)
  <2>1. Power(h, d * q) = Power(Power(h, d), q)
    BY <1>4, PowerPower
  <2>2. Cong(Power(Power(h, d), q), Power(1, q), p)
    BY <1>4, <1>5, CongPower
  <2>3. Power(1, q) = 1
    BY <1>3, <1>4 DEF S
  <2>. QED
    BY <2>1, <2>2, <2>3
<1>7. Power(h, e) = Power(h, d * q) * Power(h, r)
  BY <1>4, PowerSum
<1>8. Cong(Power(h, d * q) * Power(h, r), 1 * Power(h, r), p)
  <2>1. Cong(Power(h, r), Power(h, r), p) /\ Power(h, r) \in Int /\ Power(h, d * q) \in Int /\ 1 \in Int
    BY <1>5, CongFacts
  <2>. QED
    BY <1>6, <2>1, CongFacts
<1>9. 1 * Power(h, r) = Power(h, r)
  BY <1>5
<1>. QED
  BY <1>4, <1>7, <1>8, <1>9 DEF r

-----------------------------------------------------------------------------
(***************************************************************************)
(* Sums and reversed bits, as polynomials at roots of unity need them.     *)
(***************************************************************************)

\* A sum begins with its first term,
LEMMA SumShift ==
  ASSUME NEW m \in Nat, NEW f, NEW g, \A k \in 0..m : f[k] \in Int,
         \A k \in 0..(m - 1) : g[k] = f[k + 1]
  PROVE  SumTo(f, m + 1) = f[0] + SumTo(g, m) /\ SumTo(g, m) \in Int
<1>1. \A k \in 0..(m - 1) : g[k] \in Int
  OBVIOUS
<1>2. /\ SumTo(g, 0) = 0 /\ \A n \in 0..m : SumTo(g, n) \in Int
      /\ \A n \in 0..(m - 1) : SumTo(g, n + 1) = SumTo(g, n) + g[n]
  BY <1>1, SumFacts
<1>3. /\ SumTo(f, 0) = 0 /\ \A n \in 0..(m + 1) : SumTo(f, n) \in Int
      /\ \A n \in 0..m : SumTo(f, n + 1) = SumTo(f, n) + f[n]
  <2>1. m + 1 \in Nat /\ (m + 1) - 1 = m
    OBVIOUS
  <2>. QED
    BY <2>1, SumFacts
<1> DEFINE S == {n \in Nat : n <= m => SumTo(f, n + 1) = f[0] + SumTo(g, n)}
<1>4. 0 \in S
  <2>1. 0 \in 0..m /\ f[0] \in Int
    OBVIOUS
  <2>2. SumTo(f, 0 + 1) = 0 + f[0]
    BY <1>3, <2>1
  <2>. QED
    BY <1>2, <2>1, <2>2
<1>5. ASSUME NEW n \in Nat, n \in S PROVE n + 1 \in S
  <2>1. SUFFICES ASSUME n + 1 <= m PROVE SumTo(f, (n + 1) + 1) = f[0] + SumTo(g, n + 1)
    OBVIOUS
  <2>2. n \in 0..(m - 1) /\ n \in 0..m /\ n + 1 \in 0..m /\ 0 \in 0..m
    BY <2>1
  <2>3. SumTo(f, (n + 1) + 1) = SumTo(f, n + 1) + f[n + 1] /\ SumTo(g, n + 1) = SumTo(g, n) + f[n + 1]
    BY <1>2, <1>3, <2>2
  <2>4. SumTo(f, n + 1) = f[0] + SumTo(g, n) /\ SumTo(g, n) \in Int /\ f[0] \in Int /\ f[n + 1] \in Int
    BY <1>2, <1>5, <2>2
  <2>. QED
    BY <2>3, <2>4
<1> HIDE DEF S
<1>6. Nat \subseteq S
  BY <1>4, <1>5, SetInduction
<1>. QED
  BY <1>2, <1>6 DEF S

\* and may be taken from its end.
LEMMA SumReverse ==
  ASSUME NEW m \in Nat, NEW f, NEW g, \A k \in 0..(m - 1) : f[k] \in Int,
         \A k \in 0..(m - 1) : g[k] = f[m - 1 - k]
  PROVE  SumTo(g, m) = SumTo(f, m) /\ SumTo(f, m) \in Int
<1> DEFINE R(n) == [k \in 0..(n - 1) |-> f[n - 1 - k]]
           S == {n \in Nat : n <= m => SumTo(R(n), n) = SumTo(f, n)}
<1>1. /\ SumTo(f, 0) = 0 /\ \A n \in 0..m : SumTo(f, n) \in Int
      /\ \A n \in 0..(m - 1) : SumTo(f, n + 1) = SumTo(f, n) + f[n]
  BY SumFacts
<1>2. 0 \in S
  <2>1. \A k \in 0..(0 - 1) : R(0)[k] \in Int
    OBVIOUS
  <2> HIDE DEF R
  <2>2. SumTo(R(0), 0) = 0
    BY <2>1, SumFacts
  <2>. QED
    BY <1>1, <2>2
<1>3. ASSUME NEW n \in Nat, n \in S PROVE n + 1 \in S
  <2>1. SUFFICES ASSUME n + 1 <= m PROVE SumTo(R(n + 1), n + 1) = SumTo(f, n + 1)
    OBVIOUS
  <2>2. n \in 0..(m - 1) /\ n \in 0..m
    BY <2>1
  <2>3. ASSUME NEW k \in 0..n PROVE R(n + 1)[k] = f[n - k] /\ f[n - k] \in Int
    <3>1. (n + 1) - 1 = n /\ n - k \in 0..(m - 1)
      BY <2>1
    <3>. QED
      BY <3>1
  <2>4. ASSUME NEW k \in 0..(n - 1) PROVE R(n)[k] = R(n + 1)[k + 1]
    <3>1. k + 1 \in 0..n /\ n - (k + 1) = n - 1 - k
      OBVIOUS
    <3>. QED
      BY <2>3, <3>1
  <2>5. R(n + 1)[0] = f[n] /\ f[n] \in Int
    <3>1. 0 \in 0..n /\ n - 0 = n
      OBVIOUS
    <3>. QED
      BY <2>3, <3>1
  <2> HIDE DEF R
  <2>6. SumTo(R(n + 1), n + 1) = R(n + 1)[0] + SumTo(R(n), n)
    BY <2>3, <2>4, SumShift
  <2>. QED
    BY <1>1, <1>3, <2>2, <2>5, <2>6
<1>4. \A k \in 0..(m - 1) : R(m)[k] = g[k] /\ R(m)[k] \in Int
  OBVIOUS
<1> HIDE DEF R, S
<1>5. Nat \subseteq S
  BY <1>2, <1>3, SetInduction
<1>6. SumTo(R(m), m) = SumTo(g, m)
  <2>1. m \in 0..m
    OBVIOUS
  <2>. QED
    BY <1>4, <2>1, SumCongruence
<1>. QED
  BY <1>1, <1>5, <1>6 DEF S

\* Sums are linear.
LEMMA SumLinear ==
  ASSUME NEW m \in Nat, NEW f, NEW g, NEW h, NEW x \in Int,
         \A k \in 0..(m - 1) : f[k] \in Int /\ g[k] \in Int /\ h[k] = f[k] + x * g[k]
  PROVE  /\ SumTo(h, m) = SumTo(f, m) + x * SumTo(g, m)
         /\ SumTo(f, m) \in Int /\ SumTo(g, m) \in Int /\ SumTo(h, m) \in Int
<1>1. /\ SumTo(f, 0) = 0 /\ \A n \in 0..m : SumTo(f, n) \in Int
      /\ \A n \in 0..(m - 1) : SumTo(f, n + 1) = SumTo(f, n) + f[n]
  BY SumFacts
<1>2. /\ SumTo(g, 0) = 0 /\ \A n \in 0..m : SumTo(g, n) \in Int
      /\ \A n \in 0..(m - 1) : SumTo(g, n + 1) = SumTo(g, n) + g[n]
  BY SumFacts
<1>3. /\ SumTo(h, 0) = 0 /\ \A n \in 0..m : SumTo(h, n) \in Int
      /\ \A n \in 0..(m - 1) : SumTo(h, n + 1) = SumTo(h, n) + h[n]
  <2>1. \A a \in Int : x * a \in Int
    BY Z3
  <2>2. \A k \in 0..(m - 1) : h[k] \in Int
    BY <2>1
  <2>. QED
    BY <2>2, SumFacts
<1> DEFINE S == {n \in Nat : n <= m => SumTo(h, n) = SumTo(f, n) + x * SumTo(g, n)}
<1>4. 0 \in S
  BY <1>1, <1>2, <1>3
<1>5. ASSUME NEW n \in Nat, n \in S PROVE n + 1 \in S
  <2>1. SUFFICES ASSUME n + 1 <= m PROVE SumTo(h, n + 1) = SumTo(f, n + 1) + x * SumTo(g, n + 1)
    OBVIOUS
  <2>2. n \in 0..(m - 1) /\ n \in 0..m
    BY <2>1
  <2> DEFINE F == SumTo(f, n)
             G == SumTo(g, n)
             a == f[n]
             b == g[n]
  <2>3. /\ SumTo(h, n + 1) = (F + x * G) + (a + x * b) /\ SumTo(f, n + 1) = F + a /\ SumTo(g, n + 1) = G + b
        /\ F \in Int /\ G \in Int /\ a \in Int /\ b \in Int
    BY <1>1, <1>2, <1>3, <1>5, <2>2
  <2> HIDE DEF F, G, a, b
  <2>4. (F + x * G) + (a + x * b) = (F + a) + x * (G + b)
    BY <2>3, Z3
  <2>. QED
    BY <2>3, <2>4
<1> HIDE DEF S
<1>6. Nat \subseteq S
  BY <1>4, <1>5, SetInduction
<1>7. m \in Nat /\ m \in 0..m
  OBVIOUS
<1>8. SumTo(h, m) = SumTo(f, m) + x * SumTo(g, m)
  <2>1. m \in S
    BY <1>6, <1>7
  <2>. QED
    BY <2>1 DEF S
<1>. QED
  BY <1>1, <1>2, <1>3, <1>7, <1>8

\* A sum of zeros is zero.
LEMMA SumZero ==
  ASSUME NEW m \in Nat, NEW z, \A k \in 0..(m - 1) : z[k] = 0
  PROVE  SumTo(z, m) = 0
<1>1. \A k \in 0..(m - 1) : z[k] \in Int /\ z[k] \in Int /\ z[k] = z[k] + 1 * z[k]
  OBVIOUS
<1>2. 1 \in Int
  OBVIOUS
<1>3. SumTo(z, m) = SumTo(z, m) + 1 * SumTo(z, m) /\ SumTo(z, m) \in Int
  BY <1>1, <1>2, SumLinear
<1>. QED
  BY <1>3

\* The powers of two numbers that are inverse are inverse.
LEMMA InversePowers ==
  ASSUME NEW p \in Nat, NEW x \in Nat, NEW y \in Nat, Cong(x * y, 1, p)
  PROVE  \A n \in Nat : Cong(Power(x, n) * Power(y, n), 1, p)
<1> DEFINE S == {n \in Nat : Cong(Power(x, n) * Power(y, n), 1, p)}
<1>1. 0 \in S
  <2>1. Power(x, 0) * Power(y, 0) = 1
    BY PowerFacts
  <2>2. Cong(1, 1, p)
    BY CongFacts
  <2>. QED
    BY <2>1, <2>2
<1>2. ASSUME NEW n \in Nat, n \in S PROVE n + 1 \in S
  <2> DEFINE a == Power(x, n)
             b == Power(y, n)
  <2>1. /\ a \in Nat /\ b \in Nat /\ Cong(a * b, 1, p)
        /\ Power(x, n + 1) = x * a /\ Power(y, n + 1) = y * b
    BY <1>2, PowerFacts
  <2> HIDE DEF a, b
  <2>2. (x * a) * (y * b) = (x * y) * (a * b) /\ x * y \in Int /\ a * b \in Int /\ 1 * 1 = 1
    BY <2>1, Z3
  <2>3. Cong((x * y) * (a * b), 1 * 1, p)
    BY <2>1, <2>2, CongFacts
  <2>. QED
    BY <2>1, <2>2, <2>3
<1> HIDE DEF S
<1>3. Nat \subseteq S
  BY <1>1, <1>2, SetInduction
<1>. QED
  BY <1>3 DEF S

\* The complement of n bits is reversed to the complement.
LEMMA BitRevComplement ==
  ASSUME NEW n \in Nat, NEW x \in 0..(Pow2(n) - 1)
  PROVE  BitRev(x, n) + BitRev(Pow2(n) - 1 - x, n) = Pow2(n) - 1
<1> DEFINE y == Pow2(n) - 1 - x
<1>1. Pow2(n) \in Nat /\ x \in Nat /\ y \in Nat
  BY Pow2Facts
<1>2. ASSUME NEW k \in 0..(n - 1)
      PROVE  ((x \div Pow2(k)) % 2) + ((y \div Pow2(k)) % 2) = 1
  <2> DEFINE e == Pow2(k)
             t == Pow2(n - k - 1)
             q == x \div e
             r == x % e
  <2>1. k \in Nat /\ n - k - 1 \in Nat /\ (n - k - 1) + 1 = n - k /\ n - k \in Nat /\ n = k + (n - k)
    OBVIOUS
  <2>2. e \in Nat /\ e > 0 /\ t \in Nat /\ Pow2(n) = e * (2 * t)
    <3>1. Pow2(k + (n - k)) = Pow2(k) * Pow2(n - k) /\ Pow2((n - k - 1) + 1) = 2 * t
      BY <2>1, Pow2Sum, Pow2Facts
    <3>. QED
      BY <2>1, <3>1, Pow2Facts
  <2>3. q \in Int /\ r \in 0..(e - 1) /\ x = e * q + r
    <3>1. x \in Int
      BY <1>1
    <3> HIDE DEF e
    <3>. QED
      BY <2>2, <3>1, DivMod
  <2> DEFINE u == 2 * t - 1 - q
             v == e - 1 - r
  <2> HIDE DEF e, t, q, r
  <2>4. u \in Int /\ v \in 0..(e - 1)
    BY <2>2, <2>3
  <2>5. y = e * u + v
    <3>1. r \in Int
      BY <2>3
    <3>2. e * (2 * t) - 1 - (e * q + r) = e * (2 * t - 1 - q) + (e - 1 - r)
      BY <2>2, <2>3, <3>1, Z3
    <3>. QED
      BY <2>2, <2>3, <3>2
  <2>6. y \div e = u
    <3> HIDE DEF y, u, v
    <3>. QED
      BY <2>2, <2>4, <2>5, DivUnique
  <2>7. u = (-q) + (2 * t - 1) /\ (u % 2) + (q % 2) = 1
    <3> HIDE DEF y
    <3>. QED
      BY <2>2, <2>3
  <2>8. x \div Pow2(k) = q /\ y \div Pow2(k) = u /\ q % 2 \in Int /\ u % 2 \in Int
    <3>1. x \div Pow2(k) = q /\ y \div Pow2(k) = u
      BY <2>6 DEF e, q
    <3>. QED
      BY <2>3, <2>4, <3>1
  <2> HIDE DEF u, y
  <2>. QED
    BY <2>7, <2>8
<1> HIDE DEF y
<1> DEFINE S == {m \in Nat : m <= n => BitRev(x, m) + BitRev(y, m) = Pow2(m) - 1}
<1>3. 0 \in S
  BY <1>1, BitRevFacts, Pow2Facts
<1>4. ASSUME NEW m \in Nat, m \in S PROVE m + 1 \in S
  <2>1. SUFFICES ASSUME m + 1 <= n PROVE BitRev(x, m + 1) + BitRev(y, m + 1) = Pow2(m + 1) - 1
    OBVIOUS
  <2>2. m \in 0..(n - 1)
    BY <2>1
  <2> DEFINE a == (x \div Pow2(m)) % 2
             b == (y \div Pow2(m)) % 2
  <2>3. /\ BitRev(x, m + 1) = 2 * BitRev(x, m) + a /\ BitRev(y, m + 1) = 2 * BitRev(y, m) + b
        /\ BitRev(x, m) \in Nat /\ BitRev(y, m) \in Nat
    BY <1>1, BitRevFacts
  <2>4. a + b = 1 /\ Pow2(m + 1) = 2 * Pow2(m) /\ Pow2(m) \in Nat
    BY <1>2, <2>2, Pow2Facts
  <2>5. a \in Int /\ b \in Int
    <3>1. x \div Pow2(m) \in Int /\ y \div Pow2(m) \in Int
      BY <1>1, DivMod, Pow2Facts
    <3>. QED
      BY <3>1
  <2> HIDE DEF a, b
  <2>. QED
    BY <1>4, <2>1, <2>3, <2>4, <2>5
<1> HIDE DEF S
<1>5. Nat \subseteq S
  BY <1>3, <1>4, SetInduction
<1>. QED
  BY <1>5 DEF S, y
=============================================================================
