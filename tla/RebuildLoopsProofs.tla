------------------------- MODULE RebuildLoopsProofs -------------------------
(***************************************************************************)
(* For every ring, table of twiddles and inputs that they are assumed for: *)
(* the loops of rebuild_s0 keep their indices in bounds, no word of a      *)
(* forward transform or of the divide loop overflows, and in place they    *)
(* compute what the levels, taken as functions, compute.                   *)
(*                                                                         *)
(* The first part is about the transforms alone, with no loop in it.       *)
(***************************************************************************)
EXTENDS RebuildLoops, ArithTheorems

\* The ring has at least four lanes, and LOGN levels.
LEMMA RingSizes == /\ N \in Nat /\ N > 3 /\ LOGN \in Nat /\ LOGN > 1
                   /\ N \div 2 \in Nat /\ N = 2 * (N \div 2)
BY ParamsAssumption, PowerSizes

\* The blocks of a level of the FFT.
LEMMA LevelSizes ==
  ASSUME NEW k \in 1..(LOGN - 1)
  PROVE  LET t == N \div Pow2(k)
         IN  /\ t = 2 * (t \div 2) /\ t \div 2 \in Nat \ {0}
             /\ N \div 2 = Pow2(k - 1) * t /\ Pow2(k - 1) \in Nat \ {0}
             /\ Pow2(k) = 2 * Pow2(k - 1) /\ t \div 2 = N \div Pow2(k + 1)
<1> DEFINE t == N \div Pow2(k)
           d == N \div Pow2(k + 1)
<1>1. N \in Nat /\ N > 3 /\ LOGN \in Nat /\ N = Pow2(LOGN) /\ k \in 1..LOGN /\ k < LOGN /\ k + 1 \in 1..LOGN
  BY ParamsAssumption
<1>2. N = Pow2(k - 1) * (2 * t) /\ Pow2(k - 1) \in Nat \ {0} /\ t = 2 * d /\ t \in Nat
  BY <1>1, HalfSizes
<1>3. d \in Nat \ {0}
  BY <1>1, HalfSizes
<1> HIDE DEF t, d
<1>4. t = 2 * (t \div 2) /\ t \div 2 = d
  BY <1>2, <1>3
<1>5. N \div 2 = Pow2(k - 1) * t
  <2>1. Pow2(k - 1) * (2 * t) = 2 * (Pow2(k - 1) * t) /\ Pow2(k - 1) * t \in Nat
    BY <1>2, Z3
  <2>. QED
    BY <1>2, <2>1, RingSizes
<1>6. Pow2(k) = 2 * Pow2(k - 1)
  <2>1. k - 1 \in Nat /\ (k - 1) + 1 = k
    BY <1>1
  <2>. QED
    BY <2>1, Pow2Facts
<1>. QED
  BY <1>2, <1>3, <1>4, <1>5, <1>6 DEF t, d

\* The widths of the words.
LEMMA WordSizes ==
  /\ DeltaOne \in Nat /\ DeltaOne > 0
  /\ WordSize = 2 * DeltaOne /\ WordSize \div 2 = DeltaOne
  /\ 2 * DeltaOne * DeltaOne \in Nat /\ 2 * DeltaOne * DeltaOne > 0
  /\ WideSize = 2 * (2 * DeltaOne * DeltaOne) /\ WideSize \div 2 = 2 * DeltaOne * DeltaOne
<1>1. DeltaOne \in Nat /\ DeltaOne > 0 /\ WordSize = 2 * DeltaOne /\ WideSize = WordSize * WordSize
  BY FftAssumption
<1> DEFINE h == 2 * DeltaOne * DeltaOne
<1>2. WideSize = 2 * h /\ h \in Nat /\ h > 0
  BY <1>1, Z3
<1> HIDE DEF h
<1>3. WideSize \div 2 = h
  BY <1>2
<1>. QED
  BY <1>1, <1>2, <1>3 DEF h

\* A word wraps around; what fits is kept.
LEMMA AsI32Type ==
  ASSUME NEW x \in Int
  PROVE  /\ AsI32(x) \in Int /\ -DeltaOne <= AsI32(x) /\ AsI32(x) < DeltaOne
         /\ -DeltaOne <= x /\ x < DeltaOne => AsI32(x) = x
<1>1. DeltaOne \in Nat /\ DeltaOne > 0
  BY WordSizes
<1>2. AsI32(x) = ((x + DeltaOne) % (2 * DeltaOne)) - DeltaOne
  BY WordSizes DEF AsI32
<1>3. /\ ((x + DeltaOne) % (2 * DeltaOne)) - DeltaOne \in (-DeltaOne)..(DeltaOne - 1)
      /\ -DeltaOne <= x /\ x < DeltaOne => ((x + DeltaOne) % (2 * DeltaOne)) - DeltaOne = x
  BY <1>1, WrapFacts
<1>. QED
  BY <1>1, <1>2, <1>3

\* So does a wide one.
LEMMA AsI64Type ==
  ASSUME NEW x \in Int
  PROVE  /\ AsI64(x) \in Int
         /\ -(2 * DeltaOne * DeltaOne) <= x /\ x < 2 * DeltaOne * DeltaOne => AsI64(x) = x
<1> DEFINE h == 2 * DeltaOne * DeltaOne
<1>1. h \in Nat /\ h > 0 /\ WideSize = 2 * h /\ WideSize \div 2 = h
  BY WordSizes
<1> HIDE DEF h
<1>2. AsI64(x) = ((x + h) % (2 * h)) - h
  BY <1>1 DEF AsI64
<1>3. /\ ((x + h) % (2 * h)) - h \in (-h)..(h - 1)
      /\ -h <= x /\ x < h => ((x + h) % (2 * h)) - h = x
  BY <1>1, WrapFacts
<1>. QED
  BY <1>1, <1>2, <1>3 DEF h

\* The lanes of a block of a level of the FFT, and their partners.
LEMMA LanesOfBlock ==
  ASSUME NEW k \in 1..(LOGN - 1), NEW x \in Slots
  PROVE  LET t == N \div Pow2(k)
             h == t \div 2
         IN  /\ x \div t \in 0..(Pow2(k - 1) - 1)
             /\ x % t < h => x + h \in Slots
             /\ ~(x % t < h) => x - h \in Slots
<1> DEFINE t == N \div Pow2(k)
           h == t \div 2
<1>1. /\ t = 2 * h /\ h \in Nat \ {0} /\ N \div 2 = Pow2(k - 1) * t /\ Pow2(k - 1) \in Nat
  BY LevelSizes
<1> HIDE DEF t, h
<1>2. /\ h \in Nat \ {0} /\ Pow2(k - 1) \in Nat /\ N \div 2 = Pow2(k - 1) * (2 * h)
      /\ t = 2 * h /\ x \in 0..(N \div 2 - 1)
  BY <1>1 DEF Slots
<1>3. /\ x \div (2 * h) \in 0..(Pow2(k - 1) - 1)
      /\ x % (2 * h) < h => x + h \in 0..(N \div 2 - 1)
      /\ ~(x % (2 * h) < h) => x - h \in 0..(N \div 2 - 1)
  BY <1>2, BlockOf
<1>4. /\ x \div t \in 0..(Pow2(k - 1) - 1)
      /\ x % t < h => x + h \in Slots
      /\ ~(x % t < h) => x - h \in Slots
  BY <1>2, <1>3 DEF Slots
<1>. QED
  BY <1>4 DEF t, h

\* Lanes of words are lanes.
LEMMA WordLanesType == WordLanes \subseteq Complex
<1>1. Words \subseteq Int
  BY WordSizes DEF Words
<1>. QED
  BY <1>1 DEF WordLanes, Complex

\* A level of the forward FFT makes lanes of lanes.
LEMMA FftLevelType ==
  ASSUME NEW z \in Complex, NEW k \in 1..(LOGN - 1)
  PROVE  FftLevel(z, Pow2(k), N \div Pow2(k)) \in WordLanes
<1> DEFINE t == N \div Pow2(k)
           h == t \div 2
           e(x) == DELTA[Pow2(k) + x \div t]
           low(x) == x % t < h
           tre(x) == z.re[x] * e(x).re - z.im[x] * e(x).im
           tim(x) == z.re[x] * e(x).im + z.im[x] * e(x).re
<1>1. ASSUME NEW x \in Slots
      PROVE  /\ x \div t \in 0..(Pow2(k - 1) - 1)
             /\ low(x) => x + h \in Slots
             /\ ~low(x) => x - h \in Slots
  BY LanesOfBlock
<1>2. ASSUME NEW x \in Slots PROVE e(x).re \in Int /\ e(x).im \in Int
  BY <1>1, FftAssumption
<1>3. ASSUME NEW x \in Slots
      PROVE  z.re[x] \in Int /\ z.im[x] \in Int /\ tre(x) \in Int /\ tim(x) \in Int
  <2>1. z.re[x] \in Int /\ z.im[x] \in Int /\ e(x).re \in Int /\ e(x).im \in Int
    BY <1>2 DEF Complex
  <2> HIDE DEF e
  <2>2. \A a, b, c, d \in Int : a * b - c * d \in Int /\ a * b + c * d \in Int
    BY Z3
  <2>. QED
    BY <2>1, <2>2
<1>4. ASSUME NEW x \in Int, NEW y \in Int PROVE Fold(x, y, 1) \in Words /\ Fold(x, y, -1) \in Words
  <2>1. DeltaOne \in Nat \ {0} /\ 2 * DeltaOne \in Nat /\ 2 * DeltaOne > 0
    BY FftAssumption
  <2>2. x * DeltaOne + 1 * y \in Int /\ x * DeltaOne + (-1) * y \in Int
    BY <2>1, Z3
  <2>3. AsI64(x * DeltaOne + 1 * y) \in Int /\ AsI64(x * DeltaOne + (-1) * y) \in Int
    BY <2>2, AsI64Type
  <2>4. /\ AsI64(x * DeltaOne + 1 * y) \div (2 * DeltaOne) \in Int
        /\ AsI64(x * DeltaOne + (-1) * y) \div (2 * DeltaOne) \in Int
    BY <2>1, <2>3, DivMod
  <2>. QED
    BY <2>1, <2>4, AsI32Type DEF Fold, Words
<1> HIDE DEF h
<1>5. FftLevel(z, Pow2(k), t) =
        [re |-> [x \in Slots |-> IF low(x) THEN Fold(z.re[x], tre(x + h), 1)
                                 ELSE Fold(z.re[x - h], tre(x), -1)],
         im |-> [x \in Slots |-> IF low(x) THEN Fold(z.im[x], tim(x + h), 1)
                                 ELSE Fold(z.im[x - h], tim(x), -1)]]
  BY DEF FftLevel, h
<1> HIDE DEF low, tre, tim, t
<1>6. ASSUME NEW x \in Slots
      PROVE  /\ (IF low(x) THEN Fold(z.re[x], tre(x + h), 1) ELSE Fold(z.re[x - h], tre(x), -1)) \in Words
             /\ (IF low(x) THEN Fold(z.im[x], tim(x + h), 1) ELSE Fold(z.im[x - h], tim(x), -1)) \in Words
  <2>1. CASE low(x)
    <3>1. x + h \in Slots
      BY <1>1, <2>1
    <3>. QED
      BY <1>3, <1>4, <2>1, <3>1
  <2>2. CASE ~low(x)
    <3>1. x - h \in Slots
      BY <1>1, <2>2
    <3>. QED
      BY <1>3, <1>4, <2>2, <3>1
  <2>. QED
    BY <2>1, <2>2
<1>7. FftLevel(z, Pow2(k), t) \in WordLanes
  BY <1>5, <1>6 DEF WordLanes
<1>. QED
  BY <1>7 DEF t

\* A butterfly of short lanes does not wrap, and makes lanes as short, but for
\* what rounding adds.
LEMMA ShortFold ==
  ASSUME NEW r \in Nat, r + 4 < DeltaOne,
         NEW a \in Int, NEW b \in Int, a * a + b * b <= r * r,
         NEW c \in Int, NEW d \in Int, c * c + d * d <= r * r,
         NEW e \in Int, NEW f \in Int, e * e + f * f <= (DeltaOne + 2) * (DeltaOne + 2),
         NEW sign \in {1, -1}
  PROVE  LET x == Fold(a, c * e - d * f, sign)
             y == Fold(b, c * f + d * e, sign)
         IN  x * x + y * y <= (r + 4) * (r + 4)
<1> DEFINE D == DeltaOne
           x == c * e - d * f
           y == c * f + d * e
           w == 2 * D
<1>1. D \in Nat /\ D > 0 /\ w \in Nat /\ w > 0 /\ 2 * D * D \in Nat /\ r + 4 <= D
  BY WordSizes
<1>2. /\ x \in Int /\ y \in Int
      /\ \A z \in {x, y, a * D + x, b * D + y, a * D - x, b * D - y} :
           z \in Int /\ -(2 * D * D) < z /\ z < 2 * D * D
      /\ \A z \in {<<a * D + x, b * D + y>>, <<a * D - x, b * D - y>>} :
           (z[1] \div (2 * D)) * (z[1] \div (2 * D)) + (z[2] \div (2 * D)) * (z[2] \div (2 * D))
             <= (r + 4) * (r + 4)
  BY <1>1, ShortButterfly
<1> HIDE DEF x, y
<1> DEFINE fre == a * D + sign * x
           fim == b * D + sign * y
<1>3. /\ fre \in Int /\ fim \in Int
      /\ -(2 * D * D) < fre /\ fre < 2 * D * D /\ -(2 * D * D) < fim /\ fim < 2 * D * D
      /\ (fre \div w) * (fre \div w) + (fim \div w) * (fim \div w) <= (r + 4) * (r + 4)
  <2>1. CASE sign = 1
    <3>1. fre = a * D + x /\ fim = b * D + y
      BY <1>1, <1>2, <2>1
    <3>. QED
      BY <1>2, <3>1
  <2>2. CASE sign = -1
    <3>1. fre = a * D - x /\ fim = b * D - y
      BY <1>1, <1>2, <2>2
    <3>. QED
      BY <1>2, <3>1
  <2>. QED
    BY <2>1, <2>2
<1>4. Fold(a, x, sign) = AsI32(AsI64(fre) \div w) /\ Fold(b, y, sign) = AsI32(AsI64(fim) \div w)
  BY DEF Fold
<1> HIDE DEF D, fre, fim, w
<1>5. AsI64(fre) = fre /\ AsI64(fim) = fim
  <2>1. fre < 2 * DeltaOne * DeltaOne /\ -(2 * DeltaOne * DeltaOne) <= fre /\ fim < 2 * DeltaOne * DeltaOne
        /\ -(2 * DeltaOne * DeltaOne) <= fim
    BY <1>1, <1>3 DEF D
  <2>. QED
    BY <1>3, <2>1, AsI64Type
<1>6. fre \div w \in Int /\ fim \div w \in Int
  BY <1>1, <1>3, DivMod
<1>7. AsI32(fre \div w) = fre \div w /\ AsI32(fim \div w) = fim \div w
  <2> DEFINE s == fre \div w
             t == fim \div w
  <2>1. s \in Int /\ t \in Int /\ s * s + t * t <= (r + 4) * (r + 4) /\ r + 4 \in Nat
    BY <1>3, <1>6
  <2> HIDE DEF s, t
  <2>2. -(r + 4) <= s /\ s <= r + 4 /\ -(r + 4) <= t /\ t <= r + 4
    BY <2>1, RootBound
  <2>3. -DeltaOne <= s /\ s < DeltaOne /\ -DeltaOne <= t /\ t < DeltaOne
    BY <2>1, <2>2, WordSizes
  <2>4. AsI32(s) = s /\ AsI32(t) = t
    BY <2>1, <2>3, AsI32Type
  <2>. QED
    BY <2>4 DEF s, t
<1>. QED
  BY <1>3, <1>4, <1>5, <1>7 DEF x, y

\* A level of a short transform.
LEMMA FftLevelShort ==
  ASSUME NEW z \in Complex, NEW k \in 1..(LOGN - 1), NEW r \in Nat, r + 4 < DeltaOne, ShortLanes(z, r)
  PROVE  ShortLanes(FftLevel(z, Pow2(k), N \div Pow2(k)), r + 4)
<1> DEFINE t == N \div Pow2(k)
           h == t \div 2
           e(x) == DELTA[Pow2(k) + x \div t]
           low(x) == x % t < h
           tre(x) == z.re[x] * e(x).re - z.im[x] * e(x).im
           tim(x) == z.re[x] * e(x).im + z.im[x] * e(x).re
<1>1. ASSUME NEW x \in Slots
      PROVE  /\ x \div t \in 0..(Pow2(k - 1) - 1)
             /\ low(x) => x + h \in Slots
             /\ ~low(x) => x - h \in Slots
  BY LanesOfBlock
<1>2. ASSUME NEW x \in Slots
      PROVE  e(x).re \in Int /\ e(x).im \in Int
             /\ e(x).re * e(x).re + e(x).im * e(x).im <= (DeltaOne + 2) * (DeltaOne + 2)
  BY <1>1, FftAssumption
<1> HIDE DEF h, t
<1>3. FftLevel(z, Pow2(k), t) =
        [re |-> [x \in Slots |-> IF low(x) THEN Fold(z.re[x], tre(x + h), 1)
                                 ELSE Fold(z.re[x - h], tre(x), -1)],
         im |-> [x \in Slots |-> IF low(x) THEN Fold(z.im[x], tim(x + h), 1)
                                 ELSE Fold(z.im[x - h], tim(x), -1)]]
  BY DEF FftLevel, h
<1>4. ASSUME NEW x \in Slots, NEW y \in Slots, NEW sign \in {1, -1}
      PROVE  LET fre == Fold(z.re[x], tre(y), sign)
                 fim == Fold(z.im[x], tim(y), sign)
             IN  fre * fre + fim * fim <= (r + 4) * (r + 4)
  <2> DEFINE a == z.re[x]
             b == z.im[x]
             c == z.re[y]
             d == z.im[y]
             p == e(y).re
             q == e(y).im
  <2>1. /\ a \in Int /\ b \in Int /\ a * a + b * b <= r * r
        /\ c \in Int /\ d \in Int /\ c * c + d * d <= r * r
        /\ p \in Int /\ q \in Int /\ p * p + q * q <= (DeltaOne + 2) * (DeltaOne + 2)
    BY <1>2 DEF Complex, ShortLanes
  <2> DEFINE fre == Fold(a, c * p - d * q, sign)
             fim == Fold(b, c * q + d * p, sign)
  <2>2. fre * fre + fim * fim <= (r + 4) * (r + 4)
    <3> HIDE DEF a, b, c, d, p, q
    <3>. QED
      BY <2>1, ShortFold
  <2>. QED
    BY <2>2
<1> HIDE DEF tre, tim
<1> DEFINE g == FftLevel(z, Pow2(k), t)
<1>5. ASSUME NEW x \in Slots PROVE g.re[x] * g.re[x] + g.im[x] * g.im[x] <= (r + 4) * (r + 4)
  <2>1. CASE low(x)
    <3>1. x + h \in Slots
      BY <1>1, <2>1 DEF h, t
    <3>2. g.re[x] = Fold(z.re[x], tre(x + h), 1) /\ g.im[x] = Fold(z.im[x], tim(x + h), 1)
      BY <1>3, <2>1
    <3>. QED
      BY <1>4, <3>1, <3>2
  <2>2. CASE ~low(x)
    <3>1. x - h \in Slots
      BY <1>1, <2>2 DEF h, t
    <3>2. g.re[x] = Fold(z.re[x - h], tre(x), -1) /\ g.im[x] = Fold(z.im[x - h], tim(x), -1)
      BY <1>3, <2>2
    <3>. QED
      BY <1>4, <3>1, <3>2
  <2>. QED
    BY <2>1, <2>2
<1> HIDE DEF g
<1>6. ShortLanes(g, r + 4)
  BY <1>5 DEF ShortLanes
<1>. QED
  BY <1>6 DEF g, t

\* The scaled source of a forward FFT.
LEMMA ScaledType ==
  ASSUME NEW src \in [Coeffs -> Int], NEW c \in Int, NEW zeroFirst \in BOOLEAN
  PROVE  Scaled(src, c, zeroFirst) \in Complex
<1>1. ASSUME NEW x \in Slots
      PROVE  AsI32(AsI64(c * src[x])) \in Int /\ AsI32(AsI64(c * src[x + N \div 2])) \in Int
  <2>1. x \in Coeffs /\ x + N \div 2 \in Coeffs
    BY RingSizes DEF Slots, Coeffs
  <2>2. src[x] \in Int /\ src[x + N \div 2] \in Int
    BY <2>1
  <2>3. c * src[x] \in Int /\ c * src[x + N \div 2] \in Int
    BY <2>2, Z3
  <2>. QED
    BY <2>3, AsI32Type, AsI64Type
<1>. QED
  BY <1>1 DEF Scaled, Complex

\* The states of the lanes between the levels of a forward FFT.
Between(after, src, c, zeroFirst) ==
  /\ after[0] = Scaled(src, c, zeroFirst)
  /\ \A k \in 1..(LOGN - 1) : after[k] = FftLevel(after[k - 1], Pow2(k), N \div Pow2(k))
  /\ \A k \in 0..(LOGN - 1) : after[k] \in Complex
  /\ after[LOGN - 1] \in WordLanes

\* The levels of a forward FFT are there, each made of the one before, and the
\* last one is cut to words.
LEMMA LevelsOfFft ==
  ASSUME NEW src \in [Coeffs -> Int], NEW c \in {C_W1, C_Q00, C_Q01}, NEW zeroFirst \in BOOLEAN
  PROVE  Between(FftLevels(src, c, zeroFirst), src, c, zeroFirst)
<1> DEFINE a == Scaled(src, c, zeroFirst)
           n == LOGN - 1
           Level(z, k) == FftLevel(z, Pow2(k), N \div Pow2(k))
           P(s) == s = [k \in 0..(LOGN - 1) |-> IF k = 0 THEN a ELSE Level(s[k - 1], k)]
           D == [x \in Complex \X Nat |-> IF x[2] < n THEN Level(x[1], x[2] + 1) ELSE x[1]]
           after == CHOOSE s : P(s)
<1>1. n \in Nat /\ c \in Int
  BY RingSizes, FftAssumption
<1>2. a \in Complex
  BY <1>1, ScaledType
<1>3. ASSUME NEW z \in Complex, NEW k \in 0..(n - 1)
      PROVE  Level(z, k + 1) \in WordLanes /\ Level(z, k + 1) \in Complex
  <2>1. k + 1 \in 1..(LOGN - 1)
    BY <1>1
  <2>2. Level(z, k + 1) \in WordLanes
    BY <2>1, FftLevelType
  <2>. QED
    BY <2>2, WordLanesType
<1> HIDE DEF Level
<1>4. /\ D \in [Complex \X Nat -> Complex]
      /\ \A z \in Complex, k \in 0..(n - 1) : D[<<z, k>>] = Level(z, k + 1)
  BY <1>1, <1>3
<1>5. FftLevels(src, c, zeroFirst) = after
  BY DEF FftLevels, Level
<1> HIDE DEF a, D
<1>6. PICK s \in [0..n -> Complex] : Follows(s, a, D, n)
  BY <1>1, <1>2, <1>4, Recursion
<1>7. P(s)
  <2>1. ASSUME NEW k \in 0..n PROVE s[k] = IF k = 0 THEN a ELSE Level(s[k - 1], k)
    <3>1. CASE k # 0
      <4>1. k \in 1..n /\ k - 1 \in 0..(n - 1) /\ (k - 1) + 1 = k /\ s[k - 1] \in Complex
        BY <1>1, <1>6, <3>1
      <4>2. D[<<s[k - 1], k - 1>>] = Level(s[k - 1], (k - 1) + 1)
        BY <1>4, <4>1
      <4>. QED
        BY <1>6, <3>1, <4>1, <4>2 DEF Follows
    <3>. QED
      BY <1>6, <3>1 DEF Follows
  <2>. QED
    BY <2>1
<1>8. P(after)
  <2> HIDE DEF P
  <2>. QED
    BY <1>7
<1> HIDE DEF after
<1>9. after[0] = a /\ \A k \in 1..n : after[k] = Level(after[k - 1], k)
  BY <1>1, <1>8
<1> DEFINE S == {k \in Nat : k <= n => after[k] \in Complex}
<1>10. 0 \in S
  BY <1>2, <1>9
<1>11. ASSUME NEW k \in Nat, k \in S PROVE k + 1 \in S
  <2>1. SUFFICES ASSUME k + 1 <= n PROVE after[k + 1] \in Complex
    OBVIOUS
  <2>2. k + 1 \in 1..n /\ (k + 1) - 1 = k /\ k \in 0..(n - 1) /\ after[k] \in Complex
    BY <1>1, <1>11, <2>1
  <2>. QED
    BY <1>3, <1>9, <2>2
<1> HIDE DEF S
<1>12. Nat \subseteq S
  BY <1>10, <1>11, SetInduction
<1>13. \A k \in 0..n : after[k] \in Complex
  BY <1>1, <1>12 DEF S
<1>14. after[n] \in WordLanes
  <2>1. n \in 1..n /\ n - 1 \in 0..(n - 1) /\ n - 1 \in 0..n /\ (n - 1) + 1 = n
    BY RingSizes
  <2>2. after[n - 1] \in Complex
    BY <1>13, <2>1
  <2>3. Level(after[n - 1], (n - 1) + 1) \in WordLanes
    BY <1>3, <2>1, <2>2
  <2>. QED
    BY <1>9, <2>1, <2>3
<1>15. Between(after, src, c, zeroFirst)
  BY <1>9, <1>13, <1>14 DEF Between, a, Level
<1>. QED
  BY <1>5, <1>15

\* A forward FFT has lanes of words,
LEMMA FftType ==
  ASSUME NEW src \in [Coeffs -> Int], NEW c \in {C_W1, C_Q00, C_Q01}, NEW zeroFirst \in BOOLEAN
  PROVE  FftConv(src, c, zeroFirst) \in WordLanes /\ FftConv(src, c, zeroFirst) \in Complex
<1>1. Between(FftLevels(src, c, zeroFirst), src, c, zeroFirst)
  BY LevelsOfFft
<1>. QED
  BY <1>1, WordLanesType DEF Between, FftConv

\* and one of a short source has short ones at every level: none of its words
\* wraps.
LEMMA LevelsShort ==
  ASSUME NEW src \in [Coeffs -> Int], NEW c \in {C_W1, C_Q00, C_Q01}, NEW zeroFirst \in BOOLEAN,
         Short(IF zeroFirst THEN [src EXCEPT ![0] = 0] ELSE src, c)
  PROVE  \A k \in 0..(LOGN - 1) :
            /\ DeltaOne - 4 * (LOGN - k) \in Nat
            /\ ShortLanes(FftLevels(src, c, zeroFirst)[k], DeltaOne - 4 * (LOGN - k))
<1> DEFINE n == LOGN - 1
           R(k) == DeltaOne - 4 * (LOGN - k)
           s == IF zeroFirst THEN [src EXCEPT ![0] = 0] ELSE src
           after == FftLevels(src, c, zeroFirst)
<1>1. n \in Nat /\ LOGN \in Nat /\ LOGN > 1 /\ c \in Int /\ DeltaOne \in Nat /\ DeltaOne > 0
  BY RingSizes, FftAssumption
<1>2. Between(after, src, c, zeroFirst)
  BY LevelsOfFft
<1> HIDE DEF after
<1>3. ASSUME NEW k \in Coeffs
      PROVE  /\ c * s[k] \in Int /\ -R(0) <= 2 * (c * s[k]) /\ 2 * (c * s[k]) <= R(0)
             /\ AsI32(AsI64(c * s[k])) = c * s[k]
  <2> DEFINE x == c * s[k]
  <2>1. x \in Int
    BY <1>1, Z3
  <2>2. 2 * Abs(x) <= R(0)
    BY <1>1 DEF Short
  <2> HIDE DEF x
  <2>3. -R(0) <= 2 * x /\ 2 * x <= R(0) /\ R(0) < DeltaOne
    BY <1>1, <2>1, <2>2 DEF Abs
  <2>4. -DeltaOne <= x /\ x < DeltaOne
    BY <1>1, <2>1, <2>3
  <2>5. -(2 * DeltaOne * DeltaOne) <= x /\ x < 2 * DeltaOne * DeltaOne
    <3>1. DeltaOne <= 2 * DeltaOne * DeltaOne /\ 2 * DeltaOne * DeltaOne \in Int
      BY <1>1, Z3
    <3>. QED
      BY <1>1, <2>1, <2>4, <3>1
  <2>6. AsI64(x) = x /\ AsI32(x) = x
    BY <2>1, <2>4, <2>5, AsI32Type, AsI64Type
  <2>. QED
    BY <2>1, <2>3, <2>6 DEF x
<1>4. R(0) \in Nat
  <2>1. 0 \in Coeffs
    BY RingSizes DEF Coeffs
  <2>2. -R(0) <= 2 * (c * s[0]) /\ 2 * (c * s[0]) <= R(0) /\ c * s[0] \in Int
    BY <1>3, <2>1
  <2>. QED
    BY <1>1, <2>2
<1>5. ShortLanes(after[0], R(0))
  <2>1. ASSUME NEW x \in Slots
        PROVE  after[0].re[x] * after[0].re[x] + after[0].im[x] * after[0].im[x] <= R(0) * R(0)
    <3> DEFINE a == c * s[x]
               b == c * s[x + N \div 2]
    <3>1. x \in Coeffs /\ x + N \div 2 \in Coeffs
      BY RingSizes DEF Slots, Coeffs
    <3>2. after[0].re[x] = a /\ after[0].im[x] = b
      <4>1. x + N \div 2 # 0 /\ x \in Slots
        BY RingSizes DEF Slots
      <4>2. s[x + N \div 2] = src[x + N \div 2] /\ (~zeroFirst \/ x # 0 => s[x] = src[x])
        BY <3>1, <4>1
      <4>3. zeroFirst /\ x = 0 => s[x] = 0
        BY <3>1
      <4>4. c * 0 = 0
        BY <1>1
      <4>5. AsI32(AsI64(a)) = a /\ AsI32(AsI64(b)) = b
        BY <1>3, <3>1
      <4>6. after[0] = Scaled(src, c, zeroFirst)
        BY <1>2 DEF Between
      <4>7. /\ after[0].re[x] = IF zeroFirst /\ x = 0 THEN 0 ELSE AsI32(AsI64(c * src[x]))
            /\ after[0].im[x] = AsI32(AsI64(c * src[x + N \div 2]))
        BY <4>1, <4>6 DEF Scaled
      <4> HIDE DEF s
      <4>. QED
        BY <4>2, <4>3, <4>4, <4>5, <4>7
    <3>3. /\ a \in Int /\ -R(0) <= 2 * a /\ 2 * a <= R(0)
          /\ b \in Int /\ -R(0) <= 2 * b /\ 2 * b <= R(0)
      BY <1>3, <3>1
    <3> HIDE DEF a, b
    <3> DEFINE r == R(0)
    <3>4. r \in Nat /\ -r <= 2 * a /\ 2 * a <= r /\ -r <= 2 * b /\ 2 * b <= r
      BY <1>4, <3>3
    <3> HIDE DEF r
    <3>5. \A y \in Int : -r <= 2 * y /\ 2 * y <= r => 4 * (y * y) <= r * r
      <4>1. SUFFICES ASSUME NEW y \in Int, -r <= 2 * y, 2 * y <= r PROVE 4 * (y * y) <= r * r
        OBVIOUS
      <4>2. (r - 2 * y) * (r + 2 * y) >= 0
        <5>1. r - 2 * y \in Nat /\ r + 2 * y \in Nat
          BY <3>4, <4>1
        <5>2. \A p, q \in Nat : p * q >= 0
          BY Z3
        <5>. QED
          BY <5>1, <5>2
      <4>3. (r - 2 * y) * (r + 2 * y) = r * r - 4 * (y * y) /\ r * r \in Int /\ y * y \in Int
        BY <3>4, <4>1, Z3
      <4>. QED
        BY <4>2, <4>3
    <3>6. a * a \in Int /\ b * b \in Int /\ r * r \in Int /\ r * r >= 0
      BY <3>3, <3>4, Z3
    <3>7. a * a + b * b <= r * r
      BY <3>3, <3>4, <3>5, <3>6
    <3>. QED
      BY <3>2, <3>7 DEF r
  <2>. QED
    BY <2>1 DEF ShortLanes
<1> DEFINE S == {k \in Nat : k <= n => ShortLanes(after[k], R(k))}
<1>6. 0 \in S
  BY <1>5
<1>7. ASSUME NEW k \in Nat, k \in S PROVE k + 1 \in S
  <2>1. SUFFICES ASSUME k + 1 <= n PROVE ShortLanes(after[k + 1], R(k + 1))
    OBVIOUS
  <2>2. /\ k + 1 \in 1..(LOGN - 1) /\ (k + 1) - 1 = k /\ k \in 0..(LOGN - 1)
        /\ R(k) \in Nat /\ R(k) + 4 = R(k + 1) /\ R(k) + 4 < DeltaOne
    BY <1>1, <1>4, <2>1
  <2>3. after[k] \in Complex /\ ShortLanes(after[k], R(k))
    BY <1>1, <1>2, <1>7, <2>1, <2>2 DEF Between
  <2>4. after[k + 1] = FftLevel(after[k], Pow2(k + 1), N \div Pow2(k + 1))
    BY <1>2, <2>2 DEF Between
  <2> DEFINE r == R(k)
  <2> HIDE DEF R
  <2>5. r \in Nat /\ r + 4 < DeltaOne /\ ShortLanes(after[k], r)
    BY <2>2, <2>3
  <2> HIDE DEF r
  <2>6. ShortLanes(FftLevel(after[k], Pow2(k + 1), N \div Pow2(k + 1)), r + 4)
    BY <2>2, <2>3, <2>5, FftLevelShort
  <2>. QED
    BY <2>2, <2>4, <2>6 DEF r
<1> HIDE DEF S
<1>8. Nat \subseteq S
  BY <1>6, <1>7, SetInduction
<1>9. ASSUME NEW k \in 0..n PROVE R(k) \in Nat /\ ShortLanes(after[k], R(k))
  BY <1>1, <1>4, <1>8 DEF S
<1>. QED
  BY <1>9 DEF after

\* and the last level has lanes shorter than a word.
LEMMA FftShort ==
  ASSUME NEW src \in [Coeffs -> Int], NEW c \in {C_W1, C_Q00, C_Q01}, Short(src, c)
  PROVE  ShortLanes(FftConv(src, c, FALSE), DeltaOne - 4) /\ DeltaOne - 4 \in Nat
<1>1. LOGN - 1 \in 0..(LOGN - 1) /\ DeltaOne - 4 * (LOGN - (LOGN - 1)) = DeltaOne - 4
  BY RingSizes, WordSizes
<1>2. /\ DeltaOne - 4 * (LOGN - (LOGN - 1)) \in Nat
      /\ ShortLanes(FftLevels(src, c, FALSE)[LOGN - 1], DeltaOne - 4 * (LOGN - (LOGN - 1)))
  BY <1>1, LevelsShort
<1>. QED
  BY <1>1, <1>2 DEF FftConv

\* The product of a word and a short lane fits an i64,
LEMMA ProductFits ==
  ASSUME NEW a \in Words, NEW b \in Words, NEW c \in Int, NEW d \in Int, DeltaOne - 4 \in Nat,
         c * c + d * d <= (DeltaOne - 4) * (DeltaOne - 4)
  PROVE  \A x \in {a * c - b * d, a * d + b * c} :
            x \in Int /\ -(2 * DeltaOne * DeltaOne) < x /\ x < 2 * DeltaOne * DeltaOne
<1> DEFINE D == DeltaOne
           r == D - 4
<1>1. D \in Nat /\ D > 0 /\ r \in Nat /\ r < D /\ 2 * D * D \in Nat
  BY WordSizes
<1>2. /\ a \in Int /\ -D <= a /\ a <= D /\ b \in Int /\ -D <= b /\ b <= D
      /\ c \in Int /\ d \in Int /\ c * c + d * d <= r * r
  BY <1>1 DEF Words
<1> HIDE DEF D, r
<1>3. -r <= c /\ c <= r /\ -r <= d /\ d <= r
  BY <1>1, <1>2, RootBound
<1>4. ASSUME NEW x \in Int, -D <= x, x <= D, NEW y \in Int, -r <= y, y <= r
      PROVE  x * y \in Int /\ -(D * r) <= x * y /\ x * y <= D * r
  <2>1. (D - x) * (r + y) >= 0 /\ (D + x) * (r - y) >= 0 /\ (D - x) * (r - y) >= 0 /\ (D + x) * (r + y) >= 0
    <3>1. D - x \in Nat /\ D + x \in Nat /\ r - y \in Nat /\ r + y \in Nat
      BY <1>1, <1>4
    <3>2. \A p, q \in Nat : p * q >= 0
      BY Z3
    <3>. QED
      BY <3>1, <3>2
  <2>2. /\ (D - x) * (r + y) = D * r + D * y - x * r - x * y
        /\ (D + x) * (r - y) = D * r - D * y + x * r - x * y
        /\ (D - x) * (r - y) = D * r - D * y - x * r + x * y
        /\ (D + x) * (r + y) = D * r + D * y + x * r + x * y
        /\ D * r \in Int /\ D * y \in Int /\ x * r \in Int /\ x * y \in Int
    BY <1>1, <1>4, Z3
  <2>. QED
    BY <2>1, <2>2
<1>5. D * r \in Int /\ 2 * (D * r) < 2 * D * D
  BY <1>1, Z3
<1>6. /\ a * c - b * d \in Int /\ -(2 * (D * r)) <= a * c - b * d /\ a * c - b * d <= 2 * (D * r)
      /\ a * d + b * c \in Int /\ -(2 * (D * r)) <= a * d + b * c /\ a * d + b * c <= 2 * (D * r)
  <2>1. /\ a * c \in Int /\ -(D * r) <= a * c /\ a * c <= D * r
        /\ b * d \in Int /\ -(D * r) <= b * d /\ b * d <= D * r
        /\ a * d \in Int /\ -(D * r) <= a * d /\ a * d <= D * r
        /\ b * c \in Int /\ -(D * r) <= b * c /\ b * c <= D * r
    BY <1>2, <1>3, <1>4
  <2>. QED
    BY <1>5, <2>1
<1>7. /\ -(2 * D * D) < a * c - b * d /\ a * c - b * d < 2 * D * D
      /\ -(2 * D * D) < a * d + b * c /\ a * d + b * c < 2 * D * D
  BY <1>1, <1>5, <1>6
<1>. QED
  BY <1>6, <1>7 DEF D

\* and its magnitude is not negative: the least i64, which is its own
\* magnitude, is out of reach.
LEMMA MagnitudeOfProduct ==
  ASSUME NEW q \in WordLanes, NEW w \in Complex, ShortLanes(w, DeltaOne - 4), DeltaOne - 4 \in Nat,
         NEW n \in Slots
  PROVE  Magnitude(XRe(q, w, n)) \in Nat /\ Magnitude(XIm(q, w, n)) \in Nat
<1> DEFINE a == q.re[n]
           b == q.im[n]
           c == w.re[n]
           d == w.im[n]
<1>1. /\ a \in Words /\ b \in Words /\ c \in Int /\ d \in Int
      /\ c * c + d * d <= (DeltaOne - 4) * (DeltaOne - 4)
  BY DEF WordLanes, Complex, ShortLanes
<1>2. XRe(q, w, n) = AsI64(a * c - b * d) /\ XIm(q, w, n) = AsI64(a * d + b * c)
  BY DEF XRe, XIm
<1> HIDE DEF a, b, c, d
<1>3. \A x \in {a * c - b * d, a * d + b * c} :
         x \in Int /\ -(2 * DeltaOne * DeltaOne) < x /\ x < 2 * DeltaOne * DeltaOne
  BY <1>1, ProductFits
<1>4. ASSUME NEW x \in Int, -(2 * DeltaOne * DeltaOne) < x, x < 2 * DeltaOne * DeltaOne
      PROVE  Magnitude(AsI64(x)) \in Nat
  <2>1. -(2 * DeltaOne * DeltaOne) <= x /\ x < 2 * DeltaOne * DeltaOne
        /\ -(2 * DeltaOne * DeltaOne) <= Abs(x) /\ Abs(x) < 2 * DeltaOne * DeltaOne /\ Abs(x) \in Nat
    BY <1>4, WordSizes DEF Abs
  <2>2. AsI64(x) = x
    BY <2>1, AsI64Type
  <2>3. AsI64(Abs(x)) = Abs(x)
    BY <2>1, AsI64Type
  <2>. QED
    BY <2>1, <2>2, <2>3 DEF Magnitude
<1>. QED
  BY <1>2, <1>3, <1>4

-----------------------------------------------------------------------------
(***************************************************************************)
(* The loops: where a level is, and which of its lanes it has written.     *)
(***************************************************************************)

\* The number of a level and its M.
LEMMA LevelNumbers ==
  /\ Pow2(1) = 2 /\ Pow2(LOGN - 1) = N \div 2 /\ Pow2(0) = 1
  /\ \A k \in 1..(LOGN - 1) : /\ Pow2(k) \in Nat /\ Pow2(k) = 2 * Pow2(k - 1) /\ Pow2(k) \div 2 = Pow2(k - 1)
                              /\ Pow2(k) = 2 <=> k = 1
                              /\ Pow2(k) > 2 <=> k > 1
                              /\ Pow2(k) < N \div 2 <=> k < LOGN - 1
<1>1. /\ LOGN \in Nat /\ LOGN > 1 /\ N = Pow2(LOGN) /\ N = 2 * (N \div 2) /\ N \div 2 \in Nat
  BY RingSizes, ParamsAssumption
<1>2. \A n \in Nat : Pow2(n) = 1 <=> n = 0
  <2>1. SUFFICES ASSUME NEW n \in Nat, n # 0 PROVE Pow2(n) > 1
    BY Pow2Facts
  <2>2. n - 1 \in Nat /\ (n - 1) + 1 = n
    BY <2>1
  <2>3. Pow2(n) = 2 * Pow2(n - 1) /\ Pow2(n - 1) \in Nat /\ Pow2(n - 1) > 0
    BY <2>2, Pow2Facts
  <2>. QED
    BY <2>3
<1>3. Pow2(1) = 2
  <2>1. 0 \in Nat /\ 0 + 1 = 1
    OBVIOUS
  <2>. QED
    BY <2>1, Pow2Facts
<1>4. Pow2(LOGN - 1) = N \div 2
  <2>1. LOGN - 1 \in Nat /\ (LOGN - 1) + 1 = LOGN
    BY <1>1
  <2>2. Pow2(LOGN) = 2 * Pow2(LOGN - 1) /\ Pow2(LOGN - 1) \in Nat
    BY <2>1, Pow2Facts
  <2>. QED
    BY <1>1, <2>2
<1>5. ASSUME NEW k \in 1..(LOGN - 1)
      PROVE  /\ Pow2(k) \in Nat /\ Pow2(k) = 2 * Pow2(k - 1) /\ Pow2(k) \div 2 = Pow2(k - 1)
             /\ Pow2(k) = 2 <=> k = 1
             /\ Pow2(k) > 2 <=> k > 1
             /\ Pow2(k) < N \div 2 <=> k < LOGN - 1
  <2>1. k - 1 \in Nat /\ (k - 1) + 1 = k /\ k \in Nat /\ LOGN - 1 - k \in Nat
    BY <1>1
  <2>2. Pow2(k) = 2 * Pow2(k - 1) /\ Pow2(k - 1) \in Nat /\ Pow2(k - 1) > 0
    BY <2>1, Pow2Facts
  <2>3. Pow2(k - 1) = 1 <=> k - 1 = 0
    BY <1>2, <2>1
  <2>4. Pow2(k) < N \div 2 <=> k < LOGN - 1
    <3> DEFINE d == LOGN - 1 - k
    <3>1. d \in Nat /\ k + d = LOGN - 1 /\ (k < LOGN - 1 <=> d # 0)
      BY <1>1
    <3> HIDE DEF d
    <3>2. N \div 2 = Pow2(k) * Pow2(d)
      BY <1>4, <2>1, <3>1, Pow2Sum
    <3>3. Pow2(d) \in Nat /\ Pow2(d) > 0 /\ (Pow2(d) = 1 <=> d = 0)
      BY <1>2, <3>1, Pow2Facts
    <3>4. \A p, q \in Nat : p > 0 => (p < p * q <=> q > 1)
      BY Z3
    <3>. QED
      BY <2>2, <3>1, <3>2, <3>3, <3>4
  <2>. QED
    BY <2>1, <2>2, <2>3, <2>4
<1>. QED
  BY <1>3, <1>4, <1>5, Pow2Facts

\* Lane n of a transform, and an array that holds a transform.
At(z, n) == [re |-> z.re[n], im |-> z.im[n]]
Holds(f, z) == \A n \in Slots : f[n] = At(z, n)

\* Slot n is one of the two of the butterfly Offset in the block n \div t.
Offset(n, t) == IF n % t < t \div 2 THEN n % t ELSE (n % t) - t \div 2

\* The two slots of butterfly i of block b.
LEMMA Pair ==
  ASSUME NEW k \in 1..(LOGN - 1), NEW b \in 0..(Pow2(k - 1) - 1),
         NEW i \in 0..((N \div Pow2(k)) \div 2 - 1)
  PROVE  LET t == N \div Pow2(k)
             h == t \div 2
             low == b * t + i
             high == low + h
         IN  /\ low \in Slots /\ high \in Slots /\ low # high /\ high - h = low
             /\ low \div t = b /\ low % t < h /\ high \div t = b /\ ~(high % t < h)
             /\ (b + 1) * t <= N \div 2
             /\ \A n \in Slots : /\ n \div t \in 0..(Pow2(k - 1) - 1) /\ Offset(n, t) \in 0..(h - 1)
                                 /\ (n \div t = b /\ Offset(n, t) = i) <=> (n = low \/ n = high)
<1> DEFINE t == N \div Pow2(k)
           h == t \div 2
           low == b * t + i
           high == low + h
           P == Pow2(k - 1)
<1>1. t = 2 * h /\ h \in Nat \ {0} /\ N \div 2 = P * t /\ P \in Nat \ {0}
  BY LevelSizes
<1>2. b \in Nat /\ b <= P - 1 /\ i \in Nat /\ i < h
  BY <1>1
<1> HIDE DEF P, t, h
<1>3. b * t \in Nat /\ b * t + t <= P * t /\ P * t \in Nat /\ t \in Nat /\ t > 0 /\ t * b = b * t
  <2>1. b * t \in Nat /\ P * t \in Nat /\ t \in Nat /\ t > 0 /\ t * b = b * t
    BY <1>1, <1>2, Z3
  <2>2. (P - 1 - b) * t \in Nat /\ (P - 1 - b) * t = P * t - t - b * t
    BY <1>1, <1>2, Z3
  <2>. QED
    BY <2>1, <2>2
<1>4. low \in Slots /\ high \in Slots /\ low # high /\ high - h = low
  BY <1>1, <1>2, <1>3 DEF Slots
<1>5. low \div t = b /\ low % t = i /\ high \div t = b /\ high % t = i + h
  <2>1. i \in 0..(t - 1) /\ i + h \in 0..(t - 1) /\ b \in Int
    BY <1>1, <1>2
  <2>2. low = t * b + i /\ high = t * b + (i + h)
    BY <1>1, <1>2, <1>3
  <2> HIDE DEF low, high
  <2>3. (t * b + i) \div t = b /\ (t * b + i) % t = i
    BY <1>3, <2>1, DivUnique
  <2>4. (t * b + (i + h)) \div t = b /\ (t * b + (i + h)) % t = i + h
    BY <1>3, <2>1, DivUnique
  <2>. QED
    BY <2>2, <2>3, <2>4
<1>6. (b + 1) * t <= N \div 2
  <2>1. (b + 1) * t = b * t + t
    BY <1>2, <1>3
  <2>. QED
    BY <1>1, <1>3, <2>1
<1>7. ASSUME NEW n \in Slots
      PROVE  /\ n \div t \in 0..(P - 1) /\ Offset(n, t) \in 0..(h - 1)
             /\ (n \div t = b /\ Offset(n, t) = i) <=> (n = low \/ n = high)
  <2>1. n \in Int /\ n \div t \in Int /\ n % t \in 0..(t - 1) /\ n = t * (n \div t) + (n % t)
    BY <1>3, DivMod DEF Slots
  <2>2. n \div t \in 0..(P - 1)
    BY LanesOfBlock DEF P, t
  <2>3. Offset(n, t) \in 0..(h - 1)
    BY <1>1, <2>1 DEF Offset, h
  <2>4. ASSUME n = low \/ n = high PROVE n \div t = b /\ Offset(n, t) = i
    <3> HIDE DEF low, high
    <3>1. n \div t = b /\ n % t \in {i, i + h}
      BY <1>5, <2>4
    <3>. QED
      BY <1>1, <1>2, <3>1 DEF Offset, h
  <2>5. ASSUME n \div t = b, Offset(n, t) = i PROVE n = low \/ n = high
    <3>1. n % t = i \/ n % t = i + h
      BY <1>1, <1>2, <2>1, <2>5 DEF Offset, h
    <3>. QED
      BY <1>1, <1>2, <1>3, <2>1, <2>5, <3>1
  <2>. QED
    BY <2>2, <2>3, <2>4, <2>5
<1>8. low % t < h /\ ~(high % t < h)
  BY <1>1, <1>2, <1>5
<1>. QED
  BY <1>4, <1>5, <1>6, <1>7, <1>8 DEF t, h, P

\* Slot n is written once butterfly i of block b is the next.
Visited(n, t, b, i) == n \div t < b \/ (n \div t = b /\ Offset(n, t) < i)

\* f on its way from z to y; a fresh one has read its source elsewhere.
InPlace(f, z, y, t, b, i, fresh) ==
  \A n \in Slots : /\ Visited(n, t, b, i) => f[n] = At(y, n)
                   /\ ~Visited(n, t, b, i) /\ ~fresh => f[n] = At(z, n)

\* The two slots of a butterfly are not written before it, and after it the
\* loops go on where they should.
LEMMA VisitedStep ==
  ASSUME NEW k \in 1..(LOGN - 1), NEW b \in 0..(Pow2(k - 1) - 1),
         NEW i \in 0..((N \div Pow2(k)) \div 2 - 1)
  PROVE  LET t == N \div Pow2(k)
             h == t \div 2
             low == b * t + i
             high == low + h
             Now(n) == Visited(n, t, b, i) \/ n = low \/ n = high
         IN  /\ ~Visited(low, t, b, i) /\ ~Visited(high, t, b, i)
             /\ i + 1 < h => \A n \in Slots : Visited(n, t, b, i + 1) <=> Now(n)
             /\ ~(i + 1 < h) => \A n \in Slots : Visited(n, t, b + 1, 0) <=> Now(n)
             /\ ~(i + 1 < h) /\ ~(b + 1 < Pow2(k - 1)) => \A n \in Slots : Now(n)
             /\ \A n \in Slots : ~Visited(n, t, 0, 0)
<1> DEFINE t == N \div Pow2(k)
           h == t \div 2
           low == b * t + i
           high == low + h
           P == Pow2(k - 1)
           Now(n) == Visited(n, t, b, i) \/ n = low \/ n = high
<1>1. /\ low \in Slots /\ high \in Slots
      /\ \A n \in Slots : /\ n \div t \in 0..(P - 1) /\ Offset(n, t) \in 0..(h - 1)
                          /\ (n \div t = b /\ Offset(n, t) = i) <=> (n = low \/ n = high)
  BY Pair
<1>2. t = 2 * h /\ h \in Nat \ {0} /\ P \in Nat \ {0}
  BY LevelSizes
<1>3. b \in Nat /\ b <= P - 1 /\ i \in Nat /\ i < h
  BY <1>2
<1> HIDE DEF P, t, h, low, high
<1>4. ~Visited(low, t, b, i) /\ ~Visited(high, t, b, i)
  BY <1>1, <1>3 DEF Visited
<1>5. ASSUME NEW n \in Slots
      PROVE  /\ i + 1 < h => (Visited(n, t, b, i + 1) <=> Now(n))
             /\ ~(i + 1 < h) => (Visited(n, t, b + 1, 0) <=> Now(n))
             /\ ~(i + 1 < h) /\ ~(b + 1 < P) => Now(n)
             /\ ~Visited(n, t, 0, 0)
  <2> DEFINE c == n \div t
             o == Offset(n, t)
  <2>1. c \in 0..(P - 1) /\ o \in 0..(h - 1) /\ ((c = b /\ o = i) <=> (n = low \/ n = high))
    BY <1>1
  <2>2. \A e, f : Visited(n, t, e, f) <=> c < e \/ (c = e /\ o < f)
    BY DEF Visited
  <2> HIDE DEF c, o
  <2>3. Now(n) <=> c < b \/ (c = b /\ o < i) \/ (c = b /\ o = i)
    BY <2>1, <2>2
  <2> HIDE DEF Now
  <2>4. i + 1 < h => (Visited(n, t, b, i + 1) <=> Now(n))
    BY <1>2, <1>3, <2>1, <2>2, <2>3
  <2>5. ~(i + 1 < h) => (Visited(n, t, b + 1, 0) <=> Now(n))
    BY <1>2, <1>3, <2>1, <2>2, <2>3
  <2>6. ~(i + 1 < h) /\ ~(b + 1 < P) => Now(n)
    BY <1>2, <1>3, <2>1, <2>2, <2>3
  <2>7. ~Visited(n, t, 0, 0)
    BY <1>2, <1>3, <2>1, <2>2
  <2>. QED
    BY <2>4, <2>5, <2>6, <2>7
<1> HIDE DEF Now
<1>6. /\ ~Visited(low, t, b, i) /\ ~Visited(high, t, b, i)
      /\ i + 1 < h => \A n \in Slots : Visited(n, t, b, i + 1) <=> Now(n)
      /\ ~(i + 1 < h) => \A n \in Slots : Visited(n, t, b + 1, 0) <=> Now(n)
      /\ ~(i + 1 < h) /\ ~(b + 1 < P) => \A n \in Slots : Now(n)
      /\ \A n \in Slots : ~Visited(n, t, 0, 0)
  BY <1>4, <1>5
<1>. QED
  BY <1>6 DEF t, h, low, high, P, Now

\* A level begins with nothing written,
LEMMA InPlaceStart ==
  ASSUME NEW k \in 1..(LOGN - 1), NEW f, NEW z, NEW y, NEW fresh \in BOOLEAN, fresh \/ Holds(f, z)
  PROVE  InPlace(f, z, y, N \div Pow2(k), 0, 0, fresh)
<1> DEFINE t == N \div Pow2(k)
<1>1. 0 \in 0..(Pow2(k - 1) - 1) /\ 0 \in 0..(t \div 2 - 1)
  BY LevelSizes
<1>2. \A n \in Slots : ~Visited(n, t, 0, 0)
  BY <1>1, VisitedStep
<1>. QED
  BY <1>2 DEF InPlace, Holds

\* a butterfly reads what the level began with,
LEMMA InPlaceReads ==
  ASSUME NEW k \in 1..(LOGN - 1), NEW b \in 0..(Pow2(k - 1) - 1),
         NEW i \in 0..((N \div Pow2(k)) \div 2 - 1),
         NEW f, NEW z, NEW y, InPlace(f, z, y, N \div Pow2(k), b, i, FALSE)
  PROVE  LET low == b * (N \div Pow2(k)) + i
             high == low + (N \div Pow2(k)) \div 2
         IN  f[low] = At(z, low) /\ f[high] = At(z, high)
<1> DEFINE t == N \div Pow2(k)
           low == b * t + i
           high == low + t \div 2
<1>1. low \in Slots /\ high \in Slots
  BY Pair
<1>2. ~Visited(low, t, b, i) /\ ~Visited(high, t, b, i)
  BY VisitedStep
<1> HIDE DEF low, high
<1>3. f[low] = At(z, low) /\ f[high] = At(z, high)
  BY <1>1, <1>2 DEF InPlace
<1>. QED
  BY <1>3 DEF low, high

\* and leaves its two slots written.
LEMMA InPlaceStep ==
  ASSUME NEW k \in 1..(LOGN - 1), NEW b \in 0..(Pow2(k - 1) - 1),
         NEW i \in 0..((N \div Pow2(k)) \div 2 - 1),
         NEW f, NEW g, NEW z, NEW y, NEW fresh \in BOOLEAN,
         InPlace(f, z, y, N \div Pow2(k), b, i, fresh),
         LET low == b * (N \div Pow2(k)) + i
             high == low + (N \div Pow2(k)) \div 2
         IN  \A n \in Slots : g[n] = IF n = low \/ n = high THEN At(y, n) ELSE f[n]
  PROVE  LET t == N \div Pow2(k)
         IN  /\ i + 1 < t \div 2 => InPlace(g, z, y, t, b, i + 1, fresh)
             /\ ~(i + 1 < t \div 2) => InPlace(g, z, y, t, b + 1, 0, fresh)
             /\ ~(i + 1 < t \div 2) /\ ~(b + 1 < Pow2(k - 1)) => Holds(g, y)
<1> DEFINE t == N \div Pow2(k)
           h == t \div 2
           low == b * t + i
           high == low + h
           Now(n) == Visited(n, t, b, i) \/ n = low \/ n = high
<1>1. /\ i + 1 < h => \A n \in Slots : Visited(n, t, b, i + 1) <=> Now(n)
      /\ ~(i + 1 < h) => \A n \in Slots : Visited(n, t, b + 1, 0) <=> Now(n)
      /\ ~(i + 1 < h) /\ ~(b + 1 < Pow2(k - 1)) => \A n \in Slots : Now(n)
  BY VisitedStep
<1>2. ASSUME NEW n \in Slots
      PROVE  (Now(n) => g[n] = At(y, n)) /\ (~Now(n) /\ ~fresh => g[n] = At(z, n))
  <2>1. g[n] = IF n = low \/ n = high THEN At(y, n) ELSE f[n]
    OBVIOUS
  <2> HIDE DEF low, high, t
  <2>2. /\ Visited(n, t, b, i) => f[n] = At(y, n)
        /\ ~Visited(n, t, b, i) /\ ~fresh => f[n] = At(z, n)
    BY DEF InPlace, t
  <2>. QED
    BY <2>1, <2>2
<1> HIDE DEF Now, h
<1>3. i + 1 < h => InPlace(g, z, y, t, b, i + 1, fresh)
  BY <1>1, <1>2 DEF InPlace
<1>4. ~(i + 1 < h) => InPlace(g, z, y, t, b + 1, 0, fresh)
  BY <1>1, <1>2 DEF InPlace
<1>5. ~(i + 1 < h) /\ ~(b + 1 < Pow2(k - 1)) => Holds(g, y)
  BY <1>1, <1>2 DEF Holds
<1>. QED
  BY <1>3, <1>4, <1>5 DEF h

\* The twiddle of a block.
LEMMA TwiddleType ==
  ASSUME NEW k \in 1..(LOGN - 1), NEW b \in 0..(Pow2(k - 1) - 1)
  PROVE  LET e == DELTA[Pow2(k) + b]
         IN  /\ e.re \in Int /\ e.im \in Int
             /\ e.re * e.re + e.im * e.im <= (DeltaOne + 2) * (DeltaOne + 2)
BY FftAssumption

\* A butterfly computes its two lanes of the level as fft_conv's function has
\* them,
LEMMA ForwardLanes ==
  ASSUME NEW k \in 1..(LOGN - 1), NEW b \in 0..(Pow2(k - 1) - 1),
         NEW i \in 0..((N \div Pow2(k)) \div 2 - 1), NEW z \in Complex
  PROVE  LET t == N \div Pow2(k)
             low == b * t + i
             high == low + t \div 2
             y == FftLevel(z, Pow2(k), t)
             twisted == Times(At(z, high), DELTA[Pow2(k) + b])
         IN  /\ Truncated(Halved(Plus(Shl(At(z, low)), twisted))) = At(y, low)
             /\ Truncated(Halved(Minus(Shl(At(z, low)), twisted))) = At(y, high)
<1> DEFINE t == N \div Pow2(k)
           h == t \div 2
           low == b * t + i
           high == low + h
           y == FftLevel(z, Pow2(k), t)
           e == DELTA[Pow2(k) + b]
           tre == z.re[high] * e.re - z.im[high] * e.im
           tim == z.re[high] * e.im + z.im[high] * e.re
<1>1. /\ low \in Slots /\ high \in Slots /\ high - h = low
      /\ low \div t = b /\ low % t < h /\ high \div t = b /\ ~(high % t < h)
  BY Pair
<1>2. e.re \in Int /\ e.im \in Int
  BY TwiddleType
<1>3. z.re[low] \in Int /\ z.im[low] \in Int /\ z.re[high] \in Int /\ z.im[high] \in Int
  BY <1>1 DEF Complex
<1> HIDE DEF low, high, t, h
<1>4. /\ y.re[low] = Fold(z.re[low], z.re[low + h] * e.re - z.im[low + h] * e.im, 1)
      /\ y.im[low] = Fold(z.im[low], z.re[low + h] * e.im + z.im[low + h] * e.re, 1)
      /\ y.re[high] = Fold(z.re[high - h], tre, -1)
      /\ y.im[high] = Fold(z.im[high - h], tim, -1)
  <2>1. y = [re |-> [x \in Slots |->
                 IF x % t < h THEN Fold(z.re[x], z.re[x + h] * DELTA[Pow2(k) + (x + h) \div t].re
                                                 - z.im[x + h] * DELTA[Pow2(k) + (x + h) \div t].im, 1)
                 ELSE Fold(z.re[x - h], z.re[x] * DELTA[Pow2(k) + x \div t].re
                                        - z.im[x] * DELTA[Pow2(k) + x \div t].im, -1)],
             im |-> [x \in Slots |->
                 IF x % t < h THEN Fold(z.im[x], z.re[x + h] * DELTA[Pow2(k) + (x + h) \div t].im
                                                 + z.im[x + h] * DELTA[Pow2(k) + (x + h) \div t].re, 1)
                 ELSE Fold(z.im[x - h], z.re[x] * DELTA[Pow2(k) + x \div t].im
                                        + z.im[x] * DELTA[Pow2(k) + x \div t].re, -1)]]
    BY DEF FftLevel, h
  <2>2. low + h = high /\ DELTA[Pow2(k) + (low + h) \div t] = e /\ DELTA[Pow2(k) + high \div t] = e
    BY <1>1 DEF high
  <2> HIDE DEF y, e
  <2>. QED
    BY <1>1, <2>1, <2>2
<1>5. low + h = high
  BY DEF high
<1>6. /\ y.re[low] = Fold(z.re[low], tre, 1) /\ y.im[low] = Fold(z.im[low], tim, 1)
      /\ y.re[high] = Fold(z.re[low], tre, -1) /\ y.im[high] = Fold(z.im[low], tim, -1)
  BY <1>1, <1>4, <1>5
<1>7. tre \in Int /\ tim \in Int
  BY <1>2, <1>3, Z3
<1> HIDE DEF y
<1>8. Times(At(z, high), e) = [re |-> tre, im |-> tim]
  BY DEF Times, At
<1> HIDE DEF tre, tim, e
<1> DEFINE a == z.re[low]
           c == z.im[low]
           sum == [re |-> a * DeltaOne + tre, im |-> c * DeltaOne + tim]
           dif == [re |-> a * DeltaOne - tre, im |-> c * DeltaOne - tim]
<1>9. /\ Plus(Shl(At(z, low)), Times(At(z, high), e)) = sum
      /\ Minus(Shl(At(z, low)), Times(At(z, high), e)) = dif
  BY <1>8 DEF Plus, Minus, Shl, At
<1>10. DeltaOne \in Nat /\ a \in Int /\ c \in Int
  BY <1>3, WordSizes
<1>11. /\ Fold(a, tre, 1) = AsI32(AsI64(sum.re) \div (2 * DeltaOne))
       /\ Fold(c, tim, 1) = AsI32(AsI64(sum.im) \div (2 * DeltaOne))
       /\ Fold(a, tre, -1) = AsI32(AsI64(dif.re) \div (2 * DeltaOne))
       /\ Fold(c, tim, -1) = AsI32(AsI64(dif.im) \div (2 * DeltaOne))
  <2> HIDE DEF a, c
  <2>1. \A x, v \in Int : /\ Fold(x, v, 1) = AsI32(AsI64(x * DeltaOne + v) \div (2 * DeltaOne))
                          /\ Fold(x, v, -1) = AsI32(AsI64(x * DeltaOne - v) \div (2 * DeltaOne))
    <3>1. SUFFICES ASSUME NEW x \in Int, NEW v \in Int
                   PROVE  x * DeltaOne + 1 * v = x * DeltaOne + v /\ x * DeltaOne + (-1) * v = x * DeltaOne - v
      BY DEF Fold
    <3>2. x * DeltaOne \in Int
      BY <1>10, Z3
    <3>. QED
      BY <3>2
  <2>. QED
    BY <1>7, <1>10, <2>1
<1>12. Truncated(Halved(sum)) = At(y, low)
  BY <1>6, <1>11 DEF Truncated, Halved, Shr, At
<1>13. Truncated(Halved(dif)) = At(y, high)
  BY <1>6, <1>11 DEF Truncated, Halved, Shr, At
<1>14. /\ Truncated(Halved(Plus(Shl(At(z, low)), Times(At(z, high), e)))) = At(y, low)
       /\ Truncated(Halved(Minus(Shl(At(z, low)), Times(At(z, high), e)))) = At(y, high)
  BY <1>9, <1>12, <1>13
<1>. QED
  BY <1>14 DEF t, h, low, high, e, y

\* without overflow if the lanes are short.
LEMMA ButterflyWords ==
  ASSUME NEW r \in Nat, r + 4 < DeltaOne,
         NEW a \in Int, NEW b \in Int, a * a + b * b <= r * r,
         NEW c \in Int, NEW d \in Int, c * c + d * d <= r * r,
         NEW v \in Int, NEW w \in Int, v * v + w * w <= (DeltaOne + 2) * (DeltaOne + 2)
  PROVE  LET x == c * v - d * w
             y == c * w + d * v
         IN  \A f \in {<<a * DeltaOne + x, b * DeltaOne + y>>, <<a * DeltaOne - x, b * DeltaOne - y>>} :
               /\ Fits(WideSize, [re |-> x, im |-> y])
               /\ Fits(WideSize, [re |-> f[1], im |-> f[2]])
               /\ Fits(WordSize, Halved([re |-> f[1], im |-> f[2]]))
<1> DEFINE D == DeltaOne
           x == c * v - d * w
           y == c * w + d * v
<1>0. D \in Nat /\ D > 0 /\ r + 4 <= D
  BY WordSizes
<1>1. D \in Nat /\ D > 0 /\ WordSize \div 2 = D /\ WideSize \div 2 = 2 * D * D /\ 2 * D * D \in Nat
  BY WordSizes
<1>2. /\ x \in Int /\ y \in Int
      /\ \A z \in {x, y, a * D + x, b * D + y, a * D - x, b * D - y} :
           z \in Int /\ -(2 * D * D) < z /\ z < 2 * D * D
      /\ \A z \in {<<a * D + x, b * D + y>>, <<a * D - x, b * D - y>>} :
           (z[1] \div (2 * D)) * (z[1] \div (2 * D)) + (z[2] \div (2 * D)) * (z[2] \div (2 * D))
             <= (r + 4) * (r + 4)
  BY <1>0, ShortButterfly
<1> HIDE DEF x, y
<1>3. ASSUME NEW f \in Int, NEW g \in Int, -(2 * D * D) < f, f < 2 * D * D, -(2 * D * D) < g, g < 2 * D * D
      PROVE  Fits(WideSize, [re |-> f, im |-> g])
  BY <1>1, <1>3 DEF Fits
<1>4. ASSUME NEW f \in Int, NEW g \in Int, -(2 * D * D) < f, f < 2 * D * D, -(2 * D * D) < g, g < 2 * D * D,
             (f \div (2 * D)) * (f \div (2 * D)) + (g \div (2 * D)) * (g \div (2 * D)) <= (r + 4) * (r + 4)
      PROVE  Fits(WordSize, Halved([re |-> f, im |-> g]))
  <2>1. AsI64(f) = f /\ AsI64(g) = g
    <3>1. -(2 * DeltaOne * DeltaOne) <= f /\ f < 2 * DeltaOne * DeltaOne
          /\ -(2 * DeltaOne * DeltaOne) <= g /\ g < 2 * DeltaOne * DeltaOne
      BY <1>1, <1>4 DEF D
    <3>. QED
      BY <3>1, AsI64Type
  <2> DEFINE s == f \div (2 * D)
             t == g \div (2 * D)
  <2>2. Halved([re |-> f, im |-> g]) = [re |-> s, im |-> t]
    BY <2>1 DEF Halved, Shr, D
  <2>3. 2 * D \in Nat /\ 2 * D > 0
    BY <1>1
  <2>4. s \in Int /\ t \in Int
    BY <1>4, <2>3, DivMod
  <2>5. s * s + t * t <= (r + 4) * (r + 4) /\ r + 4 \in Nat
    BY <1>4
  <2> HIDE DEF s, t
  <2>6. -(r + 4) <= s /\ s <= r + 4 /\ -(r + 4) <= t /\ t <= r + 4
    BY <2>4, <2>5, RootBound
  <2>7. r + 4 < D
    BY DEF D
  <2>. QED
    BY <1>1, <2>2, <2>4, <2>6, <2>7 DEF Fits
<1>5. Fits(WideSize, [re |-> x, im |-> y])
  BY <1>2, <1>3
<1>6. /\ Fits(WideSize, [re |-> a * D + x, im |-> b * D + y])
      /\ Fits(WordSize, Halved([re |-> a * D + x, im |-> b * D + y]))
  BY <1>2, <1>3, <1>4
<1>7. /\ Fits(WideSize, [re |-> a * D - x, im |-> b * D - y])
      /\ Fits(WordSize, Halved([re |-> a * D - x, im |-> b * D - y]))
  BY <1>2, <1>3, <1>4
<1>. QED
  BY <1>5, <1>6, <1>7 DEF x, y

\* On a level of short lanes, the words of a butterfly are those of its lanes:
\* no sum wraps.
LEMMA ForwardWords ==
  ASSUME NEW p \in [re : Int, im : Int], NEW q \in [re : Int, im : Int], NEW e \in [re : Int, im : Int],
         NEW r \in Nat, r + 4 < DeltaOne,
         p.re * p.re + p.im * p.im <= r * r, q.re * q.re + q.im * q.im <= r * r,
         e.re * e.re + e.im * e.im <= (DeltaOne + 2) * (DeltaOne + 2)
  PROVE  LET twisted == Times(q, e)
             sum == Plus(Shl(p), twisted)
             dif == Minus(Shl(p), twisted)
         IN  /\ \A x \in {twisted, sum, dif} : Fits(WideSize, x)
             /\ \A x \in {sum, dif} : Fits(WordSize, Halved(x))
<1> DEFINE x == q.re * e.re - q.im * e.im
           y == q.re * e.im + q.im * e.re
           sum == [re |-> p.re * DeltaOne + x, im |-> p.im * DeltaOne + y]
           dif == [re |-> p.re * DeltaOne - x, im |-> p.im * DeltaOne - y]
<1>1. \A f \in {<<p.re * DeltaOne + x, p.im * DeltaOne + y>>, <<p.re * DeltaOne - x, p.im * DeltaOne - y>>} :
        /\ Fits(WideSize, [re |-> x, im |-> y])
        /\ Fits(WideSize, [re |-> f[1], im |-> f[2]])
        /\ Fits(WordSize, Halved([re |-> f[1], im |-> f[2]]))
  BY ButterflyWords
<1>2. Times(q, e) = [re |-> x, im |-> y]
  BY DEF Times
<1>3. Plus(Shl(p), Times(q, e)) = sum /\ Minus(Shl(p), Times(q, e)) = dif
  BY <1>2 DEF Plus, Minus, Shl
<1> HIDE DEF x, y
<1>4. Fits(WideSize, [re |-> x, im |-> y]) /\ Fits(WideSize, sum) /\ Fits(WideSize, dif)
  BY <1>1
<1>5. Fits(WordSize, Halved(sum)) /\ Fits(WordSize, Halved(dif))
  BY <1>1
<1> HIDE DEF sum, dif
<1>. QED
  BY <1>2, <1>3, <1>4, <1>5

\* The half of a sum of two words.
LEMMA HalfOfSum ==
  ASSUME NEW x \in Words, NEW y \in Words
  PROVE  AsI64(x + y) = x + y
<1>1. DeltaOne \in Nat /\ DeltaOne > 0
  BY WordSizes
<1>2. x \in Int /\ y \in Int /\ -(2 * DeltaOne) <= x + y /\ x + y < 2 * DeltaOne
  BY <1>1 DEF Words
<1>3. 2 * DeltaOne <= 2 * DeltaOne * DeltaOne /\ 2 * DeltaOne * DeltaOne \in Int
  BY <1>1, Z3
<1>4. x + y \in Int /\ -(2 * DeltaOne * DeltaOne) <= x + y /\ x + y < 2 * DeltaOne * DeltaOne
  BY <1>1, <1>2, <1>3
<1>. QED
  BY <1>4, AsI64Type

\* A butterfly of the inverse transform, before its result is cut to words.
LEMMA InverseLanes ==
  ASSUME NEW k \in 1..(LOGN - 1), NEW b \in 0..(Pow2(k - 1) - 1),
         NEW i \in 0..((N \div Pow2(k)) \div 2 - 1), NEW z \in WordLanes
  PROVE  LET t == N \div Pow2(k)
             low == b * t + i
             high == low + t \div 2
             y == InvLevel(z, Pow2(k), t)
             gap == Times(Minus(At(z, low), At(z, high)), Conj(DELTA[Pow2(k) + b]))
         IN  /\ Shr(Plus(At(z, low), At(z, high)), 2) = At(y, low)
             /\ Halved(gap) = At(y, high)
<1> DEFINE t == N \div Pow2(k)
           h == t \div 2
           low == b * t + i
           high == low + h
           y == InvLevel(z, Pow2(k), t)
           e == DELTA[Pow2(k) + b]
           dre == z.re[low] - z.re[high]
           dim == z.im[low] - z.im[high]
<1>1. /\ low \in Slots /\ high \in Slots /\ high - h = low
      /\ low \div t = b /\ low % t < h /\ high \div t = b /\ ~(high % t < h)
  BY Pair
<1>2. e.re \in Int /\ e.im \in Int
  BY TwiddleType
<1>3. /\ z.re[low] \in Words /\ z.im[low] \in Words /\ z.re[high] \in Words /\ z.im[high] \in Words
  BY <1>1 DEF WordLanes
<1> HIDE DEF low, high, t, h
<1>4. /\ y.re[low] = (z.re[low] + z.re[high]) \div 2 /\ y.im[low] = (z.im[low] + z.im[high]) \div 2
      /\ y.re[high] = ConjRe(dre, dim, e) /\ y.im[high] = ConjIm(dre, dim, e)
  <2>1. y = [re |-> [x \in Slots |-> IF x % t < h THEN (z.re[x] + z.re[x + h]) \div 2
                     ELSE ConjRe(z.re[x - h] - z.re[x], z.im[x - h] - z.im[x], DELTA[Pow2(k) + x \div t])],
             im |-> [x \in Slots |-> IF x % t < h THEN (z.im[x] + z.im[x + h]) \div 2
                     ELSE ConjIm(z.re[x - h] - z.re[x], z.im[x - h] - z.im[x], DELTA[Pow2(k) + x \div t])]]
    BY DEF InvLevel, h
  <2>2. low + h = high /\ DELTA[Pow2(k) + high \div t] = e
    BY <1>1 DEF high
  <2> HIDE DEF y, e
  <2>. QED
    BY <1>1, <2>1, <2>2
<1>5. Words \subseteq Int
  BY WordSizes DEF Words
<1>6. dre \in Int /\ dim \in Int
  <2>1. z.re[low] \in Int /\ z.im[low] \in Int /\ z.re[high] \in Int /\ z.im[high] \in Int
    BY <1>3, <1>5
  <2>. QED
    BY <2>1
<1>7. Minus(At(z, low), At(z, high)) = [re |-> dre, im |-> dim]
  BY DEF Minus, At
<1>8. AsI64(z.re[low] + z.re[high]) = z.re[low] + z.re[high] /\ AsI64(z.im[low] + z.im[high]) = z.im[low] + z.im[high]
  BY <1>3, HalfOfSum
<1> HIDE DEF y
<1>9. Shr(Plus(At(z, low), At(z, high)), 2) = At(y, low)
  BY <1>4, <1>8 DEF Shr, Plus, At
<1> HIDE DEF dre, dim, e
<1>10. Times([re |-> dre, im |-> dim], Conj(e)) = [re |-> dre * e.re + dim * e.im, im |-> dim * e.re - dre * e.im]
  <2>1. \A p, q, v, w \in Int : /\ p * v - q * (-w) = p * v + q * w
                                /\ p * (-w) + q * v = q * v - p * w
    BY Z3
  <2>2. /\ dre * e.re - dim * (-e.im) = dre * e.re + dim * e.im
        /\ dre * (-e.im) + dim * e.re = dim * e.re - dre * e.im
    BY <1>2, <1>6, <2>1
  <2>. QED
    BY <2>2 DEF Times, Conj
<1>11. Halved([re |-> dre * e.re + dim * e.im, im |-> dim * e.re - dre * e.im]) = At(y, high)
  BY <1>4 DEF Halved, Shr, ConjRe, ConjIm, At
<1>12. Halved(Times(Minus(At(z, low), At(z, high)), Conj(e))) = At(y, high)
  BY <1>7, <1>10, <1>11
<1>. QED
  BY <1>9, <1>12 DEF t, h, low, high, e, y

\* What a level of the inverse transform makes is cut to words,
LEMMA WrappedLanes ==
  ASSUME NEW z, NEW n \in Slots
  PROVE  At(Wrapped(z), n) = Truncated(At(z, n))
BY DEF Wrapped, At, Truncated

\* and so are lanes of words,
LEMMA InvLevelType ==
  ASSUME NEW z \in WordLanes, NEW k \in 1..(LOGN - 1)
  PROVE  Wrapped(InvLevel(z, Pow2(k), N \div Pow2(k))) \in WordLanes
<1> DEFINE t == N \div Pow2(k)
           h == t \div 2
           y == InvLevel(z, Pow2(k), t)
<1>1. Words \subseteq Int /\ DeltaOne \in Nat /\ 2 * DeltaOne \in Nat /\ 2 * DeltaOne > 0
  BY WordSizes DEF Words
<1>2. ASSUME NEW x \in Slots PROVE y.re[x] \in Int /\ y.im[x] \in Int
  <2> DEFINE e == DELTA[Pow2(k) + x \div t]
  <2>1. x \div t \in 0..(Pow2(k - 1) - 1) /\ (x % t < h => x + h \in Slots) /\ (~(x % t < h) => x - h \in Slots)
    BY LanesOfBlock
  <2>2. e.re \in Int /\ e.im \in Int
    BY <2>1, TwiddleType
  <2>3. /\ y.re[x] = IF x % t < h THEN (z.re[x] + z.re[x + h]) \div 2
                     ELSE ConjRe(z.re[x - h] - z.re[x], z.im[x - h] - z.im[x], e)
        /\ y.im[x] = IF x % t < h THEN (z.im[x] + z.im[x + h]) \div 2
                     ELSE ConjIm(z.re[x - h] - z.re[x], z.im[x - h] - z.im[x], e)
    BY DEF InvLevel
  <2>4. \A n \in Slots : z.re[n] \in Int /\ z.im[n] \in Int
    BY <1>1 DEF WordLanes
  <2> HIDE DEF y, e, h
  <2>5. CASE x % t < h
    <3>1. z.re[x] + z.re[x + h] \in Int /\ z.im[x] + z.im[x + h] \in Int
      BY <2>1, <2>4, <2>5
    <3>2. (z.re[x] + z.re[x + h]) \div 2 \in Int /\ (z.im[x] + z.im[x + h]) \div 2 \in Int
      BY <3>1
    <3>. QED
      BY <2>3, <2>5, <3>2
  <2>6. CASE ~(x % t < h)
    <3> DEFINE p == z.re[x - h] - z.re[x]
               q == z.im[x - h] - z.im[x]
    <3>1. p \in Int /\ q \in Int
      BY <2>1, <2>4, <2>6
    <3> HIDE DEF p, q
    <3>2. p * e.re + q * e.im \in Int /\ q * e.re - p * e.im \in Int
      BY <2>2, <3>1, Z3
    <3>3. AsI64(p * e.re + q * e.im) \in Int /\ AsI64(q * e.re - p * e.im) \in Int
      BY <3>2, AsI64Type
    <3>4. ConjRe(p, q, e) \in Int /\ ConjIm(p, q, e) \in Int
      BY <1>1, <3>3, DivMod DEF ConjRe, ConjIm
    <3>. QED
      BY <2>3, <2>6, <3>4 DEF p, q
  <2>. QED
    BY <2>5, <2>6
<1> HIDE DEF y
<1>3. \A x \in Slots : AsI32(y.re[x]) \in Words /\ AsI32(y.im[x]) \in Words
  BY <1>1, <1>2, AsI32Type DEF Words
<1>4. Wrapped(y) \in WordLanes
  BY <1>3 DEF Wrapped, WordLanes
<1>. QED
  BY <1>4 DEF y, t

\* from the last level, whose M is N/2, to the first.
LEMMA LevelsOfInverse ==
  ASSUME NEW z \in WordLanes
  PROVE  LET before == InvLevels(z)
         IN  /\ before[LOGN - 1] = z
             /\ \A k \in 1..(LOGN - 1) : before[k] \in WordLanes
             /\ \A k \in 2..(LOGN - 1) :
                   before[k - 1] = Wrapped(InvLevel(before[k], Pow2(k), N \div Pow2(k)))
<1> DEFINE top == LOGN - 1
           Level(x, k) == Wrapped(InvLevel(x, Pow2(k), N \div Pow2(k)))
           P(s) == s = [k \in 1..(LOGN - 1) |-> IF k = LOGN - 1 THEN z ELSE Level(s[k + 1], k + 1)]
           D == [x \in WordLanes \X Nat |-> IF x[2] < top - 1 THEN Level(x[1], top - x[2]) ELSE x[1]]
           before == CHOOSE s : P(s)
<1>1. top \in Nat /\ top >= 1 /\ top - 1 \in Nat
  BY RingSizes
<1>2. ASSUME NEW x \in WordLanes, NEW k \in 1..top PROVE Level(x, k) \in WordLanes
  BY InvLevelType
<1>3. InvLevels(z) = before
  BY DEF InvLevels, Level
<1> HIDE DEF Level
<1>4. /\ D \in [WordLanes \X Nat -> WordLanes]
      /\ \A x \in WordLanes, k \in 0..(top - 2) : D[<<x, k>>] = Level(x, top - k)
  <2>1. ASSUME NEW x \in WordLanes, NEW k \in Nat, k < top - 1 PROVE Level(x, top - k) \in WordLanes
    <3>1. top - k \in 1..top
      BY <1>1, <2>1
    <3>. QED
      BY <1>2, <3>1
  <2> HIDE DEF top
  <2>. QED
    BY <1>1, <2>1
<1> HIDE DEF D
<1>5. PICK s \in [0..(top - 1) -> WordLanes] : Follows(s, z, D, top - 1)
  BY <1>1, <1>4, Recursion
<1> DEFINE r == [k \in 1..top |-> s[top - k]]
<1>6. ASSUME NEW k \in 1..top
      PROVE  /\ r[k] \in WordLanes /\ k = top => r[k] = z
             /\ k # top => k + 1 \in 1..top /\ r[k] = Level(r[k + 1], k + 1)
  <2>1. top - k \in 0..(top - 1) /\ r[k] = s[top - k]
    BY <1>1
  <2>2. k = top => r[k] = z
    <3>1. top - top = 0
      BY <1>1
    <3>. QED
      BY <1>5, <2>1, <3>1 DEF Follows
  <2>3. ASSUME k # top PROVE k + 1 \in 1..top /\ r[k] = Level(r[k + 1], k + 1)
    <3>1. k + 1 \in 1..top /\ top - k \in 1..(top - 1) /\ (top - k) - 1 = top - (k + 1)
          /\ top - (k + 1) \in 0..(top - 2) /\ top - (k + 1) \in 0..(top - 1)
          /\ top - (top - (k + 1)) = k + 1
      BY <1>1, <2>3
    <3>2. s[top - k] = D[<<s[top - (k + 1)], top - (k + 1)>>]
      <4>1. s[top - k] = D[<<s[(top - k) - 1], (top - k) - 1>>]
        BY <1>5, <3>1 DEF Follows
      <4>. QED
        BY <3>1, <4>1
    <3>3. s[top - (k + 1)] \in WordLanes /\ r[k + 1] = s[top - (k + 1)]
      BY <1>5, <3>1
    <3>4. D[<<s[top - (k + 1)], top - (k + 1)>>] = Level(s[top - (k + 1)], top - (top - (k + 1)))
      BY <1>4, <3>1, <3>3
    <3> HIDE DEF r
    <3>. QED
      BY <2>1, <3>1, <3>2, <3>3, <3>4
  <2> HIDE DEF r
  <2>. QED
    BY <1>5, <2>1, <2>2, <2>3
<1>7. P(r)
  <2>1. \A k \in 1..top : r[k] = IF k = top THEN z ELSE Level(r[k + 1], k + 1)
    BY <1>6
  <2>2. r = [k \in 1..top |-> r[k]]
    OBVIOUS
  <2> HIDE DEF r
  <2>. QED
    BY <2>1, <2>2
<1> HIDE DEF r
<1>8. P(before)
  <2> HIDE DEF P
  <2>. QED
    BY <1>7
<1> HIDE DEF before
<1>9. \A k \in 1..top : before[k] = IF k = top THEN z ELSE Level(before[k + 1], k + 1)
  BY <1>8
<1>10. \A k \in 2..top : before[k - 1] = Level(before[k], k)
  <2>1. SUFFICES ASSUME NEW k \in 2..top PROVE before[k - 1] = Level(before[k], k)
    OBVIOUS
  <2>2. k - 1 \in 1..top /\ k - 1 # top /\ (k - 1) + 1 = k
    BY <1>1
  <2>. QED
    BY <1>9, <2>2
<1>11. before[top] = z
  BY <1>1, <1>9
<1> DEFINE S == {n \in Nat : n <= top - 1 => before[top - n] \in WordLanes}
<1>12. 0 \in S
  <2>1. top - 0 = top
    BY <1>1
  <2>. QED
    BY <1>11, <2>1
<1>13. ASSUME NEW n \in Nat, n \in S PROVE n + 1 \in S
  <2>1. SUFFICES ASSUME n + 1 <= top - 1 PROVE before[top - (n + 1)] \in WordLanes
    OBVIOUS
  <2>2. top - n \in 2..top /\ top - n \in 1..top /\ (top - n) - 1 = top - (n + 1) /\ n <= top - 1
    BY <1>1, <2>1
  <2>3. before[top - n] \in WordLanes
    BY <1>13, <2>2
  <2>4. before[(top - n) - 1] = Level(before[top - n], top - n)
    BY <1>10, <2>2
  <2>. QED
    BY <1>2, <2>2, <2>3, <2>4
<1> HIDE DEF S
<1>14. Nat \subseteq S
  BY <1>12, <1>13, SetInduction
<1>15. \A k \in 1..top : before[k] \in WordLanes
  <2>1. SUFFICES ASSUME NEW k \in 1..top PROVE before[k] \in WordLanes
    OBVIOUS
  <2>2. top - k \in Nat /\ top - k <= top - 1 /\ top - (top - k) = k
    BY <1>1
  <2>. QED
    BY <1>14, <2>2 DEF S
<1>. QED
  BY <1>3, <1>10, <1>11, <1>15 DEF Level

-----------------------------------------------------------------------------
(***************************************************************************)
(* What the functions compute from arguments x, stage by stage.            *)
(***************************************************************************)

Scale == [w1 |-> C_W1, q00 |-> C_Q00, q01 |-> C_Q01]
Levels(x, a) == FftLevels(x[a], Scale[a], a = "q00")
Final(x, a) == Levels(x, a)[LOGN - 1]
Quotient(x, n) == DivideStep(Final(x, "q01"), Final(x, "w1"), n, Divisor(x.q00)[n])
Divided(x, n) == /\ InRange(Divisor(x.q00)[n])
                 /\ WithinBound(Final(x, "q01"), Final(x, "w1"), n, BoundScale * Divisor(x.q00)[n])
AllQuotients(x) == [re |-> [n \in Slots |-> Quotient(x, n).re], im |-> [n \in Slots |-> Quotient(x, n).im]]
Down(x) == InvLevels(AllQuotients(x))
Result(x) == S0(InvFft(AllQuotients(x)), x.h0)

\* Where a level is.
AtLevel(k) ==
  /\ m = Pow2(k) /\ u \in 0..(Pow2(k - 1) - 1)
  /\ j \in 0..((N \div Pow2(k)) \div 2 - 1)

\* On level k of a forward transform, each lane is still the one that the level
\* began with or already the one that it makes.
ForwardAt(k) ==
  AtLevel(k) /\ InPlace(hat[job], Levels(in, job)[k - 1], Levels(in, job)[k], N \div Pow2(k), u, j, k = 1)

\* The coefficient n of the result is written with the others of its column.
Column(n) == Offset(n, N \div 2)

\* Coefficient n is in the result, and in range.
Written(x, f, n) == Admitted(Result(x)[n]) /\ f[n] = x.h0[n] - 2 * Result(x)[n]

\* The inverse levels go from the last, whose M is N/2, to the first, which goes
\* straight into w0.
InverseAt(k) ==
  /\ AtLevel(k)
  /\ k > 1 => InPlace(hat["q01"], Down(in)[k], Down(in)[k - 1], N \div Pow2(k), u, j, FALSE)
  /\ k = 1 => /\ Holds(hat["q01"], Down(in)[1])
              /\ \A n \in Coeffs : Column(n) < j => Written(in, w0, n)

Types ==
  /\ in \in Inputs /\ job \in Forward \union {"divide", "inverse"} \union Done
  /\ hat \in [Forward -> [Slots -> [re : Words, im : Words]]]

\* While a transform is computed, those before it are complete.
Forwarding ==
  /\ job \in Forward => in.q00[0] >= 0 /\ \E k \in 1..(LOGN - 1) : ForwardAt(k)
  /\ job \in {"q00", "q01", "divide"} => Holds(hat["w1"], Final(in, "w1"))
  /\ job \in {"q01", "divide"} => Holds(hat["q00"], Final(in, "q00"))

\* The divide loop has the quotients up to its column.
Dividing ==
  job = "divide" =>
    /\ in.q00[0] >= 0 /\ u \in Slots /\ m = 2 /\ j = 0
    /\ \A n \in Slots : IF n < u THEN Divided(in, n) /\ hat["q01"][n] = Quotient(in, n)
                                 ELSE hat["q01"][n] = At(Final(in, "q01"), n)

AllDivided == in.q00[0] >= 0 /\ \A n \in Slots : Divided(in, n)

Inverting == job = "inverse" => AllDivided /\ \E k \in 1..(LOGN - 1) : InverseAt(k)

\* What the end says of the arguments.
Outcome ==
  /\ job = "ok" => AllDivided /\ w0 = [n \in Coeffs |-> w0[n]] /\ \A n \in Coeffs : Written(in, w0, n)
  /\ job = "indivisible" => in.q00[0] < 0 \/ \E n \in Slots : ~Divided(in, n)
  /\ job = "outOfRange" => AllDivided /\ \E n \in Coeffs : ~Admitted(Result(in)[n])

\* The inductive invariant of the loops.
LoopInv == Types /\ Forwarding /\ Dividing /\ Inverting /\ Outcome

\* The arguments and their transforms.
LEMMA InputLevels ==
  ASSUME NEW x \in Inputs, NEW a \in Forward
  PROVE  /\ x[a] \in [Coeffs -> Int] /\ x.h0 \in [Coeffs -> Int]
         /\ Scale[a] \in {C_W1, C_Q00, C_Q01} /\ Scale[a] \in Int
         /\ Between(Levels(x, a), x[a], Scale[a], a = "q00")
         /\ \A k \in 0..(LOGN - 1) : /\ DeltaOne - 4 * (LOGN - k) \in Nat
                                     /\ ShortLanes(Levels(x, a)[k], DeltaOne - 4 * (LOGN - k))
<1> DEFINE zf == a = "q00"
<1>1. /\ x.q00 \in [Coeffs -> Int] /\ x.q01 \in [Coeffs -> Int] /\ x.w1 \in [Coeffs -> Int]
      /\ x.h0 \in [Coeffs -> Int]
      /\ Short([x.q00 EXCEPT ![0] = 0], C_Q00) /\ Short(x.q01, C_Q01) /\ Short(x.w1, C_W1)
  BY InputsAssumption
<1>2. /\ x[a] \in [Coeffs -> Int] /\ Scale[a] \in {C_W1, C_Q00, C_Q01}
      /\ Short(IF zf THEN [x[a] EXCEPT ![0] = 0] ELSE x[a], Scale[a])
  <2>1. CASE a = "w1"
    BY <1>1, <2>1 DEF Scale
  <2>2. CASE a = "q00"
    BY <1>1, <2>2 DEF Scale
  <2>3. CASE a = "q01"
    BY <1>1, <2>3 DEF Scale
  <2>. QED
    BY <2>1, <2>2, <2>3 DEF Forward
<1>3. zf \in BOOLEAN
  OBVIOUS
<1>4. Between(FftLevels(x[a], Scale[a], zf), x[a], Scale[a], zf)
  <2> HIDE DEF zf
  <2>. QED
    BY <1>2, <1>3, LevelsOfFft
<1>5. \A k \in 0..(LOGN - 1) : /\ DeltaOne - 4 * (LOGN - k) \in Nat
                               /\ ShortLanes(FftLevels(x[a], Scale[a], zf)[k], DeltaOne - 4 * (LOGN - k))
  <2> HIDE DEF zf
  <2>. QED
    BY <1>2, <1>3, LevelsShort
<1>6. Scale[a] \in Int
  BY <1>2, FftAssumption
<1>. QED
  BY <1>1, <1>2, <1>4, <1>5, <1>6 DEF Levels

\* The lanes of a level of them.
LEMMA LevelFacts ==
  ASSUME NEW x \in Inputs, NEW a \in Forward, NEW k \in 1..(LOGN - 1)
  PROVE  LET z == Levels(x, a)[k - 1]
             y == Levels(x, a)[k]
         IN  /\ z \in Complex /\ y = FftLevel(z, Pow2(k), N \div Pow2(k)) /\ y \in WordLanes
             /\ \A n \in Slots : At(y, n) \in [re : Words, im : Words]
             /\ DeltaOne - 4 * (LOGN - (k - 1)) \in Nat /\ DeltaOne - 4 * (LOGN - (k - 1)) + 4 < DeltaOne
             /\ ShortLanes(z, DeltaOne - 4 * (LOGN - (k - 1)))
<1>1. Between(Levels(x, a), x[a], Scale[a], a = "q00")
  BY InputLevels
<1>2. \A i \in 0..(LOGN - 1) : /\ DeltaOne - 4 * (LOGN - i) \in Nat
                               /\ ShortLanes(Levels(x, a)[i], DeltaOne - 4 * (LOGN - i))
  BY InputLevels
<1>3. k - 1 \in 0..(LOGN - 1) /\ LOGN \in Nat /\ DeltaOne \in Nat
  BY RingSizes, WordSizes
<1>4. Levels(x, a)[k - 1] \in Complex /\ Levels(x, a)[k] = FftLevel(Levels(x, a)[k - 1], Pow2(k), N \div Pow2(k))
  BY <1>1, <1>3 DEF Between
<1>5. Levels(x, a)[k] \in WordLanes
  BY <1>4, FftLevelType
<1>6. DeltaOne - 4 * (LOGN - (k - 1)) \in Nat /\ ShortLanes(Levels(x, a)[k - 1], DeltaOne - 4 * (LOGN - (k - 1)))
  BY <1>2, <1>3
<1>7. DeltaOne - 4 * (LOGN - (k - 1)) + 4 < DeltaOne
  BY <1>3
<1>8. \A n \in Slots : At(Levels(x, a)[k], n) \in [re : Words, im : Words]
  BY <1>5 DEF At, WordLanes
<1>. QED
  BY <1>4, <1>5, <1>6, <1>7, <1>8

\* The first level reads the scaled source.
LEMMA SourceLanes ==
  ASSUME in \in Inputs, job \in Forward, m = 2, NEW n \in Slots
  PROVE  LaneAt(n) = At(Levels(in, job)[0], n)
<1>1. Between(Levels(in, job), in[job], Scale[job], job = "q00")
  BY InputLevels
<1>2. Levels(in, job)[0] = Scaled(in[job], Scale[job], job = "q00")
  BY <1>1 DEF Between
<1>3. n \in Int /\ n + N \div 2 = N \div 2 + n /\ N \div 2 + n # 0
  BY RingSizes DEF Slots
<1>4. At(Levels(in, job)[0], n) =
        [re |-> IF job = "q00" /\ n = 0 THEN 0 ELSE AsI32(AsI64(Scale[job] * in[job][n])),
         im |-> AsI32(AsI64(Scale[job] * in[job][N \div 2 + n]))]
  BY <1>2, <1>3 DEF At, Scaled
<1>5. /\ Source(n) = IF job = "q00" /\ n = 0 THEN 0 ELSE AsI32(AsI64(Scale[job] * in[job][n]))
      /\ Source(N \div 2 + n) = AsI32(AsI64(Scale[job] * in[job][N \div 2 + n]))
  <2>1. CASE job = "w1"
    BY <2>1 DEF Source, Scale
  <2>2. CASE job = "q00"
    BY <1>3, <2>2 DEF Source, Scale
  <2>3. CASE job = "q01"
    BY <2>3 DEF Source, Scale
  <2>. QED
    BY <2>1, <2>2, <2>3 DEF Forward
<1>6. LaneAt(n) = [re |-> Source(n), im |-> Source(N \div 2 + n)]
  BY DEF LaneAt
<1>. QED
  BY <1>4, <1>5, <1>6

\* Where the loops are, in their own terms.
LEMMA LoopIndexes ==
  ASSUME NEW k \in 1..(LOGN - 1), AtLevel(k)
  PROVE  LET t == N \div Pow2(k)
             low == u * t + j
             high == low + t \div 2
         IN  /\ T = t /\ Low = low /\ High = high /\ E = DELTA[Pow2(k) + u]
             /\ u \in Nat /\ j \in Nat /\ m \in Nat /\ m = Pow2(k) /\ m \div 2 = Pow2(k - 1)
             /\ u \in 0..(Pow2(k - 1) - 1) /\ j \in 0..(t \div 2 - 1) /\ t \div 2 \in Nat
<1>1. Pow2(k) \in Nat /\ Pow2(k - 1) \in Nat /\ Pow2(k) \div 2 = Pow2(k - 1)
  BY LevelNumbers, LevelSizes
<1>2. u \in Nat /\ j \in Nat /\ m \in Nat /\ (N \div Pow2(k)) \div 2 \in Nat
  BY <1>1, LevelSizes DEF AtLevel
<1>3. u + m = Pow2(k) + u
  BY <1>1, <1>2 DEF AtLevel
<1>. QED
  BY <1>1, <1>2, <1>3 DEF AtLevel, T, Low, High, E

\* What a forward butterfly reads.
LEMMA ForwardReads ==
  ASSUME in \in Inputs, job \in Forward, NEW k \in 1..(LOGN - 1), ForwardAt(k)
  PROVE  LaneAt(Low) = At(Levels(in, job)[k - 1], Low) /\ LaneAt(High) = At(Levels(in, job)[k - 1], High)
<1> DEFINE t == N \div Pow2(k)
           z == Levels(in, job)[k - 1]
           low == u * t + j
           high == low + t \div 2
<1>1. /\ Low = low /\ High = high /\ m = Pow2(k)
      /\ u \in 0..(Pow2(k - 1) - 1) /\ j \in 0..(t \div 2 - 1)
  BY LoopIndexes DEF ForwardAt
<1>2. low \in Slots /\ high \in Slots
  BY <1>1, Pair
<1>3. CASE k = 1
  <2>1. m = 2 /\ k - 1 = 0
    BY <1>1, <1>3, LevelNumbers
  <2>2. \A n \in Slots : LaneAt(n) = At(Levels(in, job)[0], n)
    BY <2>1, SourceLanes
  <2> HIDE DEF low, high
  <2>. QED
    BY <1>1, <1>2, <2>1, <2>2
<1>4. CASE k # 1
  <2>1. m # 2
    BY <1>1, <1>4, LevelNumbers
  <2>2. LaneAt(Low) = hat[job][Low] /\ LaneAt(High) = hat[job][High]
    BY <2>1 DEF LaneAt
  <2>3. InPlace(hat[job], z, Levels(in, job)[k], t, u, j, FALSE)
    BY <1>4 DEF ForwardAt
  <2>4. hat[job][low] = At(z, low) /\ hat[job][high] = At(z, high)
    BY <1>1, <2>3, InPlaceReads
  <2> HIDE DEF low, high
  <2>. QED
    BY <1>1, <2>2, <2>4
<1>. QED
  BY <1>3, <1>4

\* The loops begin where the invariant has them.
LEMMA LoopInit == Init => LoopInv
<1> SUFFICES ASSUME Init PROVE LoopInv
  OBVIOUS
<1>1. in \in Inputs /\ m = 2 /\ u = 0 /\ j = 0 /\ job \in {"w1", "indivisible"}
      /\ (job = "w1" => in.q00[0] >= 0) /\ (job = "indivisible" => in.q00[0] < 0)
  <2>1. in \in Inputs /\ 0 \in Coeffs
    BY RingSizes DEF Init, Coeffs
  <2>2. in.q00[0] \in Int
    <3>1. in.q00 \in [Coeffs -> Int]
      BY <2>1, InputsAssumption
    <3>. QED
      BY <2>1, <3>1
  <2>. QED
    BY <2>2 DEF Init
<1>2. Types
  <2>1. 0 \in Words
    BY WordSizes DEF Words
  <2>2. hat \in [Forward -> [Slots -> [re : Words, im : Words]]]
    BY <2>1 DEF Init
  <2>. QED
    BY <1>1, <2>2 DEF Types, Forward, Done, Refused
<1>3. ASSUME job = "w1" PROVE ForwardAt(1) /\ 1 \in 1..(LOGN - 1)
  <2>1. 1 \in 1..(LOGN - 1)
    BY RingSizes
  <2>2. 0 \in 0..(Pow2(1 - 1) - 1) /\ 0 \in 0..((N \div Pow2(1)) \div 2 - 1)
    BY <2>1, LevelSizes
  <2>3. AtLevel(1)
    BY <1>1, <2>2, LevelNumbers DEF AtLevel
  <2>4. InPlace(hat[job], Levels(in, job)[1 - 1], Levels(in, job)[1], N \div Pow2(1), 0, 0, TRUE)
    BY <2>1, InPlaceStart
  <2>. QED
    BY <1>1, <2>1, <2>3, <2>4 DEF ForwardAt
<1>4. Forwarding
  BY <1>1, <1>3 DEF Forwarding, Forward
<1>5. Dividing /\ Inverting
  BY <1>1 DEF Dividing, Inverting
<1>6. Outcome
  BY <1>1 DEF Outcome
<1>. QED
  BY <1>2, <1>4, <1>5, <1>6 DEF LoopInv

\* A butterfly of fft_conv keeps the invariant: it writes its two lanes of the
\* level, and the last one of a level begins the next level, the other
\* transform or the divide loop.
LEMMA LoopForward == LoopInv /\ ForwardButterfly => LoopInv'
<1> SUFFICES ASSUME LoopInv, ForwardButterfly PROVE LoopInv'
  OBVIOUS
<1>1. /\ job \in Forward /\ in' = in /\ w0' = w0 /\ in \in Inputs /\ in.q00[0] >= 0
      /\ hat \in [Forward -> [Slots -> [re : Words, im : Words]]]
      /\ \E k \in 1..(LOGN - 1) : ForwardAt(k)
  BY DEF LoopInv, Types, Forwarding, ForwardButterfly
<1>2. PICK k \in 1..(LOGN - 1) : ForwardAt(k)
  BY <1>1
<1> DEFINE t == N \div Pow2(k)
           h == t \div 2
           z == Levels(in, job)[k - 1]
           y == Levels(in, job)[k]
           low == u * t + j
           high == low + h
           g == hat'[job]
<1>3. /\ T = t /\ Low = low /\ High = high /\ E = DELTA[Pow2(k) + u]
      /\ u \in Nat /\ j \in Nat /\ m = Pow2(k) /\ m \in Nat /\ m \div 2 = Pow2(k - 1)
      /\ u \in 0..(Pow2(k - 1) - 1) /\ j \in 0..(h - 1) /\ h \in Nat
  BY <1>2, LoopIndexes DEF ForwardAt
<1>4. low \in Slots /\ high \in Slots /\ low # high
  BY <1>3, Pair
<1>5. /\ z \in Complex /\ y = FftLevel(z, Pow2(k), t) /\ y \in WordLanes
      /\ \A n \in Slots : At(y, n) \in [re : Words, im : Words]
  BY <1>1, LevelFacts
<1>6. Truncated(Halved(Sum)) = At(y, low) /\ Truncated(Halved(Difference)) = At(y, high)
  <2>1. LaneAt(Low) = At(z, low) /\ LaneAt(High) = At(z, high)
    BY <1>1, <1>2, <1>3, ForwardReads
  <2>2. Twisted = Times(At(z, high), DELTA[Pow2(k) + u])
    BY <1>3, <2>1 DEF Twisted
  <2>3. /\ Sum = Plus(Shl(At(z, low)), Times(At(z, high), DELTA[Pow2(k) + u]))
        /\ Difference = Minus(Shl(At(z, low)), Times(At(z, high), DELTA[Pow2(k) + u]))
    BY <2>1, <2>2 DEF Sum, Difference
  <2>4. /\ Truncated(Halved(Plus(Shl(At(z, low)), Times(At(z, high), DELTA[Pow2(k) + u]))))
             = At(FftLevel(z, Pow2(k), t), low)
        /\ Truncated(Halved(Minus(Shl(At(z, low)), Times(At(z, high), DELTA[Pow2(k) + u]))))
             = At(FftLevel(z, Pow2(k), t), high)
    BY <1>3, <1>5, ForwardLanes
  <2> HIDE DEF z, y, low, high, t
  <2>. QED
    BY <1>5, <2>3, <2>4
<1>7. hat' = [hat EXCEPT ![job] = [@ EXCEPT ![low] = At(y, low), ![high] = At(y, high)]]
  <2>1. Write(job, Truncated(Halved(Sum)), Truncated(Halved(Difference)))
    BY DEF ForwardButterfly
  <2> HIDE DEF y, low, high
  <2>. QED
    BY <1>3, <1>6, <2>1 DEF Write
<1>8. /\ hat' \in [Forward -> [Slots -> [re : Words, im : Words]]]
      /\ \A n \in Slots : g[n] = IF n = low \/ n = high THEN At(y, n) ELSE hat[job][n]
      /\ \A a \in Forward : a # job => hat'[a] = hat[a]
  <2> HIDE DEF y, low, high
  <2>. QED
    BY <1>1, <1>4, <1>5, <1>7
<1>9. InPlace(hat[job], z, y, t, u, j, k = 1)
  BY <1>2 DEF ForwardAt
<1>10. /\ j + 1 < h => InPlace(g, z, y, t, u, j + 1, k = 1)
       /\ ~(j + 1 < h) => InPlace(g, z, y, t, u + 1, 0, k = 1)
       /\ ~(j + 1 < h) /\ ~(u + 1 < Pow2(k - 1)) => Holds(g, y)
  <2> DEFINE fresh == k = 1
             b == u
             i == j
  <2>1. fresh \in BOOLEAN /\ b \in 0..(Pow2(k - 1) - 1) /\ i \in 0..(h - 1)
    BY <1>3
  <2>2. InPlace(hat[job], z, y, t, b, i, fresh)
    BY <1>9
  <2>3. \A n \in Slots : g[n] = IF n = b * t + i \/ n = b * t + i + h THEN At(y, n) ELSE hat[job][n]
    BY <1>8
  <2> HIDE DEF fresh, g, z, y, b, i
  <2>4. /\ i + 1 < h => InPlace(g, z, y, t, b, i + 1, fresh)
        /\ ~(i + 1 < h) => InPlace(g, z, y, t, b + 1, 0, fresh)
        /\ ~(i + 1 < h) /\ ~(b + 1 < Pow2(k - 1)) => Holds(g, y)
    BY <2>1, <2>2, <2>3, InPlaceStep
  <2>. QED
    BY <2>4 DEF fresh, b, i
<1>11. IF j + 1 < h THEN j' = j + 1 /\ u' = u /\ m' = m /\ job' = job
       ELSE IF u + 1 < Pow2(k - 1) THEN u' = u + 1 /\ j' = 0 /\ m' = m /\ job' = job
       ELSE u' = 0 /\ j' = 0 /\ IF m < N \div 2 THEN m' = 2 * m /\ job' = job ELSE m' = 2 /\ job' = Then[job]
  <2>1. Advance(IF m < N \div 2 THEN m' = 2 * m /\ job' = job ELSE m' = 2 /\ job' = Then[job])
    BY DEF ForwardButterfly
  <2> HIDE DEF t
  <2>2. T \div 2 = h /\ m \div 2 = Pow2(k - 1)
    BY <1>3
  <2>. QED
    BY <2>1, <2>2 DEF Advance
<1> HIDE DEF g, z, y, low, high
\* The earlier transforms stay.
<1>12. \A a \in Forward : a # job /\ Holds(hat[a], Final(in, a)) => Holds(hat'[a], Final(in', a))
  BY <1>1, <1>8 DEF Holds
<1>13. /\ job \in {"q00", "q01"} => Holds(hat'["w1"], Final(in', "w1"))
       /\ job = "q01" => Holds(hat'["q00"], Final(in', "q00"))
  <2>1. /\ job \in {"q00", "q01"} => Holds(hat["w1"], Final(in, "w1"))
        /\ job = "q01" => Holds(hat["q00"], Final(in, "q00"))
    BY DEF LoopInv, Forwarding
  <2>. QED
    BY <1>12, <2>1 DEF Forward
<1>14. ASSUME job' = job, NEW i \in 1..(LOGN - 1), ForwardAt(i)' PROVE LoopInv'
  <2>1. Types'
    BY <1>1, <1>8, <1>14 DEF Types
  <2>2. Forwarding'
    <3>1. job' \in Forward /\ in'.q00[0] >= 0
      BY <1>1, <1>14
    <3>2. \E n \in 1..(LOGN - 1) : ForwardAt(n)'
      BY <1>14
    <3>3. job' # "divide"
      BY <3>1 DEF Forward
    <3>. QED
      BY <1>13, <1>14, <3>1, <3>2, <3>3 DEF Forwarding
  <2>3. Dividing' /\ Inverting' /\ Outcome'
    BY <1>1, <1>14 DEF Dividing, Inverting, Outcome, Forward
  <2>. QED
    BY <2>1, <2>2, <2>3 DEF LoopInv
<1>15. CASE j + 1 < h
  <2>1. j' = j + 1 /\ u' = u /\ m' = m /\ job' = job
    BY <1>11, <1>15
  <2>2. AtLevel(k)'
    BY <1>3, <1>15, <2>1 DEF AtLevel
  <2>3. InPlace(g, z, y, t, u', j', k = 1)
    BY <1>10, <1>15, <2>1
  <2>4. ForwardAt(k)'
    BY <1>1, <2>1, <2>2, <2>3 DEF ForwardAt, g, z, y
  <2>. QED
    BY <1>14, <2>1, <2>4
<1>16. CASE ~(j + 1 < h) /\ u + 1 < Pow2(k - 1)
  <2>1. j' = 0 /\ u' = u + 1 /\ m' = m /\ job' = job
    BY <1>11, <1>16
  <2>2. AtLevel(k)'
    <3>1. u + 1 \in 0..(Pow2(k - 1) - 1) /\ 0 \in 0..(h - 1)
      BY <1>3, <1>16, LevelSizes
    <3>. QED
      BY <1>3, <2>1, <3>1 DEF AtLevel
  <2>3. InPlace(g, z, y, t, u', j', k = 1)
    BY <1>10, <1>16, <2>1
  <2>4. ForwardAt(k)'
    BY <1>1, <2>1, <2>2, <2>3 DEF ForwardAt, g, z, y
  <2>. QED
    BY <1>14, <2>1, <2>4
<1>17. CASE ~(j + 1 < h) /\ ~(u + 1 < Pow2(k - 1)) /\ m < N \div 2
  <2>1. j' = 0 /\ u' = 0 /\ m' = 2 * m /\ job' = job
    BY <1>11, <1>17
  <2>2. k + 1 \in 1..(LOGN - 1) /\ m' = Pow2(k + 1) /\ (k + 1) - 1 = k /\ k + 1 # 1
    <3>1. k < LOGN - 1
      BY <1>3, <1>17, LevelNumbers
    <3>2. k \in Nat /\ k + 1 \in 1..(LOGN - 1) /\ (k + 1) - 1 = k /\ k + 1 # 1
      BY <3>1, RingSizes
    <3>3. Pow2(k + 1) = 2 * Pow2(k)
      BY <3>2, Pow2Facts
    <3>. QED
      BY <1>3, <2>1, <3>2, <3>3
  <2>3. 0 \in 0..(Pow2((k + 1) - 1) - 1) /\ 0 \in 0..((N \div Pow2(k + 1)) \div 2 - 1)
    BY <2>2, LevelSizes
  <2>4. AtLevel(k + 1)'
    BY <2>1, <2>2, <2>3 DEF AtLevel
  <2>5. Holds(g, y)
    BY <1>10, <1>17
  <2>6. InPlace(g, y, Levels(in, job)[k + 1], N \div Pow2(k + 1), 0, 0, FALSE)
    BY <2>2, <2>5, InPlaceStart
  <2>7. InPlace(hat'[job'], Levels(in', job')[(k + 1) - 1], Levels(in', job')[k + 1], N \div Pow2(k + 1), u', j', k + 1 = 1)
    BY <1>1, <2>1, <2>2, <2>6 DEF g, y
  <2>8. ForwardAt(k + 1)'
    BY <2>4, <2>7 DEF ForwardAt
  <2>. QED
    BY <1>14, <2>1, <2>2, <2>8
<1>18. CASE ~(j + 1 < h) /\ ~(u + 1 < Pow2(k - 1)) /\ ~(m < N \div 2)
  <2>1. j' = 0 /\ u' = 0 /\ m' = 2 /\ job' = Then[job]
    BY <1>11, <1>18
  <2>2. k = LOGN - 1
    <3>1. ~(k < LOGN - 1)
      BY <1>3, <1>18, LevelNumbers
    <3>. QED
      BY <3>1, RingSizes
  <2>3. Holds(hat'[job], Final(in', job))
    <3>1. Holds(g, y)
      BY <1>10, <1>18
    <3>2. y = Final(in', job)
      BY <1>1, <2>2 DEF y, Final
    <3>. QED
      BY <3>1, <3>2 DEF g
  <2>4. 1 \in 1..(LOGN - 1) /\ AtLevel(1)'
    <3>1. 1 \in 1..(LOGN - 1)
      BY RingSizes
    <3>2. 0 \in 0..(Pow2(1 - 1) - 1) /\ 0 \in 0..((N \div Pow2(1)) \div 2 - 1)
      BY <3>1, LevelSizes
    <3>. QED
      BY <2>1, <3>1, <3>2, LevelNumbers DEF AtLevel
  <2>5. ForwardAt(1)'
    <3>1. InPlace(hat'[job'], Levels(in', job')[1 - 1], Levels(in', job')[1], N \div Pow2(1), 0, 0, TRUE)
      BY <2>4, InPlaceStart
    <3>. QED
      BY <2>1, <2>4, <3>1 DEF ForwardAt
  <2>6. CASE job \in {"w1", "q00"}
    <3>1. job' = IF job = "w1" THEN "q00" ELSE "q01"
      BY <2>1, <2>6 DEF Then
    <3>2. Types'
      BY <1>1, <1>8, <3>1 DEF Types, Forward
    <3>3. Forwarding'
      <4>1. job' \in Forward /\ in'.q00[0] >= 0 /\ job' # "divide"
        BY <1>1, <3>1 DEF Forward
      <4>2. \E n \in 1..(LOGN - 1) : ForwardAt(n)'
        BY <2>4, <2>5
      <4>3. Holds(hat'["w1"], Final(in', "w1"))
        BY <1>13, <2>3, <2>6
      <4>4. job' = "q01" => Holds(hat'["q00"], Final(in', "q00"))
        BY <2>3, <2>6, <3>1
      <4>. QED
        BY <3>1, <4>1, <4>2, <4>3, <4>4 DEF Forwarding
    <3>4. Dividing' /\ Inverting' /\ Outcome'
      BY <3>1 DEF Dividing, Inverting, Outcome
    <3>. QED
      BY <3>2, <3>3, <3>4 DEF LoopInv
  <2>7. CASE job = "q01"
    <3>1. job' = "divide"
      BY <2>1, <2>7 DEF Then
    <3>2. Types'
      BY <1>1, <1>8, <3>1 DEF Types
    <3>3. Forwarding'
      BY <1>13, <2>7, <3>1 DEF Forwarding, Forward
    <3>4. Dividing'
      <4>1. 0 \in Slots /\ \A n \in Slots : ~(n < 0)
        BY RingSizes DEF Slots
      <4>2. \A n \in Slots : hat'["q01"][n] = At(Final(in', "q01"), n)
        BY <2>3, <2>7 DEF Holds
      <4>. QED
        BY <1>1, <2>1, <4>1, <4>2 DEF Dividing
    <3>5. Inverting' /\ Outcome'
      BY <3>1 DEF Inverting, Outcome
    <3>. QED
      BY <3>2, <3>3, <3>4, <3>5 DEF LoopInv
  <2>. QED
    BY <1>1, <2>6, <2>7 DEF Forward
<1>. QED
  BY <1>15, <1>16, <1>17, <1>18

\* The transforms that the divide loop works on.
LEMMA FinalFacts ==
  ASSUME NEW x \in Inputs
  PROVE  /\ Final(x, "q01") = FftConv(x.q01, C_Q01, FALSE)
         /\ Final(x, "w1") = FftConv(x.w1, C_W1, FALSE)
         /\ Final(x, "q00") = FftConv(x.q00, C_Q00, TRUE)
         /\ \A a \in Forward : Final(x, a) \in WordLanes /\ Final(x, a) \in Complex
         /\ DeltaOne - 4 \in Nat /\ ShortLanes(Final(x, "w1"), DeltaOne - 4)
         /\ Alpha(x.q00) \in Int
         /\ \A n \in Slots : /\ Divisor(x.q00)[n] = Alpha(x.q00) + Final(x, "q00").re[n]
                             /\ Divisor(x.q00)[n] \in Int
<1>1. /\ Final(x, "q01") = FftConv(x.q01, C_Q01, FALSE)
      /\ Final(x, "w1") = FftConv(x.w1, C_W1, FALSE)
      /\ Final(x, "q00") = FftConv(x.q00, C_Q00, TRUE)
  BY DEF Final, Levels, Scale, FftConv
<1>2. ASSUME NEW a \in Forward PROVE Final(x, a) \in WordLanes /\ Final(x, a) \in Complex
  <2>1. LOGN - 1 \in 1..(LOGN - 1)
    BY RingSizes
  <2>2. Levels(x, a)[LOGN - 1] \in WordLanes
    BY <2>1, LevelFacts
  <2>. QED
    BY <2>2, WordLanesType DEF Final
<1>3. DeltaOne - 4 \in Nat /\ ShortLanes(Final(x, "w1"), DeltaOne - 4)
  <2>1. "w1" \in Forward /\ LOGN - 1 \in 0..(LOGN - 1)
    BY RingSizes DEF Forward
  <2>2. /\ DeltaOne - 4 * (LOGN - (LOGN - 1)) \in Nat
        /\ ShortLanes(Levels(x, "w1")[LOGN - 1], DeltaOne - 4 * (LOGN - (LOGN - 1)))
    BY <2>1, InputLevels
  <2>3. DeltaOne - 4 * (LOGN - (LOGN - 1)) = DeltaOne - 4
    BY RingSizes, WordSizes
  <2>. QED
    BY <2>2, <2>3 DEF Final
<1>4. Alpha(x.q00) \in Int
  <2>0. x.q00 \in [Coeffs -> Int]
    BY InputsAssumption
  <2>1. x.q00 \in [Coeffs -> Int] /\ 0 \in Coeffs /\ C_Q00 \in Int
    BY <2>0, RingSizes, FftAssumption DEF Coeffs
  <2>2. 2 * C_Q00 * x.q00[0] \in Int
    <3>1. x.q00[0] \in Int
      BY <2>1
    <3>. QED
      BY <2>1, <3>1, Z3
  <2>3. (2 * C_Q00 * x.q00[0]) \div N \in Int
    BY <2>2, RingSizes, DivMod
  <2>. QED
    BY <2>3 DEF Alpha
<1>5. ASSUME NEW n \in Slots
      PROVE  /\ Divisor(x.q00)[n] = Alpha(x.q00) + Final(x, "q00").re[n]
             /\ Divisor(x.q00)[n] \in Int
  <2>1. Divisor(x.q00)[n] = Alpha(x.q00) + Final(x, "q00").re[n]
    BY <1>1 DEF Divisor
  <2>2. Final(x, "q00").re[n] \in Int
    BY <1>2 DEF Forward, Complex
  <2>. QED
    BY <1>4, <2>1, <2>2
<1>. QED
  BY <1>1, <1>2, <1>3, <1>4, <1>5

\* The quotients are words.
LEMMA OneQuotient ==
  ASSUME NEW x \in Inputs, NEW n \in Slots, Divided(x, n)
  PROVE  Quotient(x, n) \in [re : Words, im : Words]
<1> DEFINE q == Final(x, "q01")
           w == Final(x, "w1")
           v == Divisor(x.q00)[n]
<1>1. q \in Complex /\ w \in Complex /\ v \in Int
  BY FinalFacts DEF Forward
<1>2. v > 0 /\ v < DivisorMax
  BY DEF Divided, InRange
<1> HIDE DEF q, w, v
<1>3. /\ q.re[n] \in Int /\ q.im[n] \in Int /\ w.re[n] \in Int /\ w.im[n] \in Int
  BY <1>1 DEF Complex
<1>4. XRe(q, w, n) \in Int /\ XIm(q, w, n) \in Int
  <2>1. \A a, b, c, d \in Int : a * c - b * d \in Int /\ a * d + b * c \in Int
    BY Z3
  <2>2. q.re[n] * w.re[n] - q.im[n] * w.im[n] \in Int /\ q.re[n] * w.im[n] + q.im[n] * w.re[n] \in Int
    BY <1>3, <2>1
  <2>. QED
    BY <2>2, AsI64Type DEF XRe, XIm
<1>5. v % WideSize = v
  <2>1. WideSize \in Nat /\ WideSize > 0 /\ v \in 0..(WideSize - 1)
    BY <1>1, <1>2, WordSizes, FftAssumption
  <2>2. (WideSize * 0 + v) % WideSize = v
    BY <2>1, ModUnique
  <2>3. WideSize * 0 + v = v
    BY <2>1
  <2>. QED
    BY <2>2, <2>3
<1>6. ASSUME NEW d \in Int PROVE AsI32(DivTrunc(d, v)) \in Words
  <2>1. Abs(d) \in Int /\ v \in Nat
    BY <1>1, <1>2, <1>6 DEF Abs
  <2>2. Abs(d) \div v \in Int
    BY <1>2, <2>1, DivMod
  <2>3. DivTrunc(d, v) \in Int
    BY <1>5, <2>2 DEF DivTrunc
  <2>. QED
    BY <2>3, AsI32Type, WordSizes DEF Words
<1>7. Quotient(x, n) = [re |-> AsI32(DivTrunc(XRe(q, w, n), v)), im |-> AsI32(DivTrunc(XIm(q, w, n), v))]
  BY DEF Quotient, DivideStep, q, w, v
<1>. QED
  BY <1>4, <1>6, <1>7

\* as is the transform that they make.
LEMMA QuotientType ==
  ASSUME NEW x \in Inputs, \A n \in Slots : Divided(x, n)
  PROVE  /\ AllQuotients(x) \in WordLanes
         /\ \A n \in Slots : Quotient(x, n) = At(AllQuotients(x), n)
<1>1. ASSUME NEW n \in Slots PROVE Quotient(x, n).re \in Words /\ Quotient(x, n).im \in Words
  BY OneQuotient
<1>2. \A n \in Slots : Quotient(x, n) = At(AllQuotients(x), n)
  BY DEF AllQuotients, At, Quotient, DivideStep
<1>3. AllQuotients(x) \in WordLanes
  BY <1>1 DEF AllQuotients, WordLanes
<1>. QED
  BY <1>2, <1>3

\* The columns of the last level.
LEMMA ColumnType ==
  ASSUME NEW n \in Coeffs
  PROVE  Column(n) \in 0..((N \div 2) \div 2 - 1)
<1> DEFINE c == N \div 2
           d == c \div 2
<1>1. n \in Int /\ c \in Nat /\ c > 0 /\ 1 \in 1..(LOGN - 1)
  BY RingSizes DEF Coeffs
<1>2. c = 2 * d /\ d \in Nat
  <2>1. N \div Pow2(1) = c
    BY LevelNumbers
  <2>. QED
    BY <1>1, <2>1, LevelSizes
<1>3. n % c \in 0..(c - 1)
  BY <1>1, DivMod
<1>4. Column(n) = IF n % c < d THEN n % c ELSE (n % c) - d
  BY DEF Column, Offset
<1> HIDE DEF c, d
<1>5. Column(n) \in 0..(d - 1)
  BY <1>1, <1>2, <1>3, <1>4
<1>. QED
  BY <1>5 DEF c, d

\* What a pass of the divide loop reads and computes.
LEMMA DivideReads ==
  ASSUME LoopInv, job = "divide"
  PROVE  LET x == in
         IN  /\ V = Divisor(x.q00)[u] /\ V \in Int
             /\ AsI64(X.re) = XRe(Final(x, "q01"), Final(x, "w1"), u)
             /\ AsI64(X.im) = XIm(Final(x, "q01"), Final(x, "w1"), u)
             /\ Fits(WideSize, X)
             /\ ~(~InRange(V) \/ TooLarge) <=> Divided(x, u)
<1> DEFINE q == Final(in, "q01")
           w == Final(in, "w1")
<1>1. in \in Inputs /\ u \in Slots
  BY DEF LoopInv, Types, Dividing
<1>2. /\ hat["q01"][u] = At(q, u) /\ hat["w1"][u] = At(w, u)
      /\ hat["q00"][u] = At(Final(in, "q00"), u)
  <2>1. ~(u < u)
    BY <1>1 DEF Slots
  <2>2. hat["q01"][u] = At(q, u)
    BY <1>1, <2>1 DEF LoopInv, Dividing
  <2>. QED
    BY <1>1, <2>2 DEF LoopInv, Forwarding, Holds
<1>3. q \in WordLanes /\ w \in Complex /\ DeltaOne - 4 \in Nat /\ ShortLanes(w, DeltaOne - 4)
  BY <1>1, FinalFacts DEF Forward
<1>4. V = Divisor(in.q00)[u] /\ V \in Int
  <2>1. Divisor(in.q00)[u] = Alpha(in.q00) + Final(in, "q00").re[u] /\ Divisor(in.q00)[u] \in Int
    BY <1>1, FinalFacts
  <2>. QED
    BY <1>2, <2>1 DEF V, At
<1> HIDE DEF q, w
<1>5. X = [re |-> q.re[u] * w.re[u] - q.im[u] * w.im[u], im |-> q.re[u] * w.im[u] + q.im[u] * w.re[u]]
  BY <1>2 DEF X, Times, At
<1>6. AsI64(X.re) = XRe(q, w, u) /\ AsI64(X.im) = XIm(q, w, u)
  BY <1>5 DEF XRe, XIm
<1>7. Fits(WideSize, X)
  <2> DEFINE a == q.re[u]
             b == q.im[u]
             c == w.re[u]
             d == w.im[u]
  <2>1. /\ a \in Words /\ b \in Words /\ c \in Int /\ d \in Int
        /\ c * c + d * d <= (DeltaOne - 4) * (DeltaOne - 4)
    BY <1>1, <1>3 DEF WordLanes, Complex, ShortLanes
  <2>2. X = [re |-> a * c - b * d, im |-> a * d + b * c]
    BY <1>5
  <2> HIDE DEF a, b, c, d
  <2>3. \A x \in {a * c - b * d, a * d + b * c} :
           x \in Int /\ -(2 * DeltaOne * DeltaOne) < x /\ x < 2 * DeltaOne * DeltaOne
    BY <1>3, <2>1, ProductFits
  <2>. QED
    BY <2>2, <2>3, WordSizes DEF Fits
<1>8. ~(~InRange(V) \/ TooLarge) <=> Divided(in, u)
  <2> DEFINE a == Magnitude(XRe(q, w, u))
             b == Magnitude(XIm(q, w, u))
             c == BoundScale * V
  <2>1. a \in Nat /\ b \in Nat
    BY <1>1, <1>3, MagnitudeOfProduct
  <2>2. c \in Int
    <3>1. BoundScale \in Int
      BY FftAssumption
    <3>. QED
      BY <1>4, <3>1, Z3
  <2>3. TooLarge <=> a >= c \/ b >= c
    BY <1>6 DEF TooLarge
  <2>4. Divided(in, u) <=> InRange(V) /\ a < c /\ b < c
    BY <1>4 DEF Divided, WithinBound, q, w
  <2> HIDE DEF a, b, c
  <2>5. ~TooLarge <=> a < c /\ b < c
    BY <2>1, <2>2, <2>3
  <2>. QED
    BY <2>4, <2>5
<1>. QED
  BY <1>4, <1>6, <1>7, <1>8 DEF q, w

\* A pass of the divide loop keeps it: it writes the quotients of its column,
\* or refuses the signature.
LEMMA LoopDivide == LoopInv /\ Divide => LoopInv'
<1> SUFFICES ASSUME LoopInv, Divide PROVE LoopInv'
  OBVIOUS
<1>1. /\ job = "divide" /\ in' = in /\ w0' = w0 /\ j' = j /\ in \in Inputs /\ in.q00[0] >= 0
      /\ hat \in [Forward -> [Slots -> [re : Words, im : Words]]]
      /\ u \in Slots /\ m = 2 /\ j = 0
      /\ Holds(hat["w1"], Final(in, "w1")) /\ Holds(hat["q00"], Final(in, "q00"))
      /\ \A n \in Slots : IF n < u THEN Divided(in, n) /\ hat["q01"][n] = Quotient(in, n)
                                    ELSE hat["q01"][n] = At(Final(in, "q01"), n)
  BY DEF LoopInv, Types, Forwarding, Dividing, Divide
<1>2. /\ V = Divisor(in.q00)[u]
      /\ AsI64(X.re) = XRe(Final(in, "q01"), Final(in, "w1"), u)
      /\ AsI64(X.im) = XIm(Final(in, "q01"), Final(in, "w1"), u)
      /\ ~(~InRange(V) \/ TooLarge) <=> Divided(in, u)
  BY <1>1, DivideReads
<1>3. CASE ~InRange(V) \/ TooLarge
  <2>1. job' = "indivisible" /\ hat' = hat /\ m' = m /\ u' = u
    BY <1>3 DEF Divide
  <2>2. ~Divided(in', u)
    BY <1>1, <1>2, <1>3
  <2>3. Types'
    BY <1>1, <2>1 DEF Types, Done, Refused
  <2>4. Forwarding' /\ Dividing' /\ Inverting'
    BY <2>1 DEF Forwarding, Dividing, Inverting, Forward
  <2>5. Outcome'
    BY <1>1, <2>1, <2>2 DEF Outcome
  <2>. QED
    BY <2>3, <2>4, <2>5 DEF LoopInv
<1>4. CASE ~(~InRange(V) \/ TooLarge)
  <2> DEFINE y == Quotient(in, u)
             g == hat'["q01"]
  <2>1. Divided(in, u)
    BY <1>2, <1>4
  <2>2. hat' = [hat EXCEPT !["q01"][u] = y]
    <3>1. y = [re |-> AsI32(DivTrunc(AsI64(X.re), V)), im |-> AsI32(DivTrunc(AsI64(X.im), V))]
      BY <1>2 DEF Quotient, DivideStep
    <3>. QED
      BY <1>4, <3>1 DEF Divide
  <2>3. y \in [re : Words, im : Words]
    BY <1>1, <2>1, OneQuotient
  <2>4. /\ hat' \in [Forward -> [Slots -> [re : Words, im : Words]]]
        /\ hat'["w1"] = hat["w1"] /\ hat'["q00"] = hat["q00"]
        /\ \A n \in Slots : g[n] = IF n = u THEN y ELSE hat["q01"][n]
    <3> HIDE DEF y
    <3>. QED
      BY <1>1, <2>2, <2>3 DEF Forward
  <2> HIDE DEF y, g
  <2>5. /\ \A n \in Slots : n < u + 1 => Divided(in, n) /\ g[n] = Quotient(in, n)
        /\ \A n \in Slots : ~(n < u + 1) => g[n] = At(Final(in, "q01"), n)
    <3>1. SUFFICES ASSUME NEW n \in Slots
                   PROVE  /\ n < u + 1 => Divided(in, n) /\ g[n] = Quotient(in, n)
                          /\ ~(n < u + 1) => g[n] = At(Final(in, "q01"), n)
      OBVIOUS
    <3>2. n \in Int /\ u \in Int /\ (n < u + 1 <=> n < u \/ n = u) /\ (~(n < u + 1) => ~(n < u) /\ n # u)
      BY <1>1 DEF Slots
    <3>3. g[n] = IF n = u THEN Quotient(in, u) ELSE hat["q01"][n]
      BY <2>4 DEF y
    <3>4. IF n < u THEN Divided(in, n) /\ hat["q01"][n] = Quotient(in, n)
                   ELSE hat["q01"][n] = At(Final(in, "q01"), n)
      BY <1>1
    <3>. QED
      BY <2>1, <3>2, <3>3, <3>4
  <2>6. IF u + 1 < N \div 2 THEN u' = u + 1 /\ m' = m /\ job' = job
                            ELSE u' = 0 /\ m' = N \div 2 /\ job' = "inverse"
    BY <1>4 DEF Divide
  <2>7. CASE u + 1 < N \div 2
    <3>1. u' = u + 1 /\ m' = m /\ job' = job
      BY <2>6, <2>7
    <3>2. Types' /\ Inverting' /\ Outcome'
      BY <1>1, <2>4, <3>1 DEF Types, Inverting, Outcome
    <3>3. Forwarding'
      BY <1>1, <2>4, <3>1 DEF Forwarding, Forward
    <3>4. Dividing'
      <4>1. u + 1 \in Slots
        BY <1>1, <2>7, RingSizes DEF Slots
      <4>2. \A n \in Slots : IF n < u' THEN Divided(in', n) /\ hat'["q01"][n] = Quotient(in', n)
                                       ELSE hat'["q01"][n] = At(Final(in', "q01"), n)
        BY <1>1, <2>5, <3>1 DEF g
      <4>. QED
        BY <1>1, <3>1, <4>1, <4>2 DEF Dividing
    <3>. QED
      BY <3>2, <3>3, <3>4 DEF LoopInv
  <2>8. CASE ~(u + 1 < N \div 2)
    <3>1. u' = 0 /\ m' = N \div 2 /\ job' = "inverse"
      BY <2>6, <2>8
    <3>2. \A n \in Slots : n < u + 1
      BY <1>1, <2>8, RingSizes DEF Slots
    <3>3. \A n \in Slots : Divided(in, n) /\ g[n] = Quotient(in, n)
      BY <2>5, <3>2
    <3>4. AllQuotients(in) \in WordLanes /\ \A n \in Slots : Quotient(in, n) = At(AllQuotients(in), n)
      BY <1>1, <3>3, QuotientType
    <3> DEFINE k == LOGN - 1
    <3>5. k \in 1..(LOGN - 1) /\ m' = Pow2(k)
      BY <3>1, RingSizes, LevelNumbers
    <3>6. Down(in)[k] = AllQuotients(in)
      BY <3>4, LevelsOfInverse DEF Down
    <3>7. Holds(g, Down(in)[k])
      BY <3>3, <3>4, <3>6 DEF Holds
    <3> HIDE DEF k
    <3>8. AtLevel(k)'
      <4>1. 0 \in 0..(Pow2(k - 1) - 1) /\ 0 \in 0..((N \div Pow2(k)) \div 2 - 1)
        BY <3>5, LevelSizes
      <4>. QED
        BY <1>1, <3>1, <3>5, <4>1 DEF AtLevel
    <3>9. InverseAt(k)'
      <4>1. InPlace(g, Down(in)[k], Down(in)[k - 1], N \div Pow2(k), 0, 0, FALSE)
        BY <3>5, <3>7, InPlaceStart
      <4>2. \A n \in Coeffs : ~(Column(n) < 0)
        BY ColumnType
      <4>3. k > 1 => InPlace(hat'["q01"], Down(in')[k], Down(in')[k - 1], N \div Pow2(k), u', j', FALSE)
        BY <1>1, <3>1, <4>1 DEF g
      <4>4. k = 1 => Holds(hat'["q01"], Down(in')[1])
        BY <1>1, <3>7 DEF g
      <4>. QED
        BY <1>1, <3>8, <4>2, <4>3, <4>4 DEF InverseAt
    <3>10. Inverting'
      BY <1>1, <3>3, <3>5, <3>9 DEF Inverting, AllDivided
    <3>11. Types'
      BY <1>1, <2>4, <3>1 DEF Types
    <3>12. Forwarding' /\ Dividing' /\ Outcome'
      BY <3>1 DEF Forwarding, Dividing, Outcome, Forward
    <3>. QED
      BY <3>10, <3>11, <3>12 DEF LoopInv
  <2>. QED
    BY <2>7, <2>8
<1>. QED
  BY <1>3, <1>4

\* What a butterfly of the inverse transform reads and computes.
LEMMA InverseReads ==
  ASSUME job = "inverse", NEW k \in 1..(LOGN - 1), AtLevel(k), NEW z \in WordLanes,
         \/ Holds(hat["q01"], z)
         \/ \E y : InPlace(hat["q01"], z, y, N \div Pow2(k), u, j, FALSE)
  PROVE  LET y == InvLevel(z, Pow2(k), N \div Pow2(k))
         IN  HalfSum = At(y, Low) /\ Untwisted = At(y, High)
<1> DEFINE t == N \div Pow2(k)
           low == u * t + j
           high == low + t \div 2
           y == InvLevel(z, Pow2(k), t)
           e == DELTA[Pow2(k) + u]
<1>1. /\ T = t /\ Low = low /\ High = high /\ E = e
      /\ u \in 0..(Pow2(k - 1) - 1) /\ j \in 0..(t \div 2 - 1)
  BY LoopIndexes
<1>2. low \in Slots /\ high \in Slots
  BY <1>1, Pair
<1>3. hat["q01"][low] = At(z, low) /\ hat["q01"][high] = At(z, high)
  <2>1. CASE Holds(hat["q01"], z)
    <3> HIDE DEF low, high
    <3>. QED
      BY <1>2, <2>1 DEF Holds
  <2>2. CASE \E x : InPlace(hat["q01"], z, x, t, u, j, FALSE)
    <3>1. PICK x : InPlace(hat["q01"], z, x, t, u, j, FALSE)
      BY <2>2
    <3>. QED
      BY <1>1, <3>1, InPlaceReads
  <2>. QED
    BY <2>1, <2>2
<1>4. LaneAt(Low) = At(z, low) /\ LaneAt(High) = At(z, high)
  <2> HIDE DEF low, high
  <2>. QED
    BY <1>1, <1>3 DEF LaneAt, Forward
<1>5. /\ Shr(Plus(At(z, low), At(z, high)), 2) = At(y, low)
      /\ Halved(Times(Minus(At(z, low), At(z, high)), Conj(e))) = At(y, high)
  BY <1>1, InverseLanes
<1> HIDE DEF low, high, e, y
<1>6. HalfSum = At(y, low) /\ Untwisted = At(y, high)
  BY <1>1, <1>4, <1>5 DEF HalfSum, Untwisted, Gap
<1>. QED
  BY <1>1, <1>6 DEF y

\* The levels of the inverse transform.
LEMMA DownFacts ==
  ASSUME NEW x \in Inputs, \A n \in Slots : Divided(x, n)
  PROVE  /\ \A k \in 1..(LOGN - 1) : Down(x)[k] \in WordLanes
         /\ \A k \in 2..(LOGN - 1) :
               Down(x)[k - 1] = Wrapped(InvLevel(Down(x)[k], Pow2(k), N \div Pow2(k)))
<1>1. AllQuotients(x) \in WordLanes
  BY QuotientType
<1>. QED
  BY <1>1, LevelsOfInverse DEF Down

\* A butterfly of inv_fft keeps it.
LEMMA LoopInverse == LoopInv /\ InverseButterfly => LoopInv'
<1> SUFFICES ASSUME LoopInv, InverseButterfly PROVE LoopInv'
  OBVIOUS
<1>1. /\ job = "inverse" /\ m > 2 /\ in' = in /\ w0' = w0 /\ in \in Inputs
      /\ hat \in [Forward -> [Slots -> [re : Words, im : Words]]]
      /\ AllDivided /\ \E k \in 1..(LOGN - 1) : InverseAt(k)
  BY DEF LoopInv, Types, Inverting, InverseButterfly
<1>2. PICK k \in 1..(LOGN - 1) : InverseAt(k)
  BY <1>1
<1> DEFINE t == N \div Pow2(k)
           h == t \div 2
           z == Down(in)[k]
           y == Down(in)[k - 1]
           low == u * t + j
           high == low + h
           g == hat'["q01"]
<1>3. /\ T = t /\ Low = low /\ High = high
      /\ u \in Nat /\ j \in Nat /\ m = Pow2(k) /\ m \in Nat /\ m \div 2 = Pow2(k - 1)
      /\ u \in 0..(Pow2(k - 1) - 1) /\ j \in 0..(h - 1) /\ h \in Nat
  BY <1>2, LoopIndexes DEF InverseAt
<1>4. low \in Slots /\ high \in Slots /\ low # high
  BY <1>3, Pair
<1>5. k > 1 /\ k # 1 /\ k \in 2..(LOGN - 1) /\ k - 1 \in 1..(LOGN - 1)
  <2>1. k > 1
    BY <1>1, <1>3, LevelNumbers
  <2>. QED
    BY <2>1, RingSizes
<1>6. InPlace(hat["q01"], z, y, t, u, j, FALSE)
  BY <1>2, <1>5 DEF InverseAt
<1>7. z \in WordLanes /\ y \in WordLanes /\ y = Wrapped(InvLevel(z, Pow2(k), t))
  BY <1>1, <1>5, DownFacts DEF AllDivided
<1>8. Truncated(HalfSum) = At(y, low) /\ Truncated(Untwisted) = At(y, high)
  <2>1. \E x : InPlace(hat["q01"], z, x, t, u, j, FALSE)
    BY <1>6
  <2>2. AtLevel(k)
    BY <1>2 DEF InverseAt
  <2> DEFINE f == InvLevel(z, Pow2(k), t)
  <2>3. HalfSum = At(f, Low) /\ Untwisted = At(f, High)
    <3> HIDE DEF z
    <3>. QED
      BY <1>1, <1>7, <2>1, <2>2, InverseReads
  <2> HIDE DEF f, low, high
  <2>4. At(Wrapped(f), low) = Truncated(At(f, low)) /\ At(Wrapped(f), high) = Truncated(At(f, high))
    BY <1>4, WrappedLanes
  <2>5. y = Wrapped(f)
    BY <1>7 DEF f
  <2> HIDE DEF y
  <2>. QED
    BY <1>3, <2>3, <2>4, <2>5
<1>9. hat' = [hat EXCEPT !["q01"] = [@ EXCEPT ![low] = At(y, low), ![high] = At(y, high)]]
  <2>1. Write("q01", Truncated(HalfSum), Truncated(Untwisted))
    BY DEF InverseButterfly
  <2> HIDE DEF y, low, high
  <2>. QED
    BY <1>3, <1>8, <2>1 DEF Write
<1>10. \A n \in Slots : At(y, n) \in [re : Words, im : Words]
  <2> HIDE DEF y
  <2>. QED
    BY <1>7 DEF At, WordLanes
<1>11. /\ hat' \in [Forward -> [Slots -> [re : Words, im : Words]]]
       /\ \A n \in Slots : g[n] = IF n = low \/ n = high THEN At(y, n) ELSE hat["q01"][n]
  <2> HIDE DEF y, low, high
  <2>. QED
    BY <1>1, <1>4, <1>9, <1>10 DEF Forward
<1>12. /\ j + 1 < h => InPlace(g, z, y, t, u, j + 1, FALSE)
       /\ ~(j + 1 < h) => InPlace(g, z, y, t, u + 1, 0, FALSE)
       /\ ~(j + 1 < h) /\ ~(u + 1 < Pow2(k - 1)) => Holds(g, y)
  <2> DEFINE f == hat["q01"]
             b == u
             i == j
  <2>1. b \in 0..(Pow2(k - 1) - 1) /\ i \in 0..(h - 1)
    BY <1>3
  <2>2. InPlace(f, z, y, t, b, i, FALSE)
    BY <1>6
  <2>3. \A n \in Slots : g[n] = IF n = b * t + i \/ n = b * t + i + h THEN At(y, n) ELSE f[n]
    BY <1>11
  <2> HIDE DEF g, z, y, b, i, f
  <2>4. /\ i + 1 < h => InPlace(g, z, y, t, b, i + 1, FALSE)
        /\ ~(i + 1 < h) => InPlace(g, z, y, t, b + 1, 0, FALSE)
        /\ ~(i + 1 < h) /\ ~(b + 1 < Pow2(k - 1)) => Holds(g, y)
    BY <2>1, <2>2, <2>3, InPlaceStep
  <2>. QED
    BY <2>4 DEF b, i
<1>13. IF j + 1 < h THEN j' = j + 1 /\ u' = u /\ m' = m /\ job' = job
       ELSE IF u + 1 < Pow2(k - 1) THEN u' = u + 1 /\ j' = 0 /\ m' = m /\ job' = job
       ELSE u' = 0 /\ j' = 0 /\ m' = m \div 2 /\ job' = job
  <2>1. Advance(m' = m \div 2 /\ job' = job)
    BY DEF InverseButterfly
  <2> HIDE DEF t
  <2>2. T \div 2 = h /\ m \div 2 = Pow2(k - 1)
    BY <1>3
  <2>. QED
    BY <2>1, <2>2 DEF Advance
<1> HIDE DEF g, z, y, low, high
<1>14. job' = "inverse"
  BY <1>1, <1>13
<1>15. ASSUME NEW i \in 1..(LOGN - 1), InverseAt(i)' PROVE LoopInv'
  <2>1. Types'
    BY <1>1, <1>11, <1>14 DEF Types
  <2>2. Forwarding' /\ Dividing' /\ Outcome'
    BY <1>14 DEF Forwarding, Dividing, Outcome, Forward
  <2>3. Inverting'
    BY <1>1, <1>15 DEF Inverting, AllDivided
  <2>. QED
    BY <2>1, <2>2, <2>3 DEF LoopInv
<1>16. CASE j + 1 < h
  <2>1. j' = j + 1 /\ u' = u /\ m' = m
    BY <1>13, <1>16
  <2>2. AtLevel(k)'
    BY <1>3, <1>16, <2>1 DEF AtLevel
  <2>3. InPlace(g, z, y, t, u', j', FALSE)
    BY <1>12, <1>16, <2>1
  <2>4. InPlace(hat'["q01"], Down(in')[k], Down(in')[k - 1], N \div Pow2(k), u', j', FALSE)
    BY <1>1, <2>3 DEF g, z, y
  <2>5. InverseAt(k)'
    BY <1>5, <2>2, <2>4 DEF InverseAt
  <2>. QED
    BY <1>15, <2>5
<1>17. CASE ~(j + 1 < h) /\ u + 1 < Pow2(k - 1)
  <2>1. j' = 0 /\ u' = u + 1 /\ m' = m
    BY <1>13, <1>17
  <2>2. AtLevel(k)'
    <3>1. u + 1 \in 0..(Pow2(k - 1) - 1) /\ 0 \in 0..(h - 1)
      BY <1>3, <1>17, LevelSizes
    <3>. QED
      BY <1>3, <2>1, <3>1 DEF AtLevel
  <2>3. InPlace(g, z, y, t, u', j', FALSE)
    BY <1>12, <1>17, <2>1
  <2>4. InPlace(hat'["q01"], Down(in')[k], Down(in')[k - 1], N \div Pow2(k), u', j', FALSE)
    BY <1>1, <2>3 DEF g, z, y
  <2>5. InverseAt(k)'
    BY <1>5, <2>2, <2>4 DEF InverseAt
  <2>. QED
    BY <1>15, <2>5
<1>18. CASE ~(j + 1 < h) /\ ~(u + 1 < Pow2(k - 1))
  <2> DEFINE i == k - 1
  <2>1. j' = 0 /\ u' = 0 /\ m' = Pow2(i) /\ i \in 1..(LOGN - 1)
    BY <1>3, <1>5, <1>13, <1>18
  <2>2. Holds(g, Down(in)[i])
    BY <1>12, <1>18 DEF y
  <2> HIDE DEF i
  <2>3. AtLevel(i)'
    <3>1. 0 \in 0..(Pow2(i - 1) - 1) /\ 0 \in 0..((N \div Pow2(i)) \div 2 - 1)
      BY <2>1, LevelSizes
    <3>. QED
      BY <2>1, <3>1 DEF AtLevel
  <2>4. InPlace(g, Down(in)[i], Down(in)[i - 1], N \div Pow2(i), 0, 0, FALSE)
    BY <2>1, <2>2, InPlaceStart
  <2>5. \A n \in Coeffs : ~(Column(n) < 0)
    BY ColumnType
  <2>6. i > 1 => InPlace(hat'["q01"], Down(in')[i], Down(in')[i - 1], N \div Pow2(i), u', j', FALSE)
    BY <1>1, <2>1, <2>4 DEF g
  <2>7. i = 1 => Holds(hat'["q01"], Down(in')[1])
    BY <1>1, <2>2 DEF g
  <2>8. InverseAt(i)'
    BY <2>1, <2>3, <2>5, <2>6, <2>7 DEF InverseAt
  <2>. QED
    BY <1>15, <2>1, <2>8
<1>. QED
  BY <1>16, <1>17, <1>18

\* The four results of a pass of the last level, at their places.
LEMMA OutputFacts ==
  ASSUME in \in Inputs, AllDivided, job = "inverse", InverseAt(1)
  PROVE  /\ \A o \in 1..4 : /\ Outputs[o].at \in Coeffs
                            /\ Rounded(Outputs[o]) = Result(in)[Outputs[o].at]
         /\ \A n \in Coeffs : Column(n) = j <=> \E o \in 1..4 : Outputs[o].at = n
         /\ j \in Nat
<1> DEFINE z == Down(in)[1]
           y == InvLevel(z, 2, N \div 2)
           c == N \div 2
           d == N \div 4
           s == InvFft(AllQuotients(in))
<1>1. 1 \in 1..(LOGN - 1) /\ Pow2(1) = 2 /\ Pow2(1 - 1) = 1 /\ N \div Pow2(1) = c
  <2>1. 1 - 1 = 0
    OBVIOUS
  <2>. QED
    BY <2>1, RingSizes, LevelNumbers
<1>2. z \in WordLanes
  BY <1>1, DownFacts DEF AllDivided
<1>3. /\ T = c /\ Low = u * c + j /\ High = (u * c + j) + c \div 2
      /\ u \in 0..0 /\ j \in 0..(c \div 2 - 1) /\ j \in Nat
  BY <1>1, LoopIndexes DEF InverseAt
<1>4. c \in Nat /\ N = 2 * c /\ c = 2 * d /\ d \in Nat /\ d > 0 /\ c \div 2 = d
  <2>1. c \in Nat /\ N = 2 * c /\ N \in Nat
    BY RingSizes
  <2>2. c = 2 * (c \div 2) /\ c \div 2 \in Nat \ {0}
    BY <1>1, LevelSizes
  <2>. QED
    BY <2>1, <2>2
<1>5. Low = j /\ High = j + d /\ j < d
  <2>1. u = 0
    BY <1>3
  <2>2. 0 * c = 0
    BY <1>4
  <2>3. j < d
    BY <1>3, <1>4
  <2>. QED
    BY <1>3, <1>4, <2>1, <2>2, <2>3
<1>6. HalfSum = At(y, Low) /\ Untwisted = At(y, High)
  <2>1. AtLevel(1) /\ Holds(hat["q01"], z)
    BY DEF InverseAt
  <2> HIDE DEF z
  <2>. QED
    BY <1>1, <1>2, <2>1, InverseReads
<1>7. s = [n \in Coeffs |-> IF n < c THEN y.re[n] ELSE y.im[n - c]]
  BY DEF InvFft, Down
<1> HIDE DEF y, z, s, c, d
<1>8. /\ j \in Coeffs /\ c + j \in Coeffs /\ j + d \in Coeffs /\ c + j + d \in Coeffs
      /\ j < c /\ ~(c + j < c) /\ j + d < c /\ ~(c + j + d < c)
      /\ (c + j) - c = j /\ (c + j + d) - c = j + d
  BY <1>3, <1>4, <1>5 DEF Coeffs
<1>9. /\ s[j] = HalfSum.re /\ s[c + j] = HalfSum.im
      /\ s[j + d] = Untwisted.re /\ s[c + j + d] = Untwisted.im
  BY <1>5, <1>6, <1>7, <1>8 DEF At
<1>10. /\ Outputs[1] = [at |-> j, t |-> HalfSum.re] /\ Outputs[2] = [at |-> c + j, t |-> HalfSum.im]
       /\ Outputs[3] = [at |-> j + d, t |-> Untwisted.re] /\ Outputs[4] = [at |-> c + j + d, t |-> Untwisted.im]
  BY DEF Outputs, c, d
<1>11. ASSUME NEW o \in 1..4
       PROVE  Outputs[o].at \in Coeffs /\ Outputs[o].t = s[Outputs[o].at]
  <2>1. CASE o = 1
    BY <1>8, <1>9, <1>10, <2>1
  <2>2. CASE o = 2
    BY <1>8, <1>9, <1>10, <2>2
  <2>3. CASE o = 3
    BY <1>8, <1>9, <1>10, <2>3
  <2>4. CASE o = 4
    BY <1>8, <1>9, <1>10, <2>4
  <2>. QED
    BY <2>1, <2>2, <2>3, <2>4
<1>12. ASSUME NEW o \in 1..4
       PROVE  Outputs[o].at \in Coeffs /\ Rounded(Outputs[o]) = Result(in)[Outputs[o].at]
  <2>1. Outputs[o].at \in Coeffs /\ Outputs[o].t = s[Outputs[o].at]
    BY <1>11
  <2>2. \A n \in Coeffs : Result(in)[n] = (C_S0 * in.h0[n] + s[n] + C_S0) \div (2 * C_S0)
    BY DEF Result, S0, s
  <2>. QED
    BY <2>1, <2>2 DEF Rounded
<1>13. ASSUME NEW n \in Coeffs
       PROVE  Column(n) = j <=> \E o \in 1..4 : Outputs[o].at = n
  <2> DEFINE r == n % c
  <2>1. Column(n) = IF r < d THEN r ELSE r - d
    BY <1>4 DEF Column, Offset, c
  <2>2. n \in Nat /\ n < 2 * c /\ r = IF n < c THEN n ELSE n - c
    <3>1. n \in Nat /\ n < 2 * c
      BY <1>4 DEF Coeffs
    <3>2. CASE n < c
      <4>1. n \in 0..(c - 1) /\ c > 0 /\ c * 0 + n = n
        BY <1>4, <3>1, <3>2
      <4>2. (c * 0 + n) % c = n
        BY <1>4, <4>1, ModUnique
      <4>. QED
        BY <3>1, <3>2, <4>1, <4>2
    <3>3. CASE ~(n < c)
      <4>1. n - c \in 0..(c - 1) /\ c > 0 /\ c * 1 + (n - c) = n
        BY <1>4, <3>1, <3>3
      <4>2. (c * 1 + (n - c)) % c = n - c
        BY <1>4, <4>1, ModUnique
      <4>. QED
        BY <3>1, <3>3, <4>1, <4>2
    <3>. QED
      BY <3>1, <3>2, <3>3
  <2> HIDE DEF r
  <2>3. Column(n) = j <=> n = j \/ n = c + j \/ n = j + d \/ n = c + j + d
    BY <1>3, <1>4, <1>5, <2>1, <2>2
  <2>4. /\ Outputs[1].at = j /\ Outputs[2].at = c + j
        /\ Outputs[3].at = j + d /\ Outputs[4].at = c + j + d
    BY <1>10
  <2>5. (\E o \in 1..4 : Outputs[o].at = n) <=>
          Outputs[1].at = n \/ Outputs[2].at = n \/ Outputs[3].at = n \/ Outputs[4].at = n
    <3> DEFINE P(o) == Outputs[o].at = n
    <3>1. (\E o \in 1..4 : P(o)) <=> P(1) \/ P(2) \/ P(3) \/ P(4)
      <4>1. \A o \in 1..4 : o = 1 \/ o = 2 \/ o = 3 \/ o = 4
        OBVIOUS
      <4>2. 1 \in 1..4 /\ 2 \in 1..4 /\ 3 \in 1..4 /\ 4 \in 1..4
        OBVIOUS
      <4> HIDE DEF P
      <4>. QED
        BY <4>1, <4>2
    <3>. QED
      BY <3>1
  <2>. QED
    BY <2>3, <2>4, <2>5
<1>. QED
  BY <1>3, <1>12, <1>13

\* A pass of the last level keeps it: it writes the rounded coefficients of
\* its column.
LEMMA LoopFinalize == LoopInv /\ Finalize => LoopInv'
<1> SUFFICES ASSUME LoopInv, Finalize PROVE LoopInv'
  OBVIOUS
<1>1. /\ job = "inverse" /\ m = 2 /\ in' = in /\ hat' = hat /\ m' = m /\ u' = u /\ in \in Inputs
      /\ hat \in [Forward -> [Slots -> [re : Words, im : Words]]]
      /\ AllDivided /\ \E k \in 1..(LOGN - 1) : InverseAt(k)
  BY DEF LoopInv, Types, Inverting, Finalize
<1>2. InverseAt(1) /\ 1 \in 1..(LOGN - 1)
  <2>1. PICK k \in 1..(LOGN - 1) : InverseAt(k)
    BY <1>1
  <2>2. k = 1
    <3>1. Pow2(k) = 2
      BY <1>1, <2>1 DEF InverseAt, AtLevel
    <3>. QED
      BY <3>1, LevelNumbers
  <2>. QED
    BY <2>1, <2>2
<1>3. /\ \A o \in 1..4 : /\ Outputs[o].at \in Coeffs
                         /\ Rounded(Outputs[o]) = Result(in)[Outputs[o].at]
      /\ \A n \in Coeffs : Column(n) = j <=> \E o \in 1..4 : Outputs[o].at = n
      /\ j \in Nat
  BY <1>1, <1>2, OutputFacts
<1> DEFINE bad == {o \in 1..4 : ~Admitted(Rounded(Outputs[o]))}
           written == {o \in 1..4 : \A b \in bad : o < b}
<1>4. w0' = [n \in Coeffs |-> IF \E o \in written : Outputs[o].at = n
                              THEN LET o == CHOOSE o \in written : Outputs[o].at = n
                                   IN  in.h0[n] - 2 * Rounded(Outputs[o])
                              ELSE w0[n]]
  BY DEF Finalize
<1>5. IF bad # {} THEN job' = "outOfRange" /\ j' = j
      ELSE IF j + 1 < N \div 4 THEN j' = j + 1 /\ job' = job
      ELSE job' = "ok" /\ j' = 0
  BY DEF Finalize
<1>6. Types'
  BY <1>1, <1>5 DEF Types, Done, Refused
<1>7. CASE bad # {}
  <2>1. job' = "outOfRange"
    BY <1>5, <1>7
  <2>2. PICK o \in 1..4 : ~Admitted(Rounded(Outputs[o]))
    BY <1>7
  <2>3. ~Admitted(Result(in')[Outputs[o].at]) /\ Outputs[o].at \in Coeffs
    BY <1>1, <1>3, <2>2
  <2>4. Outcome'
    BY <1>1, <2>1, <2>3 DEF Outcome, AllDivided
  <2>5. Forwarding' /\ Dividing' /\ Inverting'
    BY <2>1 DEF Forwarding, Dividing, Inverting, Forward
  <2>. QED
    BY <1>6, <2>4, <2>5 DEF LoopInv
<1>8. CASE bad = {}
  <2>1. written = 1..4 /\ \A o \in 1..4 : Admitted(Result(in)[Outputs[o].at])
    BY <1>3, <1>8
  <2>2. \A n \in Coeffs : Column(n) < j => Written(in, w0, n)
    BY <1>2 DEF InverseAt
  <2>3. ASSUME NEW n \in Coeffs, Column(n) < j + 1 PROVE Written(in, w0', n)
    <3>1. CASE Column(n) = j
      <4>1. \E o \in written : Outputs[o].at = n
        BY <1>3, <2>1, <3>1
      <4> DEFINE p == CHOOSE o \in written : Outputs[o].at = n
      <4>2. p \in written /\ Outputs[p].at = n
        BY <4>1
      <4>3. w0'[n] = in.h0[n] - 2 * Rounded(Outputs[p])
        <5>1. w0'[n] = IF \E o \in written : Outputs[o].at = n
                       THEN LET o == CHOOSE o \in written : Outputs[o].at = n
                            IN  in.h0[n] - 2 * Rounded(Outputs[o])
                       ELSE w0[n]
          BY <1>4
        <5> HIDE DEF written
        <5>. QED
          BY <4>1, <5>1
      <4> HIDE DEF p, written
      <4>4. p \in 1..4
        BY <2>1, <4>2
      <4>5. Rounded(Outputs[p]) = Result(in)[n] /\ Admitted(Result(in)[n])
        BY <1>3, <2>1, <4>2, <4>4
      <4>. QED
        BY <4>3, <4>5 DEF Written
    <3>2. CASE Column(n) # j
      <4>1. Column(n) < j
        BY <1>3, <2>3, <3>2, ColumnType
      <4>2. ~\E o \in written : Outputs[o].at = n
        BY <1>3, <2>1, <3>2
      <4>3. w0'[n] = w0[n]
        <5> HIDE DEF written
        <5>. QED
          BY <1>4, <4>2
      <4>. QED
        BY <2>2, <4>1, <4>3 DEF Written
    <3>. QED
      BY <3>1, <3>2
  <2>4. CASE j + 1 < N \div 4
    <3>1. j' = j + 1 /\ job' = job
      BY <1>5, <1>8, <2>4
    <3>2. AtLevel(1)'
      <4>1. AtLevel(1)
        BY <1>2 DEF InverseAt
      <4>2. (N \div Pow2(1)) \div 2 = N \div 4
        <5>1. Pow2(1) = 2 /\ N \in Nat
          BY RingSizes, LevelNumbers
        <5>. QED
          BY <5>1
      <4>3. N \div 4 \in Int
        BY RingSizes
      <4>. QED
        BY <1>1, <1>3, <2>4, <3>1, <4>1, <4>2, <4>3 DEF AtLevel
    <3>3. Holds(hat'["q01"], Down(in')[1])
      BY <1>1, <1>2 DEF InverseAt
    <3>4. \A n \in Coeffs : Column(n) < j' => Written(in', w0', n)
      BY <1>1, <2>3, <3>1
    <3>5. InverseAt(1)'
      BY <3>2, <3>3, <3>4 DEF InverseAt
    <3>6. Inverting'
      BY <1>1, <1>2, <3>5 DEF Inverting, AllDivided
    <3>7. Forwarding' /\ Dividing' /\ Outcome'
      BY <1>1, <3>1 DEF Forwarding, Dividing, Outcome, Forward
    <3>. QED
      BY <1>6, <3>6, <3>7 DEF LoopInv
  <2>5. CASE ~(j + 1 < N \div 4)
    <3>1. job' = "ok"
      BY <1>5, <1>8, <2>5
    <3>2. \A n \in Coeffs : Column(n) < j + 1
      <4>1. (N \div 2) \div 2 = N \div 4 /\ N \div 4 \in Int
        BY RingSizes
      <4>. QED
        BY <1>3, <2>5, <4>1, ColumnType
    <3>3. \A n \in Coeffs : Written(in', w0', n)
      BY <1>1, <2>3, <3>2
    <3>4. w0' = [n \in Coeffs |-> w0'[n]]
      BY <1>4
    <3>5. Outcome'
      BY <1>1, <3>1, <3>3, <3>4 DEF Outcome, AllDivided
    <3>6. Forwarding' /\ Dividing' /\ Inverting'
      BY <3>1 DEF Forwarding, Dividing, Inverting, Forward
    <3>. QED
      BY <1>6, <3>5, <3>6 DEF LoopInv
  <2>. QED
    BY <2>4, <2>5
<1>. QED
  BY <1>7, <1>8

\* Every step keeps the invariant,
LEMMA LoopStep == LoopInv /\ [Next]_vars => LoopInv'
<1> SUFFICES ASSUME LoopInv, [Next]_vars PROVE LoopInv'
  OBVIOUS
<1>1. CASE Next
  BY <1>1, LoopForward, LoopDivide, LoopInverse, LoopFinalize DEF Next
<1>2. CASE UNCHANGED vars
  <2>1. Types' /\ Forwarding' /\ Dividing'
    BY <1>2 DEF vars, LoopInv, Types, Forwarding, Dividing, ForwardAt, AtLevel
  <2>2. Inverting' /\ Outcome'
    BY <1>2 DEF vars, LoopInv, Inverting, AllDivided, InverseAt, AtLevel, Outcome
  <2>. QED
    BY <2>1, <2>2 DEF LoopInv
<1>. QED
  BY <1>1, <1>2

\* so it holds at all times: rebuild_s0_with_shared_t1_fast's loops, which work
\* in place, have at any time the lanes of the level that they are in, those
\* written and those not yet, as the functions over whole transforms have them.
THEOREM LoopsInvariant == Spec => []LoopInv
<1>1. Init => LoopInv
  BY LoopInit
<1>2. LoopInv /\ [Next]_vars => LoopInv'
  BY LoopStep
<1>. QED
  BY <1>1, <1>2, PTL DEF Spec

\* The indices that the loops use without a check of bounds, through get_unchecked
\* and raw pointers, are inside their slices and chunks at every pass, for every
\* ring size and every input.
THEOREM IndexesStayInBounds == Spec => []AssertedInBounds
<1>1. LoopInv => AssertedInBounds
  <2> SUFFICES ASSUME LoopInv PROVE AssertedInBounds
    OBVIOUS
  <2>1. ASSUME job \in Forward \union {"inverse"}
        PROVE  u + m < N /\ (u + 1) * T <= N \div 2 /\ High < N \div 2
    <3>1. \E k \in 1..(LOGN - 1) : AtLevel(k)
      BY <2>1 DEF LoopInv, Forwarding, Inverting, ForwardAt, InverseAt
    <3>2. PICK k \in 1..(LOGN - 1) : AtLevel(k)
      BY <3>1
    <3> DEFINE t == N \div Pow2(k)
               low == u * t + j
               high == low + t \div 2
               P == Pow2(k - 1)
    <3>3. /\ T = t /\ High = high /\ m = Pow2(k) /\ u \in Nat
          /\ u \in 0..(P - 1) /\ j \in 0..(t \div 2 - 1)
      BY <3>2, LoopIndexes
    <3>4. high \in Slots /\ (u + 1) * t <= N \div 2
      BY <3>3, Pair
    <3>5. u + m < N
      <4>1. /\ t = 2 * (t \div 2) /\ t \div 2 \in Nat \ {0} /\ N \div 2 = P * t /\ P \in Nat \ {0} /\ Pow2(k) = 2 * P
        BY LevelSizes
      <4>2. t \in Nat /\ t >= 2
        BY <4>1
      <4> HIDE DEF t, P
      <4>3. P * t >= 2 * P /\ P * t \in Nat
        BY <4>1, <4>2, Z3
      <4>. QED
        BY <3>3, <4>1, <4>3, RingSizes
    <3> HIDE DEF high, t
    <3>6. High < N \div 2
      BY <3>3, <3>4, RingSizes DEF Slots
    <3>. QED
      BY <3>3, <3>4, <3>5, <3>6
  <2>2. job = "divide" => u < N \div 2
    BY RingSizes DEF LoopInv, Dividing, Slots
  <2>. QED
    BY <2>1, <2>2 DEF AssertedInBounds
<1>. QED
  BY <1>1, LoopsInvariant, PTL

\* No word of a forward transform wraps, at any level of either of them: every
\* lane is at most as long as its bound for that level, which an i32 holds.
THEOREM WordsHoldTheForward == Spec => []ForwardFits
<1>1. LoopInv => ForwardFits
  <2> SUFFICES ASSUME LoopInv PROVE ForwardFits
    OBVIOUS
  <2>1. ASSUME job \in Forward
        PROVE  /\ \A a \in {Twisted, Sum, Difference} : Fits(WideSize, a)
               /\ \A a \in {Sum, Difference} : Fits(WordSize, Halved(a))
    <3>1. in \in Inputs /\ \E k \in 1..(LOGN - 1) : ForwardAt(k)
      BY <2>1 DEF LoopInv, Types, Forwarding
    <3>2. PICK k \in 1..(LOGN - 1) : ForwardAt(k)
      BY <3>1
    <3> DEFINE t == N \div Pow2(k)
               z == Levels(in, job)[k - 1]
               low == u * t + j
               high == low + t \div 2
               r == DeltaOne - 4 * (LOGN - (k - 1))
    <3>3. /\ Low = low /\ High = high /\ E = DELTA[Pow2(k) + u]
          /\ u \in 0..(Pow2(k - 1) - 1) /\ j \in 0..(t \div 2 - 1)
      BY <3>2, LoopIndexes DEF ForwardAt
    <3>4. low \in Slots /\ high \in Slots
      BY <3>3, Pair
    <3>5. LaneAt(Low) = At(z, Low) /\ LaneAt(High) = At(z, High)
      BY <2>1, <3>1, <3>2, ForwardReads
    <3>6. z \in Complex /\ r \in Nat /\ r + 4 < DeltaOne /\ ShortLanes(z, r)
      BY <2>1, <3>1, LevelFacts
    <3> DEFINE p == At(z, Low)
               q == At(z, High)
    <3>7. Low \in Slots /\ High \in Slots
      <4> HIDE DEF low, high
      <4>. QED
        BY <3>3, <3>4
    <3> HIDE DEF z, r
    <3>8. /\ p.re \in Int /\ p.im \in Int /\ p.re * p.re + p.im * p.im <= r * r
          /\ q.re \in Int /\ q.im \in Int /\ q.re * q.re + q.im * q.im <= r * r
          /\ p \in [re : Int, im : Int] /\ q \in [re : Int, im : Int]
      BY <3>6, <3>7 DEF At, Complex, ShortLanes
    <3> DEFINE e == [re |-> E.re, im |-> E.im]
    <3>9. /\ E.re \in Int /\ E.im \in Int /\ e \in [re : Int, im : Int]
          /\ e.re * e.re + e.im * e.im <= (DeltaOne + 2) * (DeltaOne + 2)
      BY <3>3, TwiddleType
    <3>10. Twisted = Times(q, e)
      BY <3>5 DEF Twisted, Times
    <3>11. Sum = Plus(Shl(p), Times(q, e)) /\ Difference = Minus(Shl(p), Times(q, e))
      BY <3>5, <3>10 DEF Sum, Difference
    <3> HIDE DEF p, q, e
    <3>12. /\ \A x \in {Times(q, e), Plus(Shl(p), Times(q, e)), Minus(Shl(p), Times(q, e))} : Fits(WideSize, x)
           /\ \A x \in {Plus(Shl(p), Times(q, e)), Minus(Shl(p), Times(q, e))} : Fits(WordSize, Halved(x))
      BY <3>6, <3>8, <3>9, ForwardWords
    <3>. QED
      BY <3>10, <3>11, <3>12
  <2>2. job = "divide" => Fits(WideSize, X)
    BY DivideReads
  <2>. QED
    BY <2>1, <2>2 DEF ForwardFits
<1>. QED
  BY <1>1, LoopsInvariant, PTL

\* The divide loop of the functions.
LEMMA DivideLoopIs ==
  ASSUME NEW x \in Inputs, x.q00[0] >= 0
  PROVE  RebuildDirect(x.q00, x.q01, x.w1, x.h0) =
           IF \A n \in Slots : Divided(x, n) THEN InvFftToW0(AllQuotients(x), x.h0) ELSE Rejected
<1> DEFINE q == Final(x, "q01")
           w == Final(x, "w1")
           v == Divisor(x.q00)
           bnd == Bounds(v)
           allowed == {n \in Slots : InRange(v[n])}
           refused == {n \in Slots : n \notin allowed \/ ~WithinBound(q, w, n, bnd[n])}
           zero == {n \in Slots : v[n] = 0}
           y(n) == DivideStep(q, w, n, v[n])
<1>1. x.q00[0] \in Int
  <2>1. x.q00 \in [Coeffs -> Int]
    BY InputsAssumption
  <2>2. 0 \in Coeffs
    BY RingSizes DEF Coeffs
  <2>. QED
    BY <2>1, <2>2
<1>2. RebuildDirect(x.q00, x.q01, x.w1, x.h0) = DivideLoop(q, w, v, bnd, x.h0, allowed)
  <2>1. ~(x.q00[0] < 0)
    BY <1>1
  <2>2. q = FftConv(x.q01, C_Q01, FALSE) /\ w = FftConv(x.w1, C_W1, FALSE)
    BY FinalFacts
  <2>. QED
    BY <2>1, <2>2 DEF RebuildDirect
<1>3. DivideLoop(q, w, v, bnd, x.h0, allowed) =
        CASE refused \union zero = {} ->
               InvFftToW0([re |-> [n \in Slots |-> y(n).re], im |-> [n \in Slots |-> y(n).im]], x.h0)
          [] \E n \in zero \ refused : \A t \in refused : n < t -> Panicked
          [] OTHER -> Rejected
  BY DEF DivideLoop
<1>4. refused = {n \in Slots : ~Divided(x, n)}
  BY DEF Divided, Bounds
<1>5. zero \subseteq refused
  <2>1. ASSUME NEW n \in Slots, v[n] = 0 PROVE ~InRange(v[n])
    BY <2>1 DEF InRange
  <2>. QED
    BY <2>1
<1>6. [re |-> [n \in Slots |-> y(n).re], im |-> [n \in Slots |-> y(n).im]] = AllQuotients(x)
  BY DEF AllQuotients, Quotient
<1> HIDE DEF refused, zero, y, q, w, v, bnd, allowed
<1>7. CASE \A n \in Slots : Divided(x, n)
  <2>1. refused \union zero = {}
    BY <1>4, <1>5, <1>7
  <2>. QED
    BY <1>2, <1>3, <1>6, <1>7, <2>1
<1>8. CASE ~\A n \in Slots : Divided(x, n)
  <2>1. refused \union zero # {} /\ zero \ refused = {}
    BY <1>4, <1>5, <1>8
  <2>2. ~\E n \in zero \ refused : \A t \in refused : n < t
    BY <2>1
  <2>. QED
    BY <1>2, <1>3, <1>8, <2>1, <2>2
<1>. QED
  BY <1>7, <1>8

\* The loops end with the coefficients that the functions of FFT and RebuildS0
\* give, and refuse exactly where those do.
THEOREM LoopsAreTheFunction == Spec => []SameAsFunction
<1>1. LoopInv => SameAsFunction
  <2> SUFFICES ASSUME LoopInv PROVE SameAsFunction
    OBVIOUS
  <2> DEFINE r == RebuildDirect(in.q00, in.q01, in.w1, in.h0)
  <2>1. in \in Inputs
    BY DEF LoopInv, Types
  <2>2. AllDivided => r = InvFftToW0(AllQuotients(in), in.h0)
    BY <2>1, DivideLoopIs DEF AllDivided
  <2>3. InvFftToW0(AllQuotients(in), in.h0) =
          IF S0InRange(Result(in)) THEN [fate |-> "w0", w0 |-> W0(Result(in), in.h0)] ELSE Rejected
    BY DEF InvFftToW0, Result
  <2>4. S0InRange(Result(in)) <=> \A n \in Coeffs : Admitted(Result(in)[n])
    BY DEF S0InRange, Admitted
  <2>5. ASSUME job = "ok" PROVE r = [fate |-> "w0", w0 |-> w0]
    <3>1. AllDivided /\ w0 = [n \in Coeffs |-> w0[n]] /\ \A n \in Coeffs : Written(in, w0, n)
      BY <2>5 DEF LoopInv, Outcome
    <3>2. S0InRange(Result(in))
      BY <2>4, <3>1 DEF Written
    <3>3. w0 = W0(Result(in), in.h0)
      BY <3>1 DEF Written, W0
    <3>. QED
      BY <2>2, <2>3, <3>1, <3>2, <3>3
  <2>6. ASSUME job = "indivisible" PROVE r = Rejected
    <3>1. in.q00[0] < 0 \/ \E n \in Slots : ~Divided(in, n)
      BY <2>6 DEF LoopInv, Outcome
    <3>2. CASE in.q00[0] < 0
      BY <3>2 DEF RebuildDirect
    <3>3. CASE ~(in.q00[0] < 0)
      <4>1. in.q00[0] \in Int
        <5>1. in.q00 \in [Coeffs -> Int]
          BY <2>1, InputsAssumption
        <5>2. 0 \in Coeffs
          BY RingSizes DEF Coeffs
        <5>. QED
          BY <5>1, <5>2
      <4>2. in.q00[0] >= 0
        BY <3>3, <4>1
      <4>. QED
        BY <2>1, <3>1, <3>3, <4>2, DivideLoopIs
    <3>. QED
      BY <3>2, <3>3
  <2>7. ASSUME job = "outOfRange" PROVE r = Rejected
    <3>1. AllDivided /\ \E n \in Coeffs : ~Admitted(Result(in)[n])
      BY <2>7 DEF LoopInv, Outcome
    <3>. QED
      BY <2>2, <2>3, <2>4, <3>1
  <2>. QED
    BY <2>5, <2>6, <2>7 DEF SameAsFunction, Refused
<1>. QED
  BY <1>1, LoopsInvariant, PTL
=============================================================================
