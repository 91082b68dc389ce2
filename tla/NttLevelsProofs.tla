-------------------------- MODULE NttLevelsProofs --------------------------
(***************************************************************************)
(* For every N, primes and widths that satisfy the assumptions: the loops  *)
(* of ntt and ntt_conv stay inside their arrays, no lane and no product    *)
(* overflows although half of the reductions are left out, and each pass   *)
(* over the lanes computes the function NttLevel.                          *)
(*                                                                         *)
(* The invariant says where the loops are (i is b blocks of 2l lanes, and  *)
(* wi counts m - 1 earlier blocks and b of this level), that lanes enter a *)
(* level below Before, and that a lane is either still the one that entered *)
(* the level or already the one that leaves it.                            *)
(*                                                                         *)
(* What the levels compute: after n of them each block is the source       *)
(* modulo X^s - z for its own power z of the root (Transformed), so at the *)
(* end each lane is the source at a power of the root (Evaluates).         *)
(***************************************************************************)
EXTENDS NttLevels, ArithTheorems

Typed ==
  /\ p \in Primes /\ src \in Sources /\ conv \in BOOLEAN
  /\ k \in 1..(LOGN + 1) /\ wi \in Nat /\ i \in Nat /\ j \in Nat
  /\ pc \in {"block", "butterfly", "done"}
  /\ pc # "done" => k <= LOGN
  /\ f \in [Coeffs -> Nat] /\ entry \in [Coeffs -> Nat]

At(m, b) ==
  /\ N = m * (2 * Half(k)) /\ i = b * (2 * Half(k))
  /\ pc = "block" => b <= m /\ wi + 1 = m + b /\ j = 0
  /\ pc = "butterfly" => b < m /\ wi = m + b /\ j < Half(k)

Placed == pc # "done" => \E m, b \in Nat : At(m, b)

\* What bounds the lanes before level n, and after it.
Before(q, n) == IF n > 1 /\ IsLazy(n - 1) THEN 2 * q ELSE q
After(q, n) == IF IsLazy(n) THEN 2 * q ELSE q

Entered == pc # "done" => \A c \in Coeffs : entry[c] < Before(p, k)

Left(c) ==
  \/ c < i
  \/ /\ pc = "butterfly" /\ c < i + 2 * Half(k)
     /\ \/ c < i + j
        \/ i + Half(k) <= c /\ c < i + Half(k) + j

InPlace ==
  pc # "done" => \A c \in Coeffs :
    IF Left(c) THEN f[c] = NttLevel(entry, p, k)[c] /\ f[c] < After(p, k)
               ELSE Read(c) = entry[c]

IndInv == Typed /\ Placed /\ Entered /\ InPlace

-----------------------------------------------------------------------------

\* find_root finds a number whose N-th power is -1.
LEMMA RootFacts ==
  ASSUME NEW q \in Primes
  PROVE  /\ q \in Nat /\ q > 1 /\ FindRoot(q) \in Nat
         /\ Cong(Power(FindRoot(q), N), -1, q)
<1>1. /\ q \in Nat /\ q > 1 /\ N \in Nat /\ N > 3
      /\ \E x \in 2..(q - 1) : IsRoot(x, q)
  BY ParamsAssumption, RootAssumption
<1> DEFINE T == {x \in 2..(q - 1) : IsRoot(x, q)}
           P(x) == x \in 2..(q - 1) /\ IsRoot(x, q) /\ \A y \in 2..(x - 1) : ~IsRoot(y, q)
           base == CHOOSE x \in 2..(q - 1) : IsRoot(x, q) /\ \A y \in 2..(x - 1) : ~IsRoot(y, q)
<1>2. \E x : P(x)
  <2>1. T \in SUBSET Nat /\ T # {}
    BY <1>1
  <2>2. PICK x \in T : \A y \in T : x <= y
    BY <2>1, NatLeast
  <2>3. ASSUME NEW y \in 2..(x - 1) PROVE ~IsRoot(y, q)
    <3>1. y \in 2..(q - 1) /\ ~(x <= y)
      BY <1>1, <2>2
    <3>. QED
      BY <2>2, <3>1
  <2>. QED
    BY <2>2, <2>3
<1>3. base \in 2..(q - 1) /\ IsRoot(base, q)
  <2> HIDE DEF T
  <2>. QED
    BY <1>2
<1>4. FindRoot(q) = RootOf(base, q)
  BY DEF FindRoot
<1> HIDE DEF base
<1> DEFINE e == (q - 1) \div (2 * N)
<1>5. e \in Nat /\ base \in Nat
  <2>1. 2 * N \in Nat /\ 2 * N > 0 /\ q - 1 \in Nat
    BY <1>1
  <2>2. \A a, b \in Nat : b > 0 => a \div b \in Nat
    OBVIOUS
  <2>. QED
    BY <1>1, <1>3, <2>1, <2>2
<1> HIDE DEF e
<1>6. RootOf(base, q) \in Nat
  <2>1. PowMod(base, e, q) \in Nat
    BY <1>1, <1>5, PowModPower
  <2>. QED
    BY <2>1 DEF RootOf, e
<1> DEFINE h == RootOf(base, q)
<1> HIDE DEF h
<1>7. Cong(Power(h, N), -1, q)
  <2>1. h \in Nat /\ PowMod(h, N, q) = q - 1
    BY <1>3, <1>6 DEF IsRoot, h
  <2>2. Cong(q - 1, Power(h, N), q) /\ Power(h, N) \in Int
    BY <1>1, <2>1, PowModPower, PowerFacts
  <2>3. q - 1 = -1 + q * 1 /\ q - 1 \in Int /\ -1 \in Int
    BY <1>1
  <2>4. Cong(q - 1, -1, q)
    BY <2>3 DEF Cong
  <2>. QED
    BY <1>1, <2>2, <2>3, <2>4, CongFacts
<1>. QED
  BY <1>1, <1>4, <1>6, <1>7 DEF h

\* The tables hold residues: powers of the root.
LEMMA TwiddleType ==
  ASSUME NEW q \in Primes
  PROVE  /\ W[q] \in [Coeffs -> 0..(q - 1)]
         /\ \A n \in Coeffs : /\ BitRev(n, LOGN) \in Nat
                              /\ Cong(W[q][n], Power(FindRoot(q), BitRev(n, LOGN)), q)
<1>1. q \in Nat /\ q > 1 /\ FindRoot(q) \in Nat /\ LOGN \in Nat /\ N \in Nat
  BY RootFacts, ParamsAssumption
<1>2. W[q] = [n \in Coeffs |-> PowMod(FindRoot(q), BitRev(n, LOGN), q)]
  BY DEF W
<1>3. ASSUME NEW n \in Coeffs
      PROVE  /\ BitRev(n, LOGN) \in Nat
             /\ PowMod(FindRoot(q), BitRev(n, LOGN), q) \in 0..(q - 1)
             /\ Cong(PowMod(FindRoot(q), BitRev(n, LOGN), q), Power(FindRoot(q), BitRev(n, LOGN)), q)
  <2>1. n \in Nat
    BY <1>1 DEF Coeffs
  <2>2. BitRev(n, LOGN) \in Nat
    BY <1>1, <2>1, BitRevFacts
  <2>. QED
    BY <1>1, <2>2, PowModPower
<1>. QED
  BY <1>2, <1>3

\* The halves of the levels divide the ring evenly, down to one.
LEMMA LevelFacts ==
  /\ N \in Nat /\ LOGN \in Nat /\ LOGN > 1 /\ N = 2 * Half(1)
  /\ \A n \in 1..LOGN : Half(n) \in Nat \ {0} /\ (n < LOGN => Half(n) = 2 * Half(n + 1))
<1>1. N \in Nat /\ N > 3 /\ LOGN \in Nat /\ N = Pow2(LOGN)
  BY ParamsAssumption
<1>2. LOGN > 1
  BY <1>1, PowerSizes
<1>3. ASSUME NEW n \in 1..LOGN
      PROVE  /\ N \div Pow2(n) = Pow2(LOGN - n) /\ N \div Pow2(n) \in Nat \ {0}
             /\ N = Pow2(n - 1) * (2 * (N \div Pow2(n))) /\ Pow2(n - 1) \in Nat \ {0}
             /\ n < LOGN => N \div Pow2(n) = 2 * (N \div Pow2(n + 1))
  BY <1>1, HalfSizes
<1>4. N = 2 * Half(1)
  <2>1. N = Pow2(1 - 1) * (2 * Half(1)) /\ Half(1) \in Nat
    BY <1>1, <1>2, <1>3 DEF Half
  <2>2. Pow2(1 - 1) = 1
    BY Pow2Facts
  <2>. QED
    BY <2>1, <2>2
<1>. QED
  BY <1>1, <1>2, <1>3, <1>4 DEF Half

\* Lane d of block b.
LEMMA InBlock ==
  ASSUME NEW l \in Nat \ {0}, NEW b \in Nat, NEW d \in Nat, d < 2 * l
  PROVE  (b * (2 * l) + d) \div (2 * l) = b /\ (b * (2 * l) + d) % (2 * l) = d
<1> DEFINE s == 2 * l
<1>1. s \in Nat /\ s > 0 /\ d \in 0..(s - 1)
  OBVIOUS
<1> HIDE DEF s
<1>2. s * b + d \in Int /\ (s * b + d) % s = d
  BY <1>1, ModUnique
<1>3. s * b + d = s * ((s * b + d) \div s) + d /\ (s * b + d) \div s \in Int
  BY <1>1, <1>2, DivMod
<1>4. s * b = s * ((s * b + d) \div s)
  BY <1>1, <1>3
<1>5. (s * b + d) \div s = b
  BY <1>1, <1>3, <1>4
<1>6. s * b = b * s
  BY <1>1
<1>. QED
  BY <1>2, <1>5, <1>6 DEF s

\* The block after block b.
LEMMA NextBlock ==
  ASSUME NEW l \in Nat, NEW b \in Nat
  PROVE  (b + 1) * (2 * l) = b * (2 * l) + 2 * l
OBVIOUS

\* A product of a lane below 2p and a twiddle fits a word.
LEMMA ProductFits ==
  ASSUME NEW q \in Primes, NEW x \in Nat, NEW z \in Nat, x < 2 * q, z < q
  PROVE  x * z \in Nat /\ x * z < WORD
<1>1. q \in Nat /\ q > 1 /\ 2 * q * q <= WORD /\ WORD \in Nat
  BY WidthAssumption
<1>2. x * z <= x * q
  BY <1>1
<1>3. x * q < 2 * q * q
  BY <1>1
<1>. QED
  BY <1>1, <1>2, <1>3

\* The two lanes of a butterfly, as NttLevel has them.
LEMMA LevelAt ==
  ASSUME NEW q, NEW g, NEW n \in 1..LOGN, NEW m \in Nat, NEW b \in Nat, NEW d \in Nat,
         N = m * (2 * Half(n)), b < m, d < Half(n)
  PROVE  LET l == Half(n)
             x == b * (2 * l) + d
             t == MulMod(g[x + l], W[q][m + b], q)
             reduce(v) == IF IsLazy(n) THEN v ELSE v % q
         IN  /\ x \in Coeffs /\ x + l \in Coeffs
             /\ NttLevel(g, q, n)[x] = reduce(g[x] + t)
             /\ NttLevel(g, q, n)[x + l] = reduce(g[x] + q - t)
<1> DEFINE l == Half(n)
           x == b * (2 * l) + d
<1>1. l \in Nat \ {0} /\ N \in Nat
  BY LevelFacts
<1>2. x \div (2 * l) = b /\ x % (2 * l) = d
  <2>1. d < 2 * l
    BY <1>1
  <2>. QED
    BY <1>1, <2>1, InBlock
<1>3. (x + l) \div (2 * l) = b /\ (x + l) % (2 * l) = d + l
  <2>1. x + l = b * (2 * l) + (d + l) /\ d + l \in Nat /\ d + l < 2 * l
    BY <1>1
  <2>. QED
    BY <1>1, <2>1, InBlock
<1>4. x \in Coeffs /\ x + l \in Coeffs
  <2>1. (b + 1) * (2 * l) <= m * (2 * l)
    BY <1>1
  <2>2. (b + 1) * (2 * l) = b * (2 * l) + 2 * l /\ b * (2 * l) \in Nat
    BY <1>1
  <2>. QED
    BY <1>1, <2>1, <2>2 DEF Coeffs
<1>5. N \div (2 * l) = m
  <2>1. m * (2 * l) + 0 = m * (2 * l)
    BY <1>1
  <2>. QED
    BY <1>1, <2>1, InBlock
<1>6. Twiddle(q, n, b) = W[q][m + b]
  BY <1>5 DEF Twiddle
<1> DEFINE y == x + l
<1>7. ~(d + l < l) /\ y - l = x
  BY <1>1, <1>4 DEF Coeffs
<1>8. y \in Coeffs
  BY <1>4
<1>9. y % (2 * l) = d + l
  BY <1>3
<1>. HIDE DEF l, x, y
<1>10. NttLevel(g, q, n)[x] =
        LET t == MulMod(g[x + l], Twiddle(q, n, (x + l) \div (2 * l)), q)
        IN  IF IsLazy(n) THEN g[x] + t ELSE (g[x] + t) % q
  BY <1>2, <1>4 DEF NttLevel, l
<1>11. NttLevel(g, q, n)[y] =
        LET t == MulMod(g[y], Twiddle(q, n, y \div (2 * l)), q)
        IN  IF IsLazy(n) THEN g[x] + q - t ELSE (g[x] + q - t) % q
  BY <1>7, <1>8, <1>9 DEF NttLevel, l
<1>. QED
  BY <1>3, <1>4, <1>6, <1>10, <1>11 DEF l, x, y
-----------------------------------------------------------------------------

\* A sum that is stored: it fits the word, and what is stored fits the lane.
LEMMA StoredFits ==
  ASSUME NEW q \in Primes, NEW n \in 1..LOGN, NEW v \in Nat, v < 3 * q, IsLazy(n) => v < 2 * q
  PROVE  LET r == IF IsLazy(n) THEN v ELSE v % q
         IN  v % WORD = v /\ r \in 0..(After(q, n) - 1) /\ r % LANE = r
<1>1. /\ q \in Nat /\ q > 1 /\ 2 * q <= LANE /\ 3 * q <= WORD
      /\ LANE \in Nat /\ WORD \in Nat
  BY WidthAssumption
<1> DEFINE r == IF IsLazy(n) THEN v ELSE v % q
<1>2. r \in 0..(After(q, n) - 1) /\ r < LANE
  <2>1. v % q \in 0..(q - 1)
    BY <1>1
  <2>. QED
    BY <1>1, <2>1 DEF After
<1>3. \A a, b \in Nat : a < b => a % b = a
  OBVIOUS
<1>4. v % WORD = v
  BY <1>1, <1>3
<1>5. r % LANE = r
  BY <1>1, <1>2, <1>3 DEF After
<1>. QED
  BY <1>2, <1>4, <1>5

\* What a butterfly computes from lanes that are below 2p fits a word.
LEMMA ButterflyFits ==
  ASSUME NEW q \in Primes, NEW n \in 1..LOGN, NEW x \in Nat, NEW y \in Nat,
         NEW z \in 0..(q - 1), x < Before(q, n), y < Before(q, n)
  PROVE  LET t == MulMod(y, z, q)
         IN  /\ y * z \in Nat /\ y * z < WORD /\ x + q < WORD
             /\ t \in Nat /\ t < q
             /\ x + t \in Nat /\ x + t < 3 * q
             /\ x + q - t \in Nat /\ x + q - t < 3 * q
             /\ IsLazy(n) => x + t < 2 * q /\ x + q - t < 2 * q
<1>1. q \in Nat /\ q > 1 /\ 3 * q <= WORD /\ WORD \in Nat /\ z \in Nat /\ z < q
  BY WidthAssumption
<1>2. x < 2 * q /\ y < 2 * q
  BY <1>1 DEF Before
<1>3. IsLazy(n) => x < q
  BY <1>1 DEF Before, IsLazy
<1>4. y * z \in Nat /\ y * z < WORD
  BY <1>1, <1>2, ProductFits
<1> DEFINE t == MulMod(y, z, q)
<1>5. t \in Nat /\ t < q
  <2>1. q > 0
    BY <1>1
  <2>. QED
    BY <1>1, <2>1, MulModType
<1> HIDE DEF t
<1>6. /\ x + t \in Nat /\ x + t < 3 * q
      /\ x + q - t \in Nat /\ x + q - t < 3 * q /\ x + q < WORD
      /\ IsLazy(n) => x + t < 2 * q /\ x + q - t < 2 * q
  BY <1>1, <1>2, <1>3, <1>5
<1>. QED
  BY <1>4, <1>5, <1>6 DEF t

\* The transform starts with the invariant.
LEMMA InvInit == Init => IndInv
<1> SUFFICES ASSUME Init PROVE IndInv
  OBVIOUS
<1> USE DEF Init, InitFrom
<1>1. /\ N \in Nat /\ LOGN \in Nat /\ LOGN >= 1 /\ Half(1) \in Nat \ {0}
      /\ N = 2 * Half(1)
  BY LevelFacts
<1>2. /\ p \in Nat /\ p > 1 /\ src \in [Coeffs -> Int]
      /\ \A n \in Coeffs : -p < src[n] /\ src[n] < p
  BY WidthAssumption, SourcesAssumption DEF Reducible
<1>3. \A n \in Coeffs : entry[n] = Red(src[n], p) /\ entry[n] \in 0..(p - 1)
  BY <1>2 DEF NttInit, Red
<1>4. Typed
  BY <1>1, <1>2, <1>3 DEF Typed, NttInit
<1>5. Placed
  <2>1. At(1, 0)
    BY <1>1 DEF At
  <2>. QED
    BY <2>1 DEF Placed
<1>6. Entered
  BY <1>2, <1>3 DEF Entered, Before
<1>7. InPlace
  <2>1. ASSUME NEW c \in Coeffs PROVE ~Left(c) /\ Read(c) = entry[c]
    BY <1>1, <1>3, <2>1 DEF Left, Read, Coeffs
  <2>. QED
    BY <2>1 DEF InPlace
<1>. QED
  BY <1>4, <1>5, <1>6, <1>7 DEF IndInv

\* The two lanes of the butterfly are inside, and neither has been touched.
LEMMA AtButterfly ==
  ASSUME IndInv, pc = "butterfly"
  PROVE  LET l == Half(k)
             n == i + j
         IN  /\ k \in 1..LOGN /\ l \in Nat \ {0} /\ j < l
             /\ n \in Coeffs /\ n + l \in Coeffs /\ n # n + l
             /\ Read(n) = entry[n] /\ Read(n + l) = entry[n + l]
             /\ wi \in 1..(N - 1) /\ i + 2 * l <= N
             /\ LET t == MulMod(entry[n + l], W[p][wi], p)
                    reduce(v) == IF IsLazy(k) THEN v ELSE v % p
                IN  /\ NttLevel(entry, p, k)[n] = reduce(entry[n] + t)
                    /\ NttLevel(entry, p, k)[n + l] = reduce(entry[n] + p - t)
<1> USE DEF IndInv, Typed
<1> DEFINE l == Half(k)
           n == i + j
<1>1. k \in 1..LOGN /\ l \in Nat \ {0} /\ N \in Nat
  BY LevelFacts
<1>2. PICK m, b \in Nat : At(m, b)
  BY DEF Placed
<1>3. N = m * (2 * l) /\ i = b * (2 * l) /\ b < m /\ wi = m + b /\ j < l
  BY <1>2 DEF At
<1>4. /\ n \in Coeffs /\ n + l \in Coeffs
      /\ LET t == MulMod(entry[n + l], W[p][wi], p)
             reduce(v) == IF IsLazy(k) THEN v ELSE v % p
         IN  /\ NttLevel(entry, p, k)[n] = reduce(entry[n] + t)
             /\ NttLevel(entry, p, k)[n + l] = reduce(entry[n] + p - t)
  BY <1>1, <1>3, LevelAt
<1>5. wi \in 1..(N - 1) /\ i + 2 * l <= N
  <2>1. m * (2 * l) >= m * 2
    BY <1>1
  <2>2. (b + 1) * (2 * l) <= m * (2 * l)
    BY <1>1, <1>3
  <2>3. (b + 1) * (2 * l) = b * (2 * l) + 2 * l
    BY <1>1
  <2>. QED
    BY <1>1, <1>3, <2>1, <2>2, <2>3
<1>6. ~Left(n) /\ ~Left(n + l)
  BY <1>1, <1>3 DEF Left
<1>7. Read(n) = entry[n] /\ Read(n + l) = entry[n + l]
  BY <1>4, <1>6 DEF InPlace
<1>. QED
  BY <1>1, <1>3, <1>4, <1>5, <1>7

\* A butterfly stores what NttLevel says.
LEMMA ButterflyStores ==
  ASSUME IndInv, pc = "butterfly"
  PROVE  LET l == Half(k)
             n == i + j
             g == NttLevel(entry, p, k)
         IN  /\ g[n] \in 0..(After(p, k) - 1) /\ g[n + l] \in 0..(After(p, k) - 1)
             /\ Stored((Read(n) + Twiddled) % WORD) = g[n]
             /\ Stored((Read(n) + p - Twiddled) % WORD) = g[n + l]
             /\ NothingWraps
<1> USE DEF IndInv, Typed
<1> DEFINE l == Half(k)
           n == i + j
           x == entry[n]
           y == entry[n + l]
           t == MulMod(y, W[p][wi], p)
           reduce(v) == IF IsLazy(k) THEN v ELSE v % p
<1>1. /\ k \in 1..LOGN /\ n \in Coeffs /\ n + l \in Coeffs
      /\ Read(n) = x /\ Read(n + l) = y /\ wi \in Coeffs
      /\ NttLevel(entry, p, k)[n] = reduce(x + t)
      /\ NttLevel(entry, p, k)[n + l] = reduce(x + p - t)
  BY AtButterfly DEF Coeffs
<1>2. W[p][wi] \in 0..(p - 1)
  BY <1>1, TwiddleType DEF Typed, Coeffs
<1>3. x \in Nat /\ y \in Nat /\ x < Before(p, k) /\ y < Before(p, k)
  BY <1>1 DEF Entered, Before
<1>4. /\ y * W[p][wi] \in Nat /\ y * W[p][wi] < WORD /\ x + p < WORD
      /\ t \in Nat /\ t < p
      /\ x + t \in Nat /\ x + t < 3 * p
      /\ x + p - t \in Nat /\ x + p - t < 3 * p
      /\ IsLazy(k) => x + t < 2 * p /\ x + p - t < 2 * p
  BY <1>1, <1>2, <1>3, ButterflyFits
<1>5. WordProduct = y * W[p][wi]
  BY <1>1 DEF WordProduct
<1>6. Twiddled = t
  <2>1. \A a, b \in Nat : a < b => a % b = a
    OBVIOUS
  <2>2. WordProduct % WORD = WordProduct
    BY <1>4, <1>5, <2>1, WidthAssumption
  <2>. QED
    BY <1>5, <2>2 DEF Twiddled, MulMod
<1> HIDE DEF t, x, y, n
<1>7. /\ (x + t) % WORD = x + t /\ reduce(x + t) \in 0..(After(p, k) - 1)
      /\ reduce(x + t) % LANE = reduce(x + t)
  BY <1>1, <1>4, StoredFits
<1>8. /\ (x + p - t) % WORD = x + p - t /\ reduce(x + p - t) \in 0..(After(p, k) - 1)
      /\ reduce(x + p - t) % LANE = reduce(x + p - t)
  BY <1>1, <1>4, StoredFits
<1>9. NothingWraps
  BY <1>1, <1>4, <1>5, <1>6, WidthAssumption DEF NothingWraps, n
<1>. QED
  BY <1>1, <1>6, <1>7, <1>8, <1>9 DEF Stored, n

\* A new block: the slice [i, i + 2l) and its twiddle.
LEMMA BlockStep == IndInv /\ Block => IndInv'
<1> SUFFICES ASSUME IndInv, Block PROVE IndInv'
  OBVIOUS
<1> USE DEF Block
<1>1. k \in 1..LOGN /\ Half(k) \in Nat \ {0} /\ N \in Nat
  BY LevelFacts DEF IndInv, Typed
<1>2. Typed'
  BY DEF IndInv, Typed
<1>3. Placed'
  <2>1. PICK m, b \in Nat : At(m, b)
    BY DEF IndInv, Placed
  <2>2. N = m * (2 * Half(k)) /\ i = b * (2 * Half(k)) /\ b <= m /\ wi + 1 = m + b /\ j = 0
    BY <2>1 DEF At
  <2>3. b < m
    BY <1>1, <2>2
  <2>4. At(m, b)'
    BY <1>1, <2>2, <2>3 DEF At
  <2>. QED
    BY <2>4 DEF Placed
<1>4. j = 0 /\ i \in Nat
  BY DEF IndInv, Placed, At, Typed
<1>5. \A c \in Coeffs : Left(c)' <=> Left(c)
  BY <1>1, <1>4 DEF Left, Coeffs
<1>6. Entered' /\ InPlace'
  BY <1>5 DEF IndInv, Entered, Before, After, InPlace, Read
<1>. QED
  BY <1>2, <1>3, <1>6 DEF IndInv

\* A butterfly: two more lanes have left the level.
LEMMA ButterflyStep == IndInv /\ Butterfly => IndInv'
<1> SUFFICES ASSUME IndInv, Butterfly PROVE IndInv'
  OBVIOUS
<1> DEFINE l == Half(k)
           n == i + j
           g == NttLevel(entry, p, k)
<1>0. /\ pc = "butterfly" /\ ButterflyAt(n, n + l)
      /\ IF j + 1 < l THEN j' = j + 1 /\ UNCHANGED <<i, pc>>
                      ELSE j' = 0 /\ i' = i + 2 * l /\ pc' = "block"
      /\ UNCHANGED <<p, src, conv, k, wi, entry>>
  BY DEF Butterfly
<1>1. /\ k \in 1..LOGN /\ l \in Nat \ {0} /\ j < l /\ n \in Coeffs /\ n + l \in Coeffs
      /\ n # n + l /\ i \in Nat /\ j \in Nat /\ N \in Nat
  BY <1>0, AtButterfly, LevelFacts DEF IndInv, Typed
<1>2. /\ g[n] \in 0..(After(p, k) - 1) /\ g[n + l] \in 0..(After(p, k) - 1)
      /\ f' = [f EXCEPT ![n] = g[n], ![n + l] = g[n + l]]
  BY <1>0, ButterflyStores DEF ButterflyAt
<1> HIDE DEF g
<1>3. After(p, k) \in Nat
  BY WidthAssumption DEF IndInv, Typed, After
<1>4. /\ f'[n] = g[n] /\ f'[n + l] = g[n + l]
      /\ \A c \in Coeffs : c # n /\ c # n + l => f'[c] = f[c]
  BY <1>1, <1>2 DEF IndInv, Typed
<1>5. Typed'
  BY <1>0, <1>1, <1>2, <1>3 DEF IndInv, Typed
<1>6. Placed'
  <2>1. PICK m, b \in Nat : At(m, b)
    BY <1>0 DEF IndInv, Placed
  <2>2. N = m * (2 * l) /\ i = b * (2 * l) /\ b < m /\ wi = m + b
    BY <1>0, <2>1 DEF At
  <2>3. CASE j + 1 < l
    <3>1. At(m, b)'
      BY <1>0, <2>2, <2>3 DEF At
    <3>. QED
      BY <3>1 DEF Placed
  <2>4. CASE ~(j + 1 < l)
    <3>1. (b + 1) * (2 * l) = b * (2 * l) + 2 * l
      BY <1>1, NextBlock
    <3>2. At(m, b + 1)'
      BY <1>0, <2>2, <2>4, <3>1 DEF At
    <3>. QED
      BY <3>2 DEF Placed
  <2>. QED
    BY <2>3, <2>4
<1>7. \A c \in Coeffs : Left(c)' <=> Left(c) \/ c = n \/ c = n + l
  BY <1>0, <1>1 DEF Left, Coeffs
<1>8. Entered'
  BY <1>0, <1>1 DEF IndInv, Entered, Before
<1>9. InPlace'
  <2>1. ASSUME NEW c \in Coeffs
        PROVE  IF Left(c)' THEN f'[c] = g[c] /\ f'[c] < After(p, k) ELSE Read(c)' = entry[c]
    <3>1. CASE c = n \/ c = n + l
      BY <1>2, <1>3, <1>4, <1>7, <3>1
    <3>2. CASE c # n /\ c # n + l
      BY <1>0, <1>4, <1>7, <2>1, <3>2 DEF IndInv, InPlace, Read, g
    <3>. QED
      BY <3>1, <3>2
  <2>. QED
    BY <1>0, <2>1 DEF InPlace, g, After
<1>. QED
  BY <1>5, <1>6, <1>8, <1>9 DEF IndInv

\* When a level ends every lane has left it.
LEMMA LevelDone ==
  ASSUME IndInv, pc = "block", i >= N
  PROVE  /\ f = NttLevel(entry, p, k) /\ \A c \in Coeffs : f[c] < After(p, k)
         /\ \E m \in Nat : N = m * (2 * Half(k)) /\ wi + 1 = m + m
<1>1. k \in 1..LOGN /\ Half(k) \in Nat \ {0} /\ N \in Nat /\ i \in Nat
  BY LevelFacts DEF IndInv, Typed
<1>2. \A c \in Coeffs : Left(c)
  BY <1>1 DEF Left, Coeffs
<1>3. \A c \in Coeffs : f[c] = NttLevel(entry, p, k)[c] /\ f[c] < After(p, k)
  BY <1>2 DEF IndInv, InPlace
<1>4. f = NttLevel(entry, p, k)
  <2>1. /\ NttLevel(entry, p, k) = [c \in Coeffs |-> NttLevel(entry, p, k)[c]]
        /\ f = [c \in Coeffs |-> f[c]]
    BY DEF NttLevel, IndInv, Typed
  <2>. QED
    BY <1>3, <2>1
<1>5. PICK m, b \in Nat : At(m, b)
  BY DEF IndInv, Placed
<1>6. N = m * (2 * Half(k)) /\ i = b * (2 * Half(k)) /\ b <= m /\ wi + 1 = m + b
  BY <1>5 DEF At
<1>7. b = m
  BY <1>1, <1>6
<1>. QED
  BY <1>3, <1>4, <1>6, <1>7

\* The next level begins with the lanes that this one has made.
LEMMA EndLevelStep == IndInv /\ EndLevel => IndInv'
<1> SUFFICES ASSUME IndInv, EndLevel PROVE IndInv'
  OBVIOUS
<1>0. /\ pc = "block" /\ i >= N /\ wi' = wi /\ k' = k + 1 /\ i' = 0 /\ entry' = f
      /\ pc' = (IF k < LOGN THEN "block" ELSE "done")
      /\ UNCHANGED <<p, src, conv, f, j>>
  BY DEF EndLevel, LevelEnd
<1>1. /\ k \in 1..LOGN /\ N \in Nat /\ LOGN \in Nat /\ j = 0
      /\ k < LOGN => Half(k + 1) \in Nat \ {0} /\ Half(k) = 2 * Half(k + 1)
  BY <1>0, LevelFacts DEF IndInv, Typed, Placed, At
<1>2. Typed'
  BY <1>0, <1>1 DEF IndInv, Typed
<1>3. Placed'
  <2>1. SUFFICES ASSUME k < LOGN PROVE Placed'
    BY <1>0, <1>1 DEF Placed
  <2>2. PICK m \in Nat : N = m * (2 * Half(k)) /\ wi + 1 = m + m
    BY <1>0, LevelDone
  <2>3. m * (2 * (2 * Half(k + 1))) = (m + m) * (2 * Half(k + 1))
    BY <1>1, <2>1
  <2>4. N = (m + m) * (2 * Half(k + 1)) /\ 0 = 0 * (2 * Half(k + 1))
    BY <1>1, <2>1, <2>2, <2>3
  <2>5. At(m + m, 0)'
    BY <1>0, <1>1, <2>1, <2>2, <2>4 DEF At
  <2>. QED
    BY <2>2, <2>5 DEF Placed
<1>4. Entered'
  BY <1>0, <1>1, LevelDone DEF Entered, Before, After
<1>5. InPlace'
  <2>1. ASSUME NEW c \in Coeffs, pc' # "done" PROVE ~Left(c)' /\ Read(c)' = entry'[c]
    BY <1>0, <1>1, <2>1 DEF Left, Read, Coeffs
  <2>. QED
    BY <2>1 DEF InPlace
<1>. QED
  BY <1>2, <1>3, <1>4, <1>5 DEF IndInv

\* Every step keeps the invariant.
LEMMA InvStep == IndInv /\ [Next]_vars => IndInv'
<1>1. IndInv /\ UNCHANGED vars => IndInv'
  BY DEF vars, IndInv, Typed, Placed, At, Entered, Before, After, InPlace, Left, Read
<1>. QED
  BY <1>1, BlockStep, ButterflyStep, EndLevelStep DEF Next

\* The invariant of the loops, from which the rest follows.
THEOREM InvariantHolds == Spec => []IndInv
  BY InvInit, InvStep, PTL DEF Spec

\* AssertedInBounds for every N: the index of the twiddles and the slice of a
\* block, which the code asserts to the compiler, are in range on every level.
THEOREM IndexesInBounds == Spec => []AssertedInBounds
<1>1. IndInv => AssertedInBounds
  BY AtButterfly DEF AssertedInBounds
<1>. QED
  BY <1>1, InvariantHolds, PTL

\* NothingWraps for every N, every prime with 2p in a lane and 2p * p in a
\* word, and every reduced source: leaving out every other reduction is exact.
THEOREM LazyIsExact == Spec => []NothingWraps
<1>1. IndInv => NothingWraps
  BY ButterflyStores DEF NothingWraps
<1>. QED
  BY <1>1, InvariantHolds, PTL

\* The instance computes with the same functions.
LEMMA SameFunctions ==
  /\ \A s, q : ByLevels!NttInit(s, q) = NttInit(s, q)
  /\ \A g, q, n : ByLevels!NttLevel(g, q, n) = NttLevel(g, q, n)
<1>1. ByLevels!W = W
  BY DEF ByLevels!W, W, ByLevels!FindRoot, FindRoot,
         ByLevels!RootOf, RootOf, ByLevels!IsRoot, IsRoot, ByLevels!PowMod, PowMod,
         ByLevels!MulMod, MulMod, ByLevels!BitRev, BitRev, ByLevels!Pow2, Pow2, ByLevels!Primes, Primes,
         ByLevels!Coeffs, Coeffs
<1>2. \A n : ByLevels!Half(n) = Half(n) /\ ByLevels!IsLazy(n) = IsLazy(n)
  BY DEF ByLevels!Half, Half, ByLevels!Pow2, Pow2, ByLevels!IsLazy, IsLazy
<1>. QED
  BY <1>1, <1>2 DEF ByLevels!NttInit, NttInit, ByLevels!Red, Red, ByLevels!Coeffs, Coeffs,
     ByLevels!NttLevel, NttLevel, ByLevels!MulMod, MulMod, ByLevels!Twiddle, Twiddle

\* The safety part of ImplementsLevels: started on a reduced source, the loops
\* change the lanes by whole levels of the function NttLevel.
THEOREM LoopsAreLevels == Spec => ByLevels!Safe
<1>1. Init => ByLevels!Init
  BY SameFunctions DEF Init, InitFrom, ByLevels!Init, ByLevels!Primes, Primes
<1>2. IndInv /\ [Next]_vars => [ByLevels!Next]_<<p, k, entry>>
  <2> SUFFICES ASSUME IndInv, [Next]_vars PROVE [ByLevels!Next]_<<p, k, entry>>
    OBVIOUS
  <2>1. CASE Block
    BY <2>1 DEF Block
  <2>2. CASE Butterfly
    BY <2>2 DEF Butterfly
  <2>3. CASE EndLevel
    <3>1. f = NttLevel(entry, p, k) /\ k <= LOGN
      BY <2>3, LevelDone DEF EndLevel, LevelEnd, IndInv, Typed
    <3>. QED
      BY <2>3, <3>1, SameFunctions DEF EndLevel, LevelEnd, ByLevels!Next, ByLevels!Level
  <2>4. CASE UNCHANGED vars
    BY <2>4 DEF vars
  <2>. QED
    BY <2>1, <2>2, <2>3, <2>4 DEF Next
<1>. QED
  BY <1>1, <1>2, InvariantHolds, PTL DEF Spec, ByLevels!Safe

-----------------------------------------------------------------------------
(***************************************************************************)
(* What the levels compute.  After n of them the lanes are 2^n blocks, and *)
(* block b is the source modulo X^s - z, with s = 2^(LOGN - n) lanes and z *)
(* a power of the root: lane t of it is the polynomial of every s-th       *)
(* coefficient from t on, at z.                                            *)
(***************************************************************************)

\* The exponent of the root of block b after n levels.
Exponent(n, b) == Pow2(LOGN - n) * (2 * BitRev(b, n) + 1)

Point(q, n, b) == Power(FindRoot(q), Exponent(n, b))

\* The lanes g are those of the source c after n levels.
Reduced(g, c, q, n) ==
  \A b \in 0..(Pow2(n) - 1), t \in 0..(Pow2(LOGN - n) - 1) :
    Cong(g[b * Pow2(LOGN - n) + t],
         Strand(c, Point(q, n, b), t, Pow2(LOGN - n), Pow2(n)), q)

\* A butterfly, up to multiples of q.
LEMMA ButterflyCong ==
  ASSUME NEW q \in Nat, q > 0, NEW a \in Nat, NEW b \in Nat, NEW w \in Nat, NEW v \in Int, NEW u \in Int,
         NEW x \in Nat, NEW y \in Nat,
         Cong(a, u, q), Cong(b, v, q), Cong(w, x, q), Cong(y, -x, q)
  PROVE  /\ Cong(a + MulMod(b, w, q), u + x * v, q)
         /\ Cong(a + q - MulMod(b, w, q), u + y * v, q)
         /\ a + MulMod(b, w, q) \in Int /\ a + q - MulMod(b, w, q) \in Int
<1> DEFINE t == MulMod(b, w, q)
<1>1. t \in Nat /\ Cong(t, b * w, q)
  BY CongMulMod
<1> HIDE DEF t
<1>2. b * w \in Int /\ v * x \in Int /\ x * v \in Int /\ y * v \in Int /\ v * x = x * v /\ (-1) * t \in Int
      /\ (-x) * v \in Int /\ (-1) * (x * v) = (-x) * v
  BY <1>1, Z3
<1>3. Cong(b * w, v * x, q)
  BY CongFacts
<1>4. Cong(t, x * v, q)
  BY <1>1, <1>2, <1>3, CongFacts
<1>5. Cong((-1) * t, (-1) * (x * v), q)
  <2>1. Cong(-1, -1, q) /\ -1 \in Int /\ t \in Int
    BY <1>1, CongFacts
  <2>. QED
    BY <1>2, <1>4, <2>1, CongFacts
<1>6. Cong((-x) * v, y * v, q)
  <2>1. -x \in Int /\ y \in Int
    OBVIOUS
  <2>2. Cong(-x, y, q) /\ Cong(v, v, q)
    BY <2>1, CongFacts
  <2>. QED
    BY <2>1, <2>2, CongFacts
<1>7. Cong((-1) * t, y * v, q)
  BY <1>2, <1>5, <1>6, CongFacts
<1>8. Cong(a + t, u + x * v, q)
  BY <1>1, <1>2, <1>4, CongFacts
<1>9. Cong(a + (-1) * t, u + y * v, q) /\ a + (-1) * t \in Int
  <2>1. a \in Int /\ a + (-1) * t \in Int
    BY <1>2
  <2>. QED
    BY <1>2, <1>7, <2>1, CongFacts
<1>10. Cong(q, 0, q)
  <2>1. 1 \in Int /\ q = 0 + q * 1
    OBVIOUS
  <2>2. \E o \in Int : q = 0 + q * o
    BY <2>1, Zenon
  <2>. QED
    BY <2>2 DEF Cong
<1>11. Cong((a + (-1) * t) + q, (u + y * v) + 0, q) /\ u + y * v \in Int
  BY <1>2, <1>9, <1>10, CongFacts
<1>12. (a + (-1) * t) + q = a + q - t /\ (u + y * v) + 0 = u + y * v
  BY <1>1, <1>11
<1>. QED
  BY <1>1, <1>8, <1>11, <1>12 DEF t

\* The points of the two halves of a block: square roots of its own, the
\* twiddle and its negative.
LEMMA PointFacts ==
  ASSUME NEW q \in Primes, NEW n \in 1..LOGN, NEW b \in 0..(Pow2(n - 1) - 1)
  PROVE  LET m == Pow2(n - 1)
             z == Point(q, n - 1, b)
             x == Point(q, n, 2 * b)
             y == Point(q, n, 2 * b + 1)
         IN  /\ z \in Nat /\ x \in Nat /\ y \in Nat /\ m + b \in Coeffs
             /\ Cong(W[q][m + b], x, q) /\ Cong(y, -x, q)
             /\ Cong(x * x, z, q) /\ Cong(y * y, z, q)
<1> DEFINE m == Pow2(n - 1)
           h == FindRoot(q)
           l == Pow2(LOGN - n)
           r == BitRev(b, n - 1)
           e == l * (2 * r + 1)
<1>1. /\ LOGN \in Nat /\ n \in Nat /\ n - 1 \in Nat /\ LOGN - n \in Nat /\ N = Pow2(LOGN) /\ N \in Nat
      /\ (n - 1) + 1 = n /\ (n - 1) + 1 + (LOGN - n) = LOGN /\ LOGN - (n - 1) = (LOGN - n) + 1
  BY ParamsAssumption
<1>2. /\ m \in Nat /\ m > 0 /\ l \in Nat /\ l > 0 /\ Pow2(LOGN - (n - 1)) = 2 * l /\ Pow2(n) = 2 * m
      /\ b \in Nat
  <2>1. Pow2((n - 1) + 1) = 2 * m /\ Pow2((LOGN - n) + 1) = 2 * l
    BY <1>1, Pow2Facts
  <2>. QED
    BY <1>1, <2>1, Pow2Facts
<1>3. N = m * (2 * l)
  <2>1. LOGN = (n - 1) + ((LOGN - n) + 1) /\ (LOGN - n) + 1 \in Nat
    BY <1>1
  <2>2. Pow2((n - 1) + ((LOGN - n) + 1)) = Pow2(n - 1) * Pow2((LOGN - n) + 1)
    BY <1>1, <2>1, Pow2Sum
  <2>. QED
    BY <1>1, <1>2, <2>1, <2>2
<1>4. r \in Nat /\ BitRev(2 * b, n) = r /\ BitRev(2 * b + 1, n) = r + m
  <2>1. BitRev(2 * b, (n - 1) + 1) = r /\ BitRev(2 * b + 1, (n - 1) + 1) = r + m
    BY <1>1, <1>2, BitRevDouble
  <2>. QED
    BY <1>1, <1>2, <2>1, BitRevFacts
<1>5. BitRev(m + b, LOGN) = e
  <2>1. BitRev(Pow2(n - 1) + b, (n - 1) + 1 + (LOGN - n)) = Pow2(LOGN - n) * (2 * BitRev(b, n - 1) + 1)
    BY <1>1, BitRevTwiddle
  <2>. QED
    BY <1>1, <2>1
<1>6. /\ Exponent(n - 1, b) = (2 * l) * (2 * r + 1)
      /\ Exponent(n, 2 * b) = e
      /\ Exponent(n, 2 * b + 1) = l * (2 * (r + m) + 1)
  BY <1>2, <1>4 DEF Exponent
<1> HIDE DEF m, h, l, r, e
<1>7. /\ e \in Nat /\ (2 * l) * (2 * r + 1) = e + e /\ l * (2 * (r + m) + 1) = e + N
  <2>1. e = l * (2 * r + 1)
    BY DEF e
  <2>. QED
    BY <1>2, <1>3, <1>4, <2>1, Z3
<1> DEFINE x == Power(h, e)
           o == Power(h, N)
<1>8. /\ h \in Nat /\ q \in Nat /\ q > 1 /\ Cong(o, -1, q) /\ x \in Nat /\ o \in Nat
  <2>1. h \in Nat /\ q \in Nat /\ q > 1 /\ Cong(o, -1, q)
    BY RootFacts DEF h
  <2>. QED
    BY <1>1, <1>7, <2>1, PowerFacts
<1>9. Power(h, e + e) = x * x /\ Power(h, e + N) = x * o
  BY <1>1, <1>7, <1>8, PowerSum
<1>10. Point(q, n - 1, b) = x * x /\ Point(q, n, 2 * b) = x /\ Point(q, n, 2 * b + 1) = x * o
  BY <1>6, <1>7, <1>9 DEF Point, h
<1>11. m + b \in Coeffs /\ Cong(W[q][m + b], x, q)
  <2>1. m + b \in Coeffs
    <3>1. m * 2 <= m * (2 * l)
      BY <1>2, Z3
    <3>2. b < m
      BY <1>2 DEF m
    <3>. QED
      BY <1>1, <1>2, <1>3, <3>1, <3>2 DEF Coeffs
  <2>2. Cong(W[q][m + b], Power(FindRoot(q), BitRev(m + b, LOGN)), q)
    BY <2>1, TwiddleType
  <2>. QED
    BY <1>5, <2>1, <2>2 DEF h
<1> HIDE DEF x, o
<1>12. x * x \in Nat /\ x * o \in Nat /\ x * (-1) = -x /\ (x * o) * (x * o) = (x * x) * (o * o) /\ o * o \in Int
       /\ (x * o) * (x * o) \in Int
  BY <1>8, Z3
<1>13. Cong(x * o, -x, q)
  <2>1. Cong(x, x, q) /\ x \in Int /\ o \in Int /\ -1 \in Int
    BY <1>8, CongFacts
  <2>2. Cong(x * o, x * (-1), q)
    BY <1>8, <2>1, CongFacts
  <2>. QED
    BY <1>12, <2>2
<1>14. Cong((x * o) * (x * o), x * x, q)
  <2>1. Cong((x * o) * (x * o), (-x) * (-x), q)
    <3>1. x * o \in Int /\ -x \in Int
      BY <1>8, <1>12
    <3>. QED
      BY <1>8, <1>13, <3>1, CongFacts
  <2>2. (-x) * (-x) = x * x
    BY <1>8, Z3
  <2>. QED
    BY <2>1, <2>2
<1>15. Cong(x * x, x * x, q)
  BY <1>8, <1>12, CongFacts
<1>. QED
  BY <1>8, <1>10, <1>11, <1>12, <1>13, <1>14, <1>15 DEF m

\* One level halves every block.
LEMMA BlockReduced ==
  ASSUME NEW q \in Primes, NEW n \in 1..LOGN, NEW g \in [Coeffs -> Nat], NEW c \in [Coeffs -> Int],
         Reduced(g, c, q, n - 1),
         NEW b \in 0..(Pow2(n - 1) - 1), NEW d \in 0..(Pow2(LOGN - n) - 1)
  PROVE  LET l == Pow2(LOGN - n)
             f1 == NttLevel(g, q, n)
         IN  /\ Cong(f1[(2 * b) * l + d], Strand(c, Point(q, n, 2 * b), d, l, Pow2(n)), q)
             /\ Cong(f1[(2 * b + 1) * l + d], Strand(c, Point(q, n, 2 * b + 1), d, l, Pow2(n)), q)
<1> DEFINE m == Pow2(n - 1)
           l == Pow2(LOGN - n)
           z == Point(q, n - 1, b)
           x == Point(q, n, 2 * b)
           y == Point(q, n, 2 * b + 1)
           w == W[q][m + b]
           u == Strand(c, z, d, 2 * l, m)
           v == Strand(c, z, d + l, 2 * l, m)
           at == b * (2 * l) + d
           t == MulMod(g[at + l], w, q)
           reduce(e) == IF IsLazy(n) THEN e ELSE e % q
           f1 == NttLevel(g, q, n)
<1>1. /\ LOGN \in Nat /\ n \in Nat /\ n - 1 \in Nat /\ LOGN - n \in Nat /\ N = Pow2(LOGN) /\ N \in Nat
      /\ (n - 1) + 1 = n /\ LOGN - (n - 1) = (LOGN - n) + 1 /\ N > 3 /\ LOGN >= 1
  BY ParamsAssumption
<1>2. /\ m \in Nat /\ m > 0 /\ l \in Nat /\ l > 0 /\ Pow2(LOGN - (n - 1)) = 2 * l /\ Pow2(n) = 2 * m
      /\ b \in Nat /\ b < m /\ d \in Nat /\ d < l
  <2>1. Pow2((n - 1) + 1) = 2 * m /\ Pow2((LOGN - n) + 1) = 2 * l
    BY <1>1, Pow2Facts
  <2>2. m \in Nat /\ m > 0 /\ l \in Nat /\ l > 0
    BY <1>1, Pow2Facts
  <2>. QED
    BY <1>1, <2>1, <2>2
<1>3. N = m * (2 * l) /\ Half(n) = l
  <2>1. ASSUME NEW o \in 1..LOGN
        PROVE  N \div Pow2(o) = Pow2(LOGN - o) /\ N = Pow2(o - 1) * (2 * (N \div Pow2(o)))
    BY ParamsAssumption, HalfSizes
  <2>. QED
    BY <2>1 DEF Half
<1>4. q \in Nat /\ q > 1 /\ q > 0
  BY RootFacts
<1> HIDE DEF m, l
<1>5. /\ z \in Nat /\ x \in Nat /\ y \in Nat /\ m + b \in Coeffs
      /\ Cong(w, x, q) /\ Cong(y, -x, q) /\ Cong(x * x, z, q) /\ Cong(y * y, z, q)
  BY PointFacts DEF m
<1> HIDE DEF z, x, y
<1>6. w \in Nat
  BY <1>4, <1>5, TwiddleType
<1>7. ASSUME NEW r \in 0..(2 * m - 1) PROVE d + r * l \in Coeffs
  <2>1. r \in Nat /\ r + 1 <= 2 * m
    BY <1>2
  <2>2. (r + 1) * l <= (2 * m) * l /\ (r + 1) * l = r * l + l /\ r * l \in Nat /\ (2 * m) * l = m * (2 * l)
    BY <1>2, <2>1, Z3
  <2>3. d + r * l \in Nat /\ d + r * l < (r + 1) * l
    BY <1>2, <2>2
  <2>. QED
    <3>1. (r + 1) * l <= N
      BY <1>3, <2>2
    <3>2. (r + 1) * l \in Nat
      BY <1>2, <2>1, Z3
    <3> DEFINE a == (r + 1) * l
               e == d + r * l
    <3>3. a <= N /\ a \in Nat /\ e \in Nat /\ e < a
      BY <2>3, <3>1, <3>2
    <3> HIDE DEF a, e
    <3>4. e \in Coeffs
      BY <1>1, <3>3 DEF Coeffs
    <3>. QED
      BY <3>4 DEF e
<1>8. ASSUME NEW r \in 0..(m - 1) PROVE d + r * (2 * l) \in Coeffs /\ d + l + r * (2 * l) \in Coeffs
  <2>1. r \in Nat /\ 2 * r \in 0..(2 * m - 1) /\ 2 * r + 1 \in 0..(2 * m - 1)
    BY <1>2
  <2>2. d + (2 * r) * l = d + r * (2 * l) /\ d + (2 * r + 1) * l = d + l + r * (2 * l)
    BY <1>2, <2>1, Z3
  <2>3. d + (2 * r) * l \in Coeffs /\ d + (2 * r + 1) * l \in Coeffs
    BY <1>7, <2>1
  <2>. QED
    BY <2>2, <2>3
<1>9. u \in Int /\ v \in Int
  <2>1. 2 * l \in Nat /\ d + l \in Nat
    BY <1>2
  <2>2. u \in Int
    BY <1>2, <1>5, <1>8, <2>1, StrandType
  <2>3. v \in Int
    BY <1>2, <1>5, <1>8, <2>1, StrandType
  <2>. QED
    BY <2>2, <2>3
<1>10. /\ Cong(Strand(c, x, d, l, 2 * m), u + x * v, q)
       /\ Cong(Strand(c, y, d, l, 2 * m), u + y * v, q)
  <2>1. \A r \in 0..(2 * m - 1) : c[d + r * l] \in Int
    BY <1>7
  <2>2. Cong(Strand(c, x, d, l, 2 * m), u + x * v, q)
    BY <1>2, <1>4, <1>5, <2>1, EvenAndOdd
  <2>3. Cong(Strand(c, y, d, l, 2 * m), u + y * v, q)
    BY <1>2, <1>4, <1>5, <2>1, EvenAndOdd
  <2>. QED
    BY <2>2, <2>3
<1>11. Strand(c, x, d, l, 2 * m) \in Int /\ Strand(c, y, d, l, 2 * m) \in Int
  <2>1. \A r \in 0..(2 * m - 1) : c[d + r * l] \in Int
    BY <1>7
  <2>2. 2 * m \in Nat
    BY <1>2
  <2>3. Strand(c, x, d, l, 2 * m) \in Int
    BY <1>2, <1>5, <2>1, <2>2, StrandType
  <2>4. Strand(c, y, d, l, 2 * m) \in Int
    BY <1>2, <1>5, <2>1, <2>2, StrandType
  <2>. QED
    BY <2>3, <2>4
<1>12. Cong(g[at], u, q) /\ Cong(g[at + l], v, q)
  <2>1. b \in 0..(Pow2(n - 1) - 1) /\ d \in 0..(2 * l - 1) /\ d + l \in 0..(2 * l - 1)
    BY <1>2
  <2>2. \A e \in 0..(2 * l - 1) : Cong(g[b * (2 * l) + e], Strand(c, z, e, 2 * l, m), q)
    BY <1>2, <2>1 DEF Reduced, z, m
  <2>3. b * (2 * l) + (d + l) = at + l
    <3>1. b * (2 * l) \in Nat
      BY <1>2, Z3
    <3>. QED
      BY <1>2, <3>1
  <2>4. Cong(g[b * (2 * l) + d], Strand(c, z, d, 2 * l, m), q)
    BY <2>1, <2>2
  <2>5. Cong(g[b * (2 * l) + (d + l)], Strand(c, z, d + l, 2 * l, m), q)
    BY <2>1, <2>2
  <2>. QED
    BY <2>3, <2>4, <2>5
<1>13. /\ at \in Coeffs /\ at + l \in Coeffs
       /\ f1[at] = reduce(g[at] + t) /\ f1[at + l] = reduce(g[at] + q - t)
  <2> DEFINE h == Half(n)
             to == b * (2 * h) + d
             e == MulMod(g[to + h], W[q][m + b], q)
  <2>1. /\ to \in Coeffs /\ to + h \in Coeffs
        /\ NttLevel(g, q, n)[to] = (IF IsLazy(n) THEN g[to] + e ELSE (g[to] + e) % q)
        /\ NttLevel(g, q, n)[to + h] = (IF IsLazy(n) THEN g[to] + q - e ELSE (g[to] + q - e) % q)
    <3>1. N = m * (2 * Half(n)) /\ d < Half(n)
      BY <1>2, <1>3
    <3>. QED
      BY <1>2, <3>1, LevelAt
  <2>. QED
    BY <1>3, <2>1
<1>14. at = (2 * b) * l + d /\ at + l = (2 * b + 1) * l + d
  BY <1>2, Z3
<1>15. g[at] \in Nat /\ g[at + l] \in Nat
  BY <1>13
<1> HIDE DEF u, v, at, f1, w
<1>16. /\ Cong(g[at] + t, u + x * v, q) /\ Cong(g[at] + q - t, u + y * v, q)
       /\ g[at] + t \in Int /\ g[at] + q - t \in Int
  BY <1>4, <1>5, <1>6, <1>9, <1>12, <1>15, ButterflyCong
<1> HIDE DEF t
<1>17. ASSUME NEW a \in Int, NEW s \in Int, NEW o \in Int, Cong(a, s, q), Cong(o, s, q)
       PROVE  Cong(reduce(a), o, q)
  <2>1. Cong(s, o, q)
    BY <1>4, <1>17, CongFacts
  <2>2. Cong(a, o, q)
    BY <1>4, <1>17, <2>1, CongFacts
  <2>3. a % q \in Int /\ Cong(a % q, a, q)
    BY <1>4, CongMod
  <2>4. Cong(a % q, o, q)
    BY <1>4, <2>2, <2>3, CongFacts
  <2>. QED
    BY <2>2, <2>4
<1>18. u + x * v \in Int /\ u + y * v \in Int
  BY <1>5, <1>9, Z3
<1>19. /\ Cong(reduce(g[at] + t), Strand(c, x, d, l, 2 * m), q)
       /\ Cong(reduce(g[at] + q - t), Strand(c, y, d, l, 2 * m), q)
  <2> HIDE DEF reduce
  <2>. QED
    BY <1>10, <1>11, <1>16, <1>17, <1>18
<1>. QED
  BY <1>2, <1>13, <1>14, <1>19 DEF f1, x, y, l

\* A level takes the lanes after n - 1 levels to those after n.
LEMMA LevelReduced ==
  ASSUME NEW q \in Primes, NEW n \in 1..LOGN, NEW g \in [Coeffs -> Nat], NEW c \in [Coeffs -> Int],
         Reduced(g, c, q, n - 1)
  PROVE  Reduced(NttLevel(g, q, n), c, q, n)
<1> DEFINE l == Pow2(LOGN - n)
           f1 == NttLevel(g, q, n)
<1>1. ASSUME NEW b \in 0..(Pow2(n) - 1), NEW d \in 0..(l - 1)
      PROVE  Cong(f1[b * l + d], Strand(c, Point(q, n, b), d, l, Pow2(n)), q)
  <2>1. Pow2(n) = 2 * Pow2(n - 1) /\ Pow2(n - 1) \in Nat
    <3>1. n - 1 \in Nat /\ (n - 1) + 1 = n
      BY ParamsAssumption
    <3>. QED
      BY <3>1, Pow2Facts
  <2>2. PICK a \in 0..(Pow2(n - 1) - 1) : b = 2 * a \/ b = 2 * a + 1
    <3>1. b \div 2 \in 0..(Pow2(n - 1) - 1) /\ (b = 2 * (b \div 2) \/ b = 2 * (b \div 2) + 1)
      BY <2>1
    <3>. QED
      BY <3>1
  <2>3. /\ Cong(f1[(2 * a) * l + d], Strand(c, Point(q, n, 2 * a), d, l, Pow2(n)), q)
        /\ Cong(f1[(2 * a + 1) * l + d], Strand(c, Point(q, n, 2 * a + 1), d, l, Pow2(n)), q)
    BY BlockReduced
  <2> HIDE DEF f1, l
  <2>. QED
    BY <2>2, <2>3
<1>. QED
  BY <1>1 DEF Reduced

\* Before the first level the lanes are the source.
LEMMA SourceReduced ==
  ASSUME NEW q \in Primes, NEW c \in [Coeffs -> Int]
  PROVE  Reduced(c, c, q, 0)
<1>1. LOGN \in Nat /\ LOGN - 0 = LOGN /\ N = Pow2(LOGN) /\ N \in Nat /\ Pow2(0) = 1 /\ q \in Nat
  BY ParamsAssumption, RootFacts, Pow2Facts
<1>2. ASSUME NEW b \in 0..(Pow2(0) - 1), NEW t \in 0..(Pow2(LOGN - 0) - 1)
      PROVE  Cong(c[b * Pow2(LOGN - 0) + t],
                  Strand(c, Point(q, 0, b), t, Pow2(LOGN - 0), Pow2(0)), q)
  <2> DEFINE z == Point(q, 0, b)
             f0 == [r \in 0..(1 - 1) |-> c[t + r * N] * Power(z, r)]
  <2>1. b = 0 /\ t \in Coeffs /\ t \in Nat /\ b * N + t = t /\ t + 0 * N = t
    BY <1>1, <1>2 DEF Coeffs
  <2>2. z \in Nat
    <3>1. Exponent(0, b) \in Nat
      <4>1. BitRev(b, 0) = 0
        BY <2>1, BitRevFacts
      <4>2. Exponent(0, b) = N * (2 * 0 + 1)
        BY <1>1, <4>1 DEF Exponent
      <4>. QED
        BY <1>1, <4>2
    <3>. QED
      BY <3>1, RootFacts, PowerFacts DEF Point
  <2> HIDE DEF z
  <2>3. Power(z, 0) = 1
    BY <2>2, PowerFacts
  <2>4. f0[0] = c[t] /\ c[t] \in Int
    BY <2>1, <2>3
  <2> HIDE DEF f0
  <2>5. SumTo(f0, 0) = 0 /\ SumTo(f0, 0 + 1) = SumTo(f0, 0) + f0[0]
    <3>1. \A o \in 0..(1 - 1) : f0[o] \in Int
      BY <2>4
    <3>2. 1 \in Nat /\ 0 \in 0..(1 - 1)
      OBVIOUS
    <3>. QED
      BY <3>1, <3>2, SumFacts
  <2>6. Strand(c, z, t, N, 1) = c[t]
    <3>1. Strand(c, z, t, N, 1) = SumTo(f0, 1)
      BY DEF Strand, f0
    <3>. QED
      BY <2>4, <2>5, <3>1
  <2>7. Cong(c[t], c[t], q)
    BY <1>1, <2>4, CongFacts
  <2>. QED
    BY <1>1, <2>1, <2>6, <2>7 DEF z
<1>. QED
  BY <1>2 DEF Reduced

\* The table of powers that Evaluates is stated with.
LEMMA RootPowersFacts ==
  ASSUME NEW q \in Primes
  PROVE  \A e \in 0..(2 * N - 1) : /\ RootPowers(q)[e] \in Nat
                                   /\ Cong(RootPowers(q)[e], Power(FindRoot(q), e), q)
<1> DEFINE h == FindRoot(q)
           P(w) == w = [e \in 0..(2 * N - 1) |-> IF e = 0 THEN 1 ELSE (w[e - 1] * h) % q]
           T == [e \in 0..(2 * N - 1) |-> Power(h, e) % q]
           w == CHOOSE w : P(w)
<1>1. q \in Nat /\ q > 1 /\ q > 0 /\ h \in Nat /\ N \in Nat
  BY RootFacts, ParamsAssumption
<1> HIDE DEF h
<1>2. ASSUME NEW e \in Nat
      PROVE  /\ Power(h, e) \in Nat /\ Power(h, e) % q \in Nat /\ Cong(Power(h, e) % q, Power(h, e), q)
             /\ e = 0 => Power(h, e) % q = 1
  <2>1. Power(h, e) \in Nat /\ Power(h, 0) = 1
    BY <1>1, PowerFacts
  <2>2. Power(h, e) % q \in 0..(q - 1) /\ Cong(Power(h, e) % q, Power(h, e), q)
    <3>1. Power(h, e) \in Int
      BY <2>1
    <3>. QED
      BY <1>1, <3>1, CongMod
  <2>3. 1 % q = 1
    BY <1>1, CongMod
  <2>. QED
    BY <1>1, <2>1, <2>2, <2>3
<1>3. P(T)
  <2>1. ASSUME NEW e \in 0..(2 * N - 1)
        PROVE  T[e] = IF e = 0 THEN 1 ELSE (T[e - 1] * h) % q
    <3>1. CASE e = 0
      BY <1>2, <3>1
    <3>2. CASE e # 0
      <4>1. e \in Nat /\ e - 1 \in Nat /\ e - 1 \in 0..(2 * N - 1) /\ (e - 1) + 1 = e
        BY <1>1, <3>2
      <4>2. Power(h, (e - 1) + 1) = h * Power(h, e - 1)
        BY <1>1, <4>1, PowerFacts
      <4> DEFINE u == Power(h, e - 1)
      <4>3. u \in Nat
        BY <1>2, <4>1
      <4>4. ((u % q) * h) % q = (u * h) % q /\ u * h = h * u
        <5> HIDE DEF u
        <5>1. u * h = h * u
          BY <1>1, <4>3, Z3
        <5>. QED
          BY <1>1, <4>3, <5>1, MulModReduce
      <4>5. T[e] = Power(h, e) % q /\ T[e - 1] = u % q
        BY <4>1
      <4> HIDE DEF u, T
      <4>. QED
        BY <3>2, <4>1, <4>2, <4>4, <4>5 DEF u
    <3>. QED
      BY <3>1, <3>2
  <2>2. T = [e \in 0..(2 * N - 1) |-> T[e]]
    OBVIOUS
  <2> HIDE DEF T
  <2>. QED
    BY <2>1, <2>2
<1>4. P(w)
  <2> HIDE DEF P, T
  <2>. QED
    BY <1>3
<1>5. RootPowers(q) = w
  BY DEF RootPowers, h
<1> HIDE DEF w
<1> DEFINE S == {n \in Nat : n <= 2 * N - 1 => w[n] = T[n]}
<1>6. 0 \in S
  BY <1>1, <1>2, <1>3, <1>4
<1>7. ASSUME NEW n \in Nat, n \in S PROVE n + 1 \in S
  <2>1. SUFFICES ASSUME n + 1 <= 2 * N - 1 PROVE w[n + 1] = T[n + 1]
    OBVIOUS
  <2>2. n + 1 \in 0..(2 * N - 1) /\ n + 1 # 0 /\ (n + 1) - 1 = n /\ w[n] = T[n]
    BY <1>1, <1>7, <2>1
  <2>3. \A e \in 0..(2 * N - 1) : w[e] = IF e = 0 THEN 1 ELSE (w[e - 1] * h) % q
    BY <1>4
  <2>4. \A e \in 0..(2 * N - 1) : T[e] = IF e = 0 THEN 1 ELSE (T[e - 1] * h) % q
    <3> HIDE DEF T
    <3>. QED
      BY <1>3
  <2> HIDE DEF T
  <2>. QED
    BY <2>2, <2>3, <2>4
<1> HIDE DEF S
<1>8. Nat \subseteq S
  BY <1>6, <1>7, SetInduction
<1>9. ASSUME NEW e \in 0..(2 * N - 1) PROVE w[e] = Power(h, e) % q /\ e \in Nat
  <2>1. e \in Nat /\ e <= 2 * N - 1
    BY <1>1
  <2>2. w[e] = T[e]
    <3> HIDE DEF T
    <3>. QED
      BY <1>8, <2>1 DEF S
  <2>. QED
    BY <2>1, <2>2
<1>. QED
  BY <1>2, <1>5, <1>9 DEF h

-----------------------------------------------------------------------------
\* A level makes lanes of lanes; the last one leaves residues.
LEMMA LevelType ==
  ASSUME NEW q \in Primes, NEW g \in [Coeffs -> Nat], NEW n \in 1..LOGN
  PROVE  /\ NttLevel(g, q, n) \in [Coeffs -> Nat]
         /\ n = LOGN => NttLevel(g, q, n) \in [Coeffs -> 0..(q - 1)]
<1> DEFINE l == Half(n)
           m == Pow2(n - 1)
           low(x) == x % (2 * l) < l
           t(x) == MulMod(g[x], Twiddle(q, n, x \div (2 * l)), q)
           reduce(v) == IF IsLazy(n) THEN v ELSE v % q
<1>1. l \in Nat \ {0} /\ m \in Nat \ {0} /\ N = m * (2 * l) /\ q \in Nat /\ q > 0
  <2>1. ASSUME NEW o \in 1..LOGN
        PROVE  /\ N \div Pow2(o) \in Nat \ {0} /\ Pow2(o - 1) \in Nat \ {0}
               /\ N = Pow2(o - 1) * (2 * (N \div Pow2(o)))
    BY ParamsAssumption, HalfSizes
  <2>. QED
    BY <2>1, RootFacts DEF Half
<1> HIDE DEF l, m
<1>2. ASSUME NEW x \in Coeffs
      PROVE  /\ x \div (2 * l) \in 0..(m - 1)
             /\ low(x) => x + l \in Coeffs
             /\ ~low(x) => x - l \in Coeffs
  <2>1. x \in 0..(N - 1)
    BY DEF Coeffs
  <2>2. /\ x \div (2 * l) \in 0..(m - 1)
        /\ x % (2 * l) < l => x + l \in 0..(N - 1)
        /\ ~(x % (2 * l) < l) => x - l \in 0..(N - 1)
    BY <1>1, <2>1, BlockOf
  <2>. QED
    BY <2>2 DEF Coeffs
<1>3. N \div (2 * l) = m /\ 2 * m <= N
  <2> DEFINE d == 2 * l
  <2>1. d \in Nat /\ d > 0 /\ d >= 2 /\ N = d * m + 0 /\ m \in Int
    BY <1>1, Z3
  <2>2. d * m >= 2 * m
    <3> HIDE DEF d
    <3>. QED
      BY <1>1, <2>1, Z3
  <2> HIDE DEF d
  <2>3. N \div d = m
    BY <2>1, DivUnique
  <2>. QED
    BY <1>1, <2>1, <2>2, <2>3 DEF d
<1>4. ASSUME NEW x \in Coeffs PROVE t(x) \in Nat /\ t(x) < q
  <2>1. m + x \div (2 * l) \in Coeffs
    <3> DEFINE o == x \div (2 * l)
    <3>1. o \in 0..(m - 1) /\ m \in Nat /\ 2 * m <= N /\ N \in Nat
      BY <1>1, <1>2, <1>3, LevelFacts
    <3> HIDE DEF o
    <3>2. m + o \in Coeffs
      BY <3>1 DEF Coeffs
    <3>. QED
      BY <3>2 DEF o
  <2>2. Twiddle(q, n, x \div (2 * l)) \in Nat
    <3>1. W[q][m + x \div (2 * l)] \in 0..(q - 1)
      BY <2>1, TwiddleType
    <3>. QED
      BY <1>1, <1>3, <3>1 DEF Twiddle, l
  <2>. QED
    BY <1>1, <2>2, MulModType
<1>5. NttLevel(g, q, n) = [x \in Coeffs |-> IF low(x) THEN reduce(g[x] + t(x + l))
                                            ELSE reduce(g[x - l] + q - t(x))]
  BY DEF NttLevel, l
<1>6. ASSUME NEW v \in Nat PROVE reduce(v) \in Nat /\ (n = LOGN => reduce(v) \in 0..(q - 1))
  <2>1. v % q \in 0..(q - 1)
    BY <1>1, DivMod
  <2>. QED
    BY <1>1, <2>1 DEF IsLazy
<1> HIDE DEF t, low, reduce
<1> DEFINE v(x) == IF low(x) THEN g[x] + t(x + l) ELSE g[x - l] + q - t(x)
<1>7. ASSUME NEW x \in Coeffs PROVE v(x) \in Nat
  <2>1. CASE low(x)
    <3>1. x + l \in Coeffs
      BY <1>2, <2>1
    <3>2. t(x + l) \in Nat
      BY <1>4, <3>1
    <3>. QED
      BY <2>1, <3>2
  <2>2. CASE ~low(x)
    <3>1. x - l \in Coeffs
      BY <1>2, <2>2
    <3>. QED
      BY <1>1, <1>4, <2>2, <3>1
  <2>. QED
    BY <2>1, <2>2
<1>8. NttLevel(g, q, n) = [x \in Coeffs |-> reduce(v(x))]
  BY <1>5
<1> HIDE DEF v
<1>. QED
  BY <1>6, <1>7, <1>8

\* What is transformed: signed coefficients below the prime.
Below(s, q) == s \in [Coeffs -> Int] /\ \A n \in Coeffs : -q < s[n] /\ s[n] < q

\* The transforms as functions: a source goes through the levels.
LEMMA NttChain ==
  ASSUME NEW q \in Primes, NEW s, Below(s, q)
  PROVE  \E z : /\ z[0] = NttInit(s, q) /\ Ntt(s, q) = z[LOGN]
                /\ \A n \in 1..LOGN : z[n] = NttLevel(z[n - 1], q, n)
                /\ \A n \in 0..LOGN : z[n] \in [Coeffs -> Nat]
                /\ z[LOGN] \in [Coeffs -> 0..(q - 1)]
<1> DEFINE T == [Coeffs -> Nat]
           a == NttInit(s, q)
           Level(g, n) == NttLevel(g, q, n)
           P(z) == z = [n \in 0..LOGN |-> IF n = 0 THEN a ELSE Level(z[n - 1], n)]
           D == [x \in T \X Nat |-> IF x[2] < LOGN THEN Level(x[1], x[2] + 1) ELSE x[1]]
           after == CHOOSE z : P(z)
<1>1. LOGN \in Nat /\ LOGN > 1
  BY LevelFacts
<1>2. a \in T
  <2>1. q \in Nat
    BY RootFacts
  <2>2. ASSUME NEW n \in Coeffs PROVE Red(s[n], q) \in Nat
    BY <2>1 DEF Red, Below
  <2>. QED
    BY <2>2 DEF NttInit
<1>3. ASSUME NEW g \in T, NEW n \in 0..(LOGN - 1)
      PROVE  /\ Level(g, n + 1) \in T
             /\ n + 1 = LOGN => Level(g, n + 1) \in [Coeffs -> 0..(q - 1)]
  <2>1. n + 1 \in 1..LOGN
    BY <1>1
  <2>. QED
    BY <2>1, LevelType
<1> HIDE DEF Level, T
<1>4. /\ D \in [T \X Nat -> T]
      /\ \A g \in T, n \in 0..(LOGN - 1) : D[<<g, n>>] = Level(g, n + 1)
  BY <1>1, <1>3
<1>5. Ntt(s, q) = after[LOGN]
  BY DEF Ntt, Level
<1> HIDE DEF a, D
<1>6. PICK z \in [0..LOGN -> T] : Follows(z, a, D, LOGN)
  BY <1>1, <1>2, <1>4, Recursion
<1>7. P(z)
  <2>1. ASSUME NEW n \in 0..LOGN PROVE z[n] = IF n = 0 THEN a ELSE Level(z[n - 1], n)
    <3>1. CASE n # 0
      <4>1. n \in 1..LOGN /\ n - 1 \in 0..(LOGN - 1) /\ (n - 1) + 1 = n /\ z[n - 1] \in T
        BY <1>1, <1>6, <3>1
      <4>2. D[<<z[n - 1], n - 1>>] = Level(z[n - 1], (n - 1) + 1)
        BY <1>4, <4>1
      <4>. QED
        BY <1>6, <3>1, <4>1, <4>2 DEF Follows
    <3>. QED
      BY <1>6, <3>1 DEF Follows
  <2>. QED
    BY <2>1
<1>8. P(after)
  <2> HIDE DEF P
  <2>. QED
    BY <1>7
<1> HIDE DEF after
<1>9. after[0] = a /\ \A n \in 1..LOGN : after[n] = Level(after[n - 1], n)
  BY <1>1, <1>8
<1> DEFINE S == {n \in Nat : n <= LOGN => after[n] \in T}
<1>10. 0 \in S
  BY <1>2, <1>9
<1>11. ASSUME NEW n \in Nat, n \in S PROVE n + 1 \in S
  <2>1. SUFFICES ASSUME n + 1 <= LOGN PROVE after[n + 1] \in T
    OBVIOUS
  <2>2. n + 1 \in 1..LOGN /\ (n + 1) - 1 = n /\ n \in 0..(LOGN - 1) /\ after[n] \in T
    BY <1>1, <1>11, <2>1
  <2>. QED
    BY <1>3, <1>9, <2>2
<1> HIDE DEF S
<1>12. Nat \subseteq S
  BY <1>10, <1>11, SetInduction
<1>13. \A n \in 0..LOGN : after[n] \in T
  BY <1>12 DEF S
<1>14. LOGN - 1 \in 0..(LOGN - 1) /\ (LOGN - 1) + 1 = LOGN /\ LOGN \in 1..LOGN /\ after[LOGN - 1] \in T
  BY <1>1, <1>13
<1>15. after[LOGN] \in [Coeffs -> 0..(q - 1)]
  BY <1>3, <1>9, <1>14
<1>. QED
  BY <1>5, <1>9, <1>13, <1>15 DEF T, a, Level

\* The transform of a polynomial with coefficients below the prime is made of
\* residues.
LEMMA NttType ==
  ASSUME NEW q \in Primes, NEW s, Below(s, q)
  PROVE  Ntt(s, q) \in [Coeffs -> 0..(q - 1)]
BY NttChain

\* The point at which lane n evaluates.
RootAt(q, n) == Power(FindRoot(q), 2 * BitRev(n, LOGN) + 1)

\* Its value in lane n is that of the source at the point of the lane.
LEMMA NttEvaluates ==
  ASSUME NEW q \in Primes, NEW s, Below(s, q), NEW n \in Coeffs
  PROVE  Cong(Ntt(s, q)[n], Strand(s, RootAt(q, n), 0, 1, N), q)
<1> DEFINE x == RootAt(q, n)
           c == NttInit(s, q)
           a == [r \in 0..(N - 1) |-> c[0 + r * 1] * Power(x, r)]
           b == [r \in 0..(N - 1) |-> s[0 + r * 1] * Power(x, r)]
<1>1. /\ N \in Nat /\ N > 3 /\ LOGN \in Nat /\ LOGN > 1 /\ N = Pow2(LOGN) /\ LOGN - LOGN = 0 /\ Pow2(0) = 1
      /\ q \in Nat /\ q > 1 /\ FindRoot(q) \in Nat /\ n \in Nat
  <2>1. n \in Nat
    BY ParamsAssumption DEF Coeffs
  <2>. QED
    BY <2>1, ParamsAssumption, LevelFacts, RootFacts, Pow2Facts
<1>2. PICK z : /\ z[0] = NttInit(s, q) /\ Ntt(s, q) = z[LOGN]
               /\ \A o \in 1..LOGN : z[o] = NttLevel(z[o - 1], q, o)
               /\ \A o \in 0..LOGN : z[o] \in [Coeffs -> Nat]
  BY NttChain
<1>3. c \in [Coeffs -> Int] /\ \A r \in Coeffs : c[r] \in Int /\ Cong(c[r], s[r], q)
  <2>1. ASSUME NEW r \in Coeffs PROVE c[r] \in Int /\ Cong(c[r], s[r], q)
    <3>1. c[r] = s[r] + q * 0 \/ c[r] = s[r] + q * 1
      BY <1>1 DEF NttInit, Red, Below
    <3>2. 0 \in Int /\ 1 \in Int /\ s[r] \in Int
      BY DEF Below
    <3> HIDE DEF c
    <3>3. c[r] \in Int /\ \E o \in Int : c[r] = s[r] + q * o
      BY <1>1, <3>1, <3>2
    <3>. QED
      BY <3>3 DEF Cong
  <2>2. c = [r \in Coeffs |-> Red(s[r], q)]
    BY DEF NttInit
  <2> HIDE DEF c
  <2>. QED
    BY <2>1, <2>2
<1> HIDE DEF c
<1> DEFINE S == {o \in Nat : o <= LOGN => Reduced(z[o], c, q, o)}
<1>4. 0 \in S
  BY <1>2, <1>3, SourceReduced DEF c
<1>5. ASSUME NEW o \in Nat, o \in S PROVE o + 1 \in S
  <2>1. SUFFICES ASSUME o + 1 <= LOGN PROVE Reduced(z[o + 1], c, q, o + 1)
    OBVIOUS
  <2>2. o \in 0..LOGN /\ o + 1 \in 1..LOGN /\ (o + 1) - 1 = o
    BY <1>1, <2>1
  <2>3. z[o + 1] = NttLevel(z[o], q, o + 1) /\ z[o] \in [Coeffs -> Nat] /\ Reduced(z[o], c, q, o)
    BY <1>2, <1>5, <2>2
  <2>4. Reduced(z[o], c, q, (o + 1) - 1)
    BY <2>2, <2>3
  <2>. QED
    BY <1>3, <2>2, <2>3, <2>4, LevelReduced
<1> HIDE DEF S
<1>6. Nat \subseteq S
  BY <1>4, <1>5, SetInduction
<1>7. Reduced(z[LOGN], c, q, LOGN)
  BY <1>1, <1>6 DEF S
<1>8. BitRev(n, LOGN) \in Nat /\ x \in Nat /\ Point(q, LOGN, n) = x
  <2>1. BitRev(n, LOGN) \in Nat
    BY <1>1, BitRevFacts
  <2>2. Exponent(LOGN, n) = 1 * (2 * BitRev(n, LOGN) + 1)
    BY <1>1 DEF Exponent
  <2>3. 2 * BitRev(n, LOGN) + 1 \in Nat /\ Exponent(LOGN, n) = 2 * BitRev(n, LOGN) + 1
    BY <2>1, <2>2
  <2>. QED
    BY <1>1, <2>1, <2>3, PowerFacts DEF Point, RootAt
<1> HIDE DEF x
<1>9. Cong(z[LOGN][n], Strand(c, x, 0, 1, N), q)
  <2>1. n \in 0..(Pow2(LOGN) - 1) /\ 0 \in 0..(Pow2(LOGN - LOGN) - 1) /\ n * 1 + 0 = n
    BY <1>1 DEF Coeffs
  <2>2. Cong(z[LOGN][n * Pow2(LOGN - LOGN) + 0], Strand(c, Point(q, LOGN, n), 0, Pow2(LOGN - LOGN), Pow2(LOGN)), q)
    BY <1>7, <2>1 DEF Reduced
  <2>. QED
    BY <1>1, <1>8, <2>1, <2>2
<1>10. ASSUME NEW r \in 0..(N - 1) PROVE a[r] \in Int /\ b[r] \in Int /\ Cong(a[r], b[r], q)
  <2>1. r \in Coeffs /\ r \in Nat /\ 0 + r * 1 = r
    BY <1>1 DEF Coeffs
  <2> DEFINE y == Power(x, r)
  <2>2. /\ a[r] = c[r] * y /\ b[r] = s[r] * y /\ y \in Int
        /\ c[r] \in Int /\ s[r] \in Int /\ Cong(c[r], s[r], q)
    BY <1>3, <1>8, <2>1, PowerFacts DEF Below
  <2> HIDE DEF y, a, b
  <2>3. c[r] * y \in Int /\ s[r] * y \in Int
    BY <2>2, Z3
  <2>4. Cong(c[r] * y, s[r] * y, q)
    <3>1. Cong(y, y, q)
      BY <1>1, <2>2, CongFacts
    <3>. QED
      BY <1>1, <2>2, <3>1, CongFacts
  <2>. QED
    BY <2>2, <2>3, <2>4
<1>11. Strand(c, x, 0, 1, N) = SumTo(a, N) /\ Strand(s, x, 0, 1, N) = SumTo(b, N)
  BY DEF Strand
<1> HIDE DEF a, b
<1>12. Cong(SumTo(a, N), SumTo(b, N), q) /\ SumTo(a, N) \in Int /\ SumTo(b, N) \in Int
  BY <1>1, <1>10, CongSum
<1>13. z[LOGN][n] \in Int
  <2>1. z[LOGN] \in [Coeffs -> Nat]
    BY <1>1, <1>2
  <2>. QED
    BY <2>1
<1>14. Cong(z[LOGN][n], SumTo(b, N), q)
  BY <1>1, <1>9, <1>11, <1>12, <1>13, CongFacts
<1>. QED
  BY <1>2, <1>11, <1>14 DEF x

\* The first lanes of the two halves of a block add up to twice that of the block.
LEMMA HalvesAddUp ==
  ASSUME NEW q \in Primes, NEW n \in 1..LOGN, NEW g \in [Coeffs -> Nat],
         NEW b \in 0..(Pow2(n - 1) - 1), NEW l \in Nat, l = Pow2(LOGN - n)
  PROVE  /\ b * (2 * l) \in Coeffs /\ (2 * b) * l \in Coeffs /\ (2 * b + 1) * l \in Coeffs
         /\ Cong(NttLevel(g, q, n)[(2 * b) * l] + NttLevel(g, q, n)[(2 * b + 1) * l],
                 2 * g[b * (2 * l)], q)
<1> DEFINE m == Pow2(n - 1)
           at == b * (2 * l) + 0
           t == MulMod(g[at + l], W[q][m + b], q)
           reduce(e) == IF IsLazy(n) THEN e ELSE e % q
           f1 == NttLevel(g, q, n)
<1>1. /\ m \in Nat /\ l > 0 /\ b \in Nat /\ b < m /\ N = m * (2 * l) /\ Half(n) = l /\ N \in Nat /\ N > 3
      /\ 2 * m <= N
  <2>1. ASSUME NEW o \in 1..LOGN
        PROVE  N \div Pow2(o) = Pow2(LOGN - o) /\ N = Pow2(o - 1) * (2 * (N \div Pow2(o)))
    BY ParamsAssumption, HalfSizes
  <2>2. n - 1 \in Nat /\ LOGN - n \in Nat
    BY ParamsAssumption
  <2>3. m \in Nat /\ m > 0 /\ l > 0
    BY <2>2, Pow2Facts
  <2>4. N = m * (2 * l) /\ Half(n) = l
    BY <2>1 DEF Half
  <2> HIDE DEF m
  <2>5. m * 2 <= m * (2 * l)
    BY <2>3, Z3
  <2>6. b \in Nat /\ b < m
    BY <2>3 DEF m
  <2>. QED
    BY <2>3, <2>4, <2>5, <2>6, ParamsAssumption
<1>2. q \in Nat /\ q > 0
  BY RootFacts
<1> HIDE DEF m
<1>3. /\ at \in Coeffs /\ at + l \in Coeffs
      /\ f1[at] = reduce(g[at] + t) /\ f1[at + l] = reduce(g[at] + q - t)
  <2> DEFINE h == Half(n)
             to == b * (2 * h) + 0
             e == MulMod(g[to + h], W[q][Pow2(n - 1) + b], q)
  <2>1. /\ to \in Coeffs /\ to + h \in Coeffs
        /\ NttLevel(g, q, n)[to] = (IF IsLazy(n) THEN g[to] + e ELSE (g[to] + e) % q)
        /\ NttLevel(g, q, n)[to + h] = (IF IsLazy(n) THEN g[to] + q - e ELSE (g[to] + q - e) % q)
    <3>1. N = m * (2 * Half(n)) /\ 0 < Half(n) /\ 0 \in Nat
      BY <1>1
    <3>. QED
      BY <1>1, <3>1, LevelAt DEF m
  <2>. QED
    BY <1>1, <2>1 DEF m
<1>4. b * (2 * l) = at /\ (2 * b) * l = at /\ (2 * b + 1) * l = at + l
  BY <1>1, Z3
<1>5. g[at] \in Nat /\ g[at + l] \in Nat
  BY <1>3
<1>6. t \in Nat
  <2>1. m + b \in Coeffs
    BY <1>1 DEF Coeffs
  <2>2. W[q][m + b] \in Nat
    BY <1>2, <2>1, TwiddleType
  <2> HIDE DEF at
  <2>. QED
    BY <1>2, <1>5, <2>2, CongMulMod
<1> HIDE DEF at, t, f1
<1>7. ASSUME NEW a \in Int PROVE reduce(a) \in Int /\ Cong(reduce(a), a, q)
  BY <1>2, CongMod, CongFacts
<1>8. g[at] + t \in Int /\ g[at] + q - t \in Int /\ q \in Int /\ 2 * g[at] \in Int
  BY <1>2, <1>5, <1>6
<1>9. Cong(f1[at] + f1[at + l], (g[at] + t) + (g[at] + q - t), q)
  <2> HIDE DEF reduce
  <2>1. f1[at] \in Int /\ f1[at + l] \in Int /\ Cong(f1[at], g[at] + t, q) /\ Cong(f1[at + l], g[at] + q - t, q)
    BY <1>3, <1>7, <1>8
  <2>. QED
    BY <1>2, <1>8, <2>1, CongFacts
<1>10. Cong((g[at] + t) + (g[at] + q - t), 2 * g[at], q)
  <2>1. 1 \in Int /\ (g[at] + t) + (g[at] + q - t) = 2 * g[at] + q * 1
    BY <1>2, <1>5, <1>6
  <2>2. \E o \in Int : (g[at] + t) + (g[at] + q - t) = 2 * g[at] + q * o
    BY <2>1, Zenon
  <2>. QED
    BY <2>2 DEF Cong
<1>11. f1[at] + f1[at + l] \in Int /\ (g[at] + t) + (g[at] + q - t) \in Int
  <2> HIDE DEF reduce
  <2>. QED
    BY <1>3, <1>7, <1>8
<1>12. Cong(f1[at] + f1[at + l], 2 * g[at], q)
  <2> DEFINE A == f1[at] + f1[at + l]
             B == (g[at] + t) + (g[at] + q - t)
             C == 2 * g[at]
  <2>1. A \in Int /\ B \in Int /\ C \in Int /\ Cong(A, B, q) /\ Cong(B, C, q)
    BY <1>8, <1>9, <1>10, <1>11
  <2> HIDE DEF A, B, C
  <2>2. Cong(A, C, q)
    BY <1>2, <2>1, CongFacts
  <2>. QED
    BY <2>2 DEF A, C
<1>. QED
  BY <1>3, <1>4, <1>12 DEF f1

\* The lanes of a transform add up to N times the constant coefficient: the sum
\* over the roots keeps nothing else.
LEMMA NttSum ==
  ASSUME NEW q \in Primes, NEW s, Below(s, q)
  PROVE  /\ SumTo(Ntt(s, q), N) \in Int /\ s[0] \in Int
         /\ Cong(SumTo(Ntt(s, q), N), N * s[0], q)
<1>1. /\ N \in Nat /\ N > 3 /\ LOGN \in Nat /\ LOGN > 1 /\ N = Pow2(LOGN) /\ LOGN - LOGN = 0 /\ Pow2(0) = 1
      /\ q \in Nat /\ q > 1 /\ LOGN - 0 = LOGN /\ 0 \in Coeffs /\ s[0] \in Int
  <2>1. N \in Nat /\ N > 3 /\ LOGN \in Nat /\ LOGN > 1 /\ N = Pow2(LOGN) /\ Pow2(0) = 1 /\ q \in Nat /\ q > 1
    BY ParamsAssumption, LevelFacts, RootFacts, Pow2Facts
  <2>2. 0 \in Coeffs
    BY <2>1 DEF Coeffs
  <2>. QED
    BY <2>1, <2>2 DEF Below
<1>2. PICK z : /\ z[0] = NttInit(s, q) /\ Ntt(s, q) = z[LOGN]
               /\ \A n \in 1..LOGN : z[n] = NttLevel(z[n - 1], q, n)
               /\ \A n \in 0..LOGN : z[n] \in [Coeffs -> Nat]
  BY NttChain
<1> DEFINE First(n) == [b \in 0..(Pow2(n) - 1) |-> z[n][b * Pow2(LOGN - n)]]
           S == {n \in Nat : n <= LOGN => /\ SumTo(First(n), Pow2(n)) \in Int
                                          /\ Cong(SumTo(First(n), Pow2(n)), Pow2(n) * s[0], q)}
<1>3. 0 \in S
  <2>1. z[0][0] \in Int /\ Cong(z[0][0], s[0], q)
    <3>1. z[0][0] = s[0] + q * 0 \/ z[0][0] = s[0] + q * 1
      BY <1>1, <1>2 DEF NttInit, Red
    <3>2. 0 \in Int /\ 1 \in Int /\ 0 \in 0..LOGN
      BY <1>1
    <3>3. z[0][0] \in Int
      BY <1>1, <1>2, <3>2
    <3>4. \E o \in Int : z[0][0] = s[0] + q * o
      BY <3>1, <3>2, Zenon
    <3>. QED
      BY <3>3, <3>4 DEF Cong
  <2>2. First(0)[0] = z[0][0] /\ \A b \in 0..(1 - 1) : First(0)[b] = z[0][0]
    <3>1. 0 \in 0..(1 - 1) /\ 0 * N = 0 /\ \A b \in 0..(1 - 1) : b = 0
      BY <1>1
    <3>. QED
      BY <1>1, <3>1
  <2> HIDE DEF First
  <2>3. SumTo(First(0), 0) = 0 /\ SumTo(First(0), 0 + 1) = SumTo(First(0), 0) + First(0)[0]
    <3>1. 1 \in Nat /\ 0 \in 0..(1 - 1) /\ \A b \in 0..(1 - 1) : First(0)[b] \in Int
      BY <2>1, <2>2
    <3>. QED
      BY <3>1, SumFacts
  <2>4. SumTo(First(0), 1) = z[0][0] /\ 1 * s[0] = s[0]
    BY <1>1, <2>1, <2>2, <2>3
  <2>. QED
    BY <1>1, <2>1, <2>4
<1>4. ASSUME NEW n \in Nat, n \in S PROVE n + 1 \in S
  <2>1. SUFFICES ASSUME n + 1 <= LOGN
                 PROVE  /\ SumTo(First(n + 1), Pow2(n + 1)) \in Int
                        /\ Cong(SumTo(First(n + 1), Pow2(n + 1)), Pow2(n + 1) * s[0], q)
    OBVIOUS
  <2> DEFINE m == Pow2(n)
             l == Pow2(LOGN - (n + 1))
             F == First(n + 1)
             G == First(n)
             U == [b \in 0..(m - 1) |-> 2 * G[b]]
             V == [b \in 0..(m - 1) |-> 0]
  <2>2. /\ n \in 0..LOGN /\ n + 1 \in 1..LOGN /\ n + 1 \in 0..LOGN /\ (n + 1) - 1 = n
        /\ LOGN - (n + 1) \in Nat /\ LOGN - n = (LOGN - (n + 1)) + 1
    BY <1>1, <2>1
  <2>3. /\ m \in Nat /\ l \in Nat /\ Pow2(n + 1) = 2 * m /\ Pow2(LOGN - n) = 2 * l
    BY <2>2, Pow2Facts
  <2>4. z[n + 1] = NttLevel(z[n], q, n + 1) /\ z[n] \in [Coeffs -> Nat] /\ z[n + 1] \in [Coeffs -> Nat]
    BY <1>2, <2>2
  <2>5. ASSUME NEW b \in 0..(m - 1)
        PROVE  /\ b * (2 * l) \in Coeffs /\ (2 * b) * l \in Coeffs /\ (2 * b + 1) * l \in Coeffs
               /\ Cong(z[n + 1][(2 * b) * l] + z[n + 1][(2 * b + 1) * l], 2 * z[n][b * (2 * l)], q)
    <3>1. b \in 0..(Pow2((n + 1) - 1) - 1)
      BY <2>2
    <3>. QED
      BY <2>2, <2>3, <2>4, <3>1, HalvesAddUp
  <2> HIDE DEF m, l
  <2>6. ASSUME NEW b \in 0..(m - 1)
        PROVE  /\ G[b] = z[n][b * (2 * l)] /\ G[b] \in Int
               /\ F[2 * b] = z[n + 1][(2 * b) * l] /\ F[2 * b + 1] = z[n + 1][(2 * b + 1) * l]
               /\ F[2 * b] \in Int /\ F[2 * b + 1] \in Int
    <3>1. 2 * b \in 0..(2 * m - 1) /\ 2 * b + 1 \in 0..(2 * m - 1)
      BY <2>3
    <3>2. G[b] = z[n][b * (2 * l)]
      BY <2>3 DEF m
    <3>3. F[2 * b] = z[n + 1][(2 * b) * l] /\ F[2 * b + 1] = z[n + 1][(2 * b + 1) * l]
      BY <2>3, <3>1 DEF l
    <3>. QED
      BY <2>4, <2>5, <3>2, <3>3
  <2> HIDE DEF First, F, G
  <2>7. ASSUME NEW e \in 0..(2 * m - 1) PROVE F[e] \in Int
    <3>1. e \div 2 \in 0..(m - 1) /\ (e = 2 * (e \div 2) \/ e = 2 * (e \div 2) + 1)
      BY <2>3
    <3>. QED
      BY <2>6, <3>1
  <2>8. ASSUME NEW b \in 0..(m - 1)
        PROVE  U[b] \in Int /\ V[b] \in Int /\ Cong(F[2 * b] + F[2 * b + 1], U[b] + 0 * V[b], q)
    <3>1. U[b] = 2 * G[b] /\ V[b] = 0
      OBVIOUS
    <3>2. U[b] + 0 * V[b] = 2 * z[n][b * (2 * l)]
      BY <2>6, <3>1
    <3>. QED
      BY <2>5, <2>6, <3>1, <3>2
  <2>9. \A b \in 0..(m - 1) : G[b] \in Int /\ U[b] = G[b] + 1 * G[b]
    BY <2>6
  <2>10. \A b \in 0..(m - 1) : V[b] \in Int
    BY <2>8
  <2> HIDE DEF U, V
  <2>11. Cong(SumTo(F, 2 * m), SumTo(U, m) + 0 * SumTo(V, m), q)
    <3>1. 0 \in Int
      OBVIOUS
    <3>. QED
      BY <1>1, <2>3, <2>7, <2>8, <3>1, PairedSum
  <2>12. SumTo(U, m) = SumTo(G, m) + 1 * SumTo(G, m) /\ SumTo(G, m) \in Int
    <3>1. 1 \in Int
      OBVIOUS
    <3>. QED
      BY <2>3, <2>9, <3>1, SumLinear
  <2>13. SumTo(V, m) \in Int /\ SumTo(F, 2 * m) \in Int
    <3>1. m \in 0..m /\ 2 * m \in Nat /\ 2 * m \in 0..(2 * m)
      BY <2>3
    <3>2. SumTo(V, m) \in Int
      BY <2>3, <2>10, <3>1, SumFacts
    <3>3. SumTo(F, 2 * m) \in Int
      BY <2>7, <3>1, SumFacts
    <3>. QED
      BY <3>2, <3>3
  <2>14. Cong(SumTo(G, m), m * s[0], q)
    BY <1>4, <2>2 DEF G, m
  <2> DEFINE g == SumTo(G, m)
             y == s[0]
  <2>15. Cong(2 * g, (2 * m) * y, q) /\ 2 * g \in Int /\ (2 * m) * y \in Int
    <3>1. g \in Int /\ y \in Int /\ m \in Int
      BY <1>1, <2>3, <2>12
    <3> HIDE DEF g, y
    <3>2. m * y \in Int /\ 2 * (m * y) = (2 * m) * y /\ (2 * m) * y \in Int /\ 2 * g \in Int /\ 2 \in Int
      BY <3>1, Z3
    <3>3. Cong(2, 2, q) /\ Cong(g, m * y, q)
      BY <1>1, <2>14, CongFacts DEF g, y
    <3>4. Cong(2 * g, 2 * (m * y), q)
      BY <1>1, <3>1, <3>2, <3>3, CongFacts
    <3>. QED
      BY <3>2, <3>4
  <2>16. SumTo(U, m) + 0 * SumTo(V, m) = 2 * g
    BY <2>12, <2>13
  <2>17. Cong(SumTo(F, 2 * m), (2 * m) * y, q)
    BY <1>1, <2>11, <2>13, <2>15, <2>16, CongFacts
  <2>. QED
    BY <2>3, <2>13, <2>17 DEF F
<1>5. \A b \in 0..(N - 1) : First(LOGN)[b] = z[LOGN][b] /\ z[LOGN][b] \in Int
  <2>1. ASSUME NEW b \in 0..(N - 1) PROVE First(LOGN)[b] = z[LOGN][b] /\ z[LOGN][b] \in Int
    <3>1. b * 1 = b /\ b \in Coeffs /\ LOGN \in 0..LOGN
      BY <1>1 DEF Coeffs
    <3>2. z[LOGN] \in [Coeffs -> Nat]
      BY <1>2, <3>1
    <3>. QED
      BY <1>1, <3>1, <3>2
  <2>. QED
    BY <2>1
<1> HIDE DEF S
<1>6. Nat \subseteq S
  BY <1>3, <1>4, SetInduction
<1>7. SumTo(First(LOGN), N) \in Int /\ Cong(SumTo(First(LOGN), N), N * s[0], q)
  BY <1>1, <1>6 DEF S
<1> HIDE DEF First
<1>8. SumTo(z[LOGN], N) = SumTo(First(LOGN), N)
  <2>1. N \in 0..N /\ \A b \in 0..(N - 1) : First(LOGN)[b] \in Int /\ First(LOGN)[b] = z[LOGN][b]
    BY <1>1, <1>5
  <2>. QED
    BY <1>1, <2>1, SumCongruence
<1>. QED
  BY <1>1, <1>2, <1>7, <1>8

\* The point of a lane: its N-th power is -1, and the point of the mirrored lane,
\* which stands for the adjoint, is its inverse.
LEMMA RootsPaired ==
  ASSUME NEW q \in Primes, NEW n \in Coeffs
  PROVE  /\ q \in Nat /\ q > 1 /\ N - 1 - n \in Coeffs
         /\ RootAt(q, n) \in Nat /\ RootAt(q, N - 1 - n) \in Nat
         /\ Cong(Power(RootAt(q, n), N), -1, q)
         /\ Cong(RootAt(q, n) * RootAt(q, N - 1 - n), 1, q)
<1> DEFINE h == FindRoot(q)
           r == BitRev(n, LOGN)
           o == BitRev(N - 1 - n, LOGN)
           d == 2 * N
<1>1. /\ q \in Nat /\ q > 1 /\ h \in Nat /\ Cong(Power(h, N), -1, q)
      /\ N \in Nat /\ N > 3 /\ LOGN \in Nat /\ N = Pow2(LOGN) /\ n \in 0..(N - 1) /\ n \in Nat
      /\ N - 1 - n \in Nat /\ N - 1 - n \in Coeffs
  <2>1. N \in Nat /\ N > 3 /\ LOGN \in Nat /\ N = Pow2(LOGN) /\ n \in 0..(N - 1)
    BY ParamsAssumption DEF Coeffs
  <2>2. n \in Nat /\ N - 1 - n \in Nat /\ N - 1 - n \in Coeffs
    BY <2>1 DEF Coeffs
  <2>. QED
    BY <2>1, <2>2, RootFacts
<1>2. r \in Nat /\ o \in Nat /\ r + o = N - 1
  BY <1>1, BitRevFacts, BitRevComplement
<1> HIDE DEF h, r, o
<1>3. /\ RootAt(q, n) = Power(h, 2 * r + 1) /\ RootAt(q, N - 1 - n) = Power(h, 2 * o + 1)
      /\ 2 * r + 1 \in Nat /\ 2 * o + 1 \in Nat
  BY <1>2 DEF RootAt, h, r, o
<1>4. Power(h, N) \in Int /\ Power(h, d) \in Int /\ Cong(Power(h, d), 1, q)
  <2>1. Power(h, N) \in Int /\ Power(h, d) \in Int
    <3>1. d \in Nat
      BY <1>1
    <3> HIDE DEF d
    <3>. QED
      BY <1>1, <3>1, PowerFacts
  <2>2. Cong(Power(h, N) * Power(h, N), (-1) * (-1), q)
    <3>1. -1 \in Int
      OBVIOUS
    <3>. QED
      BY <1>1, <2>1, <3>1, CongFacts
  <2>3. Power(h, N + N) = Power(h, N) * Power(h, N)
    BY <1>1, PowerSum
  <2>4. N + N = d /\ (-1) * (-1) = 1
    BY <1>1
  <2>. QED
    BY <2>1, <2>2, <2>3, <2>4
<1>5. RootAt(q, n) \in Nat /\ RootAt(q, N - 1 - n) \in Nat
  BY <1>1, <1>3, PowerFacts
<1>6. Cong(RootAt(q, n) * RootAt(q, N - 1 - n), 1, q)
  <2>1. Power(h, (2 * r + 1) + (2 * o + 1)) = Power(h, 2 * r + 1) * Power(h, 2 * o + 1)
    BY <1>1, <1>3, PowerSum
  <2>2. (2 * r + 1) + (2 * o + 1) = d
    BY <1>1, <1>2
  <2>. QED
    BY <1>3, <1>4, <2>1, <2>2
<1>7. Cong(Power(RootAt(q, n), N), -1, q)
  <2>1. Power(RootAt(q, n), N) = Power(h, (2 * r + 1) * N)
    BY <1>1, <1>3, PowerPower
  <2>2. (2 * r + 1) * N = d * r + N /\ (2 * r + 1) * N \in Nat
    BY <1>1, <1>2, Z3
  <2>3. d \in Nat /\ d > 0 /\ N \in 0..(d - 1) /\ r \in Int
    BY <1>1, <1>2
  <2> HIDE DEF d
  <2>4. (d * r + N) % d = N
    BY <2>3, ModUnique
  <2>5. Cong(Power(h, (2 * r + 1) * N), Power(h, ((2 * r + 1) * N) % d), q)
    BY <1>1, <1>4, <2>2, <2>3, PowerPeriod
  <2>6. Cong(Power(h, (2 * r + 1) * N), Power(h, N), q)
    BY <2>2, <2>4, <2>5
  <2>7. Power(h, (2 * r + 1) * N) \in Int /\ -1 \in Int
    BY <1>1, <2>2, PowerFacts
  <2>. QED
    BY <1>1, <1>4, <2>1, <2>6, <2>7, CongFacts
<1>. QED
  BY <1>1, <1>5, <1>6, <1>7

-----------------------------------------------------------------------------
\* The lanes that entered the level are the source after the levels before it,
\* and at the end all of them are through, and reduced.
Transformed ==
  /\ Reduced(entry, NttInit(src, p), p, k - 1)
  /\ pc = "done" => k = LOGN + 1 /\ f = entry /\ \A c \in Coeffs : f[c] < p

\* A source reduced once is residues.
LEMMA SourceType ==
  ASSUME NEW q \in Primes, NEW s \in Sources
  PROVE  /\ NttInit(s, q) \in [Coeffs -> Int]
         /\ \A n \in Coeffs : NttInit(s, q)[n] = Red(s[n], q) /\ Red(s[n], q) \in Int
<1>1. q \in Int /\ s \in [Coeffs -> Int]
  BY RootFacts, SourcesAssumption DEF Reducible
<1>. QED
  BY <1>1 DEF NttInit, Red

\* It is true at the start,
LEMMA TransformedInit == Init => Transformed
<1> SUFFICES ASSUME Init PROVE Transformed
  OBVIOUS
<1>1. p \in Primes /\ src \in Sources /\ k = 1 /\ pc = "block" /\ entry = NttInit(src, p)
  BY DEF Init, InitFrom
<1>2. Reduced(entry, entry, p, 0)
  BY <1>1, SourceType, SourceReduced
<1>. QED
  BY <1>1, <1>2 DEF Transformed

\* and every step keeps it: only the end of a level can disturb it.
LEMMA TransformedStep == IndInv /\ Transformed /\ [Next]_vars => Transformed'
<1> SUFFICES ASSUME IndInv, Transformed, [Next]_vars PROVE Transformed'
  OBVIOUS
<1>1. CASE EndLevel
  <2>1. /\ pc = "block" /\ i >= N /\ k' = k + 1 /\ entry' = f
        /\ pc' = (IF k < LOGN THEN "block" ELSE "done")
        /\ UNCHANGED <<p, src, f>>
    BY <1>1 DEF EndLevel, LevelEnd
  <2>2. f = NttLevel(entry, p, k) /\ \A c \in Coeffs : f[c] < After(p, k)
    BY <2>1, LevelDone
  <2>3. p \in Primes /\ src \in Sources /\ k \in 1..LOGN /\ entry \in [Coeffs -> Nat]
    BY <2>1 DEF IndInv, Typed
  <2>4. Reduced(f, NttInit(src, p), p, k)
    BY <2>2, <2>3, SourceType, LevelReduced DEF Transformed
  <2>5. k + 1 - 1 = k /\ LOGN \in Nat
    BY <2>3, ParamsAssumption
  <2>6. Reduced(entry, NttInit(src, p), p, k - 1)'
    <3>1. k' - 1 = k /\ NttInit(src', p') = NttInit(src, p)
      BY <2>1, <2>3
    <3>2. Reduced(entry', NttInit(src', p'), p', k' - 1)
      BY <2>1, <2>4, <3>1
    <3>. QED
      BY <3>2 DEF Reduced, NttInit, Point, Exponent
  <2>7. ASSUME pc' = "done" PROVE k' = LOGN + 1 /\ f' = entry' /\ \A c \in Coeffs : f'[c] < p'
    <3>1. k = LOGN
      BY <2>1, <2>3, <2>5, <2>7
    <3>2. After(p, k) = p
      BY <3>1 DEF After, IsLazy
    <3>. QED
      BY <2>1, <2>2, <3>1, <3>2
  <2>. QED
    BY <2>6, <2>7 DEF Transformed
<1>2. CASE Block \/ Butterfly \/ UNCHANGED vars
  <2>1. UNCHANGED <<p, src, k, entry>> /\ (pc' = "done" => UNCHANGED <<pc, f>>)
    BY <1>2 DEF Block, Butterfly, vars
  <2>. QED
    BY <2>1 DEF Transformed, Reduced, NttInit, Point, Exponent
<1>. QED
  BY <1>1, <1>2 DEF Next

\* Once all levels are done each lane is the source at an odd power of the root.
LEMMA EvaluatesHolds == IndInv /\ Transformed => Evaluates
<1> SUFFICES ASSUME IndInv, Transformed, pc = "done", NEW n \in Coeffs
             PROVE  f[n] = SumTo([r \in Coeffs |->
                                    Red(src[r], p) * RootPowers(p)[((2 * BitRev(n, LOGN) + 1) * r) % (2 * N)]], N) % p
  BY DEF Evaluates
<1> DEFINE c == NttInit(src, p)
           h == FindRoot(p)
           e == 2 * BitRev(n, LOGN) + 1
           z == Point(p, LOGN, n)
           lane == [r \in 0..(N - 1) |-> c[0 + r * 1] * Power(z, r)]
           term == [r \in Coeffs |-> Red(src[r], p) * RootPowers(p)[(e * r) % (2 * N)]]
<1>1. /\ p \in Primes /\ src \in Sources /\ p \in Nat /\ p > 1 /\ p > 0 /\ h \in Nat /\ Cong(Power(h, N), -1, p)
      /\ N \in Nat /\ N > 3 /\ LOGN \in Nat /\ N = Pow2(LOGN) /\ LOGN - LOGN = 0 /\ Pow2(0) = 1
      /\ n \in Nat
  <2>1. p \in Primes /\ src \in Sources
    BY DEF IndInv, Typed
  <2>2. p \in Nat /\ p > 1 /\ h \in Nat /\ Cong(Power(h, N), -1, p)
    BY <2>1, RootFacts
  <2>3. N \in Nat /\ N > 3 /\ LOGN \in Nat /\ N = Pow2(LOGN) /\ LOGN - LOGN = 0
    BY ParamsAssumption
  <2>4. n \in Nat
    BY <2>3 DEF Coeffs
  <2> HIDE DEF h
  <2>. QED
    BY <2>1, <2>2, <2>3, <2>4, Pow2Facts
<1>2. /\ f \in [Coeffs -> Nat] /\ f[n] < p /\ f = entry /\ k - 1 = LOGN
      /\ Reduced(f, c, p, LOGN)
  BY <1>1 DEF IndInv, Typed, Transformed
<1>3. c \in [Coeffs -> Int] /\ \A r \in Coeffs : c[r] = Red(src[r], p) /\ Red(src[r], p) \in Int
  BY <1>1, SourceType
<1> HIDE DEF c
<1>4. e \in Nat /\ z = Power(h, e) /\ z \in Nat
  <2>1. BitRev(n, LOGN) \in Nat
    BY <1>1, BitRevFacts
  <2>2. Exponent(LOGN, n) = 1 * (2 * BitRev(n, LOGN) + 1)
    BY <1>1 DEF Exponent
  <2>3. e \in Nat /\ Exponent(LOGN, n) = e
    BY <2>1, <2>2
  <2>4. z = Power(h, e)
    BY <2>3 DEF Point
  <2> HIDE DEF e, z, h
  <2>. QED
    BY <1>1, <2>3, <2>4, PowerFacts
<1>5. Cong(f[n], SumTo(lane, N), p)
  <2>1. n \in 0..(Pow2(LOGN) - 1) /\ 0 \in 0..(Pow2(LOGN - LOGN) - 1) /\ n * 1 + 0 = n
    BY <1>1 DEF Coeffs
  <2>2. Cong(f[n * Pow2(LOGN - LOGN) + 0], Strand(c, z, 0, Pow2(LOGN - LOGN), Pow2(LOGN)), p)
    BY <1>2, <2>1 DEF Reduced
  <2>3. Cong(f[n], Strand(c, z, 0, 1, N), p)
    <3> HIDE DEF z
    <3>. QED
      BY <1>1, <2>1, <2>2
  <2>. QED
    BY <2>3 DEF Strand
<1> HIDE DEF z, e, h
<1>6. Cong(Power(h, 2 * N), 1, p)
  <2>1. Power(h, N) \in Nat
    BY <1>1, PowerFacts
  <2>2. Cong(Power(h, N) * Power(h, N), (-1) * (-1), p)
    <3>1. Power(h, N) \in Int /\ -1 \in Int
      BY <2>1
    <3>. QED
      BY <1>1, <3>1, CongFacts
  <2>3. Power(h, N + N) = Power(h, N) * Power(h, N)
    BY <1>1, PowerSum
  <2>4. N + N = 2 * N /\ (-1) * (-1) = 1
    BY <1>1
  <2>. QED
    BY <2>2, <2>3, <2>4
<1>7. ASSUME NEW r \in 0..(N - 1)
      PROVE  lane[r] \in Int /\ term[r] \in Int /\ Cong(lane[r], term[r], p)
  <2> DEFINE u == RootPowers(p)[(e * r) % (2 * N)]
             v == Power(z, r)
             a == Red(src[r], p)
  <2>1. r \in Nat /\ r \in Coeffs /\ 0 + r * 1 = r
    BY <1>1 DEF Coeffs
  <2>2. a \in Int /\ c[r] = a
    BY <1>3, <2>1
  <2>3. e * r \in Nat /\ 2 * N \in Nat /\ 2 * N > 0
    BY <1>1, <1>4, <2>1, Z3
  <2>4. v = Power(h, e * r) /\ v \in Nat
    BY <1>1, <1>4, <2>1, PowerPower, PowerFacts
  <2>5. (e * r) % (2 * N) \in 0..(2 * N - 1) /\ Cong(Power(h, e * r), Power(h, (e * r) % (2 * N)), p)
    BY <1>1, <1>6, <2>3, PowerPeriod
  <2>6. u \in Nat /\ Cong(u, Power(h, (e * r) % (2 * N)), p) /\ Power(h, (e * r) % (2 * N)) \in Int
    <3>1. (e * r) % (2 * N) \in Nat
      BY <2>5
    <3>. QED
      <4>1. u \in Nat /\ Cong(u, Power(h, (e * r) % (2 * N)), p)
        BY <1>1, <2>5, RootPowersFacts DEF h
      <4>2. Power(h, (e * r) % (2 * N)) \in Nat
        BY <1>1, <3>1, PowerFacts
      <4>. QED
        BY <4>1, <4>2
  <2> HIDE DEF u, v
  <2>7. Cong(v, u, p)
    <3> DEFINE y == Power(h, (e * r) % (2 * N))
    <3>1. y \in Int /\ u \in Int /\ v \in Int /\ Cong(u, y, p) /\ Cong(v, y, p)
      BY <2>4, <2>5, <2>6
    <3> HIDE DEF y
    <3>2. Cong(y, u, p)
      BY <1>1, <3>1, CongFacts
    <3>. QED
      BY <1>1, <3>1, <3>2, CongFacts
  <2>8. lane[r] = a * v /\ term[r] = a * u
    BY <2>1, <2>2 DEF u, v
  <2> HIDE DEF a, lane, term
  <2>9. a * v \in Int /\ a * u \in Int
    BY <2>2, <2>4, <2>6, Z3
  <2>10. Cong(a * v, a * u, p)
    <3>1. Cong(a, a, p)
      BY <1>1, <2>2, CongFacts
    <3>. QED
      BY <1>1, <2>2, <2>4, <2>6, <2>7, <3>1, CongFacts
  <2>. QED
    BY <2>8, <2>9, <2>10
<1> HIDE DEF lane, term
<1>8. Cong(SumTo(lane, N), SumTo(term, N), p) /\ SumTo(lane, N) \in Int /\ SumTo(term, N) \in Int
  BY <1>1, <1>7, CongSum
<1>9. f[n] = SumTo(term, N) % p
  <2>1. f[n] \in 0..(p - 1) /\ f[n] \in Int
    BY <1>1, <1>2
  <2>2. Cong(f[n], SumTo(term, N), p)
    BY <1>1, <1>5, <1>8, <2>1, CongFacts
  <2>3. f[n] % p = SumTo(term, N) % p /\ f[n] % p = f[n]
    BY <1>1, <1>8, <2>1, <2>2, CongMod
  <2>. QED
    BY <2>3
<1>. QED
  BY <1>9 DEF term, e

\* Evaluates for every N, every pair of primes with a 2N-th root of unity and
\* every reduced source: ntt and ntt_conv, in place and with half of the
\* reductions left out, evaluate the source at the roots of X^N + 1.
THEOREM TransformEvaluates == Spec => []Evaluates
<1>1. Init => IndInv /\ Transformed
  BY InvInit, TransformedInit
<1>2. IndInv /\ Transformed /\ [Next]_vars => (IndInv /\ Transformed)'
  BY InvStep, TransformedStep
<1>. QED
  BY <1>1, <1>2, EvaluatesHolds, PTL DEF Spec
=============================================================================
