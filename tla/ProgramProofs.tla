--------------------------- MODULE ProgramProofs ---------------------------
(***************************************************************************)
(* prepare_into and the program around it, for every set of keys,          *)
(* messages, signatures and accounts and every parameter: what a           *)
(* registration leaves in an account is the whole prepared form of the     *)
(* key, no failed or aborted one leaves anything else, a verification      *)
(* never panics on what it finds, and verifying against the prepared form  *)
(* gives the verdict of verify.  So a stored key is as good as the wire    *)
(* key it came from.                                                       *)
(***************************************************************************)
EXTENDS Program, PartialBlob, ArithTheorems

\* The sizes of the arrays, from the assumption on N.
LEMMA Sizes == /\ N \in Nat /\ N > 3
               /\ N \div 2 \in Nat /\ N \div 2 > 0 /\ N \div 2 < N
               /\ 0 \in Slots /\ 0 \in Coeffs /\ N - 1 \in Coeffs
<1>1. N \in Nat /\ N > 3
  BY ParamsAssumption
<1>2. N \div 2 \in Nat /\ N \div 2 > 0 /\ N \div 2 < N
  BY <1>1
<1>. QED
  BY <1>1, <1>2 DEF Slots, Coeffs

-----------------------------------------------------------------------------
(***************************************************************************)
(* The transforms of keys and vectors: what their levels make.             *)
(***************************************************************************)

\* The ring degree and its half.
LEMMA RingSizes == /\ N \in Nat /\ N > 3 /\ LOGN \in Nat /\ LOGN > 1
                   /\ N \div 2 \in Nat /\ N = 2 * (N \div 2)
BY ParamsAssumption, PowerSizes

\* The halves of the levels of the NTT.
LEMMA HalfFacts ==
  \A k \in 1..LOGN : /\ Half(k) \in Nat \ {0} /\ Pow2(k - 1) \in Nat \ {0}
                     /\ N = Pow2(k - 1) * (2 * Half(k))
                     /\ k < LOGN => Half(k) = 2 * Half(k + 1)
<1>1. N \in Nat /\ N > 3 /\ LOGN \in Nat /\ N = Pow2(LOGN)
  BY ParamsAssumption
<1>2. ASSUME NEW k \in 1..LOGN
      PROVE  /\ N \div Pow2(k) = Pow2(LOGN - k) /\ N \div Pow2(k) \in Nat \ {0}
             /\ N = Pow2(k - 1) * (2 * (N \div Pow2(k))) /\ Pow2(k - 1) \in Nat \ {0}
             /\ k < LOGN => N \div Pow2(k) = 2 * (N \div Pow2(k + 1))
  BY <1>1, HalfSizes
<1>. QED
  BY <1>2 DEF Half

-----------------------------------------------------------------------------
\* What the NTT of a prime works with.
TwiddlesOf(p) == p \in Nat \ {0} /\ W[p] \in [Coeffs -> Nat]

\* A level makes lanes of lanes; the last one leaves residues.
LEMMA NttLevelType ==
  ASSUME NEW p, TwiddlesOf(p), NEW f \in [Coeffs -> Nat], NEW k \in 1..LOGN
  PROVE  /\ NttLevel(f, p, k) \in [Coeffs -> Nat]
         /\ k = LOGN => NttLevel(f, p, k) \in [Coeffs -> 0..(p - 1)]
<1> DEFINE l == Half(k)
           m == Pow2(k - 1)
           low(x) == x % (2 * l) < l
           t(x) == MulMod(f[x], Twiddle(p, k, x \div (2 * l)), p)
           reduce(v) == IF IsLazy(k) THEN v ELSE v % p
<1>1. l \in Nat \ {0} /\ m \in Nat \ {0} /\ N = m * (2 * l) /\ p \in Nat /\ p > 0
  BY HalfFacts DEF TwiddlesOf
<1> HIDE DEF l, m
<1>2. ASSUME NEW x \in Coeffs
      PROVE  /\ x \div (2 * l) \in 0..(m - 1)
             /\ low(x) => x + l \in Coeffs
             /\ ~low(x) => x - l \in Coeffs
  <2>1. x \in 0..(N - 1)
    BY DEF Coeffs
  <2>2. /\ x \div (2 * l) \in 0..(m - 1)
        /\ x % (2 * l) < l => x + l \in 0..(N - 1)
        /\ ~(x % (2 * l) < l) => x - l \in 0..(N - 1)
    BY <1>1, <2>1, BlockOf
  <2>. QED
    BY <2>2 DEF Coeffs
<1>3. N \div (2 * l) = m /\ 2 * m <= N
  <2> DEFINE d == 2 * l
  <2>1. d \in Nat /\ d > 0 /\ d >= 2 /\ N = d * m + 0 /\ m \in Int
    BY <1>1, Z3
  <2>2. d * m >= 2 * m
    <3> HIDE DEF d
    <3>. QED
      BY <1>1, <2>1, Z3
  <2> HIDE DEF d
  <2>3. N \div d = m
    BY <2>1, DivUnique
  <2>. QED
    BY <1>1, <2>1, <2>2, <2>3 DEF d
<1>4. ASSUME NEW x \in Coeffs PROVE t(x) \in Nat /\ t(x) < p
  <2>1. m + x \div (2 * l) \in Coeffs
    <3> DEFINE q == x \div (2 * l)
    <3>1. q \in 0..(m - 1) /\ m \in Nat /\ 2 * m <= N /\ N \in Nat
      BY <1>1, <1>2, <1>3, RingSizes
    <3> HIDE DEF q
    <3>2. m + q \in Coeffs
      BY <3>1 DEF Coeffs
    <3>. QED
      BY <3>2 DEF q
  <2>2. Twiddle(p, k, x \div (2 * l)) \in Nat
    BY <1>3, <2>1 DEF Twiddle, TwiddlesOf, l
  <2>. QED
    BY <1>1, <2>2, MulModType
<1>5. NttLevel(f, p, k) = [x \in Coeffs |-> IF low(x) THEN reduce(f[x] + t(x + l))
                                            ELSE reduce(f[x - l] + p - t(x))]
  BY DEF NttLevel, l
<1>6. ASSUME NEW v \in Nat PROVE reduce(v) \in Nat /\ (k = LOGN => reduce(v) \in 0..(p - 1))
  <2>1. v % p \in 0..(p - 1)
    BY <1>1, DivMod
  <2>. QED
    BY <1>1, <2>1 DEF IsLazy
<1> HIDE DEF t, low, reduce
<1> DEFINE v(x) == IF low(x) THEN f[x] + t(x + l) ELSE f[x - l] + p - t(x)
<1>7. ASSUME NEW x \in Coeffs PROVE v(x) \in Nat
  <2>1. CASE low(x)
    <3>1. x + l \in Coeffs
      BY <1>2, <2>1
    <3>2. t(x + l) \in Nat
      BY <1>4, <3>1
    <3>. QED
      BY <2>1, <3>2
  <2>2. CASE ~low(x)
    <3>1. x - l \in Coeffs
      BY <1>2, <2>2
    <3>. QED
      BY <1>1, <1>4, <2>2, <3>1
  <2>. QED
    BY <2>1, <2>2
<1>8. NttLevel(f, p, k) = [x \in Coeffs |-> reduce(v(x))]
  BY <1>5
<1> HIDE DEF v
<1>. QED
  BY <1>6, <1>7, <1>8

\* The transform of a polynomial with coefficients below the prime is made of
\* residues.
LEMMA NttType ==
  ASSUME NEW p, TwiddlesOf(p), NEW src \in [Coeffs -> Int],
         \A k \in Coeffs : -p < src[k] /\ src[k] < p
  PROVE  Ntt(src, p) \in [Coeffs -> 0..(p - 1)]
<1> DEFINE T == [Coeffs -> Nat]
           a == NttInit(src, p)
           Level(f, k) == NttLevel(f, p, k)
           P(s) == s = [k \in 0..LOGN |-> IF k = 0 THEN a ELSE Level(s[k - 1], k)]
           D == [x \in T \X Nat |-> IF x[2] < LOGN THEN Level(x[1], x[2] + 1) ELSE x[1]]
           after == CHOOSE s : P(s)
<1>1. LOGN \in Nat /\ LOGN > 1
  BY RingSizes
<1>2. a \in T
  <2>1. p \in Nat
    BY DEF TwiddlesOf
  <2>2. ASSUME NEW k \in Coeffs PROVE Red(src[k], p) \in Nat
    BY <2>1 DEF Red
  <2>. QED
    BY <2>2 DEF NttInit
<1>3. ASSUME NEW f \in T, NEW k \in 0..(LOGN - 1)
      PROVE  /\ Level(f, k + 1) \in T
             /\ k + 1 = LOGN => Level(f, k + 1) \in [Coeffs -> 0..(p - 1)]
  <2>1. k + 1 \in 1..LOGN
    BY <1>1
  <2>. QED
    BY <2>1, NttLevelType
<1> HIDE DEF Level, T
<1>4. /\ D \in [T \X Nat -> T]
      /\ \A f \in T, k \in 0..(LOGN - 1) : D[<<f, k>>] = Level(f, k + 1)
  BY <1>1, <1>3
<1>5. Ntt(src, p) = after[LOGN]
  BY DEF Ntt, Level
<1> HIDE DEF a, D
<1>6. PICK s \in [0..LOGN -> T] : Follows(s, a, D, LOGN)
  BY <1>1, <1>2, <1>4, Recursion
<1>7. P(s)
  <2>1. ASSUME NEW k \in 0..LOGN PROVE s[k] = IF k = 0 THEN a ELSE Level(s[k - 1], k)
    <3>1. CASE k # 0
      <4>1. k \in 1..LOGN /\ k - 1 \in 0..(LOGN - 1) /\ (k - 1) + 1 = k /\ s[k - 1] \in T
        BY <1>1, <1>6, <3>1
      <4>2. D[<<s[k - 1], k - 1>>] = Level(s[k - 1], (k - 1) + 1)
        BY <1>4, <4>1
      <4>. QED
        BY <1>6, <3>1, <4>1, <4>2 DEF Follows
    <3>. QED
      BY <1>6, <3>1 DEF Follows
  <2>. QED
    BY <2>1
<1>8. P(after)
  <2> HIDE DEF P
  <2>. QED
    BY <1>7
<1> HIDE DEF after
<1>9. after[0] = a /\ \A k \in 1..LOGN : after[k] = Level(after[k - 1], k)
  BY <1>1, <1>8
<1> DEFINE S == {k \in Nat : k <= LOGN => after[k] \in T}
<1>10. 0 \in S
  BY <1>2, <1>9
<1>11. ASSUME NEW k \in Nat, k \in S PROVE k + 1 \in S
  <2>1. SUFFICES ASSUME k + 1 <= LOGN PROVE after[k + 1] \in T
    OBVIOUS
  <2>2. k + 1 \in 1..LOGN /\ (k + 1) - 1 = k /\ k \in 0..(LOGN - 1) /\ after[k] \in T
    BY <1>1, <1>11, <2>1
  <2>. QED
    BY <1>3, <1>9, <2>2
<1> HIDE DEF S
<1>12. Nat \subseteq S
  BY <1>10, <1>11, SetInduction
<1>13. LOGN - 1 \in 0..(LOGN - 1) /\ (LOGN - 1) + 1 = LOGN /\ LOGN \in 1..LOGN /\ after[LOGN - 1] \in T
  BY <1>1, <1>12 DEF S
<1>. QED
  BY <1>3, <1>5, <1>9, <1>13

-----------------------------------------------------------------------------
(***************************************************************************)
(* The transforms of rebuild_s0, whose lemmas are proved beside its loops. *)
(***************************************************************************)
Fft == INSTANCE RebuildLoopsProofs
         WITH Inputs <- {}, in <- 0, job <- 0, hat <- 0, m <- 0, u <- 0, j <- 0, w0 <- 0

\* The lemmas about transforms in RebuildLoopsProofs need no loop and no input:
LEMMA FftAssumptions == Fft!ParamsAssumption /\ Fft!FftAssumption /\ Fft!InputsAssumption
BY ParamsAssumption, FftAssumption
   DEF Fft!ParamsAssumption, ParamsAssumption, Fft!FftAssumption, FftAssumption,
       Fft!InputsAssumption, Fft!Pow2, Pow2

\* the operators they speak of are those of this module.
LEMMA SameFft ==
  /\ Fft!Complex = Complex /\ Fft!WordLanes = WordLanes /\ Fft!Coeffs = Coeffs
  /\ \A z, r : Fft!ShortLanes(z, r) <=> ShortLanes(z, r)
  /\ \A src, c : Fft!Short(src, c) <=> Short(src, c)
  /\ \A x : Fft!AsI64(x) = AsI64(x)
  /\ \A src, c, zeroFirst : Fft!FftConv(src, c, zeroFirst) = FftConv(src, c, zeroFirst)
<1>1. /\ Fft!Complex = Complex /\ Fft!WordLanes = WordLanes /\ Fft!Coeffs = Coeffs
      /\ \A z, r : Fft!ShortLanes(z, r) <=> ShortLanes(z, r)
  BY DEF Fft!Complex, Complex, Fft!WordLanes, WordLanes, Fft!Words, Words, Fft!Coeffs, Coeffs,
         Fft!Slots, Slots, Fft!ShortLanes, ShortLanes
<1>2. /\ \A src, c : Fft!Short(src, c) <=> Short(src, c)
      /\ \A x : Fft!AsI64(x) = AsI64(x)
  BY DEF Fft!Short, Short, Fft!Abs, Abs, Fft!AsI64, AsI64, Fft!Coeffs, Coeffs
<1>3. \A src, c, zeroFirst : Fft!FftConv(src, c, zeroFirst) = FftConv(src, c, zeroFirst)
  BY DEF Fft!FftConv, FftConv, Fft!FftLevels, FftLevels, Fft!FftLevel, FftLevel, Fft!Fold, Fold, Fft!Scaled, Scaled,
         Fft!AsI32, AsI32, Fft!AsI64, AsI64, Fft!Slots, Slots, Fft!Pow2, Pow2
<1>. QED
  BY <1>1, <1>2, <1>3

\* A forward FFT has lanes of words,
LEMMA FftType ==
  ASSUME NEW src \in [Coeffs -> Int], NEW c \in {C_W1, C_Q00, C_Q01}, NEW zeroFirst \in BOOLEAN
  PROVE  FftConv(src, c, zeroFirst) \in WordLanes /\ FftConv(src, c, zeroFirst) \in Complex
<1>1. src \in [Fft!Coeffs -> Int]
  BY SameFft
<1>2. Fft!FftConv(src, c, zeroFirst) \in Fft!WordLanes /\ Fft!FftConv(src, c, zeroFirst) \in Fft!Complex
  BY <1>1, FftAssumptions, Fft!FftType
<1>. QED
  BY <1>2, SameFft

\* and one of a short source has short ones.
LEMMA FftShort ==
  ASSUME NEW src \in [Coeffs -> Int], NEW c \in {C_W1, C_Q00, C_Q01}, Short(src, c)
  PROVE  ShortLanes(FftConv(src, c, FALSE), DeltaOne - 4) /\ DeltaOne - 4 \in Nat
<1>1. src \in [Fft!Coeffs -> Int] /\ Fft!Short(src, c)
  BY SameFft
<1>2. Fft!ShortLanes(Fft!FftConv(src, c, FALSE), DeltaOne - 4) /\ DeltaOne - 4 \in Nat
  BY <1>1, FftAssumptions, Fft!FftShort
<1>. QED
  BY <1>2, SameFft

-----------------------------------------------------------------------------
\* Each lane works modulo a prime.
LEMMA PrimeFacts ==
  ASSUME NEW l \in Lane
  PROVE  /\ Prime(l) \in Nat /\ Prime(l) > 1 /\ Prime(l) > 0
         /\ NoZeroDivisors(Prime(l)) /\ Fermat(Prime(l))
BY PrimesAssumption DEF Prime

\* find_root returns a residue, and the tables hold its powers.
LEMMA TwiddleType ==
  ASSUME NEW q \in Primes
  PROVE  q \in Nat \ {0} /\ W[q] \in [Coeffs -> 0..(q - 1)]
<1>1. q \in Nat /\ q > 1 /\ N \in Nat /\ N > 3 /\ LOGN \in Nat /\ \E x \in 2..(q - 1) : IsRoot(x, q)
  BY RootAssumption, ParamsAssumption
<1> DEFINE base == CHOOSE x \in 2..(q - 1) : IsRoot(x, q) /\ \A y \in 2..(x - 1) : ~IsRoot(y, q)
           T == {x \in 2..(q - 1) : IsRoot(x, q)}
<1>2. \E x \in 2..(q - 1) : IsRoot(x, q) /\ \A y \in 2..(x - 1) : ~IsRoot(y, q)
  <2>1. T \in SUBSET Nat /\ T # {}
    BY <1>1
  <2>2. PICK x \in T : \A y \in T : x <= y
    BY <2>1, NatLeast
  <2>3. ASSUME NEW y \in 2..(x - 1) PROVE ~IsRoot(y, q)
    <3>1. y \in 2..(q - 1) /\ ~(x <= y)
      BY <1>1, <2>2
    <3>. QED
      BY <2>2, <3>1
  <2>. QED
    BY <2>2, <2>3
<1>3. base \in Nat
  <2>1. base \in 2..(q - 1)
    BY <1>2
  <2>. QED
    BY <1>1, <2>1
<1>4. FindRoot(q) = PowMod(base, (q - 1) \div (2 * N), q)
  BY DEF FindRoot, RootOf
<1> HIDE DEF base
<1>5. (q - 1) \div (2 * N) \in Nat
  <2>1. \A a, b \in Nat : b > 0 => a \div b \in Nat
    OBVIOUS
  <2>2. q - 1 \in Nat /\ 2 * N \in Nat /\ 2 * N > 0
    BY <1>1
  <2>. QED
    BY <2>1, <2>2
<1>6. FindRoot(q) \in Nat
  <2> DEFINE e == (q - 1) \div (2 * N)
  <2>1. e \in Nat
    BY <1>5
  <2> HIDE DEF e
  <2>2. PowMod(base, e, q) \in Nat
    BY <1>1, <1>3, <2>1, PowModPower
  <2>. QED
    BY <1>4, <2>2 DEF e
<1>7. ASSUME NEW n \in Coeffs PROVE PowMod(FindRoot(q), BitRev(n, LOGN), q) \in 0..(q - 1)
  <2>1. n \in Nat
    BY <1>1 DEF Coeffs
  <2>2. BitRev(n, LOGN) \in Nat
    BY <1>1, <2>1, BitRevFacts
  <2>. QED
    BY <1>1, <1>6, <2>2, PowModPower
<1>8. W[q] = [n \in Coeffs |-> PowMod(FindRoot(q), BitRev(n, LOGN), q)]
  BY DEF W
<1>. QED
  BY <1>1, <1>7, <1>8

\* The transforms of a key that decodes have the types of the fields.
LEMMA KeyFacts ==
  ASSUME NEW k \in Wire, DecodePublic(k).ok
  PROVE  /\ Q00(k)[0] \in Int
         /\ Fq01(k) \in Complex /\ Fq01(k) \in WordLanes
         /\ V(k) \in [Slots -> Int]
         /\ \A l \in Lane : /\ Q00n(k, l) \in [Coeffs -> 0..(Prime(l) - 1)]
                            /\ Q01n(k, l) \in [Coeffs -> 0..(Prime(l) - 1)]
                            /\ Q00n(k, l) \in [Coeffs -> Nat]
                            /\ Q01n(k, l) \in [Coeffs -> Nat]
<1>1. ASSUME NEW l \in Lane, NEW f \in [Coeffs -> 0..(Prime(l) - 1)]
      PROVE  f \in [Coeffs -> Nat]
  <2>1. 0..(Prime(l) - 1) \subseteq Nat
    BY PrimeFacts
  <2>. QED
    BY <2>1
<1>2. Reducible(Q00(k)) /\ Reducible(Q01(k))
  BY KeyAssumption
<1>3. Q00(k) \in [Coeffs -> Int] /\ Q01(k) \in [Coeffs -> Int]
  BY <1>2 DEF Reducible
<1>4. Q00(k)[0] \in Int
  BY <1>3, Sizes
<1>5. Fq01(k) \in Complex /\ Fq01(k) \in WordLanes
  BY <1>3, FftType DEF Fq01
<1>6. V(k) \in [Slots -> Int]
  <2> DEFINE z == FftConv(Q00(k), C_Q00, TRUE)
  <2>1. z \in Complex
    BY <1>3, FftType
  <2> HIDE DEF z
  <2>2. \A u \in Slots : z.re[u] \in Int
    BY <2>1 DEF Complex
  <2>3. Alpha(Q00(k)) \in Int
    <3>1. C_Q00 \in Int
      BY FftAssumption
    <3>2. 2 * C_Q00 * Q00(k)[0] \in Int
      BY <1>4, <3>1, Z3
    <3>3. (2 * C_Q00 * Q00(k)[0]) \div N \in Int
      BY <3>2, Sizes, DivMod
    <3>. QED
      BY <3>3 DEF Alpha
  <2>4. V(k) = [u \in Slots |-> Alpha(Q00(k)) + z.re[u]]
    BY DEF V, Divisor, z
  <2>. QED
    BY <2>2, <2>3, <2>4
<1>7. ASSUME NEW l \in Lane
      PROVE  /\ Q00n(k, l) \in [Coeffs -> 0..(Prime(l) - 1)]
             /\ Q01n(k, l) \in [Coeffs -> 0..(Prime(l) - 1)]
  <2>1. Prime(l) \in Primes
    BY DEF Prime, Primes
  <2>2. TwiddlesOf(Prime(l))
    <3>1. Prime(l) \in Nat \ {0} /\ W[Prime(l)] \in [Coeffs -> 0..(Prime(l) - 1)]
      BY <2>1, TwiddleType
    <3>. QED
      BY <1>1, <3>1 DEF TwiddlesOf
  <2>3. \A j \in Coeffs : /\ -Prime(l) < Q00(k)[j] /\ Q00(k)[j] < Prime(l)
                          /\ -Prime(l) < Q01(k)[j] /\ Q01(k)[j] < Prime(l)
    BY <1>2, <2>1 DEF Reducible
  <2>4. Ntt(Q00(k), Prime(l)) \in [Coeffs -> 0..(Prime(l) - 1)]
    BY <1>3, <2>2, <2>3, NttType
  <2>5. Ntt(Q01(k), Prime(l)) \in [Coeffs -> 0..(Prime(l) - 1)]
    BY <1>3, <2>2, <2>3, NttType
  <2>. QED
    BY <2>4, <2>5 DEF Q00n, Q01n
<1>. QED
  BY <1>1, <1>4, <1>5, <1>6, <1>7

\* What the types rest on: the decoded key is there once the code uses it,
\* and the product handed to the inversion is a residue.
DecodedInv == /\ pc \in Running \ {"decode"} => DecodePublic(pub).ok
              /\ pc = "invert" => acc < Prime(lane)

-----------------------------------------------------------------------------
(***************************************************************************)
(* Types, and the array indices.                                           *)
(***************************************************************************)

\* The first call finds a typed buffer,
LEMMA TypeInit == Init => TypeOK /\ DecodedInv
BY Sizes, BlobAssumption
DEF Init, TypeOK, DecodedInv, Blob, Lane, Resting, Running

\* and every step leaves one and keeps its indices inside the arrays.
LEMMA TypeStep == TypeOK /\ DecodedInv /\ [Next]_vars => TypeOK' /\ DecodedInv'
<1>. SUFFICES ASSUME TypeOK, DecodedInv, [Next]_vars PROVE TypeOK' /\ DecodedInv'
  OBVIOUS
<1>. USE Sizes DEF TypeOK, DecodedInv, Resting, Running
<1>1. ASSUME NEW k \in Wire, Call(k) PROVE TypeOK' /\ DecodedInv'
  BY <1>1 DEF Call, blob
<1>2. CASE Decode
  BY <1>2 DEF Decode, blob
<1>3. CASE PrepareFft
  <2>1. Fq01(pub) \in Complex
    BY <1>3, KeyFacts DEF PrepareFft
  <2>. QED
    BY <1>3, <2>1 DEF PrepareFft
<1>4. CASE PrepareDivisor
  <2>1. BoundScale * V(pub)[i] \in Int
    <3>1. BoundScale \in Int /\ V(pub)[i] \in Int
      BY <1>4, KeyFacts, FftAssumption DEF PrepareDivisor, DivisorStep
    <3>. QED
      BY <3>1, Z3
  <2>2. CASE InRange(V(pub)[i])
    <3>1. pvbound' \in [Slots -> Int]
      BY <1>4, <2>1, <2>2 DEF PrepareDivisor, DivisorStep
    <3>2. i' \in 0..N /\ (pc' = "divisor" => i' \in Slots)
      BY <1>4, <2>2 DEF PrepareDivisor, DivisorStep, Slots
    <3>. QED
      BY <1>4, <2>2, <3>1, <3>2 DEF PrepareDivisor, DivisorStep, Lane
  <2>3. CASE ~InRange(V(pub)[i])
    BY <1>4, <2>3 DEF PrepareDivisor, DivisorStep
  <2>. QED
    BY <2>2, <2>3
<1>5. CASE NttFactors
  <2>1. /\ Q00n(pub, lane) \in [Coeffs -> Nat]
        /\ Q01n(pub, lane) \in [Coeffs -> Nat]
    BY <1>5, KeyFacts DEF NttFactors, NttTransforms
  <2>. QED
    BY <1>5, <2>1 DEF NttFactors, NttTransforms
<1>6. CASE PrefixProduct
  <2>1. /\ MulMod(acc, q00n[lane][i], Prime(lane)) \in Nat
        /\ MulMod(acc, q00n[lane][i], Prime(lane)) < Prime(lane)
    <3>1. i \in Coeffs /\ q00n[lane] \in [Coeffs -> Nat]
      BY <1>6 DEF PrefixProduct, PrefixStep
    <3>2. acc \in Nat /\ q00n[lane][i] \in Nat /\ lane \in Lane
      BY <3>1
    <3>. QED
      BY <3>2, MulModType, PrimeFacts
  <2>2. q00inv' \in [Lane -> [Coeffs -> Nat]]
    BY <1>6, <2>1 DEF PrefixProduct, PrefixStep
  <2>3. i' \in 0..N /\ (pc' = "prefix" => i' \in Coeffs)
    BY <1>6 DEF PrefixProduct, PrefixStep, Coeffs
  <2>. QED
    BY <1>6, <2>1, <2>2, <2>3 DEF PrefixProduct, PrefixStep
<1>7. CASE InvertProduct
  <2>1. acc' \in Nat /\ i' \in 0..N /\ (pc' = "back" => i' - 1 \in Coeffs)
    <3>1. CASE Inv(acc, Prime(lane)) = None
      BY <1>7, <3>1 DEF InvertProduct
    <3>2. CASE Inv(acc, Prime(lane)) # None
      <4>1. acc \in 0..(Prime(lane) - 1)
        BY <1>7, PrimeFacts DEF InvertProduct
      <4>2. Inv(acc, Prime(lane)) \in Nat
        BY <4>1, <3>2, PrimeFacts, InvInverts
      <4>. QED
        BY <1>7, <3>2, <4>2 DEF InvertProduct
    <3>. QED
      BY <3>1, <3>2
  <2>. QED
    BY <1>7, <2>1 DEF InvertProduct, blob
<1>8. CASE BackwardPass
  <2>. DEFINE j == i - 1
              prefix == Product(q00inv[lane], j)
  <2>1. j \in Coeffs /\ (j # 0 => j - 1 \in Coeffs)
    BY <1>8 DEF BackwardPass, Peeled, PeelSlot, Coeffs
  <2>2. prefix \in Nat
    BY <2>1 DEF Product
  <2>3. /\ MulMod(acc, prefix, Prime(lane)) \in Nat
        /\ MulMod(acc, q00n[lane][j], Prime(lane)) \in Nat
    <3>1. acc \in Nat /\ q00n[lane][j] \in Nat /\ lane \in Lane
      BY <2>1
    <3>. HIDE DEF prefix, j
    <3>. QED
      BY <2>2, <3>1, MulModType, PrimeFacts
  <2>4. q00inv' \in [Lane -> [Coeffs -> Nat]]
    BY <1>8, <2>1, <2>3 DEF BackwardPass, Peeled, PeelSlot
  <2>5. i' \in 0..N /\ (pc' = "back" => i' - 1 \in Coeffs)
    BY <1>8 DEF BackwardPass, Peeled, PeelSlot, Coeffs
  <2>. QED
    BY <1>8, <2>3, <2>4, <2>5 DEF BackwardPass, Peeled, PeelSlot, Lane
<1>9. CASE HashPub
  BY <1>9, KeyAssumption DEF HashPub
<1>10. CASE UNCHANGED vars
  BY <1>10 DEF vars, blob
<1>. QED
  BY <1>1, <1>2, <1>3, <1>4, <1>5, <1>6, <1>7, <1>8, <1>9, <1>10 DEF Next, Step

\* Every field keeps its type and every index that the code asserts to be in
\* range is in range, at every step of every call.
THEOREM TypeCorrect == Spec => []TypeOK
<1>1. Init => TypeOK /\ DecodedInv
  BY TypeInit
<1>2. TypeOK /\ DecodedInv /\ [Next]_vars => (TypeOK /\ DecodedInv)'
  BY TypeStep
<1>. QED
  BY <1>1, <1>2, PTL DEF Spec

-----------------------------------------------------------------------------
(***************************************************************************)
(* The inductive invariant: what Ok and Err mean.                          *)
(***************************************************************************)

\* The transforms of the key being prepared, as the batch lemmas want them.
LEMMA LaneFacts ==
  ASSUME TypeOK, DecodePublic(pub).ok, FactorsOf(pub, lane)
  PROVE  /\ lane \in Lane
         /\ q00n[lane] \in [Coeffs -> 0..(Prime(lane) - 1)]
         /\ q00inv[lane] \in [Coeffs -> Nat]
         /\ Prime(lane) \in Nat /\ Prime(lane) > 1
         /\ NoZeroDivisors(Prime(lane)) /\ Fermat(Prime(lane))
BY KeyFacts, PrimeFacts DEF TypeOK, FactorsOf

\* A finished lane has no zero factor.
LEMMA CompleteHasNoZero ==
  ASSUME NEW k \in Wire, DecodePublic(k).ok, NEW l \in Lane,
         LaneComplete(k, l), q00inv[l] \in [Coeffs -> Nat]
  PROVE  \A j \in Coeffs : Q00n(k, l)[j] # 0
<1>. SUFFICES ASSUME NEW j \in Coeffs PROVE Q00n(k, l)[j] # 0
  OBVIOUS
<1>1. /\ Q00n(k, l)[j] \in Nat /\ q00inv[l][j] \in Nat
      /\ MulMod(Q00n(k, l)[j], q00inv[l][j], Prime(l)) = 1
  BY KeyFacts, Sizes DEF LaneComplete, FactorsOf, InvertedFrom, IsInverse, Coeffs
<1>. QED
  BY <1>1, PrimeFacts, InvertibleNotZero

\* Nothing is claimed of the buffer before the first call,
LEMMA InvInit == Init => IndInv
BY DEF Init, IndInv, KeyInv, LaneInv, InversionInv, InNtt, Running,
       OkIsComplete, OutcomeIsTheKeys

\* and each step of a call establishes what the next one relies on.
LEMMA InvStep == TypeOK /\ TypeOK' /\ IndInv /\ [Next]_vars => IndInv'
<1>. SUFFICES ASSUME TypeOK, TypeOK', IndInv, [Next]_vars PROVE IndInv'
  OBVIOUS
<1>. USE DEF IndInv, KeyInv, LaneInv, InversionInv, InNtt, Running, Resting
<1>1. ASSUME NEW k \in Wire, Call(k) PROVE IndInv'
  BY <1>1 DEF Call, OkIsComplete, OutcomeIsTheKeys
<1>2. CASE Decode
  BY <1>2 DEF Decode, OkIsComplete, OutcomeIsTheKeys, Usable
<1>3. CASE PrepareFft
  <2>1. Q00(pub)[0] \in Int
    BY <1>3, KeyFacts DEF PrepareFft, TypeOK
  <2>2. CASE Q00(pub)[0] < 0
    BY <1>3, <2>1, <2>2 DEF PrepareFft, OkIsComplete, OutcomeIsTheKeys, Usable
  <2>3. CASE ~(Q00(pub)[0] < 0)
    BY <1>3, <2>1, <2>3 DEF PrepareFft, OkIsComplete, OutcomeIsTheKeys, Slots
  <2>. QED
    BY <2>2, <2>3
<1>4. CASE PrepareDivisor
  <2>. USE DEF PrepareDivisor, DivisorStep
  <2>1. i \in Slots
    BY <1>4 DEF TypeOK
  <2>2. CASE ~InRange(V(pub)[i])
    BY <1>4, <2>1, <2>2 DEF OkIsComplete, OutcomeIsTheKeys, Usable
  <2>3. CASE InRange(V(pub)[i])
    <3>1. \A u \in Slots : u < i + 1 => BoundOf(pub, u)'
      <4>1. \A u \in Slots : u = i => BoundOf(pub, u)'
        BY <1>4, <2>1, <2>3 DEF BoundOf, TypeOK
      <4>2. \A u \in Slots : u < i => BoundOf(pub, u)'
        BY <1>4, <2>1, <2>3 DEF BoundOf, TypeOK, Slots
      <4>. QED
        BY <2>1, <4>1, <4>2 DEF Slots
    <3>2. ~(i + 1 < N \div 2) => \A u \in Slots : u < i + 1
      BY <2>1, Sizes DEF Slots
    <3>3. KeyInv'
      BY <1>4, <2>3, <3>1, <3>2
    <3>. QED
      BY <1>4, <2>3, <3>3 DEF OkIsComplete, OutcomeIsTheKeys
  <2>. QED
    BY <2>2, <2>3
<1>5. CASE NttFactors
  <2>. USE DEF NttFactors, NttTransforms
  <2>1. FactorsOf(pub, lane)'
    BY <1>5 DEF FactorsOf, TypeOK
  <2>2. lane = 2 => LaneComplete(pub, 1)'
    BY <1>5 DEF LaneComplete, FactorsOf, TypeOK
  <2>3. ForwardInv(q00n[lane], q00inv[lane], 0, 1, Prime(lane))'
    BY <1>5, ForwardStart, PrimeFacts DEF TypeOK
  <2>4. KeyInv'
    BY <1>5 DEF BoundOf
  <2>. QED
    BY <1>5, <2>1, <2>2, <2>3, <2>4 DEF OkIsComplete, OutcomeIsTheKeys
<1>6. CASE PrefixProduct
  <2>. USE DEF PrefixProduct, PrefixStep
  <2>1. i \in Coeffs /\ lane \in Lane /\ acc' = MulMod(acc, q00n[lane][i], Prime(lane))
    BY <1>6 DEF TypeOK
  <2>2. q00inv'[lane] = [q00inv[lane] EXCEPT ![i] = acc']
    BY <1>6 DEF TypeOK
  <2>3. ForwardInv(q00n[lane], q00inv'[lane], i + 1, acc', Prime(lane))
    <3>1. /\ q00n[lane] \in [Coeffs -> 0..(Prime(lane) - 1)]
          /\ q00inv[lane] \in [Coeffs -> Nat] /\ Prime(lane) \in Nat /\ Prime(lane) > 1
          /\ NoZeroDivisors(Prime(lane))
      BY <1>6, LaneFacts
    <3>2. ForwardInv(q00n[lane], q00inv[lane], i, acc, Prime(lane))
      BY <1>6
    <3>3. ForwardInv(q00n[lane], [q00inv[lane] EXCEPT ![i] = MulMod(acc, q00n[lane][i], Prime(lane))],
                     i + 1, MulMod(acc, q00n[lane][i], Prime(lane)), Prime(lane))
      BY ONLY <2>1, <3>1, <3>2, Sizes, ForwardStep DEF Coeffs
    <3>. QED
      BY <2>1, <2>2, <3>3
  <2>4. pc' = "invert" => i + 1 = N
    BY <1>6, <2>1, Sizes DEF Coeffs
  <2>5. lane = 2 => LaneComplete(pub, 1)'
    BY <1>6 DEF LaneComplete, FactorsOf, TypeOK
  <2>6. KeyInv' /\ FactorsOf(pub, lane)'
    BY <1>6 DEF BoundOf, FactorsOf
  <2>. QED
    BY <1>6, <2>3, <2>4, <2>5, <2>6 DEF OkIsComplete, OutcomeIsTheKeys
<1>7. CASE InvertProduct
  <2>. USE DEF InvertProduct, blob
  <2>. DEFINE x == Inv(acc, Prime(lane))
  <2>1. /\ x = None <=> \E j \in Coeffs : q00n[lane][j] = 0
        /\ x # None => BackwardInv(q00n[lane], q00inv[lane], N, x, Prime(lane))
    BY <1>7, LaneFacts, Sizes, TurnStep DEF Coeffs
  <2>2. CASE x = None
    <3>1. \E j \in Coeffs : Q00n(pub, lane)[j] = 0
      BY <1>7, <2>1, <2>2 DEF FactorsOf
    <3>2. ~Usable(pub)
      BY <3>1 DEF Usable, Invertible, TypeOK
    <3>. QED
      BY <1>7, <2>2, <3>2 DEF OkIsComplete, OutcomeIsTheKeys
  <2>3. CASE x # None
    <3>1. pc' = "back" /\ i' = N /\ acc' = x /\ UNCHANGED <<aligned, pub, lane, blob>>
      BY <1>7, <2>3
    <3>2. InversionInv'
      BY <1>7, <2>1, <2>3, <3>1, LaneFacts, Sizes DEF InvertedFrom, Coeffs
    <3>3. KeyInv' /\ LaneInv'
      BY <1>7, <3>1 DEF BoundOf, LaneComplete, FactorsOf
    <3>. QED
      BY <3>1, <3>2, <3>3 DEF OkIsComplete, OutcomeIsTheKeys
  <2>. QED
    BY <2>2, <2>3
<1>8. CASE BackwardPass
  <2>. DEFINE j == i - 1
              f == q00n[lane]
              g == q00inv[lane]
              p == Prime(lane)
              y == MulMod(acc, Product(g, j), p)
  <2>1. /\ j \in Coeffs /\ j + 1 = i /\ lane \in Lane
        /\ acc' = MulMod(acc, f[j], p) /\ i' = j
        /\ q00inv' = [q00inv EXCEPT ![lane] = [g EXCEPT ![j] = y]]
        /\ UNCHANGED <<aligned, pub, pvbound, fq01, q00n, q01n, hpub>>
    BY <1>8 DEF BackwardPass, Peeled, PeelSlot, TypeOK
  <2>2. q00inv'[lane] = [g EXCEPT ![j] = y] /\ \A l \in Lane : l # lane => q00inv'[l] = q00inv[l]
    BY <2>1 DEF TypeOK
  <2>3. BackwardInv(f, g, j + 1, acc, p) /\ InvertedFrom(f, g, j + 1, p) /\ FactorsOf(pub, lane)
    BY <1>8, <2>1 DEF BackwardPass, Peeled, PeelSlot
  <2>4. /\ IsInverse(f[j], y, p)
        /\ BackwardInv(f, q00inv'[lane], j, acc', p)
    <3>1. /\ f \in [Coeffs -> 0..(p - 1)] /\ g \in [Coeffs -> Nat]
          /\ p \in Nat /\ p > 1
      BY <1>8, <2>3, LaneFacts DEF BackwardPass, Peeled, PeelSlot
    <3>2. /\ IsInverse(f[j], MulMod(acc, Product(g, j), p), p)
          /\ BackwardInv(f, [g EXCEPT ![j] = y], j, MulMod(acc, f[j], p), p)
      <4>1. j \in Coeffs /\ BackwardInv(f, g, j + 1, acc, p)
        BY <2>1, <2>3
      <4>. HIDE DEF f, g, p, j, y
      <4>. QED
        BY <3>1, <4>1, Sizes, BackwardStep DEF Coeffs
    <3>. QED
      BY <2>1, <2>2, <3>2
  <2>5. InvertedFrom(f, q00inv'[lane], j, p)
    <3>1. \A m \in Coeffs : m >= j => m = j \/ m >= j + 1
      BY <2>1 DEF Coeffs
    <3>2. q00inv'[lane][j] = y /\ \A m \in Coeffs : m # j => q00inv'[lane][m] = g[m]
      BY <2>1, <2>2 DEF TypeOK
    <3>3. \A m \in Coeffs : m >= j + 1 => m # j
      BY <2>1 DEF Coeffs
    <3>4. DOMAIN f = Coeffs
      BY <1>8, <2>3, LaneFacts DEF BackwardPass, PeelSlot
    <3>. HIDE DEF f, g, p, j, y
    <3>. QED
      BY <2>3, <2>4, <3>1, <3>2, <3>3, <3>4 DEF InvertedFrom
  <2>6. \A l \in Lane : l = lane => FactorsOf(pub, l)'
    BY <2>1, <2>3 DEF FactorsOf
  <2>7. lane = 2 => LaneComplete(pub, 1)'
    BY <1>8, <2>1, <2>2 DEF BackwardPass, Peeled, PeelSlot, LaneComplete, FactorsOf, Lane, Prime
  <2>8. KeyInv'
    BY <1>8, <2>1 DEF BackwardPass, Peeled, PeelSlot, BoundOf
  <2>9. CASE j = 0
    <3>1. \A l \in Lane : l = lane => LaneComplete(pub, l)'
      BY <2>1, <2>5, <2>6, <2>9 DEF LaneComplete
    <3>. QED
      BY <1>8, <2>1, <2>7, <2>8, <2>9, <3>1
      DEF BackwardPass, Peeled, PeelSlot, OkIsComplete, OutcomeIsTheKeys, Lane
  <2>10. CASE j # 0
    <3>1. pc' = "back" /\ lane' = lane
      BY <1>8, <2>1, <2>10 DEF BackwardPass, Peeled, PeelSlot, Coeffs
    <3>. QED
      BY <2>1, <2>4, <2>5, <2>6, <2>7, <2>8, <3>1 DEF OkIsComplete, OutcomeIsTheKeys
  <2>. QED
    BY <2>9, <2>10
<1>9. CASE HashPub
  <2>. USE DEF HashPub
  <2>1. lane = 2 /\ LaneComplete(pub, 1) /\ LaneComplete(pub, 2)
    BY <1>9
  <2>2. Complete(pub)'
    <3>1. \A l \in Lane : LaneComplete(pub, l)'
      BY <1>9, <2>1 DEF LaneComplete, FactorsOf, Lane
    <3>2. pvbound = [u \in Slots |-> BoundScale * V(pub)[u]]
      BY <1>9 DEF BoundOf, TypeOK
    <3>. QED
      BY <1>9, <3>1, <3>2 DEF Complete
  <2>3. Usable(pub)
    BY <1>9, <2>1, CompleteHasNoZero DEF Usable, Invertible, BoundOf, TypeOK, Lane
  <2>. QED
    BY <1>9, <2>2, <2>3 DEF OkIsComplete, OutcomeIsTheKeys
<1>10. CASE UNCHANGED vars
  BY <1>10 DEF vars, blob, OkIsComplete, OutcomeIsTheKeys, Complete, LaneComplete, FactorsOf, BoundOf
<1>. QED
  BY <1>1, <1>2, <1>3, <1>4, <1>5, <1>6, <1>7, <1>8, <1>9, <1>10 DEF Next, Step

\* IndInv holds: what the call has written so far is what its position says, for
\* every key, every buffer and every pair of primes.
THEOREM InvariantHolds == Spec => []IndInv
<1>1. Init => TypeOK /\ DecodedInv /\ IndInv
  BY TypeInit, InvInit
<1>2. TypeOK /\ DecodedInv /\ IndInv /\ [Next]_vars => (TypeOK /\ DecodedInv /\ IndInv)'
  BY TypeStep, InvStep
<1>. QED
  BY <1>1, <1>2, PTL DEF Spec

\* A call that returns Ok has written every field of the buffer from this key,
\* and no prefix product, stale lane or garbage is left in it.
THEOREM OkMeansComplete == Spec => []OkIsComplete
<1>1. IndInv => OkIsComplete
  BY DEF IndInv
<1>. QED
  BY <1>1, InvariantHolds, PTL

\* Whether the call returns Ok or Err depends on the key and on alignment only.
THEOREM OutcomeDependsOnKey == Spec => []OutcomeIsTheKeys
<1>1. IndInv => OutcomeIsTheKeys
  BY DEF IndInv
<1>. QED
  BY <1>1, InvariantHolds, PTL

\* The key's hash enters the buffer in the step that completes it and in no
\* other: the hash never names factors that are not the key's.
THEOREM HpubWrittenLast == Spec => HpubIsLast
<1>1. IndInv' /\ [Next]_vars => [hpub' # hpub => Complete(pub)']_vars
  <2>. SUFFICES ASSUME IndInv', [Next]_vars, hpub' # hpub PROVE Complete(pub)'
    OBVIOUS
  <2>1. HashPub
    BY DEF Next, Step, Call, Decode, PrepareFft, PrepareDivisor, DivisorStep, NttFactors, NttTransforms,
           PrefixProduct, PrefixStep, InvertProduct, BackwardPass, Peeled, PeelSlot, blob, vars
  <2>. QED
    BY <2>1 DEF HashPub, IndInv, OkIsComplete
<1>. QED
  BY <1>1, InvariantHolds, PTL DEF Spec, HpubIsLast

\* A call that is refused for the buffer's alignment, the key's encoding or the
\* sign of q00[0] has written nothing: prepare_into tests the three before its
\* first write.
THEOREM UntouchedBeforeAdmission == Spec => UntouchedUntilAdmitted
<1> DEFINE Admitted == aligned /\ DecodePublic(pub).ok /\ Q00(pub)[0] >= 0
<1>1. TypeOK /\ IndInv /\ [Next]_vars => [blob' # blob => Admitted]_vars
  <2>. SUFFICES ASSUME TypeOK, IndInv, [Next]_vars, blob' # blob PROVE Admitted
    OBVIOUS
  <2>1. CASE PrepareFft
    <3>1. aligned /\ DecodePublic(pub).ok
      BY <2>1 DEF PrepareFft, IndInv, KeyInv, Running
    <3>2. ~(Q00(pub)[0] < 0)
      BY <2>1 DEF PrepareFft, blob
    <3>3. Q00(pub)[0] \in Int
      BY <3>1, KeyFacts DEF TypeOK, Coeffs
    <3>. QED
      BY <3>1, <3>2, <3>3
  <2>2. ASSUME pc = "divisor" \/ InNtt PROVE Admitted
    BY <2>2 DEF IndInv, KeyInv, Running, InNtt
  <2>3. CASE PrepareDivisor
    BY <2>2, <2>3 DEF PrepareDivisor, DivisorStep
  <2>4. CASE NttFactors \/ PrefixProduct \/ BackwardPass \/ HashPub
    BY <2>2, <2>4 DEF NttFactors, NttTransforms, PrefixProduct, PrefixStep, BackwardPass, PeelSlot,
                      HashPub, InNtt
  <2>. QED
    BY <2>1, <2>3, <2>4 DEF Next, Step, Call, Decode, InvertProduct, blob, vars
<1>. QED
  BY <1>1, TypeCorrect, InvariantHolds, PTL DEF Spec, UntouchedUntilAdmitted

-----------------------------------------------------------------------------
(***************************************************************************)
(* The two verifiers.  The divide loop sees the same divisors and bounds:  *)
(* the bound is stored, the divisor is shifted out of it, and the range    *)
(* test that verify repeats has been made once, at preparation.            *)
(***************************************************************************)

\* Shifting a stored bound gives the divisor back.
LEMMA DivisorRecovered ==
  ASSUME NEW v \in Int PROVE (BoundScale * v) \div BoundScale = v
<1>1. BoundScale \in Nat /\ BoundScale > 0
  BY FftAssumption
<1>. QED
  BY <1>1

\* RebuildS0 on a prepared blob is RebuildS0 on the key: same w0, same
\* rejections, and no panic that the key does not have.
THEOREM RebuildsTheSame ==
  ASSUME NEW k \in Wire, Usable(k), NEW w1, NEW h0
  PROVE  RebuildPrepared(PreparedBlob(k).pvbound, PreparedBlob(k).fq01, w1, h0)
           = RebuildDirect(Q00(k), Q01(k), w1, h0)
<1>1. /\ V(k) \in [Slots -> Int] /\ Q00(k)[0] \in Int /\ Q00(k)[0] >= 0
      /\ \A u \in Slots : InRange(V(k)[u])
  BY KeyFacts DEF Usable
<1>2. V(k) = Divisor(Q00(k)) /\ Fq01(k) = FftConv(Q01(k), C_Q01, FALSE)
  BY DEF V, Fq01
<1>3. StoredDivisor(Bounds(V(k))) = V(k)
  <2>1. \A u \in Slots : Bounds(V(k))[u] \div BoundScale = V(k)[u]
    BY <1>1, DivisorRecovered DEF Bounds
  <2>. QED
    BY <1>1, <2>1 DEF StoredDivisor
<1>4. {u \in Slots : InRange(V(k)[u])} = Slots
  BY <1>1
<1>5. PreparedBlob(k).pvbound = Bounds(V(k)) /\ PreparedBlob(k).fq01 = Fq01(k)
  BY DEF PreparedBlob
<1>6. ~(Q00(k)[0] < 0)
  BY <1>1
<1>. QED
  BY <1>2, <1>3, <1>4, <1>5, <1>6 DEF RebuildPrepared, RebuildDirect

\* verify_with_prepared "is semantically identical to verify" (lib.rs): on the
\* blob that prepare_into makes of a usable key, both give the same verdict.
THEOREM SameVerdict ==
  ASSUME NEW k \in Wire, Usable(k), NEW msg, NEW sig
  PROVE  VerifyPrepared(PreparedBlob(k), msg, sig) = Verify(k, msg, sig)
<1>1. DecodePublic(k).ok /\ Invertible(k)
  BY DEF Usable
<1>2. PreparedBlob(k).hpub = Hpub(k)
  BY DEF PreparedBlob
<1> DEFINE f == FillW1H0(Hpub(k), msg, sig)
           r == RebuildDirect(Q00(k), Q01(k), f.w1, f.h0)
<1>3. RebuildPrepared(PreparedBlob(k).pvbound, PreparedBlob(k).fq01, f.w1, f.h0) = r
  BY RebuildsTheSame
<1>4. QnormInBoundPrepared(PreparedBlob(k), r.w0, f.w1)
        <=> QnormInBoundPrepared(DirectFactors(k), r.w0, f.w1)
  <2>1. /\ PreparedBlob(k).q00n = DirectFactors(k).q00n
        /\ PreparedBlob(k).q00inv = DirectFactors(k).q00inv
        /\ PreparedBlob(k).q01n = DirectFactors(k).q01n
    BY DEF PreparedBlob
  <2>. QED
    BY <2>1 DEF QnormInBoundPrepared
<1>5. QnormInBoundPrepared(PreparedBlob(k), r.w0, f.w1) <=> DirectInBound(k, r.w0, f.w1)
  BY <1>1, <1>4 DEF DirectInBound
<1> HIDE DEF f
<1>6. VerifyPrepared(PreparedBlob(k), msg, sig)
        = IF f.ok THEN Judged(r, QnormInBoundPrepared(PreparedBlob(k), r.w0, f.w1)) ELSE "reject"
  BY <1>2, <1>3 DEF VerifyPrepared, f
<1>7. Verify(k, msg, sig) = IF f.ok THEN Judged(r, DirectInBound(k, r.w0, f.w1)) ELSE "reject"
  BY <1>1 DEF Verify, f
<1> HIDE DEF r
<1>8. Judged(r, QnormInBoundPrepared(PreparedBlob(k), r.w0, f.w1))
        = Judged(r, DirectInBound(k, r.w0, f.w1))
  BY <1>5 DEF Judged
<1>. QED
  BY <1>6, <1>7, <1>8

\* A key under which verify accepts anything is a key that prepare_into
\* prepares: registration asks nothing that verify does not ask as well.
THEOREM AcceptingKeysAreUsable ==
  ASSUME NEW k \in Wire, NEW msg, NEW sig, Verify(k, msg, sig) = "accept"
  PROVE  Usable(k)
<1> DEFINE f == FillW1H0(Hpub(k), msg, sig)
           r == RebuildDirect(Q00(k), Q01(k), f.w1, f.h0)
<1>1. DecodePublic(k).ok /\ Judged(r, DirectInBound(k, r.w0, f.w1)) = "accept"
  BY DEF Verify
<1>2. r.fate = "w0" /\ DirectInBound(k, r.w0, f.w1)
  BY <1>1 DEF Judged
<1>3. Invertible(k)
  BY <1>2 DEF DirectInBound
<1>4. Q00(k)[0] \in Int /\ ~(Q00(k)[0] < 0)
  BY <1>1, <1>2, KeyFacts DEF RebuildDirect, Rejected
<1> DEFINE d == DivideLoop(FftConv(Q01(k), C_Q01, FALSE), FftConv(f.w1, C_W1, FALSE), V(k),
                           Bounds(V(k)), f.h0, {u \in Slots : InRange(V(k)[u])})
<1>5. d.fate = "w0"
  BY <1>2, <1>4 DEF RebuildDirect, V
<1> HIDE DEF f, r
<1>6. \A u \in Slots : InRange(V(k)[u])
  BY <1>5 DEF DivideLoop, Rejected, Panicked
<1>. QED
  BY <1>1, <1>3, <1>4, <1>6 DEF Usable

-----------------------------------------------------------------------------
(***************************************************************************)
(* The accounts.                                                           *)
(***************************************************************************)

\* When prepare_into has returned Ok, the buffer is the prepared form of its
\* key and nothing else: inverses are unique.
LEMMA CompleteIsPrepared ==
  ASSUME TypeOK, Usable(pub), Complete(pub)
  PROVE  BlobNow = PreparedBlob(pub)
<1> DEFINE k == pub
           f == DirectFactors(k)
<1>1. k \in Wire /\ DecodePublic(k).ok /\ Invertible(k)
  BY DEF TypeOK, Usable
<1>2. q00n = f.q00n /\ q01n = f.q01n
  <2>1. q00n = [l \in Lane |-> Q00n(k, l)]
    BY DEF TypeOK, Complete, LaneComplete, FactorsOf
  <2>2. q01n = [l \in Lane |-> Q01n(k, l)]
    BY DEF TypeOK, Complete, LaneComplete, FactorsOf
  <2>. QED
    BY <2>1, <2>2 DEF DirectFactors
<1>3. ASSUME NEW l \in Lane, NEW j \in Coeffs
      PROVE  q00inv[l][j] = Inv(Q00n(k, l)[j], Prime(l))
  <2> DEFINE x == Q00n(k, l)[j]
             p == Prime(l)
  <2>1. x \in 0..(p - 1) /\ x # 0
    BY <1>1, KeyFacts DEF Invertible
  <2>2. p \in Nat /\ p > 1 /\ Fermat(p)
    BY PrimeFacts
  <2>3. IsInverse(x, q00inv[l][j], p)
    <3>1. j >= 0 /\ DOMAIN q00n[l] = Coeffs
      BY Sizes DEF Coeffs, TypeOK
    <3>. QED
      BY <3>1 DEF Complete, LaneComplete, FactorsOf, InvertedFrom
  <2> HIDE DEF x, p
  <2>4. Inv(x, p) \in 0..(p - 1) /\ MulMod(x, Inv(x, p), p) = 1
    BY <2>1, <2>2, InvInverts
  <2>5. q00inv[l][j] = Inv(x, p)
    BY <2>1, <2>2, <2>3, <2>4, InverseUnique DEF IsInverse
  <2>. QED
    BY <2>5 DEF x, p
<1>4. q00inv = f.q00inv
  <2>1. q00inv = [l \in Lane |-> [j \in Coeffs |-> q00inv[l][j]]]
    BY DEF TypeOK
  <2>2. q00inv = [l \in Lane |-> [j \in Coeffs |-> Inv(Q00n(k, l)[j], Prime(l))]]
    BY <1>3, <2>1
  <2>. QED
    BY <2>2 DEF DirectFactors
<1>5. pvbound = Bounds(V(k)) /\ fq01 = Fq01(k) /\ hpub = Hpub(k)
  BY DEF Complete, Bounds
<1>. QED
  BY <1>2, <1>4, <1>5 DEF BlobNow, PreparedBlob

\* What an account holds, and what a registration under way works on.
Typed ==
  /\ accounts \in [Accounts -> Blob]
  /\ tx # NoTx => tx.acct \in Accounts /\ tx.key \in Wire /\ tx.mode = "register"

ProgInv == TypeOK /\ DecodedInv /\ IndInv /\ Typed /\ AccountsAreWhole

\* The transaction's view of an account is typed when it is loaded, and
\* nothing is claimed of it before prepare_into is called.
LEMMA Loading ==
  ASSUME TypeOK, NEW b \in Blob, LoadBlob(b), pc' = "idle",
         pub' \in Wire, lane' \in Lane, i' \in 0..N, acc' \in Nat, aligned' = aligned
  PROVE  TypeOK' /\ DecodedInv' /\ IndInv'
<1>1. /\ pvbound' \in [Slots -> Int] /\ fq01' \in Complex /\ hpub' \in Hashes
      /\ q00n' \in [Lane -> [Coeffs -> Nat]] /\ q00inv' \in [Lane -> [Coeffs -> Nat]]
      /\ q01n' \in [Lane -> [Coeffs -> Nat]]
  BY DEF LoadBlob, Blob
<1>2. TypeOK'
  BY <1>1 DEF TypeOK, Resting
<1>3. DecodedInv'
  BY DEF DecodedInv, Running
<1>4. IndInv'
  BY DEF IndInv, KeyInv, LaneInv, InversionInv, InNtt, Running, OkIsComplete, OutcomeIsTheKeys
<1>. QED
  BY <1>2, <1>3, <1>4

\* The chain starts with the invariant,
LEMMA ProgInvInit == ProgInit => ProgInv
<1> SUFFICES ASSUME ProgInit PROVE ProgInv
  OBVIOUS
<1>1. TypeOK /\ DecodedInv /\ IndInv
  BY TypeInit, InvInit DEF ProgInit
<1>2. Typed /\ AccountsAreWhole
  BY BlobsAssumption DEF ProgInit, Typed, AccountsAreWhole
<1>. QED
  BY <1>1, <1>2 DEF ProgInv

\* and every step of every transaction keeps it.
LEMMA ProgInvStep == ProgInv /\ [ProgNext]_allVars => ProgInv'
<1> SUFFICES ASSUME ProgInv, [ProgNext]_allVars PROVE ProgInv'
  OBVIOUS
<1> USE DEF ProgInv
<1>f. ASSUME Forget PROVE TypeOK' /\ DecodedInv' /\ IndInv'
  <2>1. 1 \in Lane /\ 0 \in 0..N /\ 1 \in Nat /\ BakedKey \in Wire
    BY Sizes, BakedAssumption DEF Lane
  <2>. QED
    BY <1>f, <2>1, Loading, BlobsAssumption DEF Forget
<1>1. ASSUME NEW ix \in Instructions, Entrypoint(ix) PROVE ProgInv'
  <2>1. UNCHANGED <<vars, accounts, tx>>
    BY <1>1 DEF Entrypoint
  <2>2. TypeOK' /\ DecodedInv' /\ IndInv'
    BY <2>1, TypeStep, InvStep
  <2>. QED
    BY <2>1, <2>2 DEF Typed, AccountsAreWhole
<1>2. ASSUME NEW ix \in Instructions, Register(ix) PROVE ProgInv'
  <2>1. ix.acct \in Accounts /\ ix.key \in Wire
    BY <1>2, InstructionsAssumption DEF Register, Parse
  <2>6. ix.mode = "register"
    BY <1>2 DEF Register
  <2>2. accounts[ix.acct] \in Blob
    BY <2>1 DEF Typed
  <2>3. /\ LoadBlob(accounts[ix.acct]) /\ pc' = "idle" /\ aligned' = aligned
        /\ pub' \in Wire /\ lane' \in Lane /\ i' \in 0..N /\ acc' \in Nat
    BY <1>2 DEF Register, TypeOK
  <2>4. TypeOK' /\ DecodedInv' /\ IndInv'
    BY <2>2, <2>3, Loading
  <2>5. Typed' /\ AccountsAreWhole'
    BY <1>2, <2>1, <2>6 DEF Register, Typed, AccountsAreWhole
  <2>. QED
    BY <2>4, <2>5
<1>3. CASE Run
  <2>1. [Next]_vars
    BY <1>3 DEF Run, Next, Typed
  <2>2. TypeOK' /\ DecodedInv' /\ IndInv'
    BY <2>1, TypeStep, InvStep
  <2>3. Typed' /\ AccountsAreWhole'
    BY <1>3 DEF Run, chain, Typed, AccountsAreWhole
  <2>. QED
    BY <2>2, <2>3
<1>4. CASE Return
  <2>1. TypeOK' /\ DecodedInv' /\ IndInv'
    BY <1>4, <1>f DEF Return
  <2>2. CASE pc = "ok"
    <3>1. Usable(pub) /\ Complete(pub) /\ pub \in Wire
      BY <2>2 DEF IndInv, OkIsComplete, OutcomeIsTheKeys, TypeOK
    <3>2. HoldsKey(BlobNow, pub)
      BY <3>1, CompleteIsPrepared DEF HoldsKey
    <3>3. BlobNow \in Blob
      BY DEF TypeOK, BlobNow, Blob
    <3>4. accounts' = [accounts EXCEPT ![tx.acct] = BlobNow] /\ tx' = NoTx
      BY <1>4, <2>2 DEF Return, RegisterCode
    <3>5. Typed'
      BY <3>3, <3>4 DEF Typed
    <3>6. AccountsAreWhole'
      BY <3>1, <3>2, <3>4 DEF Typed, AccountsAreWhole
    <3>. QED
      BY <2>1, <3>5, <3>6
  <2>3. CASE pc # "ok"
    <3>1. accounts' = accounts /\ tx' = NoTx
      BY <1>4, <2>3 DEF Return, RegisterCode
    <3>. QED
      BY <2>1, <3>1 DEF Typed, AccountsAreWhole
  <2>. QED
    BY <2>2, <2>3
<1>5. CASE Exhaust
  <2>1. TypeOK' /\ DecodedInv' /\ IndInv'
    BY <1>5, <1>f DEF Exhaust
  <2>2. accounts' = accounts /\ tx' = NoTx
    BY <1>5 DEF Exhaust
  <2>. QED
    BY <2>1, <2>2 DEF Typed, AccountsAreWhole
<1>6. CASE Collect \/ UNCHANGED allVars
  <2>1. UNCHANGED <<vars, accounts, tx>>
    BY <1>6 DEF Collect, allVars, chain
  <2>2. TypeOK' /\ DecodedInv' /\ IndInv'
    BY <2>1, TypeStep, InvStep
  <2>. QED
    BY <2>1, <2>2 DEF Typed, AccountsAreWhole
<1>. QED
  BY <1>1, <1>2, <1>3, <1>4, <1>5, <1>6 DEF ProgNext

\* The invariant of the whole chain.
LEMMA ProgInvHolds == ProgSpec => []ProgInv
  BY ProgInvInit, ProgInvStep, PTL DEF ProgSpec

\* An account is untouched or holds the whole prepared form of one usable key,
\* whatever registrations failed, were aborted or came before (the contract of
\* mode 2 of the program).
THEOREM AccountsStayWhole == ProgSpec => []AccountsAreWhole
<1>1. ProgInv => AccountsAreWhole
  BY DEF ProgInv
<1>. QED
  BY <1>1, ProgInvHolds, PTL

\* A signature checked against a registered account gets the verdict of verify
\* under the wire key that was registered.
StoredVerdictIsVerify ==
  \A a \in Accounts : \A msg, sig :
    accounts[a] # ZeroBlob =>
      \E k \in Wire : Usable(k) /\ VerifyPrepared(accounts[a], msg, sig) = Verify(k, msg, sig)

\* StoredVerdictIsVerify holds on the chain at all times.
THEOREM StoredKeysVerify == ProgSpec => []StoredVerdictIsVerify
<1>1. AccountsAreWhole => StoredVerdictIsVerify
  BY SameVerdict DEF AccountsAreWhole, HoldsKey, StoredVerdictIsVerify
<1>. QED
  BY <1>1, AccountsStayWhole, PTL

\* The answers: only verify itself answers a raw verification.
LEMMA AnswersStep ==
  Typed /\ VerifyingKeysRegister /\ [ProgNext]_allVars => VerifyingKeysRegister'
<1> SUFFICES ASSUME Typed, VerifyingKeysRegister, [ProgNext]_allVars
             PROVE  VerifyingKeysRegister'
  OBVIOUS
<1> USE DEF VerifyingKeysRegister
<1>1. ASSUME NEW ix \in Instructions, Entrypoint(ix) PROVE VerifyingKeysRegister'
  <2>1. CASE Parse(ix) # "run"
    <3>1. answer' = [ix |-> ix, code |-> Parse(ix)] /\ Parse(ix) # "ok"
      BY <1>1, <2>1 DEF Entrypoint, Reply, Parse
    <3>. QED
      BY <3>1
  <2>2. CASE Parse(ix) = "run"
    <3>1. answer' = [ix |-> ix, code |-> ReturnCode(VerdictOf(ix))]
      BY <1>1, <2>2 DEF Entrypoint, Reply
    <3>2. ASSUME ix.mode = "raw", ReturnCode(VerdictOf(ix)) = "ok" PROVE Usable(ix.key)
      <4>1. ix.key \in Wire /\ VerdictOf(ix) = Verify(ix.key, ix.msg, ix.sig)
        BY <3>2, InstructionsAssumption DEF VerdictOf
      <4>2. VerdictOf(ix) = "accept"
        BY <3>2 DEF ReturnCode
      <4>. QED
        BY <4>1, <4>2, AcceptingKeysAreUsable
    <3>. QED
      BY <3>1, <3>2
  <2>. QED
    BY <2>1, <2>2
<1>2. ASSUME NEW ix \in Instructions, Register(ix) PROVE VerifyingKeysRegister'
  BY <1>2 DEF Register
<1>3. CASE Run
  BY <1>3 DEF Run, chain
<1>4. CASE Return \/ Exhaust
  <2>1. tx.mode = "register" /\ \E code : answer' = [ix |-> tx, code |-> code]
    BY <1>4 DEF Return, Exhaust, Reply, Typed
  <2>. QED
    BY <2>1
<1>5. CASE Collect
  BY <1>5 DEF Collect
<1>6. CASE UNCHANGED allVars
  BY <1>6 DEF allVars, chain
<1>. QED
  BY <1>1, <1>2, <1>3, <1>4, <1>5, <1>6 DEF ProgNext

\* If a signature verifies under a wire key, that key can be registered: no
\* signer loses service by moving from mode 0 of the program to mode 2.
THEOREM VerifyingKeysCanRegister == ProgSpec => []VerifyingKeysRegister
<1>1. ProgInit => VerifyingKeysRegister
  BY DEF ProgInit, VerifyingKeysRegister
<1>2. ProgInv => Typed
  BY DEF ProgInv
<1>. QED
  BY <1>1, <1>2, AnswersStep, ProgInvHolds, PTL DEF ProgSpec

-----------------------------------------------------------------------------
(***************************************************************************)
(* The program implements the registry.  The key of an account is the one  *)
(* its hpub names; a registration changes it in one step, when it returns, *)
(* and a verification is answered as the wire key would have it.           *)
(***************************************************************************)

\* The vector that a signature is checked with is one of short integers,
LEMMA FrontType ==
  ASSUME NEW h \in Hashes, NEW msg, NEW sig, DecodesTo(msg, sig, Hashes), FillW1H0(h, msg, sig).ok
  PROVE  LET w == FftConv(FillW1H0(h, msg, sig).w1, C_W1, FALSE)
         IN  w \in Complex /\ ShortLanes(w, DeltaOne - 4) /\ DeltaOne - 4 \in Nat
<1> DEFINE s == DecodeSignature(sig)
           x == Expand(ComputeM(msg, h), s.salt)
<1>1. s.ok /\ s.s1 \in [Coeffs -> Int] /\ x.h1 \in [Coeffs -> Int] /\ Short(W1(x.h1, s.s1), C_W1)
  BY DEF FillW1H0, DecodesTo
<1>2. FillW1H0(h, msg, sig).w1 = W1(x.h1, s.s1)
  BY DEF FillW1H0
<1> HIDE DEF s, x
<1>3. W1(x.h1, s.s1) \in [Coeffs -> Int]
  BY <1>1 DEF W1
<1>4. FftConv(W1(x.h1, s.s1), C_W1, FALSE) \in Complex
  BY <1>3, FftType
<1>5. ShortLanes(FftConv(W1(x.h1, s.s1), C_W1, FALSE), DeltaOne - 4) /\ DeltaOne - 4 \in Nat
  BY <1>1, <1>3, FftShort
<1>. QED
  BY <1>2, <1>4, <1>5

\* so that the magnitudes of its products with words are not negative.
LEMMA MagnitudeOfProduct ==
  ASSUME NEW q \in WordLanes, NEW w \in Complex, ShortLanes(w, DeltaOne - 4), DeltaOne - 4 \in Nat,
         NEW n \in Slots
  PROVE  Magnitude(XRe(q, w, n)) \in Nat /\ Magnitude(XIm(q, w, n)) \in Nat
<1>1. q \in Fft!WordLanes /\ w \in Fft!Complex /\ Fft!ShortLanes(w, DeltaOne - 4) /\ n \in Fft!Slots
  BY SameFft DEF Fft!Slots, Slots
<1>2. Fft!Magnitude(Fft!XRe(q, w, n)) \in Nat /\ Fft!Magnitude(Fft!XIm(q, w, n)) \in Nat
  BY <1>1, FftAssumptions, Fft!MagnitudeOfProduct
<1>3. /\ Fft!Magnitude(Fft!XRe(q, w, n)) = Magnitude(XRe(q, w, n))
      /\ Fft!Magnitude(Fft!XIm(q, w, n)) = Magnitude(XIm(q, w, n))
  BY SameFft DEF Fft!Magnitude, Magnitude, Fft!Abs, Abs, Fft!XRe, XRe, Fft!XIm, XIm
<1>. QED
  BY <1>2, <1>3

\* A divide loop that divides no slot within its bound by zero does not panic.
LEMMA DividesWithoutPanic ==
  ASSUME NEW q, NEW w, NEW v, NEW bnd, NEW h0, NEW allowed,
         \A u \in allowed : WithinBound(q, w, u, bnd[u]) => v[u] # 0
  PROVE  DivideLoop(q, w, v, bnd, h0, allowed).fate \in {"w0", "reject"}
<1> DEFINE y(u) == DivideStep(q, w, u, v[u])
           t == InvFftToW0([re |-> [u \in Slots |-> y(u).re], im |-> [u \in Slots |-> y(u).im]], h0)
           refused == {u \in Slots : u \notin allowed \/ ~WithinBound(q, w, u, bnd[u])}
           zero == {u \in Slots : v[u] = 0}
<1>1. t.fate \in {"w0", "reject"}
  BY DEF InvFftToW0, Rejected
<1>2. zero \ refused = {}
  OBVIOUS
<1> HIDE DEF t
<1>3. DivideLoop(q, w, v, bnd, h0, allowed) \in {t, Rejected}
  BY <1>2 DEF DivideLoop, t
<1>. QED
  BY <1>1, <1>3 DEF Rejected

\* verify itself only accepts or rejects,
LEMMA VerdictOfVerify ==
  ASSUME NEW k, NEW msg, NEW sig PROVE Verify(k, msg, sig) \in {"accept", "reject"}
<1> DEFINE f == FillW1H0(Hpub(k), msg, sig)
           r == RebuildDirect(Q00(k), Q01(k), f.w1, f.h0)
<1>1. \A u \in {u \in Slots : InRange(V(k)[u])} : V(k)[u] # 0
  BY DEF InRange
<1>2. r.fate \in {"w0", "reject"}
  BY <1>1, DividesWithoutPanic DEF RebuildDirect, Rejected, V
<1>3. Verify(k, msg, sig)
        = IF DecodePublic(k).ok /\ f.ok THEN Judged(r, DirectInBound(k, r.w0, f.w1)) ELSE "reject"
  BY DEF Verify
<1> HIDE DEF f, r
<1>. QED
  BY <1>2, <1>3 DEF Judged

\* and a zeroed account rejects every signature, as its bounds admit nothing.
LEMMA ZeroRejects ==
  ASSUME NEW ix \in Instructions
  PROVE  VerifyPrepared(ZeroBlob, ix.msg, ix.sig) = "reject"
<1> DEFINE f == FillW1H0(ZeroBlob.hpub, ix.msg, ix.sig)
           w == FftConv(f.w1, C_W1, FALSE)
           q == ZeroBlob.fq01
           b == ZeroBlob.pvbound
           r == RebuildPrepared(b, q, f.w1, f.h0)
<1>1. VerifyPrepared(ZeroBlob, ix.msg, ix.sig)
        = IF f.ok THEN Judged(r, QnormInBoundPrepared(ZeroBlob, r.w0, f.w1)) ELSE "reject"
  BY DEF VerifyPrepared
<1>2. ASSUME f.ok PROVE r = Rejected
  <2>1. w \in Complex /\ ShortLanes(w, DeltaOne - 4) /\ DeltaOne - 4 \in Nat /\ q \in WordLanes
    <3>1. q \in Complex /\ ZeroBlob.hpub \in Hashes /\ \A u \in Slots : q.re[u] = 0 /\ q.im[u] = 0
      BY BlobsAssumption DEF Blob
    <3>2. f.ok /\ DecodesTo(ix.msg, ix.sig, Hashes)
      BY <1>2, SignaturesAssumption
    <3>3. w \in Complex /\ ShortLanes(w, DeltaOne - 4) /\ DeltaOne - 4 \in Nat
      BY <3>1, <3>2, FrontType
    <3> HIDE DEF f, w, q
    <3>4. q \in WordLanes
      <4>1. 0 \in Words
        BY FftAssumption DEF Words
      <4>. QED
        BY <3>1, <4>1 DEF Complex, WordLanes
    <3>. QED
      BY <3>3, <3>4
  <2> HIDE DEF f, w, q
  <2>2. ASSUME NEW u \in Slots PROVE ~WithinBound(q, w, u, b[u])
    <3>1. Magnitude(XRe(q, w, u)) \in Nat
      BY <2>1, MagnitudeOfProduct
    <3>2. b[u] = 0
      BY BlobsAssumption
    <3>. QED
      BY <3>1, <3>2 DEF WithinBound
  <2>3. 0 \in Slots
    BY Sizes DEF Slots
  <2> DEFINE d == DivideLoop(q, w, StoredDivisor(b), b, f.h0, Slots)
  <2>4. d = Rejected
    <3> DEFINE v == StoredDivisor(b)
               refused == {u \in Slots : u \notin Slots \/ ~WithinBound(q, w, u, b[u])}
               zero == {u \in Slots : v[u] = 0}
    <3>1. refused = Slots
      BY <2>2
    <3>2. zero \ refused = {} /\ refused \union zero # {}
      BY <2>3, <3>1
    <3>. QED
      BY <3>2 DEF DivideLoop
  <2>. QED
    BY <2>4 DEF RebuildPrepared, w
<1> HIDE DEF f, r
<1>. QED
  BY <1>1, <1>2 DEF Judged, Rejected

\* The entrypoint goes on with the instructions that the registry takes.
LEMMA ParseIsWellFormed ==
  ASSUME NEW ix \in Instructions PROVE Parse(ix) = "run" <=> Registry!WellFormed(ix)
BY InstructionsAssumption, LengthsAssumption DEF Parse, Registry!WellFormed

\* The key that an account holds.
LEMMA KeyOfAccount ==
  ASSUME AccountsAreWhole, NEW a \in Accounts
  PROVE  \/ accounts[a] = ZeroBlob /\ KeyIn(accounts[a]) = NoKey
         \/ KeyIn(accounts[a]) \in Wire /\ HoldsKey(accounts[a], KeyIn(accounts[a]))
<1>1. CASE accounts[a] = ZeroBlob
  BY <1>1 DEF KeyIn
<1>2. CASE accounts[a] # ZeroBlob
  <2>1. PICK k \in Wire : HoldsKey(accounts[a], k)
    BY <1>2 DEF AccountsAreWhole
  <2>2. accounts[a].hpub = Hpub(k)
    BY <2>1 DEF HoldsKey, PreparedBlob
  <2>3. KeyIn(accounts[a]) = CHOOSE l \in Wire : Hpub(l) = accounts[a].hpub
    BY <2>2, NamesAssumption DEF KeyIn
  <2>4. KeyIn(accounts[a]) = k
    BY <2>2, <2>3, NamesAssumption
  <2>. QED
    BY <2>1, <2>4
<1>. QED
  BY <1>1, <1>2

\* A registration that has been begun is well-formed, works on its own key and
\* owes the only answer.
RegInv ==
  /\ aligned = TRUE
  /\ tx # NoTx => /\ tx \in Instructions /\ Parse(tx) = "run"
                  /\ answer = NoAnswer
                  /\ pc # "idle" => pub = tx.key

\* Every step keeps both invariants.
LEMMA RegInvStep == ProgInv /\ RegInv /\ [ProgNext]_allVars => RegInv'
<1> SUFFICES ASSUME ProgInv, RegInv, [ProgNext]_allVars PROVE RegInv'
  OBVIOUS
<1> USE DEF RegInv
<1>1. ASSUME NEW ix \in Instructions, Entrypoint(ix) PROVE RegInv'
  BY <1>1 DEF Entrypoint, Ready, vars
<1>2. ASSUME NEW ix \in Instructions, Register(ix) PROVE RegInv'
  <2>1. Parse(ix)' = Parse(ix)
    BY DEF Parse
  <2>. QED
    BY <1>2, <2>1 DEF Register, Ready
<1>3. CASE Run
  <2>1. UNCHANGED <<accounts, tx, answer>> /\ tx # NoTx
    BY <1>3 DEF Run, chain
  <2>2. pub' = tx.key /\ aligned' = aligned
    <3>1. CASE pc = "idle"
      BY <1>3, <3>1 DEF Run, Call
    <3>2. CASE pc # "idle"
      BY <1>3, <3>2, <2>1 DEF Run, Step, Decode, PrepareFft, PrepareDivisor, DivisorStep, NttFactors,
         NttTransforms, PrefixProduct, PrefixStep, InvertProduct, BackwardPass, PeelSlot, HashPub
    <3>. QED
      BY <3>1, <3>2
  <2>3. Parse(tx)' = Parse(tx)
    BY <2>1 DEF Parse
  <2>. QED
    BY <2>1, <2>2, <2>3
<1>4. CASE Return \/ Exhaust
  BY <1>4 DEF Return, Exhaust, Forget
<1>5. CASE Collect
  BY <1>5 DEF Collect, vars
<1>6. CASE UNCHANGED allVars
  <2>1. Parse(tx)' = Parse(tx)
    BY <1>6 DEF allVars, chain, Parse
  <2>. QED
    BY <1>6, <2>1 DEF allVars, chain, vars
<1>. QED
  BY <1>1, <1>2, <1>3, <1>4, <1>5, <1>6 DEF ProgNext

\* Accounts start without keys.
LEMMA RegistryInit == ProgInit => Registry!RegInit
BY DEF ProgInit, Registry!RegInit, KeyIn

\* An instruction that is answered at once is refused or judged.
LEMMA EntrypointStep ==
  ASSUME ProgInv, NEW ix \in Instructions, Entrypoint(ix)
  PROVE  answer = NoAnswer /\ (Registry!Refuse(ix) \/ Registry!Judge(ix))
<1> DEFINE keys == [a \in Accounts |-> KeyIn(accounts[a])]
<1>1. answer = NoAnswer /\ accounts' = accounts
  BY DEF Entrypoint, Ready
<1>2. keys' = keys
  BY <1>1
<1>3. CASE Parse(ix) # "run"
  <2>1. ~Registry!WellFormed(ix) /\ answer' = [ix |-> ix, code |-> Parse(ix)]
    BY <1>3, ParseIsWellFormed DEF Entrypoint, Reply
  <2>2. Parse(ix) \in {"invalid", "too_small"}
    BY <1>3 DEF Parse
  <2>. QED
    BY <1>1, <1>2, <2>1, <2>2 DEF Registry!Refuse, Registry!Answer
<1>4. CASE Parse(ix) = "run"
  <2>1. /\ Registry!WellFormed(ix) /\ ix.mode # "register"
        /\ answer' = [ix |-> ix, code |-> ReturnCode(VerdictOf(ix))]
    BY <1>4, ParseIsWellFormed DEF Entrypoint, Reply
  <2>2. /\ VerdictOf(ix) \in {"accept", "reject"}
        /\ VerdictOf(ix) = "accept" <=>
             /\ Registry!KeyFor(ix) # NoKey
             /\ Verify(Registry!KeyFor(ix), ix.msg, ix.sig) = "accept"
    <3>1. CASE ix.mode = "raw"
      <4>1. Registry!KeyFor(ix) = ix.key /\ ix.key # NoKey
        BY <3>1, InstructionsAssumption, NamesAssumption DEF Registry!KeyFor
      <4>2. VerdictOf(ix) = Verify(ix.key, ix.msg, ix.sig)
        BY <3>1 DEF VerdictOf
      <4>. QED
        BY <4>1, <4>2, VerdictOfVerify
    <3>2. CASE ix.mode = "baked"
      <4>1. Registry!KeyFor(ix) = BakedKey /\ BakedKey # NoKey
        BY <3>2, BakedAssumption, NamesAssumption DEF Registry!KeyFor
      <4>2. VerdictOf(ix) = Verify(BakedKey, ix.msg, ix.sig)
        BY <3>2, BakedAssumption, SameVerdict DEF VerdictOf
      <4>. QED
        BY <4>1, <4>2, VerdictOfVerify
    <3>3. CASE ix.mode \notin {"raw", "baked"}
      <4> DEFINE k == KeyIn(accounts[ix.acct])
      <4>1. ix.acct \in Accounts
        BY <2>1, <3>3 DEF Registry!WellFormed
      <4>2. Registry!KeyFor(ix) = k
        BY <3>3, <4>1 DEF Registry!KeyFor
      <4>3. VerdictOf(ix) = VerifyPrepared(accounts[ix.acct], ix.msg, ix.sig)
        BY <3>3 DEF VerdictOf
      <4>4. CASE accounts[ix.acct] = ZeroBlob /\ k = NoKey
        BY <4>2, <4>3, <4>4, ZeroRejects
      <4>5. CASE k \in Wire /\ HoldsKey(accounts[ix.acct], k)
        <5>1. VerdictOf(ix) = Verify(k, ix.msg, ix.sig)
          BY <4>3, <4>5, SameVerdict DEF HoldsKey
        <5>. QED
          BY <4>2, <4>5, <5>1, VerdictOfVerify, NamesAssumption
      <4>. QED
        BY <4>1, <4>4, <4>5, KeyOfAccount DEF ProgInv
    <3>. QED
      BY <3>1, <3>2, <3>3
  <2>3. /\ ReturnCode(VerdictOf(ix)) \in {"ok", "verify_failed"}
        /\ ReturnCode(VerdictOf(ix)) = "ok" <=> VerdictOf(ix) = "accept"
    BY <2>2 DEF ReturnCode
  <2>. QED
    BY <1>1, <1>2, <2>1, <2>2, <2>3 DEF Registry!Judge, Registry!Answer
<1>. QED
  BY <1>3, <1>4

\* The return of a registration is the registry's, whole.
LEMMA ReturnStep ==
  ASSUME ProgInv, RegInv, Return PROVE answer = NoAnswer /\ Registry!Register(tx)
<1>1. /\ tx \in Instructions /\ Parse(tx) = "run" /\ answer = NoAnswer /\ aligned = TRUE
      /\ pc # "idle" /\ pub = tx.key
  BY DEF Return, RegInv
<1>2. Registry!WellFormed(tx) /\ tx.mode = "register" /\ tx.acct \in Accounts
  BY <1>1, ParseIsWellFormed DEF ProgInv, Typed, Return
<1> DEFINE keys == [a \in Accounts |-> KeyIn(accounts[a])]
<1>3. CASE pc = "ok"
  <2>1. Usable(pub) /\ Complete(pub) /\ pub \in Wire
    BY <1>3 DEF ProgInv, IndInv, OkIsComplete, OutcomeIsTheKeys, TypeOK
  <2>2. BlobNow = PreparedBlob(pub)
    BY <2>1, CompleteIsPrepared DEF ProgInv
  <2>3. BlobNow.hpub = Hpub(pub)
    BY <2>2 DEF PreparedBlob
  <2>4. KeyIn(BlobNow) = pub
    BY <2>1, <2>3, NamesAssumption DEF KeyIn
  <2>5. accounts' = [accounts EXCEPT ![tx.acct] = BlobNow] /\ answer' = [ix |-> tx, code |-> "ok"]
    BY <1>3 DEF Return, RegisterCode, Reply
  <2>6. keys' = [keys EXCEPT ![tx.acct] = tx.key]
    BY <1>1, <1>2, <2>4, <2>5 DEF ProgInv, Typed
  <2>. QED
    BY <1>1, <1>2, <2>1, <2>5, <2>6 DEF Registry!Register, Registry!Answer
<1>4. CASE pc = "err"
  <2>1. ~Usable(tx.key)
    BY <1>1, <1>4 DEF ProgInv, IndInv, OutcomeIsTheKeys
  <2>2. accounts' = accounts /\ answer' = [ix |-> tx, code |-> "prepare_failed"]
    BY <1>4 DEF Return, RegisterCode, Reply
  <2>3. keys' = keys
    BY <2>2
  <2>. QED
    BY <1>1, <1>2, <2>1, <2>2, <2>3 DEF Registry!Register, Registry!Answer
<1>. QED
  BY <1>3, <1>4 DEF Return

\* Every other step leaves accounts and answers alone, or answers that the
\* budget was not enough.
LEMMA RegistryStep ==
  ProgInv /\ RegInv /\ [ProgNext]_allVars => [Registry!RegNext]_(Registry!regVars)
<1> SUFFICES ASSUME ProgInv, RegInv, [ProgNext]_allVars
             PROVE  [Registry!RegNext]_(Registry!regVars)
  OBVIOUS
<1> DEFINE keys == [a \in Accounts |-> KeyIn(accounts[a])]
<1>k. accounts' = accounts => keys' = keys
  OBVIOUS
<1>1. ASSUME NEW ix \in Instructions, Entrypoint(ix) PROVE Registry!RegNext
  BY <1>1, EntrypointStep DEF Registry!RegNext
<1>2. CASE Return
  BY <1>2, ReturnStep DEF Registry!RegNext, RegInv, Return
<1>3. CASE Exhaust
  <2>1. /\ tx \in Instructions /\ answer = NoAnswer /\ tx.mode = "register"
        /\ accounts' = accounts /\ answer' = [ix |-> tx, code |-> "exhausted"]
    BY <1>3 DEF Exhaust, Reply, RegInv, ProgInv, Typed
  <2>. QED
    BY <1>k, <2>1 DEF Registry!RegNext, Registry!GiveUp, Registry!Answer
<1>4. CASE Collect
  BY <1>k, <1>4 DEF Collect, Registry!RegNext, Registry!Collect
<1>5. ASSUME UNCHANGED <<accounts, answer>> PROVE UNCHANGED Registry!regVars
  BY <1>k, <1>5 DEF Registry!regVars
<1>6. ASSUME NEW ix \in Instructions, Register(ix) PROVE UNCHANGED Registry!regVars
  BY <1>5, <1>6 DEF Register
<1>7. CASE Run \/ UNCHANGED allVars
  BY <1>5, <1>7 DEF Run, allVars, chain
<1>. QED
  BY <1>1, <1>2, <1>3, <1>4, <1>6, <1>7 DEF ProgNext

\* The program implements the registry: every answer, from raw, baked or stored
\* keys, is the one that verify gives for the wire key, and a registration is
\* one step, whatever it has written on the way.
THEOREM ProgramIsRegistry == ProgSpec => ImplementsRegistry
<1>1. ProgInit => RegInv
  BY DEF ProgInit, RegInv, Init
<1>2. ProgSpec => [](ProgInv /\ RegInv)
  BY <1>1, RegInvStep, ProgInvInit, ProgInvStep, PTL DEF ProgSpec
<1>. QED
  BY <1>2, RegistryInit, RegistryStep, PTL DEF ProgSpec, ImplementsRegistry, Registry!RegSpec

\* Only the step that ends a registration writes accounts, and it writes all
\* that it owes or nothing.
LEMMA AnswerStep ==
  ASSUME ProgInv, RegInv, [ProgNext]_allVars
  PROVE  IF tx # NoTx /\ tx' = NoTx THEN Registered \/ Kept ELSE accounts' = accounts
<1>1. CASE Return
  <2>1. /\ tx # NoTx /\ pc # "idle" /\ pub = tx.key /\ aligned = TRUE
        /\ answer = NoAnswer /\ tx.acct \in Accounts
    BY <1>1 DEF Return, RegInv, ProgInv, Typed
  <2>2. CASE pc = "ok"
    <3>1. Usable(pub) /\ Complete(pub) /\ pub \in Wire
      BY <2>2 DEF ProgInv, IndInv, OkIsComplete, OutcomeIsTheKeys, TypeOK
    <3>2. BlobNow = PreparedBlob(pub)
      BY <3>1, CompleteIsPrepared DEF ProgInv
    <3>3. accounts' = [accounts EXCEPT ![tx.acct] = BlobNow] /\ answer' = [ix |-> tx, code |-> "ok"]
      BY <1>1, <2>2 DEF Return, RegisterCode, Reply
    <3>4. accounts'[tx.acct] = PreparedBlob(tx.key)
      BY <2>1, <3>2, <3>3 DEF ProgInv, Typed
    <3>5. Registered
      BY <2>1, <3>1, <3>3, <3>4 DEF Registered, HoldsKey
    <3>. QED
      BY <1>1, <2>1, <3>5 DEF Return
  <2>3. CASE pc # "ok"
    <3>1. pc = "err" /\ answer' = [ix |-> tx, code |-> "prepare_failed"] /\ accounts' = accounts
      BY <1>1, <2>3 DEF Return, RegisterCode, Reply
    <3>2. ~Usable(tx.key)
      BY <2>1, <3>1 DEF ProgInv, IndInv, OutcomeIsTheKeys
    <3>. QED
      BY <3>1, <3>2 DEF Kept
  <2>. QED
    BY <2>2, <2>3
<1>2. CASE Exhaust
  BY <1>2 DEF Exhaust, Reply, Kept
<1>3. ASSUME ~(tx # NoTx /\ tx' = NoTx), accounts' = accounts
      PROVE  IF tx # NoTx /\ tx' = NoTx THEN Registered \/ Kept ELSE accounts' = accounts
  BY <1>3
<1>4. ASSUME NEW ix \in Instructions, Entrypoint(ix) \/ Register(ix)
      PROVE  tx = NoTx /\ accounts' = accounts
  BY <1>4 DEF Entrypoint, Register, Ready
<1>5. CASE Run \/ UNCHANGED allVars
  BY <1>3, <1>5 DEF Run, allVars, chain
<1>6. CASE Collect
  BY <1>3, <1>6 DEF Collect, RegInv
<1>. QED
  BY <1>1, <1>2, <1>3, <1>4, <1>5, <1>6 DEF ProgNext

\* A registration is all or nothing and its answer tells which: "ok" with the
\* whole key in its account and in no other, or a refusal of an unusable key or
\* an exhausted budget with every account as it was.
THEOREM RegistersOrKeeps == ProgSpec => AllOrNothing
<1>1. ProgInit => RegInv
  BY DEF ProgInit, RegInv, Init
<1>2. ProgInv /\ RegInv /\ [ProgNext]_allVars =>
        [IF tx # NoTx /\ tx' = NoTx THEN Registered \/ Kept
                                     ELSE accounts' = accounts]_allVars
  BY AnswerStep
<1>. QED
  BY <1>1, <1>2, RegInvStep, ProgInvInit, ProgInvStep, PTL DEF ProgSpec, AllOrNothing

-----------------------------------------------------------------------------
(***************************************************************************)
(* A buffer that is used before, between and after the calls.              *)
(***************************************************************************)

\* No stored bound is positive and below the scale, where the shift that
\* recovers its divisor gives zero.
SoundBounds(bounds) == \A u \in Slots : bounds[u] \notin 1..(BoundScale - 1)

\* prepare_into only stores bounds that are multiples of the scale,
LEMMA SoundBoundsStep ==
  TypeOK /\ DecodedInv /\ SoundBounds(pvbound) /\ [Next]_vars => SoundBounds(pvbound')
<1> SUFFICES ASSUME TypeOK, DecodedInv, SoundBounds(pvbound), [Next]_vars
             PROVE  SoundBounds(pvbound')
  OBVIOUS
<1>1. CASE PrepareDivisor /\ InRange(V(pub)[i])
  <2>1. pc = "divisor" /\ pvbound' = [pvbound EXCEPT ![i] = BoundScale * V(pub)[i]]
    BY <1>1 DEF PrepareDivisor, DivisorStep
  <2> DEFINE x == V(pub)[i]
  <2>2. x \in Int /\ x > 0
    <3>1. i \in Slots /\ DecodePublic(pub).ok /\ pub \in Wire
      BY <2>1 DEF TypeOK, DecodedInv, Running
    <3>. QED
      BY <1>1, <3>1, KeyFacts DEF InRange
  <2> HIDE DEF x
  <2>3. BoundScale * x >= BoundScale
    BY <2>2, FftAssumption, Z3
  <2>4. BoundScale * x \notin 1..(BoundScale - 1)
    BY <2>2, <2>3, FftAssumption
  <2>. QED
    BY <2>1, <2>4 DEF SoundBounds, TypeOK, x
<1>2. CASE pvbound' = pvbound
  BY <1>2
<1>. QED
  BY <1>1, <1>2 DEF Next, Step, Call, Decode, PrepareFft, PrepareDivisor, DivisorStep, NttFactors, NttTransforms,
     PrefixProduct, PrefixStep, InvertProduct, BackwardPass, Peeled, PeelSlot, HashPub, blob, vars

\* and lanes that were cut to words.
LEMMA WordLanesStep ==
  TypeOK /\ DecodedInv /\ fq01 \in WordLanes /\ [Next]_vars => fq01' \in WordLanes
<1> SUFFICES ASSUME TypeOK, DecodedInv, fq01 \in WordLanes, [Next]_vars
             PROVE  fq01' \in WordLanes
  OBVIOUS
<1>1. CASE PrepareFft /\ fq01' = Fq01(pub)
  <2>1. DecodePublic(pub).ok /\ pub \in Wire
    BY <1>1 DEF PrepareFft, TypeOK, DecodedInv, Running
  <2>. QED
    BY <1>1, <2>1, KeyFacts
<1>2. CASE fq01' = fq01
  BY <1>2
<1>. QED
  BY <1>1, <1>2 DEF Next, Step, Call, Decode, PrepareFft, PrepareDivisor, DivisorStep, NttFactors, NttTransforms,
     PrefixProduct, PrefixStep, InvertProduct, BackwardPass, Peeled, PeelSlot, HashPub, blob, vars

\* Sound bounds refuse every slot whose divisor is zero.
LEMMA SoundBoundsDivide ==
  ASSUME NEW b \in [Slots -> Int], SoundBounds(b), NEW q \in WordLanes, NEW w \in Complex,
         ShortLanes(w, DeltaOne - 4), DeltaOne - 4 \in Nat,
         NEW u \in Slots, WithinBound(q, w, u, b[u])
  PROVE  StoredDivisor(b)[u] # 0
<1>1. Magnitude(XRe(q, w, u)) \in Nat
  BY MagnitudeOfProduct
<1>2. BoundScale \in Nat /\ BoundScale > 0 /\ b[u] \in Int
  BY FftAssumption
<1>3. b[u] > 0
  BY <1>1, <1>2 DEF WithinBound
<1>4. b[u] >= BoundScale
  BY <1>2, <1>3 DEF SoundBounds
<1> DEFINE x == b[u]
           d == x \div BoundScale
<1>5. d \in Int /\ x % BoundScale \in 0..(BoundScale - 1) /\ x = BoundScale * d + (x % BoundScale)
  BY <1>2, DivMod
<1>6. StoredDivisor(b)[u] = d
  BY DEF StoredDivisor
<1> HIDE DEF d, x
<1>7. d # 0
  <2>1. d = 0 => BoundScale * d = 0
    BY <1>2
  <2>2. x >= BoundScale
    BY <1>4 DEF x
  <2>. QED
    BY <1>2, <1>5, <2>1, <2>2
<1>. QED
  BY <1>6, <1>7

\* verify_with_prepared "never panics" (lib.rs), whatever the buffer held when
\* the first call began and wherever a call has been stopped or has failed,
\* provided that its lanes were words at first and no bound shifted to a zero
\* divisor.
THEOREM UsedAtAnyTime ==
  ASSUME \A b \in InitBlobs : SoundBounds(b.pvbound) /\ b.fq01 \in WordLanes
  PROVE  Spec => []NeverPanics
<1> DEFINE Sound == SoundBounds(pvbound) /\ fq01 \in WordLanes
<1>1. Init => TypeOK /\ DecodedInv /\ Sound
  <2>1. Init => Sound
    BY DEF Init, SoundBounds
  <2>. QED
    BY <2>1, TypeInit
<1>2. /\ TypeOK /\ DecodedInv /\ Sound /\ [Next]_vars
      => (TypeOK /\ DecodedInv /\ Sound)'
  <2>1. Sound' <=> SoundBounds(pvbound') /\ fq01' \in WordLanes
    BY DEF SoundBounds
  <2>. QED
    BY <2>1, TypeStep, SoundBoundsStep, WordLanesStep
<1>3. TypeOK /\ Sound => NeverPanics
  <2> SUFFICES ASSUME TypeOK, Sound, NEW msg \in Messages, NEW sig \in Signatures
               PROVE  VerifyPrepared(BlobNow, msg, sig) # "panic"
    BY DEF NeverPanics
  <2> DEFINE x == FillW1H0(hpub, msg, sig)
             w == FftConv(x.w1, C_W1, FALSE)
             r == RebuildPrepared(pvbound, fq01, x.w1, x.h0)
  <2>1. VerifyPrepared(BlobNow, msg, sig)
          = IF x.ok THEN Judged(r, QnormInBoundPrepared(BlobNow, r.w0, x.w1)) ELSE "reject"
    BY DEF VerifyPrepared, BlobNow
  <2>2. ASSUME x.ok PROVE r.fate \in {"w0", "reject"}
    <3>1. pvbound \in [Slots -> Int] /\ fq01 \in WordLanes /\ SoundBounds(pvbound) /\ hpub \in Hashes
      BY DEF TypeOK
    <3>2. w \in Complex /\ ShortLanes(w, DeltaOne - 4) /\ DeltaOne - 4 \in Nat
      BY <2>2, <3>1, CallsAssumption, FrontType
    <3>3. r = DivideLoop(fq01, w, StoredDivisor(pvbound), pvbound, x.h0, Slots)
      BY DEF RebuildPrepared
    <3> HIDE DEF x, w, r
    <3>4. \A u \in Slots : WithinBound(fq01, w, u, pvbound[u]) => StoredDivisor(pvbound)[u] # 0
      BY <3>1, <3>2, SoundBoundsDivide
    <3>. QED
      BY <3>3, <3>4, DividesWithoutPanic
  <2> HIDE DEF x, r
  <2>. QED
    BY <2>1, <2>2 DEF Judged
<1>. QED
  BY <1>1, <1>2, <1>3, PTL DEF Spec
=============================================================================
