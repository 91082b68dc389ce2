-------------------------- MODULE PolyQnormProofs --------------------------
(***************************************************************************)
(* Proof that the fused, in-place norm computation of the direct verifier  *)
(* decides as the prepared path does, for every degree, every pair of      *)
(* primes, every key and every vector, and that what it decides is whether *)
(* the lattice vector is short enough.                                     *)
(***************************************************************************)
EXTENDS PolyQnorm, ArithTheorems

\* The sizes of the arrays, from the assumption on N.
LEMMA Sizes == N \in Nat /\ N > 3 /\ 0 \in Coeffs /\ N - 1 \in Coeffs
BY ParamsAssumption DEF Coeffs

\* Each lane works modulo a prime whose doubled residues fit a u32.
LEMMA PrimeFacts ==
  ASSUME NEW l \in Lane
  PROVE  /\ Prime(l) \in Nat /\ Prime(l) > 1 /\ Prime(l) > 0
         /\ NoZeroDivisors(Prime(l)) /\ Fermat(Prime(l))
         /\ 2 * Prime(l) <= LaneMax
BY PrimesAssumption DEF Prime

-----------------------------------------------------------------------------
(***************************************************************************)
(* The transforms, whose lemmas are proved beside their loops.             *)
(***************************************************************************)
Levels == INSTANCE NttLevelsProofs
            WITH Sources <- {}, LANE <- 3 * (P1 + P2), WORD <- 3 * (P1 + P2) * (P1 + P2),
                 p <- 0, src <- 0, conv <- 0, f <- 0, k <- 0, wi <- 0, i <- 0, j <- 0, pc <- 0, entry <- 0

\* The lemmas about transforms in NttLevelsProofs need no loop and no source, and
\* there are lanes and words that are wide enough:
LEMMA LevelsAssumptions ==
  /\ Levels!ParamsAssumption /\ Levels!RootAssumption
  /\ Levels!WidthAssumption /\ Levels!SourcesAssumption
<1>1. Levels!ParamsAssumption
  BY ParamsAssumption DEF Levels!ParamsAssumption, ParamsAssumption, Levels!Pow2, Pow2
<1>2. Levels!RootAssumption
  BY RootAssumption
     DEF Levels!RootAssumption, RootAssumption, Levels!Primes, Primes, Levels!IsRoot, IsRoot,
         Levels!RootOf, RootOf, Levels!PowMod, PowMod, Levels!MulMod, MulMod
<1>3. Levels!WidthAssumption
  <2>1. P1 \in Nat /\ P1 > 1 /\ P2 \in Nat /\ P2 > 1
    BY PrimesAssumption
  <2> DEFINE s == P1 + P2
  <2>2. s \in Nat /\ 3 * s \in Nat /\ 3 * s * s \in Nat
    BY <2>1, Z3
  <2>3. ASSUME NEW q \in {P1, P2}
        PROVE  q \in Nat /\ q > 1 /\ 2 * q <= 3 * s /\ 3 * q <= 3 * s * s /\ 2 * q * q <= 3 * s * s
    <3>1. q \in Nat /\ q > 1 /\ q <= s
      BY <2>1
    <3> HIDE DEF s
    <3>2. q * q <= s * s /\ s <= s * s
      BY <2>2, <3>1, Z3
    <3>3. 2 * q * q = 2 * (q * q) /\ 3 * s * s = 3 * (s * s) /\ q * q \in Nat /\ s * s \in Nat
      BY <2>2, <3>1, Z3
    <3>. QED
      BY <2>2, <3>1, <3>2, <3>3
  <2>. QED
    BY <2>2, <2>3 DEF Levels!WidthAssumption, Levels!Primes
<1>4. Levels!SourcesAssumption
  BY DEF Levels!SourcesAssumption
<1>. QED
  BY <1>1, <1>2, <1>3, <1>4

\* the operators they speak of are those of this module.
LEMMA SameLevels ==
  /\ Levels!Primes = Primes /\ Levels!Coeffs = Coeffs
  /\ \A a, m : Levels!SumTo(a, m) = SumTo(a, m)
  /\ \A a, m : Levels!Power(a, m) = Power(a, m)
  /\ \A a, b, q : Levels!Cong(a, b, q) <=> Cong(a, b, q)
  /\ \A a, x : Levels!Strand(a, x, 0, 1, N) = Strand(a, x, 0, 1, N)
  /\ \A a, q : Levels!Below(a, q) <=> a \in [Coeffs -> Int] /\ \A n \in Coeffs : -q < a[n] /\ a[n] < q
  /\ \A a, q : Levels!Ntt(a, q) = Ntt(a, q)
<1>1. /\ Levels!Primes = Primes /\ Levels!Coeffs = Coeffs
      /\ \A a, m : Levels!SumTo(a, m) = SumTo(a, m)
      /\ \A a, m : Levels!Power(a, m) = Power(a, m)
      /\ \A a, b, q : Levels!Cong(a, b, q) <=> Cong(a, b, q)
  BY DEF Levels!Primes, Primes, Levels!Coeffs, Coeffs, Levels!SumTo, SumTo, Levels!Power, Power,
         Levels!Cong, Cong
<1>2. \A a, x : Levels!Strand(a, x, 0, 1, N) = Strand(a, x, 0, 1, N)
  BY <1>1 DEF Levels!Strand, Strand
<1>3. \A a, q : Levels!Below(a, q) <=> a \in [Coeffs -> Int] /\ \A n \in Coeffs : -q < a[n] /\ a[n] < q
  BY <1>1 DEF Levels!Below
<1>4. \A a, q : Levels!Ntt(a, q) = Ntt(a, q)
  BY DEF Levels!Ntt, Ntt, Levels!NttLevel, NttLevel, Levels!NttInit, NttInit, Levels!Red, Red,
         Levels!Half, Half, Levels!IsLazy, IsLazy, Levels!Twiddle, Twiddle, Levels!W, W,
         Levels!FindRoot, FindRoot, Levels!RootOf, RootOf, Levels!IsRoot, IsRoot, Levels!PowMod, PowMod,
         Levels!MulMod, MulMod, Levels!BitRev, BitRev, Levels!Pow2, Pow2, Levels!Primes, Primes,
         Levels!Coeffs, Coeffs
<1>. QED
  BY <1>1, <1>2, <1>3, <1>4

\* What the code can transform.
Small(a, p) == a \in [Coeffs -> Int] /\ \A n \in Coeffs : -p < a[n] /\ a[n] < p

\* A transform is residues,
LEMMA NttFacts ==
  ASSUME NEW p \in Primes, NEW a, Small(a, p)
  PROVE  /\ Ntt(a, p) \in [Coeffs -> 0..(p - 1)]
         /\ \A n \in Coeffs : Cong(Ntt(a, p)[n], Strand(a, Levels!RootAt(p, n), 0, 1, N), p)
         /\ SumTo(Ntt(a, p), N) \in Int /\ Cong(SumTo(Ntt(a, p), N), N * a[0], p)
<1>1. p \in Levels!Primes /\ Levels!Below(a, p)
  BY SameLevels DEF Small
<1>2. Levels!Ntt(a, p) \in [Levels!Coeffs -> 0..(p - 1)]
  BY <1>1, LevelsAssumptions, Levels!NttType
<1>3. ASSUME NEW n \in Coeffs
      PROVE  Levels!Cong(Levels!Ntt(a, p)[n], Levels!Strand(a, Levels!RootAt(p, n), 0, 1, N), p)
  <2>1. n \in Levels!Coeffs
    BY SameLevels
  <2>. QED
    BY <1>1, <2>1, LevelsAssumptions, Levels!NttEvaluates
<1>4. Levels!SumTo(Levels!Ntt(a, p), N) \in Int /\ Levels!Cong(Levels!SumTo(Levels!Ntt(a, p), N), N * a[0], p)
  BY <1>1, LevelsAssumptions, Levels!NttSum
<1>. QED
  BY <1>2, <1>3, <1>4, SameLevels

\* at points that come in pairs.
LEMMA RootFacts ==
  ASSUME NEW p \in Primes, NEW n \in Coeffs
  PROVE  /\ N - 1 - n \in Coeffs
         /\ Levels!RootAt(p, n) \in Nat /\ Levels!RootAt(p, N - 1 - n) \in Nat
         /\ Cong(Power(Levels!RootAt(p, n), N), -1, p)
         /\ Cong(Levels!RootAt(p, n) * Levels!RootAt(p, N - 1 - n), 1, p)
<1>1. p \in Levels!Primes /\ n \in Levels!Coeffs
  BY SameLevels
<1>2. /\ N - 1 - n \in Levels!Coeffs
      /\ Levels!RootAt(p, n) \in Nat /\ Levels!RootAt(p, N - 1 - n) \in Nat
      /\ Levels!Cong(Levels!Power(Levels!RootAt(p, n), N), -1, p)
      /\ Levels!Cong(Levels!RootAt(p, n) * Levels!RootAt(p, N - 1 - n), 1, p)
  BY <1>1, LevelsAssumptions, Levels!RootsPaired
<1>. QED
  BY <1>2, SameLevels

\* The transforms of a call are residues.
LEMMA TransformFacts ==
  ASSUME NEW k \in Keys, NEW x \in Vectors, NEW l \in Lane
  PROVE  /\ ANtt[k][l] \in [Coeffs -> 0..(Prime(l) - 1)]
         /\ BNtt[k][l] \in [Coeffs -> 0..(Prime(l) - 1)]
         /\ CNtt[x][l] \in [Coeffs -> 0..(Prime(l) - 1)]
         /\ DNtt[x][l] \in [Coeffs -> 0..(Prime(l) - 1)]
         /\ Prime(l) \in Primes
         /\ Small(k.q00, Prime(l)) /\ Small(k.q01, Prime(l)) /\ Small(x[1], Prime(l)) /\ Small(x[2], Prime(l))
<1>1. Prime(l) \in Primes
  BY DEF Prime, Primes
<1>2. Small(k.q00, Prime(l)) /\ Small(k.q01, Prime(l)) /\ Small(x[1], Prime(l)) /\ Small(x[2], Prime(l))
  BY <1>1, InputsAssumption DEF Reducible, Small
<1>3. /\ Ntt(k.q00, Prime(l)) \in [Coeffs -> 0..(Prime(l) - 1)]
      /\ Ntt(k.q01, Prime(l)) \in [Coeffs -> 0..(Prime(l) - 1)]
      /\ Ntt(x[1], Prime(l)) \in [Coeffs -> 0..(Prime(l) - 1)]
      /\ Ntt(x[2], Prime(l)) \in [Coeffs -> 0..(Prime(l) - 1)]
  BY <1>1, <1>2, NttFacts
<1>. QED
  BY <1>1, <1>2, <1>3 DEF ANtt, BNtt, CNtt, DNtt

\* The inverse that the reference chooses exists, and it is the only one.
LEMMA InverseOfIs ==
  ASSUME NEW l \in Lane, NEW x \in 1..(Prime(l) - 1)
  PROVE  /\ IsInverse(x, InverseOf(x, Prime(l)), Prime(l))
         /\ \A y : IsInverse(x, y, Prime(l)) => y = InverseOf(x, Prime(l))
<1>. DEFINE p == Prime(l)
<1>1. p \in Nat /\ p > 1 /\ Fermat(p)
  BY PrimeFacts
<1>. HIDE DEF p
<1>2. \E y \in 0..(p - 1) : IsInverse(x, y, p)
  BY <1>1 DEF Fermat, IsInverse, p
<1>3. IsInverse(x, InverseOf(x, p), p) /\ InverseOf(x, p) \in 0..(p - 1)
  BY <1>2 DEF InverseOf
<1>4. ASSUME NEW y, IsInverse(x, y, p) PROVE y = InverseOf(x, p)
  <2>1. x \in Nat
    BY <1>1 DEF p
  <2>. QED
    BY <1>1, <1>3, <1>4, <2>1, InverseUnique DEF IsInverse
<1>. QED
  BY <1>3, <1>4 DEF p

-----------------------------------------------------------------------------
(***************************************************************************)
(* One slot of the backward pass.                                          *)
(***************************************************************************)

\* The values of a state that is between the passes.
LEMMA Facts ==
  ASSUME TypeOK
  PROVE  /\ lane \in Lane /\ key \in Keys /\ w \in Vectors
         /\ Prime(lane) \in Nat /\ Prime(lane) > 1 /\ Prime(lane) > 0
         /\ NoZeroDivisors(Prime(lane)) /\ Fermat(Prime(lane))
         /\ 2 * Prime(lane) <= LaneMax
         /\ ANtt[key][lane] \in [Coeffs -> 0..(Prime(lane) - 1)]
         /\ BNtt[key][lane] \in [Coeffs -> 0..(Prime(lane) - 1)]
         /\ CNtt[w][lane] \in [Coeffs -> 0..(Prime(lane) - 1)]
         /\ DNtt[w][lane] \in [Coeffs -> 0..(Prime(lane) - 1)]
         /\ e \in [Coeffs -> Nat]
<1>1. 0..(LaneMax - 1) \subseteq Nat
  BY LaneMaxAssumption
<1>. QED
  BY <1>1, PrimeFacts, TransformFacts DEF TypeOK

\* What BackwardPass stores is what the reference expects of the slot, it
\* fits the lane although it is left unreduced, and the way back goes on.
LEMMA BackwardSlot ==
  ASSUME TypeOK, IndInv, BackwardPass
  PROVE  LET j == i - 1
             p == Prime(lane)
             dh == MulMod(DNtt[w][lane][j], InverseOf(ANtt[key][lane][j], p), p)
             cj == CNtt[w][lane][j] + MulMod(dh, BNtt[key][lane][j], p)
         IN  /\ j \in Coeffs
             /\ e' = [e EXCEPT ![j] = dh]
             /\ c' = [c EXCEPT ![j] = cj]
             /\ dh \in 0..(LaneMax - 1)
             /\ cj \in 0..(LaneMax - 1)
             /\ acc' \in Nat
             /\ BackwardInv(ANtt[key][lane], e', j, acc', p)
<1>. DEFINE j == i - 1
            p == Prime(lane)
            a == ANtt[key][lane]
            x == MulMod(acc, Product(e, j), p)
            dh == MulMod(DNtt[w][lane][j], InverseOf(a[j], p), p)
            cj == CNtt[w][lane][j] + MulMod(dh, BNtt[key][lane][j], p)
<1>1. /\ j \in Coeffs /\ j + 1 = i /\ pc = "back"
      /\ acc' = MulMod(acc, a[j], p)
      /\ e' = [e EXCEPT ![j] = MulMod(DNtt[w][lane][j], x, p)]
      /\ c' = [c EXCEPT ![j] = @ + MulMod(MulMod(DNtt[w][lane][j], x, p), BNtt[key][lane][j], p)]
  BY Sizes DEF BackwardPass, Quotient, Fused, TypeOK
<1>2. /\ BackwardInv(a, e, j + 1, acc, p) /\ a[j] # 0
      /\ c[j] = CNtt[w][lane][j] /\ acc \in Nat
  BY <1>1 DEF IndInv, FusedInv, TypeOK, Coeffs
<1>3. /\ p \in Nat /\ p > 1 /\ p > 0 /\ 2 * p <= LaneMax
      /\ a \in [Coeffs -> 0..(p - 1)] /\ e \in [Coeffs -> Nat]
      /\ a[j] \in 0..(p - 1) /\ a[j] \in Nat
      /\ BNtt[key][lane][j] \in Nat
      /\ CNtt[w][lane][j] \in Nat /\ CNtt[w][lane][j] < p
      /\ DNtt[w][lane][j] \in Nat
  BY <1>1, Facts
<1>4. \A y : /\ IsInverse(a[j], x, p)
             /\ BackwardInv(a, [e EXCEPT ![j] = y], j, MulMod(acc, a[j], p), p)
  <2>. SUFFICES ASSUME NEW y
                PROVE  /\ IsInverse(a[j], x, p)
                       /\ BackwardInv(a, [e EXCEPT ![j] = y], j, MulMod(acc, a[j], p), p)
    OBVIOUS
  <2>1. j \in Coeffs
    BY <1>1
  <2>. HIDE DEF a, p, j
  <2>. QED
    BY <1>2, <1>3, <2>1, Sizes, BackwardStep DEF Coeffs
<1>5. x = InverseOf(a[j], p)
  <2>1. a[j] \in 1..(p - 1) /\ lane \in Lane
    BY <1>2, <1>3, Facts
  <2>2. IsInverse(a[j], x, p)
    BY <1>4
  <2>. HIDE DEF a, x, j
  <2>. QED
    BY <2>1, <2>2, InverseOfIs
<1>6. x \in Nat
  <2>1. x \in 0..(p - 1)
    BY <1>4 DEF IsInverse
  <2>. QED
    BY <2>1, <1>3
<1>7. dh \in Nat /\ dh < p
  <2>1. InverseOf(a[j], p) \in Nat
    BY <1>5, <1>6
  <2>. HIDE DEF a, p, j
  <2>. QED
    BY <1>3, <2>1, MulModType DEF dh
<1>8. MulMod(dh, BNtt[key][lane][j], p) \in Nat /\ MulMod(dh, BNtt[key][lane][j], p) < p
  <2>. HIDE DEF dh, p, j
  <2>. QED
    BY <1>3, <1>7, MulModType
<1>9. MulMod(acc, a[j], p) \in Nat
  <2>. HIDE DEF a, p, j
  <2>. QED
    BY <1>2, <1>3, MulModType
<1>10. dh \in 0..(LaneMax - 1) /\ cj \in 0..(LaneMax - 1)
  <2>. HIDE DEF dh, p, j
  <2>. QED
    BY <1>3, <1>7, <1>8, LaneMaxAssumption DEF cj
<1>11. e' = [e EXCEPT ![j] = dh] /\ c' = [c EXCEPT ![j] = cj]
  <2>1. MulMod(DNtt[w][lane][j], x, p) = dh
    BY <1>5
  <2>2. c \in [Coeffs -> 0..(LaneMax - 1)]
    BY DEF TypeOK
  <2>. HIDE DEF x, dh, j, p
  <2>. QED
    BY <1>1, <1>2, <2>1, <2>2 DEF cj
<1>. QED
  BY <1>1, <1>4, <1>9, <1>10, <1>11

-----------------------------------------------------------------------------
(***************************************************************************)
(* The inductive invariant.                                                *)
(***************************************************************************)

\* A lane with all its slots done holds what the prepared path computes.
LEMMA ResidueIsPrepared ==
  ASSUME TypeOK, IndInv, pc = "sum"
  PROVE  LET f == PreparedFactors(key)
         IN  Residue = QnormPrepared(f.q00n[lane], f.q00inv[lane], f.q01n[lane],
                                     w[1], w[2], Prime(lane))
<1>. DEFINE f == PreparedFactors(key)
            p == Prime(lane)
            inv == [j \in Coeffs |-> InverseOf(ANtt[key][lane][j], p)]
<1>1. lane \in Lane /\ key \in Keys /\ w \in Vectors
  BY DEF TypeOK
<1>2. /\ f.q00n[lane] = ANtt[key][lane]
      /\ f.q00inv[lane] = inv
      /\ f.q01n[lane] = BNtt[key][lane]
  BY <1>1 DEF PreparedFactors
<1>3. CNtt[w][lane] = Ntt(w[1], p) /\ DNtt[w][lane] = Ntt(w[2], p)
  BY <1>1 DEF CNtt, DNtt
<1>4. e = DHat(DNtt[w][lane], inv, p)
  <2>1. \A j \in Coeffs : e[j] = MulMod(DNtt[w][lane][j], inv[j], p)
    BY DEF IndInv, FusedInv, DoneSlot
  <2>2. e = [j \in Coeffs |-> e[j]]
    BY DEF TypeOK
  <2>. HIDE DEF inv, p
  <2>. QED
    BY <2>1, <2>2 DEF DHat
<1>5. c = EHat(CNtt[w][lane], e, BNtt[key][lane], p)
  <2>1. \A j \in Coeffs : c[j] = CNtt[w][lane][j] + MulMod(e[j], BNtt[key][lane][j], p)
    BY DEF IndInv, FusedInv, DoneSlot
  <2>2. c = [j \in Coeffs |-> c[j]]
    BY DEF TypeOK
  <2>. HIDE DEF inv, p
  <2>. QED
    BY <2>1, <2>2 DEF EHat
<1>. HIDE DEF f, p, inv
<1>6. Residue = QnormPrepared(f.q00n[lane], f.q00inv[lane], f.q01n[lane], w[1], w[2], p)
  BY <1>2, <1>3, <1>4, <1>5 DEF QnormPrepared, Residue, p
<1>. QED
  BY <1>6 DEF f, p

\* A call starts on zeroed frames, of which nothing is claimed,
LEMMA InvInit == Init => TypeOK /\ IndInv
<1>. SUFFICES ASSUME Init PROVE TypeOK /\ IndInv
  OBVIOUS
<1>1. 0 \in 0..(LaneMax - 1)
  BY PrimesAssumption, LaneMaxAssumption
<1>2. Zero \in [Coeffs -> 0..(LaneMax - 1)]
  BY <1>1 DEF Zero
<1>3. verdict \in BOOLEAN
  BY Zenon DEF Init
<1>4. TypeOK
  BY <1>2, <1>3, Sizes DEF Init, TypeOK, Lane
<1>. QED
  BY <1>4 DEF Init, IndInv, FusedInv, FirstResidue, SameAsPrepared

\* and every step of the fused passes keeps the invariant.
LEMMA InvStep == TypeOK /\ IndInv /\ [Next]_vars => TypeOK' /\ IndInv'
<1>. SUFFICES ASSUME TypeOK, IndInv, [Next]_vars PROVE TypeOK' /\ IndInv'
  OBVIOUS
<1>0. 0 \in 0..(LaneMax - 1)
  BY PrimesAssumption, LaneMaxAssumption
<1>1. CASE Transform
  <2>. USE <1>1 DEF Transform, TransformInto
  <2>1. CNtt[w][lane] \in [Coeffs -> 0..(LaneMax - 1)]
    <3>1. 0..(Prime(lane) - 1) \subseteq 0..(LaneMax - 1)
      BY Facts, LaneMaxAssumption
    <3>. QED
      BY <3>1, Facts
  <2>2. ForwardInv(ANtt[key][lane], e', 0, 1, Prime(lane))
    BY Facts, ForwardStart
  <2>3. TypeOK'
    BY <1>0, <2>1, Sizes DEF TypeOK, Zero
  <2>4. FirstResidue'
    BY DEF IndInv, FirstResidue
  <2>. QED
    BY <2>2, <2>3, <2>4 DEF IndInv, FusedInv, SameAsPrepared
<1>2. CASE PrefixProduct
  <2>. USE <1>2 DEF PrefixProduct
  <2>1. /\ i \in Coeffs /\ acc' = MulMod(acc, ANtt[key][lane][i], Prime(lane))
        /\ e' = [e EXCEPT ![i] = acc']
    BY DEF TypeOK
  <2>2. ForwardInv(ANtt[key][lane], e', i + 1, acc', Prime(lane))
    <3>1. ForwardInv(ANtt[key][lane], e, i, acc, Prime(lane))
      BY DEF IndInv, FusedInv
    <3>2. /\ Prime(lane) \in Nat /\ Prime(lane) > 1 /\ NoZeroDivisors(Prime(lane))
          /\ ANtt[key][lane] \in [Coeffs -> 0..(Prime(lane) - 1)]
          /\ e \in [Coeffs -> Nat]
      BY Facts
    <3>3. LET x == MulMod(acc, ANtt[key][lane][i], Prime(lane))
          IN  ForwardInv(ANtt[key][lane], [e EXCEPT ![i] = x], i + 1, x, Prime(lane))
      <4>1. i \in Coeffs
        BY <2>1
      <4>. QED
        BY ONLY <3>1, <3>2, <4>1, Sizes, ForwardStep DEF Coeffs
    <3>. QED
      BY <2>1, <3>3
  <2>3. acc' \in 0..(LaneMax - 1) /\ acc' \in Nat
    BY <2>2, Facts, LaneMaxAssumption DEF ForwardInv
  <2>4. i + 1 \in 0..N /\ (i + 1 < N => i + 1 \in Coeffs) /\ (~(i + 1 < N) => i + 1 = N)
    BY <2>1, Sizes DEF Coeffs
  <2>5. TypeOK'
    BY <2>1, <2>3, <2>4 DEF TypeOK
  <2>6. FirstResidue'
    BY DEF IndInv, FirstResidue
  <2>. QED
    BY <2>2, <2>4, <2>5, <2>6 DEF IndInv, FusedInv, SameAsPrepared
<1>3. CASE InvertProduct
  <2>. USE <1>3 DEF InvertProduct
  <2>. DEFINE x == Inv(acc, Prime(lane))
  <2>1. /\ x = None <=> \E j \in Coeffs : ANtt[key][lane][j] = 0
        /\ x # None => BackwardInv(ANtt[key][lane], e, N, x, Prime(lane))
    <3>1. ForwardInv(ANtt[key][lane], e, N, acc, Prime(lane))
      BY DEF IndInv, FusedInv
    <3>. QED
      BY <3>1, Facts, Sizes, TurnStep DEF Coeffs
  <2>2. CASE x = None
    <3>1. pc' = "done" /\ verdict' = FALSE /\ UNCHANGED <<key, w, lane, i, acc, c, e, r1>>
      BY <2>2
    <3>2. TypeOK'
      BY <3>1 DEF TypeOK
    <3>3. ~PreparedVerdict(key, w)
      BY <2>1, <2>2, Facts DEF PreparedVerdict, Invertible
    <3>. QED
      BY <3>1, <3>2, <3>3 DEF IndInv, FusedInv, FirstResidue, SameAsPrepared
  <2>3. CASE x # None
    <3>1. /\ pc' = "back" /\ acc' = x /\ i' = N
          /\ UNCHANGED <<key, w, lane, c, e, r1, verdict>>
      BY <2>3
    <3>2. TypeOK'
      <4>1. x \in Nat
        BY <2>1, <2>3, Facts DEF BackwardInv
      <4>. QED
        BY <3>1, <4>1, Sizes DEF TypeOK
    <3>3. FusedInv'
      <4>1. \A j \in Coeffs : ANtt[key][lane][j] # 0
        BY <2>1, <2>3
      <4>2. \A j \in Coeffs : ~(j >= N)
        BY Sizes DEF Coeffs
      <4>3. c = CNtt[w][lane]
        BY DEF IndInv, FusedInv
      <4>. QED
        BY <2>1, <2>3, <3>1, <4>1, <4>2, <4>3 DEF FusedInv
    <3>. QED
      BY <3>1, <3>2, <3>3 DEF IndInv, FirstResidue, SameAsPrepared
  <2>. QED
    BY <2>2, <2>3
<1>4. CASE BackwardPass
  <2>. DEFINE j == i - 1
              p == Prime(lane)
              dh == MulMod(DNtt[w][lane][j], InverseOf(ANtt[key][lane][j], p), p)
              cj == CNtt[w][lane][j] + MulMod(dh, BNtt[key][lane][j], p)
  <2>1. /\ j \in Coeffs /\ e' = [e EXCEPT ![j] = dh] /\ c' = [c EXCEPT ![j] = cj]
        /\ dh \in 0..(LaneMax - 1) /\ cj \in 0..(LaneMax - 1) /\ acc' \in Nat
        /\ BackwardInv(ANtt[key][lane], e', j, acc', p)
    BY <1>4, BackwardSlot
  <2>2. /\ pc = "back" /\ pc' = (IF j > 0 THEN "back" ELSE "sum") /\ i' = j
        /\ UNCHANGED <<key, w, lane, r1, verdict>>
    BY <1>4 DEF BackwardPass, Quotient, Fused
  <2>3. j \in 0..N /\ (j > 0 => j - 1 \in Coeffs)
    BY <2>1, Sizes DEF Coeffs
  <2>4. TypeOK'
    <3>. HIDE DEF j, dh, cj
    <3>. QED
      BY <2>1, <2>2, <2>3 DEF TypeOK
  <2>5. \A k \in Coeffs : k >= j => DoneSlot(k, p)'
    <3>. SUFFICES ASSUME NEW k \in Coeffs, k >= j PROVE DoneSlot(k, p)'
      OBVIOUS
    <3>1. CASE k = j
      <4>1. e'[k] = dh /\ c'[k] = cj
        BY <2>1, <3>1 DEF TypeOK
      <4>. QED
        BY <2>2, <3>1, <4>1 DEF DoneSlot
    <3>2. CASE k # j
      <4>1. k >= i
        BY <2>1, <3>2 DEF Coeffs, TypeOK
      <4>2. DoneSlot(k, p)
        BY <2>2, <4>1 DEF IndInv, FusedInv
      <4>3. e'[k] = e[k] /\ c'[k] = c[k]
        BY <2>1, <3>2 DEF TypeOK
      <4>. QED
        BY <2>2, <4>2, <4>3 DEF DoneSlot
    <3>. QED
      BY <3>1, <3>2
  <2>6. \A k \in Coeffs : k < j => c'[k] = CNtt[w][lane][k]
    <3>1. \A k \in Coeffs : k < j => k < i /\ k # j
      BY <2>1 DEF Coeffs, TypeOK
    <3>. HIDE DEF j, cj, dh
    <3>. QED
      BY <2>1, <2>2, <3>1 DEF IndInv, FusedInv, TypeOK
  <2>7. \A k \in Coeffs : ANtt[key][lane][k] # 0
    BY <2>2 DEF IndInv, FusedInv
  <2>8. ~(j > 0) => \A k \in Coeffs : k >= j
    BY <2>1 DEF Coeffs
  <2>9. FusedInv'
    <3>. HIDE DEF j, dh, cj
    <3>. QED
      BY <2>1, <2>2, <2>5, <2>6, <2>7, <2>8 DEF FusedInv
  <2>10. FirstResidue'
    BY <2>2 DEF IndInv, FirstResidue
  <2>. QED
    BY <2>2, <2>4, <2>9, <2>10 DEF IndInv, SameAsPrepared
<1>5. CASE FinishLane
  <2>. USE <1>5 DEF FinishLane
  <2>. DEFINE f == PreparedFactors(key)
              r(l) == QnormPrepared(f.q00n[l], f.q00inv[l], f.q01n[l], w[1], w[2], Prime(l))
  <2>1. Residue = r(lane)
    BY ResidueIsPrepared
  <2>2. \A k \in Coeffs : ANtt[key][lane][k] # 0
    BY DEF IndInv, FusedInv
  <2>4. CASE lane = 1
    <3>1. r1' = Residue /\ lane' = 2 /\ pc' = "ntt" /\ UNCHANGED <<key, w, i, acc, c, e, verdict>>
      BY <2>4
    <3>2. TypeOK'
      BY <3>1 DEF TypeOK, Lane
    <3>3. FirstResidue'
      BY <2>1, <2>2, <2>4, <3>1 DEF FirstResidue, Prime
    <3>. QED
      BY <3>1, <3>2, <3>3 DEF IndInv, FusedInv, SameAsPrepared
  <2>5. CASE lane # 1
    <3>1. lane = 2
      BY <2>5 DEF TypeOK, Lane
    <3>2. /\ verdict' = BoundHolds(r1, Residue) /\ pc' = "done"
          /\ UNCHANGED <<key, w, lane, i, acc, c, e, r1>>
      BY <2>5
    <3>3. r1 = r(1) /\ \A k \in Coeffs : ANtt[key][1][k] # 0
      BY <3>1 DEF IndInv, FirstResidue, Prime
    <3>4. Invertible(key)
      BY <2>2, <3>1, <3>3 DEF Invertible, Lane
    <3>5. BoundHolds(r1, Residue) <=> PreparedVerdict(key, w)
      BY <2>1, <3>1, <3>3, <3>4 DEF PreparedVerdict, QnormInBoundPrepared
    <3>6. TypeOK'
      BY <3>2 DEF TypeOK, BoundHolds
    <3>. QED
      BY <3>2, <3>5, <3>6 DEF IndInv, FusedInv, FirstResidue, SameAsPrepared
  <2>. QED
    BY <2>4, <2>5
<1>6. CASE UNCHANGED vars
  BY <1>6 DEF vars, TypeOK, IndInv, FusedInv, DoneSlot, FirstResidue, SameAsPrepared
<1>. QED
  BY <1>1, <1>2, <1>3, <1>4, <1>5, <1>6 DEF Next

\* What the passes have left in c and e is what their position says.
THEOREM InvariantHolds == Spec => [](TypeOK /\ IndInv)
BY InvInit, InvStep, PTL DEF Spec

\* Every lane of the fused pass fits a u32 although its sums stay unreduced,
\* and every index the code asserts to be in range is in range.
THEOREM TypeCorrect == Spec => []TypeOK
BY InvariantHolds, PTL

\* The direct verifier's fused in-place norm test decides as the prepared one.
THEOREM FusedIsPrepared == Spec => []SameAsPrepared
<1>1. IndInv => SameAsPrepared
  BY DEF IndInv
<1>. QED
  BY <1>1, InvariantHolds, PTL


-----------------------------------------------------------------------------
(***************************************************************************)
(* The ring at a point.  Where the N-th power of x is -1, the value at x   *)
(* turns products of the ring into products, and where y is the inverse of *)
(* x the value at y is that of the adjoint at x.                           *)
(***************************************************************************)

At(a, x) == SumTo([k \in Coeffs |-> a[k] * Power(x, k)], N)

\* Its terms and itself are integers, and it is what the transforms compute.
LEMMA AtFacts ==
  ASSUME NEW a \in [Coeffs -> Int], NEW x \in Nat
  PROVE  /\ At(a, x) \in Int /\ At(a, x) = Strand(a, x, 0, 1, N)
         /\ \A k \in 0..(N - 1) : k \in Coeffs /\ k \in Nat /\ a[k] \in Int /\ Power(x, k) \in Int
                                  /\ a[k] * Power(x, k) \in Int
<1> DEFINE f == [k \in Coeffs |-> a[k] * Power(x, k)]
           g == [r \in 0..(N - 1) |-> a[0 + r * 1] * Power(x, r)]
<1>0. \A u, v \in Int : u * v \in Int
  BY Z3
<1>1. ASSUME NEW k \in 0..(N - 1)
      PROVE  k \in Coeffs /\ k \in Nat /\ a[k] \in Int /\ Power(x, k) \in Int /\ a[k] * Power(x, k) \in Int
  <2>1. k \in Coeffs /\ k \in Nat
    BY Sizes DEF Coeffs
  <2>2. Power(x, k) \in Int /\ a[k] \in Int
    BY <2>1, PowerFacts
  <2>. QED
    BY <1>0, <2>1, <2>2
<1>2. \A k \in 0..(N - 1) : f[k] \in Int /\ f[k] = g[k]
  <2>1. ASSUME NEW k \in 0..(N - 1) PROVE f[k] \in Int /\ f[k] = g[k]
    <3>1. 0 + k * 1 = k /\ k \in Coeffs
      BY <1>1
    <3>. QED
      BY <1>1, <3>1
  <2>. QED
    BY <2>1
<1>3. At(a, x) = SumTo(f, N) /\ Strand(a, x, 0, 1, N) = SumTo(g, N)
  BY DEF At, Strand
<1> HIDE DEF f, g
<1>4. SumTo(f, N) = SumTo(g, N) /\ SumTo(f, N) \in Int
  <2>1. N \in 0..N
    BY Sizes
  <2>2. SumTo(f, N) = SumTo(g, N)
    BY <1>2, <2>1, Sizes, SumCongruence
  <2>3. SumTo(f, N) \in Int
    BY <1>2, <2>1, Sizes, SumFacts
  <2>. QED
    BY <2>2, <2>3
<1>. QED
  BY <1>1, <1>3, <1>4

\* The value is linear,
LEMMA AtLinear ==
  ASSUME NEW x \in Nat
  PROVE  \A a1, a2, s \in [Coeffs -> Int], y \in Int :
           (\A k \in Coeffs : s[k] = a1[k] + y * a2[k]) => At(s, x) = At(a1, x) + y * At(a2, x)
<1> SUFFICES ASSUME NEW a \in [Coeffs -> Int], NEW b \in [Coeffs -> Int], NEW s \in [Coeffs -> Int],
                    NEW y \in Int, \A k \in Coeffs : s[k] = a[k] + y * b[k]
             PROVE  At(s, x) = At(a, x) + y * At(b, x)
  OBVIOUS
<1> DEFINE f == [k \in Coeffs |-> a[k] * Power(x, k)]
           g == [k \in Coeffs |-> b[k] * Power(x, k)]
           h == [k \in Coeffs |-> s[k] * Power(x, k)]
<1>1. ASSUME NEW k \in 0..(N - 1) PROVE f[k] \in Int /\ g[k] \in Int /\ h[k] = f[k] + y * g[k]
  <2>1. k \in Coeffs /\ a[k] \in Int /\ b[k] \in Int /\ Power(x, k) \in Int
    BY AtFacts
  <2> DEFINE u == Power(x, k)
             v == a[k]
             z == b[k]
  <2>2. f[k] = v * u /\ g[k] = z * u /\ h[k] = (v + y * z) * u
    BY <2>1
  <2>3. u \in Int /\ v \in Int /\ z \in Int
    BY <2>1
  <2> HIDE DEF u, v, z, f, g, h
  <2>4. v * u \in Int /\ z * u \in Int /\ (v + y * z) * u = v * u + y * (z * u)
    BY <2>3, Z3
  <2>. QED
    BY <2>2, <2>4
<1>2. At(a, x) = SumTo(f, N) /\ At(b, x) = SumTo(g, N) /\ At(s, x) = SumTo(h, N)
  BY DEF At
<1> HIDE DEF f, g, h
<1>3. SumTo(h, N) = SumTo(f, N) + y * SumTo(g, N)
  BY <1>1, Sizes, SumLinear
<1>. QED
  BY <1>2, <1>3

\* b times X: the last coefficient comes around with its sign changed.
LEMMA AtTurn ==
  ASSUME NEW p \in Nat, NEW x \in Nat, Cong(Power(x, N), -1, p),
         NEW b \in [Coeffs -> Int], NEW t \in [Coeffs -> Int],
         t[0] = -b[N - 1], \A k \in 1..(N - 1) : t[k] = b[k - 1]
  PROVE  Cong(At(t, x), x * At(b, x), p)
<1> DEFINE m == N - 1
           f == [k \in Coeffs |-> t[k] * Power(x, k)]
           g == [k \in Coeffs |-> b[k] * Power(x, k)]
           h == [k \in 0..(m - 1) |-> t[k + 1] * Power(x, k + 1)]
           zero == [k \in 0..(m - 1) |-> 0]
<1>1. m \in Nat /\ m + 1 = N /\ m \in 0..(N - 1) /\ 0 \in 0..(N - 1)
  BY Sizes
<1>2. \A k \in 0..(N - 1) : f[k] = t[k] * Power(x, k) /\ f[k] \in Int /\ g[k] = b[k] * Power(x, k) /\ g[k] \in Int
  <2>1. ASSUME NEW k \in 0..(N - 1) 
        PROVE  f[k] = t[k] * Power(x, k) /\ f[k] \in Int /\ g[k] = b[k] * Power(x, k) /\ g[k] \in Int
    <3>1. k \in Coeffs /\ t[k] * Power(x, k) \in Int /\ b[k] * Power(x, k) \in Int
      BY AtFacts
    <3>. QED
      BY <3>1
  <2>. QED
    BY <2>1
<1>3. ASSUME NEW k \in 0..(m - 1) PROVE h[k] = f[k + 1] /\ zero[k] = 0 /\ h[k] = 0 + x * g[k]
  <2>1. k \in Nat /\ k \in 0..(N - 1) /\ k + 1 \in 0..(N - 1) /\ k + 1 \in 1..(N - 1) /\ (k + 1) - 1 = k
    BY <1>1
  <2>2. h[k] = f[k + 1] /\ h[k] = b[k] * Power(x, k + 1) /\ g[k] = b[k] * Power(x, k)
    BY <1>2, <2>1
  <2>3. Power(x, k + 1) = x * Power(x, k) /\ b[k] \in Int /\ Power(x, k) \in Int
    BY <2>1, PowerFacts, AtFacts
  <2> DEFINE u == Power(x, k)
             v == b[k]
  <2>4. h[k] = v * (x * u) /\ g[k] = v * u /\ u \in Int /\ v \in Int /\ zero[k] = 0
    BY <2>2, <2>3
  <2> HIDE DEF u, v, h, g, zero
  <2>5. v * (x * u) = 0 + x * (v * u)
    BY <2>4, Z3
  <2>. QED
    BY <2>2, <2>4, <2>5
<1>4. At(t, x) = SumTo(f, N) /\ At(b, x) = SumTo(g, N)
  BY DEF At
<1>5. f[0] = -b[m]
  <2>1. Power(x, 0) = 1 /\ b[m] \in Int /\ t[0] = -b[m] /\ t[0] * 1 = t[0]
    <3>1. Power(x, 0) = 1 /\ b[m] \in Int
      BY <1>1, PowerFacts, AtFacts
    <3>2. 0 \in Coeffs /\ t[0] \in Int
      BY Sizes
    <3>. QED
      BY <3>1, <3>2
  <2>2. f[0] = t[0] * Power(x, 0)
    BY <1>1, <1>2
  <2> HIDE DEF f
  <2>. QED
    BY <2>1, <2>2
<1>6. g[m] = b[m] * Power(x, m) /\ b[m] \in Int /\ Power(x, m) \in Int /\ g[m] \in Int
  BY <1>1, <1>2, AtFacts
<1> HIDE DEF f, g, h, zero
<1>7. SumTo(f, m + 1) = f[0] + SumTo(h, m)
  <2>1. \A k \in 0..m : f[k] \in Int
    BY <1>1, <1>2
  <2>2. \A k \in 0..(m - 1) : h[k] = f[k + 1]
    BY <1>3
  <2> HIDE DEF m
  <2>. QED
    BY <1>1, <2>1, <2>2, SumShift
<1>8. SumTo(h, m) = SumTo(zero, m) + x * SumTo(g, m) /\ SumTo(zero, m) \in Int /\ SumTo(g, m) \in Int
  <2>1. \A k \in 0..(m - 1) : zero[k] \in Int /\ g[k] \in Int /\ h[k] = zero[k] + x * g[k]
    BY <1>1, <1>2, <1>3
  <2>2. x \in Int
    OBVIOUS
  <2> HIDE DEF m
  <2>. QED
    BY <1>1, <2>1, <2>2, SumLinear
<1>9. SumTo(zero, m) = 0
  BY <1>1, <1>3, SumZero
<1>10. SumTo(g, m + 1) = SumTo(g, m) + g[m]
  <2>1. N \in Nat /\ \A k \in 0..(N - 1) : g[k] \in Int
    BY <1>2, Sizes
  <2>2. \A n \in 0..(N - 1) : SumTo(g, n + 1) = SumTo(g, n) + g[n]
    BY <2>1, SumFacts
  <2>. QED
    BY <1>1, <2>2
<1> DEFINE G == SumTo(g, m)
           v == b[m]
           u == Power(x, m)
           o == Power(x, N)
<1>11. At(t, x) = -v + x * G /\ At(b, x) = G + v * u /\ G \in Int /\ v \in Int /\ u \in Int /\ o = x * u
  <2>1. Power(x, m + 1) = x * Power(x, m)
    BY <1>1, PowerFacts
  <2>2. x * G \in Int
    <3> HIDE DEF G
    <3>. QED
      BY <1>8, Z3 DEF G
  <2>. QED
    BY <1>1, <1>4, <1>5, <1>6, <1>7, <1>8, <1>9, <1>10, <2>1, <2>2
<1>12. Cong(o, -1, p)
  OBVIOUS
<1> HIDE DEF G, v, u, o, m
<1>13. x * (G + v * u) = x * G + v * o /\ o \in Int /\ v * o \in Int /\ x * G \in Int /\ v * (-1) = -v
       /\ -v + x * G = x * G + (-v) /\ -v \in Int
  BY <1>11, Z3
<1>14. Cong(v * o, -v, p)
  <2>1. Cong(v, v, p) /\ -1 \in Int
    BY <1>11, CongFacts
  <2>2. Cong(v * o, v * (-1), p)
    BY <1>11, <1>12, <1>13, <2>1, CongFacts
  <2>. QED
    BY <1>13, <2>2
<1>15. Cong(-v, v * o, p)
  BY <1>13, <1>14, CongFacts
<1>16. Cong(x * G + (-v), x * G + v * o, p)
  <2>1. Cong(x * G, x * G, p)
    BY <1>13, CongFacts
  <2>. QED
    BY <1>13, <1>15, <2>1, CongFacts
<1>. QED
  BY <1>11, <1>13, <1>16


\* b times X^n,
Shifted(b, n) == [k \in Coeffs |-> IF n <= k THEN b[k - n] ELSE -b[N + k - n]]

\* turned n times.
LEMMA AtShifted ==
  ASSUME NEW p \in Nat, NEW x \in Nat, Cong(Power(x, N), -1, p), NEW b \in [Coeffs -> Int]
  PROVE  \A n \in 0..(N - 1) : /\ Shifted(b, n) \in [Coeffs -> Int]
                               /\ Cong(At(Shifted(b, n), x), Power(x, n) * At(b, x), p)
<1>1. ASSUME NEW n \in 0..(N - 1) PROVE Shifted(b, n) \in [Coeffs -> Int]
  <2>1. ASSUME NEW k \in Coeffs PROVE (IF n <= k THEN b[k - n] ELSE -b[N + k - n]) \in Int
    <3>1. n <= k => k - n \in Coeffs /\ b[k - n] \in Int
      BY Sizes DEF Coeffs
    <3>2. ~(n <= k) => N + k - n \in Coeffs /\ b[N + k - n] \in Int
      BY Sizes DEF Coeffs
    <3>. QED
      BY <3>1, <3>2
  <2>. QED
    BY <2>1 DEF Shifted
<1> DEFINE S == {n \in Nat : n <= N - 1 => Cong(At(Shifted(b, n), x), Power(x, n) * At(b, x), p)}
<1>2. 0 \in S
  <2>1. Shifted(b, 0) = b
    <3>1. ASSUME NEW k \in Coeffs PROVE (IF 0 <= k THEN b[k - 0] ELSE -b[N + k - 0]) = b[k]
      BY Sizes DEF Coeffs
    <3>. QED
      BY <3>1 DEF Shifted
  <2>2. Power(x, 0) * At(b, x) = At(b, x) /\ At(b, x) \in Int
    <3>1. At(b, x) \in Int
      BY AtFacts
    <3>2. Power(x, 0) = 1
      BY PowerFacts
    <3>. QED
      BY <3>1, <3>2
  <2>3. Cong(At(b, x), At(b, x), p)
    BY <2>2, CongFacts
  <2>. QED
    BY <2>1, <2>2, <2>3
<1>3. ASSUME NEW n \in Nat, n \in S PROVE n + 1 \in S
  <2>1. SUFFICES ASSUME n + 1 <= N - 1
                 PROVE  Cong(At(Shifted(b, n + 1), x), Power(x, n + 1) * At(b, x), p)
    OBVIOUS
  <2> DEFINE s == Shifted(b, n)
             t == Shifted(b, n + 1)
  <2>2. n \in 0..(N - 1) /\ n + 1 \in 0..(N - 1) /\ N - 1 \in Coeffs /\ 0 \in Coeffs /\ N \in Nat /\ N > 3
    BY <2>1, Sizes
  <2>3. s \in [Coeffs -> Int] /\ t \in [Coeffs -> Int]
    BY <1>1, <2>2
  <2>4. t[0] = -s[N - 1]
    <3>1. s[N - 1] = b[N - 1 - n] /\ t[0] = -b[N + 0 - (n + 1)]
      BY <2>1, <2>2 DEF Shifted
    <3>2. N + 0 - (n + 1) = N - 1 - n
      BY <2>2
    <3>. QED
      BY <3>1, <3>2
  <2>5. ASSUME NEW k \in 1..(N - 1) PROVE t[k] = s[k - 1]
    <3>1. k \in Coeffs /\ k - 1 \in Coeffs /\ k \in Nat
      BY <2>2 DEF Coeffs
    <3>2. t[k] = (IF n + 1 <= k THEN b[k - (n + 1)] ELSE -b[N + k - (n + 1)])
      BY <3>1 DEF Shifted
    <3>3. s[k - 1] = (IF n <= k - 1 THEN b[(k - 1) - n] ELSE -b[N + (k - 1) - n])
      BY <3>1 DEF Shifted
    <3>4. k - (n + 1) = (k - 1) - n /\ N + k - (n + 1) = N + (k - 1) - n /\ (n + 1 <= k <=> n <= k - 1)
      BY <2>2, <3>1
    <3>. QED
      BY <3>2, <3>3, <3>4
  <2> HIDE DEF s, t
  <2>6. Cong(At(t, x), x * At(s, x), p) /\ At(t, x) \in Int /\ At(s, x) \in Int
    BY <2>3, <2>4, <2>5, AtTurn, AtFacts
  <2> DEFINE u == Power(x, n)
             o == At(b, x)
             z == At(s, x)
  <2>7. u \in Int /\ o \in Int /\ z \in Int /\ Power(x, n + 1) = x * u
    <3>1. \A m \in Nat : Power(x, m) \in Nat /\ Power(x, m + 1) = x * Power(x, m)
      BY PowerFacts
    <3>2. At(b, x) \in Int
      BY AtFacts
    <3>. QED
      BY <2>6, <3>1, <3>2
  <2>8. Cong(z, u * o, p)
    BY <1>3, <2>2 DEF s
  <2> HIDE DEF u, o, z
  <2>9. u * o \in Int /\ x * (u * o) = (x * u) * o /\ x * z \in Int /\ (x * u) * o \in Int /\ x \in Int
    BY <2>7, Z3
  <2>10. Cong(x * z, x * (u * o), p)
    <3>1. Cong(x, x, p)
      BY CongFacts
    <3>. QED
      BY <2>7, <2>8, <2>9, <3>1, CongFacts
  <2>11. Cong(At(t, x), (x * u) * o, p)
    <3>1. Cong(At(t, x), x * z, p) /\ Cong(x * z, (x * u) * o, p)
      BY <2>6, <2>9, <2>10 DEF z
    <3>. QED
      BY <2>6, <2>9, <3>1, CongFacts
  <2>. QED
    BY <2>7, <2>11 DEF t, o
<1> HIDE DEF S
<1>4. Nat \subseteq S
  BY <1>2, <1>3, SetInduction
<1>. QED
  BY <1>1, <1>4 DEF S

\* and takes products to products:
LEMMA AtProduct ==
  ASSUME NEW p \in Nat, NEW x \in Nat, Cong(Power(x, N), -1, p),
         NEW a \in [Coeffs -> Int], NEW b \in [Coeffs -> Int]
  PROVE  /\ PolyMul(a, b) \in [Coeffs -> Int]
         /\ Cong(At(PolyMul(a, b), x), At(a, x) * At(b, x), p)
<1> DEFINE R(k) == [n \in Coeffs |-> a[n] * Shifted(b, n)[k]]
           P(n) == [k \in Coeffs |-> SumTo(R(k), n)]
           f == [k \in Coeffs |-> a[k] * Power(x, k)]
           B == At(b, x)
           S == {n \in Nat : n <= N => Cong(At(P(n), x), SumTo(f, n) * B, p)}
<1>0. \A u, v \in Int : u * v \in Int
  BY Z3
<1>1. ASSUME NEW k \in Coeffs, NEW n \in 0..(N - 1)
      PROVE  /\ R(k)[n] = a[n] * Shifted(b, n)[k] /\ R(k)[n] \in Int
             /\ a[n] \in Int /\ Shifted(b, n)[k] \in Int
  <2>1. n \in Coeffs
    BY Sizes DEF Coeffs
  <2>2. a[n] \in Int /\ Shifted(b, n)[k] \in Int
    BY <2>1, AtShifted
  <2>. QED
    BY <1>0, <2>1, <2>2
<1>2. ASSUME NEW k \in Coeffs
      PROVE  /\ SumTo(R(k), 0) = 0 /\ \A n \in 0..N : SumTo(R(k), n) \in Int
             /\ \A n \in 0..(N - 1) : SumTo(R(k), n + 1) = SumTo(R(k), n) + R(k)[n]
  <2> HIDE DEF R
  <2>. QED
    BY <1>1, Sizes, SumFacts
<1>3. ASSUME NEW n \in 0..N
      PROVE  P(n) \in [Coeffs -> Int] /\ \A k \in Coeffs : P(n)[k] = SumTo(R(k), n)
  <2> HIDE DEF R
  <2>. QED
    BY <1>2
<1>4. /\ SumTo(f, 0) = 0 /\ \A n \in 0..N : SumTo(f, n) \in Int
      /\ \A n \in 0..(N - 1) : SumTo(f, n + 1) = SumTo(f, n) + f[n] /\ f[n] = a[n] * Power(x, n)
  <2>1. ASSUME NEW n \in 0..(N - 1) PROVE f[n] = a[n] * Power(x, n) /\ f[n] \in Int
    BY AtFacts
  <2> HIDE DEF f
  <2>. QED
    BY <2>1, Sizes, SumFacts
<1>5. PolyMul(a, b) = P(N)
  <2>1. ASSUME NEW k \in Coeffs
        PROVE  SumTo([j \in Coeffs |-> IF j <= k THEN a[j] * b[k - j] ELSE -(a[j] * b[N + k - j])], N)
                 = SumTo(R(k), N)
    <3> DEFINE g == [j \in Coeffs |-> IF j <= k THEN a[j] * b[k - j] ELSE -(a[j] * b[N + k - j])]
    <3>1. ASSUME NEW n \in 0..(N - 1) PROVE R(k)[n] \in Int /\ R(k)[n] = g[n]
      <4>1. n \in Coeffs /\ a[n] \in Int
        BY Sizes DEF Coeffs
      <4>2. g[n] = (IF n <= k THEN a[n] * b[k - n] ELSE -(a[n] * b[N + k - n]))
        BY <4>1
      <4>3. R(k)[n] = a[n] * (IF n <= k THEN b[k - n] ELSE -b[N + k - n]) /\ R(k)[n] \in Int
        BY <1>1, <4>1 DEF Shifted
      <4>4. CASE n <= k
        BY <4>2, <4>3, <4>4
      <4>5. CASE ~(n <= k)
        <5>1. N + k - n \in Coeffs
          BY <4>1, <4>5, Sizes DEF Coeffs
        <5> DEFINE u == a[n]
                   v == b[N + k - n]
        <5>2. u \in Int /\ v \in Int /\ g[n] = -(u * v) /\ R(k)[n] = u * (-v) /\ R(k)[n] \in Int
          BY <4>1, <4>2, <4>3, <4>5, <5>1
        <5> HIDE DEF u, v, g, R
        <5>3. -(u * v) = u * (-v)
          BY <5>2, Z3
        <5>. QED
          BY <5>2, <5>3
      <4>. QED
        BY <4>4, <4>5
    <3>2. N \in 0..N
      BY Sizes
    <3> HIDE DEF g, R
    <3>3. SumTo(R(k), N) = SumTo(g, N)
      BY <3>1, <3>2, Sizes, SumCongruence
    <3>. QED
      BY <3>3 DEF g
  <2> HIDE DEF R
  <2>. QED
    BY <2>1 DEF PolyMul
<1>6. At(a, x) = SumTo(f, N) /\ B \in Int
  BY AtFacts DEF At
<1> HIDE DEF f, R
<1>7. 0 \in S
  <2>1. P(0) \in [Coeffs -> Int] /\ \A k \in Coeffs : P(0)[k] = 0 /\ P(0)[k] = P(0)[k] + 1 * P(0)[k]
    <3>1. 0 \in 0..N
      BY Sizes
    <3>2. P(0) \in [Coeffs -> Int] /\ \A k \in Coeffs : P(0)[k] = 0
      BY <1>2, <1>3, <3>1
    <3>. QED
      BY <3>2
  <2> DEFINE z == P(0)
  <2> HIDE DEF z
  <2>2. At(z, x) = At(z, x) + 1 * At(z, x) /\ At(z, x) \in Int
    <3>1. 1 \in Int /\ z \in [Coeffs -> Int] /\ \A k \in Coeffs : z[k] = z[k] + 1 * z[k]
      BY <2>1 DEF z
    <3>2. At(z, x) \in Int
      BY <3>1, AtFacts
    <3>3. At(z, x) = At(z, x) + 1 * At(z, x)
      BY <3>1, AtLinear
    <3>. QED
      BY <3>2, <3>3
  <2>3. At(z, x) = 0
    BY <2>2
  <2>4. 0 * B = 0 /\ Cong(0, 0, p)
    <3> HIDE DEF B
    <3>1. 0 * B = 0
      BY <1>6
    <3>2. Cong(0, 0, p)
      BY CongFacts
    <3>. QED
      BY <3>1, <3>2
  <2>. QED
    BY <1>4, <2>3, <2>4 DEF z
<1>8. ASSUME NEW n \in Nat, n \in S PROVE n + 1 \in S
  <2>1. SUFFICES ASSUME n + 1 <= N PROVE Cong(At(P(n + 1), x), SumTo(f, n + 1) * B, p)
    OBVIOUS
  <2>2. n \in 0..(N - 1) /\ n \in 0..N /\ n + 1 \in 0..N /\ n \in Coeffs
    BY <2>1, Sizes DEF Coeffs
  <2> DEFINE s == Shifted(b, n)
             y == a[n]
             g == P(n)
             h == P(n + 1)
  <2>3. g \in [Coeffs -> Int] /\ h \in [Coeffs -> Int] /\ s \in [Coeffs -> Int] /\ y \in Int
    BY <1>3, <2>2, AtShifted
  <2>4. ASSUME NEW k \in Coeffs PROVE h[k] = g[k] + y * s[k]
    <3>1. h[k] = SumTo(R(k), n + 1) /\ g[k] = SumTo(R(k), n)
      BY <1>3, <2>2
    <3>. QED
      BY <1>1, <1>2, <2>2, <3>1
  <2>5. Cong(At(s, x), Power(x, n) * B, p)
    BY <2>2, AtShifted
  <2>6. Cong(At(g, x), SumTo(f, n) * B, p)
    BY <1>8, <2>2
  <2> HIDE DEF g, h, s, y, P
  <2>7. At(h, x) = At(g, x) + y * At(s, x) /\ At(g, x) \in Int /\ At(s, x) \in Int
    <3>1. At(h, x) = At(g, x) + y * At(s, x)
      <4>1. /\ g \in [Coeffs -> Int] /\ s \in [Coeffs -> Int] /\ h \in [Coeffs -> Int] /\ y \in Int
            /\ \A k \in Coeffs : h[k] = g[k] + y * s[k]
        BY <2>3, <2>4
      <4>. QED
        BY <4>1, AtLinear
    <3>2. At(g, x) \in Int /\ At(s, x) \in Int
      BY <2>3, AtFacts
    <3>. QED
      BY <3>1, <3>2
  <2> DEFINE G == At(g, x)
             T == At(s, x)
             u == Power(x, n)
             F == SumTo(f, n)
  <2>8. G \in Int /\ T \in Int /\ u \in Int /\ F \in Int /\ SumTo(f, n + 1) = F + y * u
    <3>1. u \in Int
      BY <2>2, PowerFacts
    <3>. QED
      BY <1>4, <2>2, <2>7, <3>1 DEF y
  <2>9. Cong(T, u * B, p) /\ Cong(G, F * B, p) /\ At(h, x) = G + y * T
    BY <2>5, <2>6, <2>7
  <2> HIDE DEF G, T, u, F, B
  <2>10. /\ u * B \in Int /\ F * B \in Int /\ y * T \in Int /\ y * (u * B) \in Int
         /\ F * B + y * (u * B) = (F + y * u) * B
    BY <1>6, <2>3, <2>8, Z3
  <2>11. Cong(y * T, y * (u * B), p)
    <3>1. Cong(y, y, p)
      BY <2>3, CongFacts
    <3>. QED
      BY <2>3, <2>8, <2>9, <2>10, <3>1, CongFacts
  <2>12. Cong(G + y * T, F * B + y * (u * B), p)
    BY <2>8, <2>9, <2>10, <2>11, CongFacts
  <2>. QED
    BY <2>8, <2>9, <2>10, <2>12 DEF h
<1> HIDE DEF S
<1>9. Nat \subseteq S
  BY <1>7, <1>8, SetInduction
<1>10. N \in Nat /\ N \in 0..N /\ N <= N
  BY Sizes
<1>11. Cong(At(P(N), x), SumTo(f, N) * B, p)
  BY <1>9, <1>10 DEF S
<1>12. P(N) \in [Coeffs -> Int]
  BY <1>3, <1>10
<1> HIDE DEF P
<1>. QED
  BY <1>5, <1>6, <1>11, <1>12

\* Sums, products and adjoints are polynomials.
LEMMA PolyTypes ==
  /\ \A a1, a2 \in [Coeffs -> Int] : PolyAdd(a1, a2) \in [Coeffs -> Int] /\ PolyMul(a1, a2) \in [Coeffs -> Int]
  /\ \A a1 \in [Coeffs -> Int] : PolyAdj(a1) \in [Coeffs -> Int]
<1>1. ASSUME NEW a \in [Coeffs -> Int], NEW b \in [Coeffs -> Int]
      PROVE  PolyAdd(a, b) \in [Coeffs -> Int] /\ PolyMul(a, b) \in [Coeffs -> Int]
  <2>1. PolyAdd(a, b) \in [Coeffs -> Int]
    BY DEF PolyAdd
  <2> DEFINE x == Levels!RootAt(P1, 0)
  <2>2. x \in Nat /\ Cong(Power(x, N), -1, P1) /\ P1 \in Nat
    <3>1. P1 \in Primes /\ 0 \in Coeffs /\ P1 \in Nat
      BY Sizes, PrimesAssumption DEF Primes
    <3>. QED
      BY <3>1, RootFacts
  <2> HIDE DEF x
  <2>3. PolyMul(a, b) \in [Coeffs -> Int]
    BY <2>2, AtProduct
  <2>. QED
    BY <2>1, <2>3
<1>2. ASSUME NEW a \in [Coeffs -> Int] PROVE PolyAdj(a) \in [Coeffs -> Int]
  <2>1. ASSUME NEW k \in Coeffs PROVE (IF k = 0 THEN a[0] ELSE -a[N - k]) \in Int
    <3>1. k # 0 => N - k \in Coeffs
      BY Sizes DEF Coeffs
    <3>. QED
      BY <3>1, Sizes
  <2>. QED
    BY <2>1 DEF PolyAdj
<1>. QED
  BY <1>1, <1>2

\* The value of a sum is the sum of the values.
LEMMA AtSum ==
  ASSUME NEW a \in [Coeffs -> Int], NEW b \in [Coeffs -> Int], NEW x \in Nat
  PROVE  At(PolyAdd(a, b), x) = At(a, x) + At(b, x)
<1> DEFINE s == PolyAdd(a, b)
<1>1. /\ a \in [Coeffs -> Int] /\ b \in [Coeffs -> Int] /\ s \in [Coeffs -> Int] /\ 1 \in Int
      /\ \A k \in Coeffs : s[k] = a[k] + 1 * b[k]
  <2>1. s \in [Coeffs -> Int] /\ \A k \in Coeffs : s[k] = a[k] + b[k] /\ b[k] \in Int
    BY PolyTypes DEF PolyAdd
  <2>. QED
    BY <2>1
<1> HIDE DEF s
<1>2. At(s, x) = At(a, x) + 1 * At(b, x)
  BY <1>1, AtLinear
<1>3. At(b, x) \in Int
  BY AtFacts
<1>. QED
  BY <1>2, <1>3 DEF s

\* Where x and y are inverse and x^N = -1, a power of y is a power of x.
LEMMA PowerMirror ==
  ASSUME NEW p \in Nat, NEW x \in Nat, NEW y \in Nat,
         Cong(x * y, 1, p), Cong(Power(x, N), -1, p), NEW k \in 0..N
  PROVE  /\ Power(x, N - k) \in Int /\ Power(y, k) \in Int
         /\ Cong(-Power(x, N - k), Power(y, k), p)
<1> DEFINE u == Power(x, N - k)
           v == Power(x, k)
           z == Power(y, k)
           o == Power(x, N)
<1>1. k \in Nat /\ N - k \in Nat /\ (N - k) + k = N /\ N \in Nat
  BY Sizes
<1>2. u \in Int /\ v \in Int /\ z \in Int /\ o \in Int
  <2>1. \A m \in Nat : Power(x, m) \in Nat /\ Power(y, m) \in Nat
    BY PowerFacts
  <2>. QED
    BY <1>1, <2>1
<1>3. o = u * v
  BY <1>1, PowerSum
<1>4. Cong(v * z, 1, p)
  BY <1>1, InversePowers
<1>5. Cong(o, -1, p)
  OBVIOUS
<1> HIDE DEF u, v, z, o
<1>6. /\ (-u) * (v * z) = (-o) * z /\ (-u) * 1 = -u /\ (-o) \in Int /\ (-1) * o = -o /\ (-1) * (-1) = 1
      /\ 1 * z = z /\ -u \in Int /\ v * z \in Int /\ (-u) * (v * z) \in Int /\ (-o) * z \in Int
  BY <1>2, <1>3, Z3
<1>7. Cong((-u) * (v * z), -u, p)
  <2>1. Cong(-u, -u, p)
    BY <1>6, CongFacts
  <2>2. Cong((-u) * (v * z), (-u) * 1, p)
    BY <1>4, <1>6, <2>1, CongFacts
  <2>. QED
    BY <1>6, <2>2
<1>8. Cong((-o) * z, z, p)
  <2>1. Cong(-1, -1, p) /\ Cong(z, z, p) /\ -1 \in Int
    BY <1>2, CongFacts
  <2>2. Cong((-1) * o, (-1) * (-1), p)
    BY <1>2, <1>5, <2>1, CongFacts
  <2>3. Cong(-o, 1, p)
    BY <1>6, <2>2
  <2>4. Cong((-o) * z, 1 * z, p)
    BY <1>2, <1>6, <2>1, <2>3, CongFacts
  <2>. QED
    BY <1>6, <2>4
<1>9. Cong(-u, (-u) * (v * z), p)
  BY <1>6, <1>7, CongFacts
<1>10. Cong(-u, z, p)
  BY <1>2, <1>6, <1>8, <1>9, CongFacts
<1>. QED
  BY <1>2, <1>10 DEF u, z

\* The value of the adjoint is the value at the inverse.
LEMMA AtAdjoint ==
  ASSUME NEW p \in Nat, NEW x \in Nat, NEW y \in Nat,
         Cong(x * y, 1, p), Cong(Power(x, N), -1, p), NEW a \in [Coeffs -> Int]
  PROVE  Cong(At(PolyAdj(a), x), At(a, y), p)
<1> DEFINE b == PolyAdj(a)
           m == N - 1
           f == [k \in Coeffs |-> b[k] * Power(x, k)]
           g == [k \in Coeffs |-> a[k] * Power(y, k)]
           f1 == [k \in 0..(m - 1) |-> f[k + 1]]
           g1 == [k \in 0..(m - 1) |-> g[k + 1]]
           h == [k \in 0..(m - 1) |-> f1[m - 1 - k]]
<1>1. m \in Nat /\ m + 1 = N /\ b \in [Coeffs -> Int]
  BY Sizes, PolyTypes
<1>2. At(b, x) = SumTo(f, N) /\ At(a, y) = SumTo(g, N)
  BY DEF At
<1>3. \A k \in 0..m : f[k] = b[k] * Power(x, k) /\ f[k] \in Int
  <2> HIDE DEF b
  <2>1. \A k \in 0..(N - 1) : f[k] = b[k] * Power(x, k) /\ f[k] \in Int
    BY <1>1, AtFacts
  <2>. QED
    BY <1>1, <2>1
<1>4. \A k \in 0..m : g[k] = a[k] * Power(y, k) /\ g[k] \in Int
  <2>1. \A k \in 0..(N - 1) : g[k] = a[k] * Power(y, k) /\ g[k] \in Int
    BY AtFacts
  <2>. QED
    BY <1>1, <2>1
<1>5. f[0] = a[0] /\ g[0] = a[0] /\ a[0] \in Int
  <2>1. Power(x, 0) = 1 /\ Power(y, 0) = 1
    BY PowerFacts
  <2>2. 0 \in 0..m /\ b[0] = a[0] /\ a[0] \in Int
    BY <1>1, Sizes DEF PolyAdj
  <2> HIDE DEF f, g, b, m
  <2>3. f[0] = b[0] * Power(x, 0) /\ g[0] = a[0] * Power(y, 0)
    BY <1>3, <1>4, <2>2
  <2>. QED
    BY <2>1, <2>2, <2>3
<1> HIDE DEF f, g
<1>6. ASSUME NEW k \in 0..(m - 1)
      PROVE  /\ f1[k] = f[k + 1] /\ f1[k] \in Int /\ g1[k] = g[k + 1] /\ g1[k] \in Int
             /\ h[k] = f1[m - 1 - k] /\ h[k] \in Int /\ Cong(h[k], g1[k], p)
  <2>1. k + 1 \in 0..m /\ m - 1 - k \in 0..(m - 1) /\ (m - 1 - k) + 1 = m - k /\ m - k \in 0..m /\ m - k # 0
        /\ N - (m - k) = k + 1 /\ N - (k + 1) = m - k /\ k + 1 \in 0..N
        /\ m - k \in Coeffs /\ k + 1 \in Coeffs
    BY <1>1 DEF Coeffs
  <2>2. f1[k] = f[k + 1] /\ f1[k] \in Int /\ g1[k] = g[k + 1] /\ g1[k] \in Int
    BY <1>3, <1>4, <2>1
  <2>3. h[k] = f1[m - 1 - k] /\ f1[m - 1 - k] = f[m - k] /\ h[k] \in Int
    BY <1>3, <2>1
  <2>4. f[m - k] = b[m - k] * Power(x, m - k) /\ b[m - k] = -a[k + 1] /\ g[k + 1] = a[k + 1] * Power(y, k + 1)
    BY <1>3, <1>4, <2>1 DEF PolyAdj
  <2> DEFINE v == a[k + 1]
             u == Power(x, m - k)
             z == Power(y, k + 1)
  <2>5. v \in Int /\ u \in Int /\ z \in Int /\ Cong(-u, z, p)
    <3>1. v \in Int
      BY <2>1
    <3>2. u \in Int /\ z \in Int /\ Cong(-u, z, p)
      BY <2>1, PowerMirror
    <3>. QED
      BY <3>1, <3>2
  <2>6. h[k] = (-v) * u /\ g1[k] = v * z
    BY <2>2, <2>3, <2>4
  <2> HIDE DEF u, v, z, h, g1, f1, m
  <2>7. (-v) * u = v * (-u) /\ v * z \in Int /\ v * (-u) \in Int /\ -u \in Int
    BY <2>5, Z3
  <2>8. Cong(v * (-u), v * z, p)
    <3>1. Cong(v, v, p)
      BY <2>5, CongFacts
    <3>. QED
      BY <2>5, <2>7, <3>1, CongFacts
  <2>. QED
    BY <2>2, <2>3, <2>6, <2>7, <2>8
<1> HIDE DEF f1, g1, h, m
<1>7. SumTo(f, m + 1) = f[0] + SumTo(f1, m) /\ SumTo(f1, m) \in Int
  BY <1>1, <1>3, <1>6, SumShift
<1>8. SumTo(g, m + 1) = g[0] + SumTo(g1, m) /\ SumTo(g1, m) \in Int
  BY <1>1, <1>4, <1>6, SumShift
<1>9. SumTo(h, m) = SumTo(f1, m)
  BY <1>1, <1>6, SumReverse
<1>10. Cong(SumTo(h, m), SumTo(g1, m), p)
  BY <1>1, <1>6, CongSum
<1> DEFINE F == SumTo(f1, m)
           G == SumTo(g1, m)
           o == a[0]
<1>11. F \in Int /\ G \in Int /\ o \in Int /\ Cong(F, G, p) /\ At(b, x) = o + F /\ At(a, y) = o + G
  BY <1>1, <1>2, <1>5, <1>7, <1>8, <1>9, <1>10
<1> HIDE DEF F, G, o, b
<1>12. Cong(o + F, o + G, p)
  <2>1. Cong(o, o, p)
    BY <1>11, CongFacts
  <2>. QED
    BY <1>11, <2>1, CongFacts
<1>. QED
  BY <1>11, <1>12 DEF b

\* The constant coefficient of u times its adjoint is the squared length of u.
LEMMA AdjointSquare ==
  ASSUME NEW u \in [Coeffs -> Int]
  PROVE  PolyMul(u, PolyAdj(u))[0] = SquaredLength(u) /\ SquaredLength(u) \in Nat
<1> DEFINE b == PolyAdj(u)
           f == [j \in Coeffs |-> IF j <= 0 THEN u[j] * b[0 - j] ELSE -(u[j] * b[N + 0 - j])]
           g == [k \in Coeffs |-> u[k] * u[k]]
<1>0. \A v \in Int : v * v \in Nat /\ -(v * (-v)) = v * v
  BY Z3
<1>1. \A k \in 0..(N - 1) : g[k] \in Int /\ g[k] \in Nat /\ g[k] = f[k]
  <2>1. ASSUME NEW k \in 0..(N - 1) PROVE g[k] \in Int /\ g[k] \in Nat /\ g[k] = f[k]
    <3>1. k \in Coeffs /\ u[k] \in Int /\ g[k] = u[k] * u[k]
      BY Sizes DEF Coeffs
    <3>2. CASE k = 0
      <4>1. b[0] = u[0]
        BY Sizes DEF PolyAdj
      <4>2. f[k] = u[k] * b[0 - k] /\ 0 - k = 0
        BY <3>1, <3>2
      <4>. QED
        BY <1>0, <3>1, <3>2, <4>1, <4>2
    <3>3. CASE k # 0
      <4>1. N - k \in Coeffs /\ N - k # 0 /\ N - (N - k) = k /\ N + 0 - k = N - k /\ ~(k <= 0)
        BY <3>1, <3>3, Sizes DEF Coeffs
      <4>2. b[N - k] = -u[k]
        BY <4>1 DEF PolyAdj
      <4>3. f[k] = -(u[k] * b[N - k])
        BY <3>1, <4>1
      <4>. QED
        BY <1>0, <3>1, <4>2, <4>3
    <3>. QED
      BY <3>2, <3>3
  <2>. QED
    BY <2>1
<1>2. PolyMul(u, b)[0] = SumTo(f, N) /\ SquaredLength(u) = SumTo(g, N)
  <2> HIDE DEF b
  <2>. QED
    BY Sizes DEF PolyMul, SquaredLength
<1> HIDE DEF f, g, b
<1>3. SumTo(g, N) = SumTo(f, N) /\ SumTo(g, N) \in Nat
  <2>1. N \in 0..N
    BY Sizes
  <2>2. SumTo(g, N) = SumTo(f, N)
    BY <1>1, <2>1, Sizes, SumCongruence
  <2>3. SumTo(g, N) \in Nat
    BY <1>1, <2>1, Sizes, SumGrows
  <2>. QED
    BY <2>2, <2>3
<1>. QED
  BY <1>2, <1>3 DEF b

\* x and y are points of opposite lanes: inverse roots of X^N + 1 modulo p.
Opposite(x, y, p) ==
  /\ x \in Nat /\ y \in Nat
  /\ Cong(x * y, 1, p) /\ Cong(Power(x, N), -1, p)
  /\ Cong(y * x, 1, p) /\ Cong(Power(y, N), -1, p)

\* A sum of two products has the value that its factors have,
LEMMA AtProducts ==
  ASSUME NEW p \in Nat, NEW x \in Nat, Cong(Power(x, N), -1, p),
         NEW a1 \in [Coeffs -> Int], NEW a2 \in [Coeffs -> Int],
         NEW b1 \in [Coeffs -> Int], NEW b2 \in [Coeffs -> Int]
  PROVE  /\ PolyAdd(PolyMul(a1, b1), PolyMul(a2, b2)) \in [Coeffs -> Int]
         /\ Cong(At(PolyAdd(PolyMul(a1, b1), PolyMul(a2, b2)), x),
                 At(a1, x) * At(b1, x) + At(a2, x) * At(b2, x), p)
         /\ At(a1, x) * At(b1, x) + At(a2, x) * At(b2, x) \in Int
<1> DEFINE u == PolyMul(a1, b1)
           v == PolyMul(a2, b2)
<1>1. u \in [Coeffs -> Int] /\ v \in [Coeffs -> Int] /\ PolyAdd(u, v) \in [Coeffs -> Int]
  BY PolyTypes
<1>2. Cong(At(u, x), At(a1, x) * At(b1, x), p) /\ Cong(At(v, x), At(a2, x) * At(b2, x), p)
  BY AtProduct
<1> HIDE DEF u, v
<1>3. At(PolyAdd(u, v), x) = At(u, x) + At(v, x)
  BY <1>1, AtSum
<1>4. At(u, x) \in Int /\ At(v, x) \in Int
  BY <1>1, AtFacts
<1>5. At(a1, x) * At(b1, x) \in Int /\ At(a2, x) * At(b2, x) \in Int
  <2>1. At(a1, x) \in Int /\ At(b1, x) \in Int /\ At(a2, x) \in Int /\ At(b2, x) \in Int
    BY AtFacts
  <2>. QED
    BY <2>1, Z3
<1>6. Cong(At(u, x) + At(v, x), At(a1, x) * At(b1, x) + At(a2, x) * At(b2, x), p)
  BY <1>2, <1>4, <1>5, CongFacts
<1>. QED
  BY <1>1, <1>3, <1>5, <1>6 DEF u, v

\* also when they are multiplied by adjoints.
LEMMA AtPairing ==
  ASSUME NEW p \in Nat, NEW x, NEW y, Opposite(x, y, p),
         NEW a1 \in [Coeffs -> Int], NEW a2 \in [Coeffs -> Int],
         NEW b1 \in [Coeffs -> Int], NEW b2 \in [Coeffs -> Int]
  PROVE  /\ PolyAdd(PolyMul(a1, PolyAdj(b1)), PolyMul(a2, PolyAdj(b2))) \in [Coeffs -> Int]
         /\ Cong(At(PolyAdd(PolyMul(a1, PolyAdj(b1)), PolyMul(a2, PolyAdj(b2))), x),
                 At(a1, x) * At(b1, y) + At(a2, x) * At(b2, y), p)
<1>0. x \in Nat /\ y \in Nat /\ Cong(x * y, 1, p) /\ Cong(Power(x, N), -1, p)
  BY DEF Opposite
<1> DEFINE c1 == PolyAdj(b1)
           c2 == PolyAdj(b2)
           s == PolyAdd(PolyMul(a1, c1), PolyMul(a2, c2))
           A1 == At(a1, x)
           A2 == At(a2, x)
           B1 == At(b1, y)
           B2 == At(b2, y)
           C1 == At(c1, x)
           C2 == At(c2, x)
<1>1. c1 \in [Coeffs -> Int] /\ c2 \in [Coeffs -> Int]
  BY PolyTypes
<1>2. Cong(C1, B1, p) /\ Cong(C2, B2, p)
  BY <1>0, AtAdjoint
<1>3. s \in [Coeffs -> Int] /\ Cong(At(s, x), A1 * C1 + A2 * C2, p)
  <2> HIDE DEF c1, c2
  <2>. QED
    BY <1>0, <1>1, AtProducts
<1>4. A1 \in Int /\ A2 \in Int /\ B1 \in Int /\ B2 \in Int
  BY <1>0, AtFacts
<1>5. C1 \in Int /\ C2 \in Int /\ At(s, x) \in Int
  <2> HIDE DEF c1, c2, s
  <2>. QED
    BY <1>0, <1>1, <1>3, AtFacts
<1> HIDE DEF A1, A2, B1, B2, C1, C2, s
<1>6. A1 * C1 \in Int /\ A2 * C2 \in Int /\ A1 * B1 \in Int /\ A2 * B2 \in Int
  BY <1>4, <1>5, Z3
<1>7. Cong(A1 * C1, A1 * B1, p) /\ Cong(A2 * C2, A2 * B2, p)
  <2>1. Cong(A1, A1, p) /\ Cong(A2, A2, p)
    BY <1>4, CongFacts
  <2>. QED
    BY <1>2, <1>4, <1>5, <2>1, CongFacts
<1>8. Cong(A1 * C1 + A2 * C2, A1 * B1 + A2 * B2, p)
  BY <1>6, <1>7, CongFacts
<1>9. Cong(At(s, x), A1 * B1 + A2 * B2, p)
  <2>1. A1 * C1 + A2 * C2 \in Int /\ A1 * B1 + A2 * B2 \in Int
    BY <1>6
  <2>. QED
    BY <1>3, <1>5, <1>8, <2>1, CongFacts
<1>. QED
  BY <1>3, <1>9 DEF s, A1, A2, B1, B2

\* The value of the constant polynomial one.
LEMMA AtOne ==
  ASSUME NEW x \in Nat
  PROVE  One \in [Coeffs -> Int] /\ At(One, x) = 1
<1> DEFINE m == N - 1
           f == [k \in Coeffs |-> One[k] * Power(x, k)]
           g == [k \in 0..(m - 1) |-> 0]
<1>1. m \in Nat /\ m + 1 = N
  BY Sizes
<1>2. One \in [Coeffs -> Int]
  BY DEF One
<1>3. \A k \in 0..m : f[k] \in Int /\ (k # 0 => f[k] = 0) /\ (k = 0 => f[k] = 1)
  <2>1. ASSUME NEW k \in 0..m PROVE f[k] \in Int /\ (k # 0 => f[k] = 0) /\ (k = 0 => f[k] = 1)
    <3>1. k \in Coeffs /\ k \in Nat
      BY <1>1 DEF Coeffs
    <3>2. Power(x, k) \in Nat
      BY <3>1, PowerFacts
    <3>3. Power(x, 0) = 1
      BY PowerFacts
    <3>. QED
      BY <3>1, <3>2, <3>3 DEF One
  <2>. QED
    BY <2>1
<1>4. At(One, x) = SumTo(f, N)
  BY DEF At
<1> HIDE DEF f
<1>5. ASSUME NEW k \in 0..(m - 1) PROVE g[k] \in Int /\ g[k] = f[k + 1] /\ g[k] = 0
  <2>1. k + 1 \in 0..m /\ k + 1 # 0
    BY <1>1
  <2>. QED
    BY <1>3, <2>1
<1>6. 0 \in 0..m /\ f[0] = 1
  BY <1>1, <1>3
<1> HIDE DEF g, m
<1>7. SumTo(f, m + 1) = f[0] + SumTo(g, m) /\ SumTo(g, m) \in Int
  BY <1>1, <1>3, <1>5, SumShift
<1>8. SumTo(g, m) = 0
  BY <1>1, <1>5, SumZero
<1>. QED
  BY <1>1, <1>2, <1>4, <1>6, <1>7, <1>8

\* The determinant of a basis is one at every point.
LEMMA DeterminantAt ==
  ASSUME NEW p \in Nat, NEW x \in Nat, Cong(Power(x, N), -1, p), NEW b, IsBasis(b)
  PROVE  Cong(At(b.f, x) * At(b.G, x), 1 + At(b.g, x) * At(b.F, x), p)
<1> DEFINE f == b.f
           g == b.g
           F == b.F
           G == b.G
           u == PolyMul(f, G)
           v == PolyMul(g, F)
<1>1. /\ f \in [Coeffs -> Int] /\ g \in [Coeffs -> Int] /\ F \in [Coeffs -> Int] /\ G \in [Coeffs -> Int]
      /\ u = PolyAdd(One, v)
  BY DEF IsBasis
<1> HIDE DEF f, g, F, G
<1>2. v \in [Coeffs -> Int] /\ Cong(At(u, x), At(f, x) * At(G, x), p) /\ Cong(At(v, x), At(g, x) * At(F, x), p)
      /\ u \in [Coeffs -> Int]
  BY <1>1, AtProduct
<1> HIDE DEF u, v
<1>3. At(u, x) = 1 + At(v, x)
  <2>1. One \in [Coeffs -> Int] /\ At(One, x) = 1
    BY AtOne
  <2>. QED
    BY <1>1, <1>2, <2>1, AtSum
<1>4. At(f, x) \in Int /\ At(g, x) \in Int /\ At(F, x) \in Int /\ At(G, x) \in Int
  BY <1>1, AtFacts
<1>5. At(u, x) \in Int /\ At(v, x) \in Int
  BY <1>2, AtFacts
<1> DEFINE P == At(f, x) * At(G, x)
           Q == At(g, x) * At(F, x)
<1>6. P \in Int /\ Q \in Int
  BY <1>4, Z3
<1>7. Cong(At(u, x), P, p) /\ Cong(At(v, x), Q, p)
  BY <1>2
<1> HIDE DEF P, Q
<1>8. Cong(1 + At(v, x), 1 + Q, p)
  <2>1. 1 \in Int /\ Cong(1, 1, p)
    BY CongFacts
  <2>. QED
    BY <1>5, <1>6, <1>7, <2>1, CongFacts
<1>9. Cong(P, At(u, x), p)
  BY <1>5, <1>6, <1>7, CongFacts
<1>10. Cong(P, 1 + Q, p)
  <2>1. 1 + At(v, x) \in Int /\ 1 + Q \in Int
    BY <1>5, <1>6
  <2>. QED
    BY <1>3, <1>5, <1>6, <1>8, <1>9, <2>1, CongFacts
<1>. QED
  BY <1>10 DEF P, Q, f, g, F, G

\* Modulo p the sum that a lane contributes is that of B*w with its own adjoint:
\* dividing by A = q00 is undone by
LEMMA LaneDivision ==
  ASSUME NEW p \in Nat, NEW A \in Int, NEW B \in Int, NEW B1 \in Int, NEW C \in Int, NEW C1 \in Int,
         NEW D \in Int, NEW D1 \in Int, NEW H \in Int, NEW H1 \in Int, NEW K \in Int,
         Cong(A * H, D, p), Cong(A * H1, D1, p), Cong(B * B1 + 1, A * K, p)
  PROVE  Cong((A * (C + H * B)) * (C1 + H1 * B1) + H * D1,
              A * (C * C1) + B1 * (C * D1) + B * (D * C1) + K * (D * D1), p)
<1>1. PICK r \in Int : A * H = D + p * r
  BY DEF Cong
<1>2. PICK s \in Int : A * H1 = D1 + p * s
  BY DEF Cong
<1>3. PICK t \in Int : B * B1 + 1 = A * K + p * t
  BY DEF Cong
<1> DEFINE X == A * H
           Y == A * H1
           Z == B * B1 + 1
           L == (A * (C + H * B)) * (C1 + H1 * B1) + H * D1
           R == A * (C * C1) + B1 * (C * D1) + B * (D * C1) + K * (D * D1)
           o == s * (C * B1) + r * (B * C1) - s * H + r * (K * D1) + s * (D * K) + p * (r * s * K) + t * (X * H1)
<1>4. X = D + p * r /\ Y = D1 + p * s /\ Z = A * K + p * t /\ X \in Int /\ Y \in Int /\ Z \in Int
  BY <1>1, <1>2, <1>3, Z3
<1>5. (A * (C + H * B)) * (C1 + H1 * B1) = A * (C * C1) + Y * (C * B1) + X * (B * C1) + X * (B * B1 * H1)
  BY Z3
<1>6. H * Y = X * H1 /\ X * H1 + X * (B * B1 * H1) = X * H1 * Z
  BY Z3
<1>7. H1 * A * K = Y * K /\ o \in Int
  BY <1>1, <1>2, <1>3, Z3
<1>8. H * D1 = X * H1 - p * (s * H)
  <2> HIDE DEF X, Y
  <2>1. D1 = Y - p * s
    BY <1>1, <1>2, <1>4, Z3
  <2>2. H * (Y - p * s) = H * Y - p * (s * H)
    BY <1>4, Z3
  <2>. QED
    BY <1>6, <2>1, <2>2
<1>9. X * H1 * Z = X * (Y * K) + p * (t * (X * H1))
  <2> HIDE DEF X, Y, Z
  <2>1. X * H1 * (A * K + p * t) = X * (H1 * A * K) + p * (t * (X * H1))
    BY <1>4, Z3
  <2>. QED
    BY <1>4, <1>7, <2>1
<1>10. L = A * (C * C1) + Y * (C * B1) + X * (B * C1) + X * (Y * K) + p * (t * (X * H1)) - p * (s * H)
  <2> DEFINE a1 == A * (C * C1)
             a2 == Y * (C * B1)
             a3 == X * (B * C1)
             a4 == X * (B * B1 * H1)
             a5 == X * H1
             a6 == p * (s * H)
             a7 == X * (Y * K)
             a8 == p * (t * (X * H1))
             a9 == X * H1 * Z
             a10 == (A * (C + H * B)) * (C1 + H1 * B1)
             a11 == H * D1
  <2>1. a1 \in Int /\ a2 \in Int /\ a3 \in Int /\ a4 \in Int /\ a5 \in Int /\ a6 \in Int
        /\ a7 \in Int /\ a8 \in Int /\ a9 \in Int
    <3> HIDE DEF X, Y, Z
    <3>. QED
      BY <1>1, <1>2, <1>3, <1>4, Z3
  <2>2. a10 = a1 + a2 + a3 + a4 /\ a5 + a4 = a9 /\ a11 = a5 - a6 /\ a9 = a7 + a8 /\ L = a10 + a11
    BY <1>5, <1>6, <1>8, <1>9
  <2>3. L = a1 + a2 + a3 + a7 + a8 - a6
    <3> HIDE DEF a1, a2, a3, a4, a5, a6, a7, a8, a9, a10, a11, L
    <3>. QED
      BY <2>1, <2>2
  <2>. QED
    BY <2>3
<1>11. L = R + p * o
  <2>1. Y * (C * B1) = B1 * (C * D1) + p * (s * (C * B1))
    <3> HIDE DEF X, Y
    <3>. QED
      BY <1>2, <1>4, Z3
  <2>2. X * (B * C1) = B * (D * C1) + p * (r * (B * C1))
    <3> HIDE DEF X, Y
    <3>. QED
      BY <1>1, <1>4, Z3
  <2>3. X * (Y * K) = K * (D * D1) + p * (r * (K * D1) + s * (D * K) + p * (r * s * K))
    <3> HIDE DEF X, Y
    <3>1. X * (Y * K) = (D + p * r) * ((D1 + p * s) * K)
      BY <1>4
    <3>2. (D + p * r) * ((D1 + p * s) * K) = K * (D * D1) + p * (r * (K * D1) + s * (D * K) + p * (r * s * K))
      BY <1>1, <1>2, Z3
    <3>. QED
      BY <3>1, <3>2
  <2> HIDE DEF X, Y, Z, L
  <2>4. p * o = p * (s * (C * B1)) + p * (r * (B * C1)) - p * (s * H)
                + p * (r * (K * D1) + s * (D * K) + p * (r * s * K)) + p * (t * (X * H1))
    BY <1>1, <1>2, <1>3, <1>4, Z3
  <2> DEFINE b1 == A * (C * C1)
             b2 == B1 * (C * D1)
             b3 == B * (D * C1)
             b4 == K * (D * D1)
             b5 == p * (s * (C * B1))
             b6 == p * (r * (B * C1))
             b7 == p * (s * H)
             b8 == p * (r * (K * D1) + s * (D * K) + p * (r * s * K))
             b9 == p * (t * (X * H1))
             b10 == p * o
  <2>5. b1 \in Int /\ b2 \in Int /\ b3 \in Int /\ b4 \in Int /\ b5 \in Int /\ b6 \in Int /\ b7 \in Int
        /\ b8 \in Int /\ b9 \in Int
    BY <1>1, <1>2, <1>3, <1>4, Z3
  <2>6. /\ L = b1 + (b2 + b5) + (b3 + b6) + (b4 + b8) + b9 - b7
        /\ R = b1 + b2 + b3 + b4 /\ b10 = b5 + b6 - b7 + b8 + b9
    BY <1>10, <2>1, <2>2, <2>3, <2>4
  <2>7. L = R + b10
    <3> HIDE DEF b1, b2, b3, b4, b5, b6, b7, b8, b9, b10, R
    <3>. QED
      BY <2>5, <2>6
  <2>. QED
    BY <2>7
<1> HIDE DEF L, R, o
<1>12. \E q \in Int : L = R + p * q
  BY <1>7, <1>11
<1>. QED
  BY <1>12 DEF Cong, L, R

\* the determinant, which makes B*adj(B) + 1 a multiple of A:
LEMMA LaneGram ==
  ASSUME NEW p \in Nat, NEW f \in Int, NEW g \in Int, NEW F \in Int, NEW G \in Int,
         NEW f1 \in Int, NEW g1 \in Int, NEW F1 \in Int, NEW G1 \in Int,
         Cong(f * G, 1 + g * F, p), Cong(f1 * G1, 1 + g1 * F1, p)
  PROVE  Cong((F * f1 + G * g1) * (F1 * f + G1 * g) + 1, (f * f1 + g * g1) * (F * F1 + G * G1), p)
<1>1. PICK r \in Int : f * G = (1 + g * F) + p * r
  BY DEF Cong
<1>2. PICK s \in Int : f1 * G1 = (1 + g1 * F1) + p * s
  BY DEF Cong
<1> DEFINE d == f * G - g * F
           d1 == f1 * G1 - g1 * F1
           L == (F * f1 + G * g1) * (F1 * f + G1 * g) + 1
           R == (f * f1 + g * g1) * (F * F1 + G * G1)
           o == -(r + s + p * (r * s))
<1>3. d \in Int /\ d1 \in Int /\ L \in Int /\ R \in Int /\ o \in Int
  BY <1>1, <1>2, Z3
<1>4. d = 1 + p * r /\ d1 = 1 + p * s
  <2> DEFINE u == f * G
             v == g * F
             u1 == f1 * G1
             v1 == g1 * F1
             a == p * r
             b == p * s
  <2>1. u \in Int /\ v \in Int /\ u1 \in Int /\ v1 \in Int /\ a \in Int /\ b \in Int
    BY <1>1, <1>2, Z3
  <2>2. u = (1 + v) + a /\ u1 = (1 + v1) + b /\ d = u - v /\ d1 = u1 - v1
    BY <1>1, <1>2
  <2>3. d = 1 + a /\ d1 = 1 + b
    <3> HIDE DEF u, v, u1, v1, a, b, d, d1
    <3>. QED
      BY <2>1, <2>2
  <2>. QED
    BY <2>3
<1>5. R = L - 1 + d * d1
  BY Z3
<1>6. d * d1 = 1 - p * o
  <2>1. (1 + p * r) * (1 + p * s) = 1 - p * o
    BY <1>1, <1>2, Z3
  <2> HIDE DEF d, d1, o
  <2>. QED
    BY <1>4, <2>1
<1> HIDE DEF d, d1, L, R, o
<1>7. L = R + p * o
  <2>1. p * o \in Int
    BY <1>3, Z3
  <2> DEFINE a == p * o
             b == d * d1
  <2> HIDE DEF a, b
  <2>2. R = L - 1 + b /\ b = 1 - a /\ a \in Int
    BY <1>5, <1>6, <2>1 DEF a, b
  <2>3. L = R + a
    BY <1>3, <2>2
  <2>. QED
    BY <2>3 DEF a
<1>8. \E q \in Int : L = R + p * q
  BY <1>3, <1>7
<1>. QED
  BY <1>8 DEF Cong, L, R

\* Products and sums of congruent integers, as integers.
LEMMA CongRules ==
  ASSUME NEW p \in Nat
  PROVE  \A a, b, x, y \in Int : Cong(a, b, p) /\ Cong(x, y, p) =>
           /\ a * x \in Int /\ b * y \in Int /\ Cong(a * x, b * y, p)
           /\ a + x \in Int /\ b + y \in Int /\ Cong(a + x, b + y, p)
<1>1. ASSUME NEW a \in Int, NEW b \in Int, NEW x \in Int, NEW y \in Int, Cong(a, b, p), Cong(x, y, p)
      PROVE  /\ a * x \in Int /\ b * y \in Int /\ Cong(a * x, b * y, p)
             /\ a + x \in Int /\ b + y \in Int /\ Cong(a + x, b + y, p)
  <2>1. a * x \in Int /\ b * y \in Int
    BY Z3
  <2>2. a + x \in Int /\ b + y \in Int
    OBVIOUS
  <2>3. Cong(a * x, b * y, p) /\ Cong(a + x, b + y, p)
    BY <1>1, CongFacts
  <2>. QED
    BY <2>1, <2>2, <2>3
<1>. QED
  BY <1>1

\* What a verifier measures: its constant coefficient is the lattice norm.
NormPoly(b, w0, w1) ==
  LET u == PolyAdd(PolyMul(b.f, w0), PolyMul(b.F, w1))
      t == PolyAdd(PolyMul(b.g, w0), PolyMul(b.G, w1))
  IN  PolyAdd(PolyMul(u, PolyAdj(u)), PolyMul(t, PolyAdj(t)))

LEMMA NormPolyFacts ==
  ASSUME NEW b, IsBasis(b), NEW w0 \in [Coeffs -> Int], NEW w1 \in [Coeffs -> Int]
  PROVE  /\ NormPoly(b, w0, w1) \in [Coeffs -> Int]
         /\ NormPoly(b, w0, w1)[0] = LatticeNorm(b, w0, w1) /\ LatticeNorm(b, w0, w1) \in Nat
<1> DEFINE u == PolyAdd(PolyMul(b.f, w0), PolyMul(b.F, w1))
           t == PolyAdd(PolyMul(b.g, w0), PolyMul(b.G, w1))
<1>1. /\ b.f \in [Coeffs -> Int] /\ b.g \in [Coeffs -> Int] /\ b.F \in [Coeffs -> Int] /\ b.G \in [Coeffs -> Int]
  BY DEF IsBasis
<1>2. u \in [Coeffs -> Int] /\ t \in [Coeffs -> Int]
  <2>1. /\ PolyMul(b.f, w0) \in [Coeffs -> Int] /\ PolyMul(b.F, w1) \in [Coeffs -> Int]
        /\ PolyMul(b.g, w0) \in [Coeffs -> Int] /\ PolyMul(b.G, w1) \in [Coeffs -> Int]
    BY <1>1, PolyTypes
  <2>. QED
    BY <2>1, PolyTypes
<1>3. NormPoly(b, w0, w1) = PolyAdd(PolyMul(u, PolyAdj(u)), PolyMul(t, PolyAdj(t)))
      /\ LatticeNorm(b, w0, w1) = SquaredLength(u) + SquaredLength(t)
  BY DEF NormPoly, LatticeNorm
<1> HIDE DEF u, t
<1> DEFINE v == PolyMul(u, PolyAdj(u))
           z == PolyMul(t, PolyAdj(t))
<1>4. v \in [Coeffs -> Int] /\ z \in [Coeffs -> Int] /\ PolyAdd(v, z) \in [Coeffs -> Int]
  <2>1. PolyAdj(u) \in [Coeffs -> Int] /\ PolyAdj(t) \in [Coeffs -> Int]
    BY <1>2, PolyTypes
  <2>2. v \in [Coeffs -> Int] /\ z \in [Coeffs -> Int]
    BY <1>2, <2>1, PolyTypes
  <2> HIDE DEF v, z
  <2>. QED
    BY <2>2, PolyTypes
<1>5. /\ v[0] = SquaredLength(u) /\ z[0] = SquaredLength(t)
      /\ SquaredLength(u) \in Nat /\ SquaredLength(t) \in Nat
  BY <1>2, AdjointSquare
<1> HIDE DEF v, z
<1>6. PolyAdd(v, z)[0] = v[0] + z[0]
  BY Sizes DEF PolyAdd
<1>. QED
  BY <1>3, <1>4, <1>5, <1>6 DEF v, z

\* so the lane computes the value of that polynomial.
LEMMA LaneNorm ==
  ASSUME NEW p \in Nat, NEW x, NEW y, Opposite(x, y, p), NEW b, IsBasis(b),
         NEW w0 \in [Coeffs -> Int], NEW w1 \in [Coeffs -> Int],
         NEW A \in Int, NEW A1 \in Int, NEW B \in Int, NEW B1 \in Int, NEW C \in Int, NEW C1 \in Int,
         NEW D \in Int, NEW D1 \in Int, NEW H \in Int, NEW H1 \in Int,
         Cong(A, At(GramQ00(b), x), p), Cong(A1, At(GramQ00(b), y), p),
         Cong(B, At(GramQ01(b), x), p), Cong(B1, At(GramQ01(b), y), p),
         Cong(C, At(w0, x), p), Cong(C1, At(w0, y), p),
         Cong(D, At(w1, x), p), Cong(D1, At(w1, y), p),
         Cong(A * H, D, p), Cong(A1 * H1, D1, p)
  PROVE  Cong((A * (C + H * B)) * (C1 + H1 * B1) + H * D1, At(NormPoly(b, w0, w1), x), p)
<1>0. /\ x \in Nat /\ y \in Nat /\ Cong(Power(x, N), -1, p) /\ Cong(Power(y, N), -1, p)
      /\ Opposite(x, y, p) /\ Opposite(y, x, p)
  BY DEF Opposite
<1>1. /\ b.f \in [Coeffs -> Int] /\ b.g \in [Coeffs -> Int] /\ b.F \in [Coeffs -> Int] /\ b.G \in [Coeffs -> Int]
  BY DEF IsBasis
<1> DEFINE f == At(b.f, x)
           g == At(b.g, x)
           F == At(b.F, x)
           G == At(b.G, x)
           f1 == At(b.f, y)
           g1 == At(b.g, y)
           F1 == At(b.F, y)
           G1 == At(b.G, y)
           W0 == At(w0, x)
           W1 == At(w0, y)
           Y == At(w1, x)
           Y1 == At(w1, y)
           K == F * F1 + G * G1
           A0 == f * f1 + g * g1
           B0 == F * f1 + G * g1
           B10 == F1 * f + G1 * g
<1>2. /\ f \in Int /\ g \in Int /\ F \in Int /\ G \in Int /\ f1 \in Int /\ g1 \in Int /\ F1 \in Int /\ G1 \in Int
      /\ W0 \in Int /\ W1 \in Int /\ Y \in Int /\ Y1 \in Int
  <2>1. \A v \in [Coeffs -> Int] : At(v, x) \in Int /\ At(v, y) \in Int
    BY <1>0, AtFacts
  <2>. QED
    BY <1>1, <2>1
<1>3. /\ Cong(At(GramQ00(b), x), A0, p) /\ Cong(At(GramQ01(b), x), B0, p)
      /\ Cong(At(GramQ00(b), y), f1 * f + g1 * g, p) /\ Cong(At(GramQ01(b), y), B10, p)
      /\ GramQ00(b) \in [Coeffs -> Int] /\ GramQ01(b) \in [Coeffs -> Int]
  <2>1. /\ GramQ00(b) \in [Coeffs -> Int] /\ Cong(At(GramQ00(b), x), A0, p)
    BY <1>0, <1>1, AtPairing DEF GramQ00
  <2>2. Cong(At(GramQ00(b), y), f1 * f + g1 * g, p)
    BY <1>0, <1>1, AtPairing DEF GramQ00
  <2>3. GramQ01(b) \in [Coeffs -> Int] /\ Cong(At(GramQ01(b), x), B0, p)
    BY <1>0, <1>1, AtPairing DEF GramQ01
  <2>4. Cong(At(GramQ01(b), y), B10, p)
    BY <1>0, <1>1, AtPairing DEF GramQ01
  <2>. QED
    BY <2>1, <2>2, <2>3, <2>4
<1>4. Cong(f * G, 1 + g * F, p) /\ Cong(f1 * G1, 1 + g1 * F1, p)
  BY <1>0, DeterminantAt
<1> DEFINE u == PolyAdd(PolyMul(b.f, w0), PolyMul(b.F, w1))
           t == PolyAdd(PolyMul(b.g, w0), PolyMul(b.G, w1))
           V == NormPoly(b, w0, w1)
<1>5. /\ u \in [Coeffs -> Int] /\ t \in [Coeffs -> Int]
      /\ Cong(At(u, x), f * W0 + F * Y, p) /\ Cong(At(t, x), g * W0 + G * Y, p)
      /\ Cong(At(u, y), f1 * W1 + F1 * Y1, p) /\ Cong(At(t, y), g1 * W1 + G1 * Y1, p)
  <2>1. u \in [Coeffs -> Int] /\ Cong(At(u, x), f * W0 + F * Y, p)
    BY <1>0, <1>1, AtProducts
  <2>2. t \in [Coeffs -> Int] /\ Cong(At(t, x), g * W0 + G * Y, p)
    BY <1>0, <1>1, AtProducts
  <2>3. Cong(At(u, y), f1 * W1 + F1 * Y1, p)
    BY <1>0, <1>1, AtProducts
  <2>4. Cong(At(t, y), g1 * W1 + G1 * Y1, p)
    BY <1>0, <1>1, AtProducts
  <2>. QED
    BY <2>1, <2>2, <2>3, <2>4
<1>6. V = PolyAdd(PolyMul(u, PolyAdj(u)), PolyMul(t, PolyAdj(t)))
  BY DEF NormPoly
<1> DEFINE u0 == At(u, x)
           u1 == At(u, y)
           t0 == At(t, x)
           t1 == At(t, y)
<1> HIDE DEF u, t
<1>7. V \in [Coeffs -> Int] /\ Cong(At(V, x), u0 * u1 + t0 * t1, p)
  <2> DEFINE v == PolyAdd(PolyMul(u, PolyAdj(u)), PolyMul(t, PolyAdj(t)))
  <2>1. v \in [Coeffs -> Int] /\ Cong(At(v, x), u0 * u1 + t0 * t1, p)
    BY <1>5, AtPairing
  <2> HIDE DEF v, V
  <2>. QED
    BY <1>6, <2>1 DEF v
<1>8. u0 \in Int /\ u1 \in Int /\ t0 \in Int /\ t1 \in Int
  <2>1. \A v \in [Coeffs -> Int] : At(v, x) \in Int /\ At(v, y) \in Int
    BY <1>0, AtFacts
  <2>. QED
    BY <1>5, <2>1
<1>9. At(V, x) \in Int /\ At(GramQ00(b), x) \in Int /\ At(GramQ00(b), y) \in Int
      /\ At(GramQ01(b), x) \in Int /\ At(GramQ01(b), y) \in Int
  <2> HIDE DEF V
  <2>1. \A v \in [Coeffs -> Int] : At(v, x) \in Int /\ At(v, y) \in Int
    BY <1>0, AtFacts
  <2>. QED
    BY <1>3, <1>7, <2>1
<1> HIDE DEF f, g, F, G, f1, g1, F1, G1, W0, W1, Y, Y1, V, u0, u1, t0, t1
<1>10. /\ A0 \in Int /\ B0 \in Int /\ B10 \in Int /\ K \in Int /\ f1 * f + g1 * g = A0
  BY <1>2, Z3
<1> HIDE DEF A0, B0, B10, K
<1>11. Cong(A, A0, p) /\ Cong(A1, A0, p) /\ Cong(B, B0, p) /\ Cong(B1, B10, p)
  <2>1. Cong(At(GramQ00(b), y), A0, p)
    BY <1>3, <1>10
  <2>2. Cong(A, A0, p)
    BY <1>3, <1>9, <1>10, CongFacts
  <2>3. Cong(A1, A0, p)
    BY <1>9, <1>10, <2>1, CongFacts
  <2>4. Cong(B, B0, p)
    BY <1>3, <1>9, <1>10, CongFacts
  <2>5. Cong(B1, B10, p)
    BY <1>3, <1>9, <1>10, CongFacts
  <2>. QED
    BY <2>2, <2>3, <2>4, <2>5
<1>12. Cong(C, W0, p) /\ Cong(C1, W1, p) /\ Cong(D, Y, p) /\ Cong(D1, Y1, p)
  BY DEF W0, W1, Y, Y1
<1>13. Cong(A * H1, D1, p)
  <2>1. Cong(A, A1, p) /\ Cong(H1, H1, p)
    BY <1>10, <1>11, CongFacts
  <2>2. Cong(A * H1, A1 * H1, p) /\ A * H1 \in Int /\ A1 * H1 \in Int
    BY <2>1, CongRules
  <2>. QED
    BY <2>2, CongFacts
<1>14. Cong(B * B1 + 1, A * K, p)
  <2>1. Cong(B0 * B10 + 1, A0 * K, p)
    BY <1>2, <1>4, LaneGram DEF A0, B0, B10, K
  <2>2. Cong(B * B1, B0 * B10, p) /\ B * B1 \in Int /\ B0 * B10 \in Int
    BY <1>10, <1>11, CongRules
  <2>3. Cong(B * B1 + 1, B0 * B10 + 1, p) /\ B * B1 + 1 \in Int /\ B0 * B10 + 1 \in Int
    <3>1. Cong(1, 1, p) /\ 1 \in Int
      BY CongFacts
    <3>. QED
      BY <2>2, <3>1, CongRules
  <2>4. Cong(A0 * K, A * K, p) /\ A0 * K \in Int /\ A * K \in Int
    <3>1. Cong(K, K, p)
      BY <1>10, CongFacts
    <3>2. Cong(A0, A, p)
      <4>1. A \in Int /\ A0 \in Int /\ Cong(A, A0, p)
        BY <1>10, <1>11
      <4>2. \A z1, z2 \in Int : Cong(z1, z2, p) => Cong(z2, z1, p)
        BY CongFacts
      <4>. QED
        BY <4>1, <4>2
    <3>. QED
      BY <1>10, <3>1, <3>2, CongRules
  <2>5. Cong(B * B1 + 1, A0 * K, p)
    BY <2>1, <2>3, <2>4, CongFacts
  <2>. QED
    BY <2>3, <2>4, <2>5, CongFacts
<1> DEFINE L == (A * (C + H * B)) * (C1 + H1 * B1) + H * D1
           M == A * (C * C1) + B1 * (C * D1) + B * (D * C1) + K * (D * D1)
           M0 == A0 * (W0 * W1) + B10 * (W0 * Y1) + B0 * (Y * W1) + K * (Y * Y1)
           S == (f * W0 + F * Y) * (f1 * W1 + F1 * Y1) + (g * W0 + G * Y) * (g1 * W1 + G1 * Y1)
<1>15. Cong(L, M, p) /\ L \in Int
  <2>1. L \in Int
    BY Z3
  <2>2. Cong(L, M, p)
    BY <1>10, <1>13, <1>14, LaneDivision
  <2>. QED
    BY <2>1, <2>2
<1>16. Cong(M, M0, p) /\ M \in Int /\ M0 \in Int
  <2>1. Cong(K, K, p)
    BY <1>10, CongFacts
  <2>2. /\ C * C1 \in Int /\ W0 * W1 \in Int /\ Cong(C * C1, W0 * W1, p)
        /\ C * D1 \in Int /\ W0 * Y1 \in Int /\ Cong(C * D1, W0 * Y1, p)
        /\ D * C1 \in Int /\ Y * W1 \in Int /\ Cong(D * C1, Y * W1, p)
        /\ D * D1 \in Int /\ Y * Y1 \in Int /\ Cong(D * D1, Y * Y1, p)
    BY <1>2, <1>12, CongRules
  <2> DEFINE a1 == A * (C * C1)
             a2 == B1 * (C * D1)
             a3 == B * (D * C1)
             a4 == K * (D * D1)
             b1 == A0 * (W0 * W1)
             b2 == B10 * (W0 * Y1)
             b3 == B0 * (Y * W1)
             b4 == K * (Y * Y1)
  <2>3. a1 \in Int /\ b1 \in Int /\ Cong(a1, b1, p)
    BY <1>10, <1>11, <2>2, CongRules
  <2>4. a2 \in Int /\ b2 \in Int /\ Cong(a2, b2, p)
    BY <1>10, <1>11, <2>2, CongRules
  <2>5. a3 \in Int /\ b3 \in Int /\ Cong(a3, b3, p)
    BY <1>10, <1>11, <2>2, CongRules
  <2>6. a4 \in Int /\ b4 \in Int /\ Cong(a4, b4, p)
    BY <1>10, <2>1, <2>2, CongRules
  <2> HIDE DEF a1, a2, a3, a4, b1, b2, b3, b4
  <2>7. a1 + a2 \in Int /\ b1 + b2 \in Int /\ Cong(a1 + a2, b1 + b2, p)
    BY <2>3, <2>4, CongRules
  <2>8. a1 + a2 + a3 \in Int /\ b1 + b2 + b3 \in Int /\ Cong(a1 + a2 + a3, b1 + b2 + b3, p)
    BY <2>5, <2>7, CongRules
  <2>9. /\ a1 + a2 + a3 + a4 \in Int /\ b1 + b2 + b3 + b4 \in Int
        /\ Cong(a1 + a2 + a3 + a4, b1 + b2 + b3 + b4, p)
    BY <2>6, <2>8, CongRules
  <2>. QED
    BY <2>9 DEF a1, a2, a3, a4, b1, b2, b3, b4
<1>17. M0 = S /\ S \in Int
  BY <1>2, Z3 DEF A0, B0, B10, K
<1>18. Cong(u0 * u1 + t0 * t1, S, p) /\ u0 * u1 + t0 * t1 \in Int
  <2> DEFINE a1 == f * W0 + F * Y
             a2 == f1 * W1 + F1 * Y1
             a3 == g * W0 + G * Y
             a4 == g1 * W1 + G1 * Y1
  <2>1. a1 \in Int /\ a2 \in Int /\ a3 \in Int /\ a4 \in Int
    BY <1>2, Z3
  <2>2. Cong(u0, a1, p) /\ Cong(u1, a2, p) /\ Cong(t0, a3, p) /\ Cong(t1, a4, p)
    BY <1>5 DEF u0, u1, t0, t1
  <2> HIDE DEF a1, a2, a3, a4
  <2>3. /\ u0 * u1 \in Int /\ a1 * a2 \in Int /\ Cong(u0 * u1, a1 * a2, p)
        /\ t0 * t1 \in Int /\ a3 * a4 \in Int /\ Cong(t0 * t1, a3 * a4, p)
    BY <1>8, <2>1, <2>2, CongRules
  <2>4. Cong(u0 * u1 + t0 * t1, a1 * a2 + a3 * a4, p) /\ u0 * u1 + t0 * t1 \in Int
    BY <2>3, CongRules
  <2>. QED
    BY <2>4 DEF a1, a2, a3, a4
<1> HIDE DEF L, M, M0, S
<1>19. Cong(L, S, p)
  BY <1>15, <1>16, <1>17, CongFacts
<1>20. Cong(S, At(V, x), p)
  <2>1. Cong(At(V, x), S, p)
    BY <1>7, <1>9, <1>17, <1>18, CongFacts
  <2>. QED
    BY <1>9, <1>17, <2>1, CongFacts
<1>21. Cong(L, At(V, x), p)
  BY <1>9, <1>15, <1>17, <1>19, <1>20, CongFacts
<1>. QED
  BY <1>21 DEF L, V

-----------------------------------------------------------------------------
(***************************************************************************)
(* The residue of a prime is N times the norm.                             *)
(***************************************************************************)

\* A lane of a transform is a value.
LEMMA NttAt ==
  ASSUME NEW p \in Primes, NEW a, Small(a, p), NEW n \in Coeffs
  PROVE  /\ p \in Nat /\ p > 1 /\ a \in [Coeffs -> Int]
         /\ Ntt(a, p)[n] \in Nat /\ Levels!RootAt(p, n) \in Nat
         /\ Cong(Ntt(a, p)[n], At(a, Levels!RootAt(p, n)), p)
<1>1. p \in Nat /\ p > 1 /\ a \in [Coeffs -> Int]
  BY PrimesAssumption DEF Primes, Small
<1>2. Levels!RootAt(p, n) \in Nat
  BY RootFacts
<1>3. Ntt(a, p)[n] \in 0..(p - 1) /\ Cong(Ntt(a, p)[n], Strand(a, Levels!RootAt(p, n), 0, 1, N), p)
  BY NttFacts
<1>4. At(a, Levels!RootAt(p, n)) = Strand(a, Levels!RootAt(p, n), 0, 1, N)
  BY <1>1, <1>2, AtFacts
<1>. QED
  BY <1>1, <1>2, <1>3, <1>4

\* What a slot of the prepared path computes: a quotient and a sum.
LEMMA SlotFacts ==
  ASSUME NEW p \in Nat, p > 1, NEW qa \in Nat, NEW qb \in Nat, NEW wc \in Nat, NEW wd \in Nat,
         NEW inv \in Nat, MulMod(qa, inv, p) = 1
  PROVE  LET dh == MulMod(wd, inv, p)
             eh == wc + MulMod(dh, qb, p)
         IN  /\ dh \in Nat /\ eh \in Nat /\ Cong(qa * dh, wd, p)
             /\ Cong(eh, wc + dh * qb, p)
<1> DEFINE dh == MulMod(wd, inv, p)
           z == MulMod(dh, qb, p)
<1>0. p > 0
  OBVIOUS
<1>1. dh \in Nat /\ Cong(dh, wd * inv, p)
  BY <1>0, CongMulMod
<1>2. Cong(1, qa * inv, p)
  <2>1. Cong(MulMod(qa, inv, p), qa * inv, p)
    BY <1>0, CongMulMod
  <2>. QED
    BY <2>1
<1> HIDE DEF dh
<1>3. z \in Nat /\ Cong(z, dh * qb, p)
  BY <1>0, <1>1, CongMulMod
<1> HIDE DEF z
<1>4. /\ wd * inv \in Int /\ qa * inv \in Int /\ dh * qb \in Int /\ qa * dh \in Int
      /\ qa * (wd * inv) = wd * (qa * inv) /\ wd * 1 = wd
  BY <1>1, Z3
<1>5. Cong(qa * dh, wd * (qa * inv), p) /\ wd * (qa * inv) \in Int
  <2>1. Cong(qa, qa, p) /\ qa \in Int /\ dh \in Int
    BY <1>1, CongFacts
  <2>2. Cong(qa * dh, qa * (wd * inv), p) /\ qa * (wd * inv) \in Int
    BY <1>1, <1>4, <2>1, CongRules
  <2>. QED
    BY <1>4, <2>2
<1>6. Cong(wd, wd * (qa * inv), p)
  <2>1. Cong(wd, wd, p) /\ wd \in Int /\ 1 \in Int
    BY CongFacts
  <2>2. Cong(wd * 1, wd * (qa * inv), p)
    BY <1>2, <1>4, <2>1, CongRules
  <2>. QED
    BY <1>4, <2>2
<1>7. Cong(qa * dh, wd, p)
  <2>1. Cong(wd * (qa * inv), wd, p)
    <3>1. wd \in Int
      OBVIOUS
    <3>. QED
      BY <1>5, <1>6, <3>1, CongFacts
  <2>. QED
    BY <1>4, <1>5, <2>1, CongFacts
<1>8. Cong(wc + z, wc + dh * qb, p)
  <2>1. Cong(wc, wc, p) /\ wc \in Int /\ z \in Int
    BY <1>3, CongFacts
  <2>. QED
    BY <1>3, <1>4, <2>1, CongRules
<1>9. wc + z \in Nat
  BY <1>3
<1>. QED
  BY <1>1, <1>7, <1>8, <1>9 DEF dh, z

\* A polynomial whose coefficients are reduced has the same values.
LEMMA AtReduced ==
  ASSUME NEW p \in Nat, p > 1, NEW a \in [Coeffs -> Int], NEW x \in Nat
  PROVE  LET r == [k \in Coeffs |-> a[k] % p]
         IN  Small(r, p) /\ Cong(r[0], a[0], p) /\ Cong(At(r, x), At(a, x), p)
<1> DEFINE r == [k \in Coeffs |-> a[k] % p]
           f == [k \in Coeffs |-> r[k] * Power(x, k)]
           g == [k \in Coeffs |-> a[k] * Power(x, k)]
<1>1. ASSUME NEW k \in Coeffs PROVE r[k] \in 0..(p - 1) /\ r[k] \in Int /\ Cong(r[k], a[k], p)
  <2>1. p > 0 /\ a[k] \in Int /\ r[k] = a[k] % p
    OBVIOUS
  <2> HIDE DEF r
  <2>2. a[k] % p \in 0..(p - 1) /\ a[k] % p \in Int /\ Cong(a[k] % p, a[k], p)
    BY <2>1, CongMod
  <2>. QED
    BY <2>1, <2>2
<1>2. r \in [Coeffs -> Int] /\ Small(r, p)
  <2>1. \A k \in Coeffs : a[k] % p \in Int
    BY <1>1
  <2>2. r \in [Coeffs -> Int]
    BY <2>1
  <2>3. \A k \in Coeffs : -p < r[k] /\ r[k] < p
    <3> HIDE DEF r
    <3>. QED
      BY <1>1
  <2>. QED
    BY <2>2, <2>3 DEF Small
<1>3. At(r, x) = SumTo(f, N) /\ At(a, x) = SumTo(g, N)
  BY DEF At
<1> HIDE DEF r
<1>4. ASSUME NEW k \in 0..(N - 1) PROVE f[k] \in Int /\ g[k] \in Int /\ Cong(f[k], g[k], p)
  <2>1. k \in Coeffs /\ Power(x, k) \in Int
    BY AtFacts
  <2>2. f[k] = r[k] * Power(x, k) /\ g[k] = a[k] * Power(x, k)
    BY <2>1
  <2> DEFINE u == Power(x, k)
  <2>3. Cong(u, u, p) /\ u \in Int /\ r[k] \in Int /\ a[k] \in Int /\ Cong(r[k], a[k], p)
    <3>1. u \in Int
      BY <2>1
    <3> HIDE DEF u
    <3>2. Cong(u, u, p)
      BY <3>1, CongFacts
    <3>. QED
      BY <1>1, <2>1, <3>1, <3>2
  <2> HIDE DEF f, g
  <2>4. r[k] * u \in Int /\ a[k] * u \in Int /\ Cong(r[k] * u, a[k] * u, p)
    BY <2>3, CongRules
  <2>. QED
    BY <2>2, <2>4
<1> HIDE DEF f, g
<1>5. Cong(SumTo(f, N), SumTo(g, N), p)
  BY <1>4, Sizes, CongSum
<1>. QED
  BY <1>1, <1>2, <1>3, <1>5, Sizes DEF r

\* The lanes of a prime.
LEMMA LaneTerm ==
  ASSUME NEW l \in Lane, NEW k \in Keys, NEW x \in Vectors, NEW b, IsBasis(b), k = KeyOf(b),
         \A n \in Coeffs : ANtt[k][l][n] # 0, NEW n \in Coeffs
  PROVE  LET p == Prime(l)
             f == PreparedFactors(k)
             d == Ntt(x[2], p)
             dh == DHat(d, f.q00inv[l], p)
             eh == EHat(Ntt(x[1], p), dh, f.q01n[l], p)
             term == MulMod(MulMod(f.q00n[l][n], eh[n], p), Adj(eh)[n], p) + MulMod(dh[n], Adj(d)[n], p)
         IN  term \in Int /\ Cong(term, At(NormPoly(b, x[1], x[2]), Levels!RootAt(p, n)), p)
<1> DEFINE p == Prime(l)
           f == PreparedFactors(k)
           m == N - 1 - n
           qa == ANtt[k][l]
           qb == BNtt[k][l]
           inv == f.q00inv[l]
           wc == Ntt(x[1], p)
           wd == Ntt(x[2], p)
           dh == DHat(wd, inv, p)
           eh == EHat(wc, dh, qb, p)
           X == Levels!RootAt(p, n)
           Y == Levels!RootAt(p, m)
           V == NormPoly(b, x[1], x[2])
<1>1. p \in Primes /\ p \in Nat /\ p > 1 /\ p > 0
  BY PrimeFacts, TransformFacts
<1>2. Small(GramQ00(b), p) /\ Small(GramQ01(b), p) /\ Small(x[1], p) /\ Small(x[2], p)
  <2>1. k.q00 = GramQ00(b) /\ k.q01 = GramQ01(b)
    BY DEF KeyOf
  <2>. QED
    BY <2>1, TransformFacts
<1>3. qa = Ntt(GramQ00(b), p) /\ qb = Ntt(GramQ01(b), p) /\ f.q00n[l] = qa /\ f.q01n[l] = qb
      /\ inv = [j \in Coeffs |-> InverseOf(qa[j], p)]
  BY DEF KeyOf, ANtt, BNtt, PreparedFactors
<1>4. m \in Coeffs /\ N - 1 - m = n /\ X \in Nat /\ Y \in Nat /\ Opposite(X, Y, p)
  <2>1. m \in Coeffs /\ X \in Nat /\ Y \in Nat /\ Cong(Power(X, N), -1, p) /\ Cong(X * Y, 1, p)
    BY <1>1, RootFacts
  <2>2. N - 1 - m = n
    BY Sizes DEF Coeffs
  <2> HIDE DEF m, p
  <2>3. Cong(Power(Y, N), -1, p) /\ Cong(Y * X, 1, p)
    BY <1>1, <2>1, <2>2, RootFacts
  <2>. QED
    BY <2>1, <2>2, <2>3 DEF Opposite
<1>5. ASSUME NEW j \in Coeffs
      PROVE  /\ qa[j] \in Nat /\ qb[j] \in Nat /\ wc[j] \in Nat /\ wd[j] \in Nat
             /\ Cong(qa[j], At(GramQ00(b), Levels!RootAt(p, j)), p)
             /\ Cong(qb[j], At(GramQ01(b), Levels!RootAt(p, j)), p)
             /\ Cong(wc[j], At(x[1], Levels!RootAt(p, j)), p)
             /\ Cong(wd[j], At(x[2], Levels!RootAt(p, j)), p)
  <2> HIDE DEF p, qa, qb
  <2>1. qa[j] \in Nat /\ Cong(qa[j], At(GramQ00(b), Levels!RootAt(p, j)), p)
    BY <1>1, <1>2, <1>3, NttAt
  <2>2. qb[j] \in Nat /\ Cong(qb[j], At(GramQ01(b), Levels!RootAt(p, j)), p)
    BY <1>1, <1>2, <1>3, NttAt
  <2>3. wc[j] \in Nat /\ Cong(wc[j], At(x[1], Levels!RootAt(p, j)), p)
    BY <1>1, <1>2, NttAt
  <2>4. wd[j] \in Nat /\ Cong(wd[j], At(x[2], Levels!RootAt(p, j)), p)
    BY <1>1, <1>2, NttAt
  <2>. QED
    BY <2>1, <2>2, <2>3, <2>4
<1>6. ASSUME NEW j \in Coeffs
      PROVE  inv[j] \in Nat /\ MulMod(qa[j], inv[j], p) = 1
  <2>1. qa[j] \in 1..(p - 1)
    <3>1. qa[j] \in 0..(p - 1) /\ qa[j] # 0
      BY TransformFacts
    <3> HIDE DEF qa, p
    <3>. QED
      BY <1>1, <3>1
  <2>2. IsInverse(qa[j], InverseOf(qa[j], p), p)
    BY <2>1, InverseOfIs
  <2>3. inv[j] = InverseOf(qa[j], p)
    BY <1>3
  <2>. QED
    BY <1>1, <2>2, <2>3 DEF IsInverse
<1>7. ASSUME NEW j \in Coeffs
      PROVE  dh[j] = MulMod(wd[j], inv[j], p) /\ eh[j] = wc[j] + MulMod(dh[j], qb[j], p)
  BY DEF DHat, EHat
<1>8. Adj(eh)[n] = eh[m] /\ Adj(wd)[n] = wd[m]
  BY DEF Adj
<1> HIDE DEF p, qa, qb, inv, wc, wd, dh, eh, V, f
<1>9. ASSUME NEW j \in Coeffs
      PROVE  /\ dh[j] \in Nat /\ eh[j] \in Nat /\ Cong(qa[j] * dh[j], wd[j], p)
             /\ Cong(eh[j], wc[j] + dh[j] * qb[j], p)
  <2> DEFINE a1 == qa[j]
             a2 == qb[j]
             a3 == wc[j]
             a4 == wd[j]
             a5 == inv[j]
  <2>1. a1 \in Nat /\ a2 \in Nat /\ a3 \in Nat /\ a4 \in Nat /\ a5 \in Nat /\ MulMod(a1, a5, p) = 1
    BY <1>5, <1>6
  <2>2. dh[j] = MulMod(a4, a5, p) /\ eh[j] = a3 + MulMod(MulMod(a4, a5, p), a2, p)
    BY <1>7
  <2> HIDE DEF a1, a2, a3, a4, a5
  <2>3. /\ MulMod(a4, a5, p) \in Nat /\ a3 + MulMod(MulMod(a4, a5, p), a2, p) \in Nat
        /\ Cong(a1 * MulMod(a4, a5, p), a4, p)
        /\ Cong(a3 + MulMod(MulMod(a4, a5, p), a2, p), a3 + MulMod(a4, a5, p) * a2, p)
    BY <1>1, <2>1, SlotFacts
  <2>. QED
    BY <2>2, <2>3 DEF a1, a2, a3, a4, a5
<1> DEFINE A == qa[n]
           A1 == qa[m]
           B == qb[n]
           B1 == qb[m]
           C == wc[n]
           C1 == wc[m]
           D == wd[n]
           D1 == wd[m]
           H == dh[n]
           H1 == dh[m]
           E == eh[n]
           E1 == eh[m]
           R == (A * (C + H * B)) * (C1 + H1 * B1) + H * D1
<1>10. /\ A \in Nat /\ A1 \in Nat /\ B \in Nat /\ B1 \in Nat /\ C \in Nat /\ C1 \in Nat /\ D \in Nat /\ D1 \in Nat
       /\ H \in Nat /\ H1 \in Nat /\ E \in Nat /\ E1 \in Nat
  BY <1>4, <1>5, <1>9
<1>11. Cong(R, At(V, X), p)
  <2>1. x[1] \in [Coeffs -> Int] /\ x[2] \in [Coeffs -> Int]
    BY <1>2 DEF Small
  <2>2. /\ Cong(A, At(GramQ00(b), X), p) /\ Cong(A1, At(GramQ00(b), Y), p)
        /\ Cong(B, At(GramQ01(b), X), p) /\ Cong(B1, At(GramQ01(b), Y), p)
        /\ Cong(C, At(x[1], X), p) /\ Cong(C1, At(x[1], Y), p)
        /\ Cong(D, At(x[2], X), p) /\ Cong(D1, At(x[2], Y), p)
    BY <1>4, <1>5
  <2>3. Cong(A * H, D, p) /\ Cong(A1 * H1, D1, p)
    BY <1>4, <1>9
  <2>4. /\ A \in Int /\ A1 \in Int /\ B \in Int /\ B1 \in Int /\ C \in Int /\ C1 \in Int /\ D \in Int /\ D1 \in Int
        /\ H \in Int /\ H1 \in Int
    BY <1>10
  <2> HIDE DEF A, A1, B, B1, C, C1, D, D1, H, H1, X, Y
  <2>. QED
    BY <1>1, <1>4, <2>1, <2>2, <2>3, <2>4, LaneNorm DEF V
<1>12. Cong(E, C + H * B, p) /\ Cong(E1, C1 + H1 * B1, p)
  BY <1>4, <1>9
<1> DEFINE u == MulMod(A, E, p)
           v == MulMod(u, E1, p)
           t == MulMod(H, D1, p)
<1> HIDE DEF A, A1, B, B1, C, C1, D, D1, H, H1, E, E1, X, Y
<1>13. u \in Nat /\ t \in Nat /\ Cong(u, A * E, p) /\ Cong(t, H * D1, p)
  BY <1>1, <1>10, CongMulMod
<1> HIDE DEF u, t
<1>14. v \in Nat /\ Cong(v, u * E1, p)
  BY <1>1, <1>10, <1>13, CongMulMod
<1> HIDE DEF v
<1>15. /\ A * E \in Int /\ H * D1 \in Int /\ u * E1 \in Int /\ C + H * B \in Int /\ C1 + H1 * B1 \in Int
       /\ A * (C + H * B) \in Int /\ (A * (C + H * B)) * (C1 + H1 * B1) \in Int /\ R \in Int
       /\ A \in Int /\ E \in Int /\ E1 \in Int /\ u \in Int /\ v \in Int /\ t \in Int
  BY <1>10, <1>13, <1>14, Z3
<1>16. Cong(u, A * (C + H * B), p)
  <2>1. Cong(A, A, p)
    BY <1>1, <1>15, CongFacts
  <2>2. Cong(A * E, A * (C + H * B), p)
    BY <1>1, <1>12, <1>15, <2>1, CongRules
  <2>. QED
    BY <1>1, <1>13, <1>15, <2>2, CongFacts
<1>17. Cong(v, (A * (C + H * B)) * (C1 + H1 * B1), p)
  <2>1. Cong(u * E1, (A * (C + H * B)) * (C1 + H1 * B1), p)
    BY <1>1, <1>12, <1>15, <1>16, CongRules
  <2>. QED
    BY <1>1, <1>14, <1>15, <2>1, CongFacts
<1>18. Cong(v + t, R, p) /\ v + t \in Int
  BY <1>1, <1>13, <1>15, <1>17, CongRules
<1>19. At(V, X) \in Int
  <2>1. x[1] \in [Coeffs -> Int] /\ x[2] \in [Coeffs -> Int]
    BY <1>2 DEF Small
  <2>2. V \in [Coeffs -> Int]
    BY <2>1, NormPolyFacts DEF V
  <2>. QED
    BY <1>4, <2>2, AtFacts
<1>20. Cong(v + t, At(V, X), p)
  BY <1>1, <1>11, <1>15, <1>18, <1>19, CongFacts
<1>21. v + t = MulMod(MulMod(f.q00n[l][n], eh[n], p), Adj(eh)[n], p) + MulMod(dh[n], Adj(wd)[n], p)
  BY <1>3, <1>8 DEF v, u, t, A, E, E1, H, D1
<1>22. dh = DHat(Ntt(x[2], p), f.q00inv[l], p) /\ eh = EHat(Ntt(x[1], p), dh, f.q01n[l], p)
  BY <1>3 DEF dh, eh, inv, wc, wd
<1>. QED
  BY <1>18, <1>20, <1>21, <1>22 DEF p, f, wd, V, X

\* The sum of the lanes is N times the constant coefficient of the norm.
LEMMA LaneResidue ==
  ASSUME NEW l \in Lane, NEW k \in Keys, NEW x \in Vectors, NEW b, IsBasis(b), k = KeyOf(b),
         \A n \in Coeffs : ANtt[k][l][n] # 0
  PROVE  LET f == PreparedFactors(k)
         IN  QnormPrepared(f.q00n[l], f.q00inv[l], f.q01n[l], x[1], x[2], Prime(l))
               = (N * LatticeNorm(b, x[1], x[2])) % Prime(l)
<1> DEFINE p == Prime(l)
           f == PreparedFactors(k)
           d == Ntt(x[2], p)
           dh == DHat(d, f.q00inv[l], p)
           eh == EHat(Ntt(x[1], p), dh, f.q01n[l], p)
           term(n) == MulMod(MulMod(f.q00n[l][n], eh[n], p), Adj(eh)[n], p) + MulMod(dh[n], Adj(d)[n], p)
           T == [n \in Coeffs |-> term(n)]
           V == NormPoly(b, x[1], x[2])
           r == [n \in Coeffs |-> V[n] % p]
           g == Ntt(r, p)
           M == LatticeNorm(b, x[1], x[2])
<1>1. p \in Primes /\ p \in Nat /\ p > 1 /\ p > 0
  BY PrimeFacts, TransformFacts
<1>2. V \in [Coeffs -> Int] /\ V[0] = M /\ M \in Nat
  <2>1. x[1] \in [Coeffs -> Int] /\ x[2] \in [Coeffs -> Int]
    BY TransformFacts DEF Small
  <2>. QED
    BY <2>1, NormPolyFacts
<1>3. QnormPrepared(f.q00n[l], f.q00inv[l], f.q01n[l], x[1], x[2], p) = SumTo(T, N) % p
  BY DEF QnormPrepared, QnormSum
<1>4. ASSUME NEW n \in Coeffs
      PROVE  term(n) \in Int /\ Cong(term(n), At(V, Levels!RootAt(p, n)), p)
  BY LaneTerm
<1> HIDE DEF p, f, d, dh, eh, term, V, M
<1>5. Small(r, p) /\ Cong(r[0], V[0], p)
  BY <1>1, <1>2, AtReduced
<1>6. ASSUME NEW n \in Coeffs
      PROVE  /\ At(V, Levels!RootAt(p, n)) \in Int /\ At(r, Levels!RootAt(p, n)) \in Int
             /\ Cong(At(r, Levels!RootAt(p, n)), At(V, Levels!RootAt(p, n)), p)
  <2>1. Levels!RootAt(p, n) \in Nat
    BY <1>1, RootFacts
  <2>2. Cong(At(r, Levels!RootAt(p, n)), At(V, Levels!RootAt(p, n)), p)
    BY <1>1, <1>2, <2>1, AtReduced
  <2>3. r \in [Coeffs -> Int]
    BY <1>5 DEF Small
  <2> HIDE DEF r
  <2>4. At(V, Levels!RootAt(p, n)) \in Int /\ At(r, Levels!RootAt(p, n)) \in Int
    BY <1>2, <2>1, <2>3, AtFacts
  <2>. QED
    BY <2>2, <2>4 DEF r
<1> HIDE DEF r
<1>7. ASSUME NEW n \in 0..(N - 1)
      PROVE  T[n] \in Int /\ g[n] \in Int /\ Cong(T[n], g[n], p)
  <2>1. n \in Coeffs
    BY Sizes DEF Coeffs
  <2>2. T[n] = term(n)
    BY <2>1
  <2> DEFINE v == At(V, Levels!RootAt(p, n))
             u == At(r, Levels!RootAt(p, n))
  <2>3. g[n] \in Nat /\ Cong(g[n], u, p)
    BY <1>1, <1>5, <2>1, NttAt
  <2>4. u \in Int /\ v \in Int /\ Cong(u, v, p)
    BY <1>6, <2>1
  <2>5. T[n] \in Int /\ Cong(T[n], v, p)
    BY <1>4, <2>1, <2>2
  <2> DEFINE y == g[n]
             z == T[n]
  <2>6. y \in Int /\ z \in Int /\ Cong(y, u, p) /\ Cong(z, v, p)
    BY <2>3, <2>5
  <2> HIDE DEF u, v, y, z
  <2>7. Cong(v, u, p)
    BY <1>1, <2>4, CongFacts
  <2>8. Cong(u, y, p)
    BY <1>1, <2>4, <2>6, CongFacts
  <2>9. Cong(z, u, p)
    BY <1>1, <2>4, <2>6, <2>7, CongFacts
  <2>10. Cong(z, y, p)
    BY <1>1, <2>4, <2>6, <2>8, <2>9, CongFacts
  <2>. QED
    BY <2>6, <2>10 DEF y, z
<1>8. SumTo(g, N) \in Int /\ Cong(SumTo(g, N), N * r[0], p)
  BY <1>1, <1>5, NttFacts
<1> HIDE DEF T, g
<1>9. Cong(SumTo(T, N), SumTo(g, N), p) /\ SumTo(T, N) \in Int
  BY <1>1, <1>7, Sizes, CongSum
<1>10. Cong(N * r[0], N * M, p) /\ N * r[0] \in Int /\ N * M \in Int
  <2>1. r[0] \in Int /\ M \in Int /\ N \in Int /\ Cong(r[0], M, p)
    BY <1>2, <1>5, Sizes DEF Small
  <2>2. Cong(N, N, p)
    BY <1>1, <2>1, CongFacts
  <2>. QED
    BY <1>1, <2>1, <2>2, CongRules
<1>11. Cong(SumTo(T, N), N * M, p)
  <2>1. Cong(SumTo(T, N), N * r[0], p)
    BY <1>1, <1>8, <1>9, <1>10, CongFacts
  <2>. QED
    BY <1>1, <1>9, <1>10, <2>1, CongFacts
<1>12. SumTo(T, N) % p = (N * M) % p
  BY <1>1, <1>9, <1>10, <1>11, CongMod
<1>. QED
  BY <1>3, <1>12 DEF p, f, M

\* The primes are different, so neither divides the other,
LEMMA PrimesCoprime ==
  ASSUME NEW a \in Nat, NEW b \in Nat, P1 * a = P2 * b, a < P2
  PROVE  a = 0
<1> DEFINE s == P1 % P2
           q == P1 \div P2
<1>1. /\ P1 \in Nat /\ P1 > 1 /\ P2 \in Nat /\ P2 > 1 /\ P1 # P2
      /\ NoZeroDivisors(P1) /\ NoZeroDivisors(P2)
  BY PrimesAssumption, LimitAssumption
<1>2. q \in Int /\ s \in 0..(P2 - 1) /\ P1 = P2 * q + s
  BY <1>1, DivMod
<1> HIDE DEF q, s
<1>3. s # 0
  <2>1. SUFFICES ASSUME s = 0 PROVE FALSE
    OBVIOUS
  <2>2. P1 = P2 * q /\ q \in Int
    BY <1>1, <1>2, <2>1, Z3
  <2>3. q > 0
    BY <1>1, <2>2, Z3
  <2>4. q # 1
    BY <1>1, <2>2
  <2>5. q \in 1..(P1 - 1) /\ P2 \in 1..(P1 - 1)
    <3>1. q < P2 * q /\ P2 < P2 * q
      BY <1>1, <2>2, <2>3, <2>4, Z3
    <3>. QED
      BY <1>1, <2>2, <2>3, <3>1
  <2>6. (P2 * q) % P1 = 0
    BY <1>1, <2>2
  <2>. QED
    BY <1>1, <2>5, <2>6 DEF NoZeroDivisors, MulMod
<1>4. (s * a) % P2 = (P1 * a) % P2
  <2>1. P2 \in Nat /\ P2 > 0 /\ P1 \in Nat /\ a \in Nat
    BY <1>1
  <2>2. ((P1 % P2) * a) % P2 = (P1 * a) % P2
    BY <2>1, MulModReduce, Zenon
  <2>. QED
    BY <2>2 DEF s
<1>5. (P1 * a) % P2 = 0
  <2>1. (P2 * b + 0) % P2 = 0 /\ P2 * b \in Int /\ P2 * b + 0 = P2 * b
    <3>1. P2 * b \in Int
      BY <1>1, Z3
    <3>2. 0 \in 0..(P2 - 1) /\ b \in Int /\ P2 > 0
      BY <1>1
    <3>3. (P2 * b + 0) % P2 = 0
      BY <1>1, <3>2, ModUnique
    <3>. QED
      BY <3>1, <3>3
  <2>. QED
    BY <2>1
<1>6. MulMod(s, a, P2) = 0
  BY <1>4, <1>5 DEF MulMod
<1>7. a # 0 => a \in 1..(P2 - 1) /\ s \in 1..(P2 - 1)
  BY <1>1, <1>2, <1>3
<1>. QED
  BY <1>1, <1>6, <1>7 DEF NoZeroDivisors

\* and two residues tell a norm within their reach.
LEMMA BoundIsNorm ==
  ASSUME NEW norm \in Nat, N * norm < P1 * P2
  PROVE  BoundHolds((N * norm) % P1, (N * norm) % P2) <=> NormScale * norm <= NormLimit
<1> DEFINE M == N * norm
           r == M % P1
           a == M \div P1
           b == M \div P2
           lim == NormLimit \div NormScale
<1>1. /\ P1 \in Nat /\ P1 > 1 /\ P2 \in Nat /\ P2 > 1 /\ NormScale \in Nat /\ NormScale > 0 /\ NormLimit \in Nat
      /\ N * lim < P1 /\ N * lim < P2 /\ N \in Nat /\ N > 0
  BY PrimesAssumption, LimitAssumption, Sizes DEF Primes
<1>2. M \in Nat
  BY <1>1, Z3
<1>3. lim \in Int /\ NormLimit = NormScale * lim + (NormLimit % NormScale) /\ NormLimit % NormScale \in 0..(NormScale - 1)
  BY <1>1, DivMod
<1>4. M % N = 0 /\ M \div N = norm
  <2>1. 0 \in 0..(N - 1) /\ norm \in Int /\ N * norm + 0 = M
    <3> HIDE DEF M
    <3>1. M + 0 = M
      BY <1>2
    <3>. QED
      BY <1>1, <3>1 DEF M
  <2>2. (N * norm + 0) \div N = norm /\ (N * norm + 0) % N = 0
    BY <1>1, <2>1, DivUnique
  <2>. QED
    BY <2>1, <2>2
<1>5. ASSUME NormScale * norm <= NormLimit PROVE BoundHolds(M % P1, M % P2)
  <2>1. norm <= lim
    <3> DEFINE z == NormLimit % NormScale
    <3> HIDE DEF lim, z, M
    <3>1. NormScale * norm <= NormScale * lim + z /\ z < NormScale /\ z \in Int
      BY <1>1, <1>3, <1>5 DEF z
    <3>2. ASSUME lim + 1 <= norm PROVE FALSE
      <4>1. NormScale * (lim + 1) <= NormScale * norm /\ NormScale * (lim + 1) = NormScale * lim + NormScale
        BY <1>1, <1>3, <3>2, Z3
      <4> DEFINE u == NormScale * lim
                 v == NormScale * norm
                 o == NormScale * (lim + 1)
      <4>2. u \in Int /\ v \in Int /\ o \in Int
        BY <1>1, <1>3, Z3
      <4>3. v <= u + z /\ o <= v /\ o = u + NormScale
        BY <3>1, <4>1
      <4> HIDE DEF u, v, o
      <4>. QED
        BY <1>1, <3>1, <4>2, <4>3
    <3>. QED
      BY <1>3, <3>2
  <2>2. M <= N * lim
    <3> HIDE DEF lim
    <3>. QED
      BY <1>1, <1>3, <2>1, Z3
  <2> HIDE DEF M
  <2>3. M < P1 /\ M < P2
    <3>1. N * lim \in Int
      <4> HIDE DEF lim
      <4>. QED
        BY <1>1, <1>3, Z3
    <3> DEFINE u == N * lim
    <3> HIDE DEF u
    <3>2. M <= u /\ u < P1 /\ u < P2 /\ u \in Int
      BY <1>1, <2>2, <3>1 DEF u
    <3>. QED
      BY <1>1, <1>2, <3>2
  <2>4. M % P1 = M /\ M % P2 = M
    BY <1>1, <1>2, <2>3
  <2>. QED
    BY <1>4, <1>5, <2>4 DEF BoundHolds
<1>6. ASSUME BoundHolds(M % P1, M % P2) PROVE NormScale * norm <= NormLimit
  <2>1. r = M % P2 /\ r % N = 0 /\ NormScale * (r \div N) <= NormLimit
    BY <1>6 DEF BoundHolds
  <2> HIDE DEF M
  <2>2. a \in Int /\ r \in 0..(P1 - 1) /\ M = P1 * a + r
    BY <1>1, <1>2, DivMod
  <2>3. b \in Int /\ M = P2 * b + r
    <3>1. b \in Int /\ M = P2 * b + (M % P2)
      BY <1>1, <1>2, DivMod
    <3>. QED
      BY <2>1, <3>1
  <2>4. M < P1 * P2
    BY DEF M
  <2> HIDE DEF a, b, r
  <2>5. a >= 0 /\ a < P2
    <3>1. r \in Int /\ 0 <= r /\ r < P1
      BY <1>1, <2>2
    <3>2. a >= 0
      <4>1. ASSUME a <= -1 PROVE FALSE
        <5>1. P1 * a <= -P1 /\ P1 * a \in Int
          BY <1>1, <2>2, <4>1, Z3
        <5> DEFINE u == P1 * a
        <5> HIDE DEF u
        <5>2. M = u + r /\ u <= -P1 /\ u \in Int
          BY <2>2, <5>1 DEF u
        <5>. QED
          BY <1>1, <1>2, <3>1, <5>2
      <4>. QED
        BY <2>2, <4>1
    <3>3. ASSUME P2 <= a PROVE FALSE
      <4>1. P1 * P2 <= P1 * a /\ P1 * a \in Int /\ P1 * P2 \in Int
        BY <1>1, <2>2, <3>3, Z3
      <4> DEFINE u == P1 * a
                 v == P1 * P2
      <4> HIDE DEF u, v
      <4>2. M = u + r /\ v <= u /\ M < v /\ u \in Int /\ v \in Int
        BY <2>2, <2>4, <4>1 DEF u, v
      <4>. QED
        BY <1>2, <3>1, <4>2
    <3>. QED
      BY <1>1, <2>2, <3>2, <3>3
  <2>6. P1 * a = P2 * b /\ b >= 0
    <3> DEFINE u == P1 * a
               v == P2 * b
    <3>1. u \in Int /\ v \in Int
      BY <1>1, <2>2, <2>3, Z3
    <3>2. M = u + r /\ M = v + r /\ r \in Int
      BY <1>1, <2>2, <2>3
    <3>3. u = v
      <4> HIDE DEF u, v
      <4>. QED
        BY <3>1, <3>2
    <3>4. u >= 0
      BY <1>1, <2>2, <2>5, Z3
    <3>5. b >= 0
      <4>1. P2 * b >= 0
        BY <3>3, <3>4
      <4>. QED
        BY <1>1, <2>3, <4>1, Z3
    <3>. QED
      BY <3>3, <3>5
  <2>7. a = 0
    <3>1. a \in Nat /\ b \in Nat
      BY <2>2, <2>3, <2>5, <2>6
    <3>. QED
      BY <2>5, <2>6, <3>1, PrimesCoprime
  <2>8. M = r
    <3>1. P1 * a = 0
      BY <1>1, <2>7
    <3>. QED
      BY <1>1, <2>2, <3>1
  <2>. QED
    BY <1>4, <2>1, <2>8
<1>. QED
  BY <1>5, <1>6

\* The direct verifier accepts exactly the lattice vectors that are short enough.
THEOREM AcceptsShortVectors == Spec => []MeasuresNorm
<1>1. ASSUME TypeOK, SameAsPrepared PROVE MeasuresNorm
  <2>1. SUFFICES ASSUME pc = "done", NEW b \in Bases, key = KeyOf(b), Invertible(key),
                        N * LatticeNorm(b, w[1], w[2]) < P1 * P2
                 PROVE  verdict <=> NormScale * LatticeNorm(b, w[1], w[2]) <= NormLimit
    BY DEF MeasuresNorm
  <2> DEFINE norm == LatticeNorm(b, w[1], w[2])
             f == PreparedFactors(key)
             r(l) == QnormPrepared(f.q00n[l], f.q00inv[l], f.q01n[l], w[1], w[2], Prime(l))
  <2>2. key \in Keys /\ w \in Vectors /\ IsBasis(b)
    BY <1>1, BasesAssumption DEF TypeOK
  <2>3. norm \in Nat
    <3>1. w[1] \in [Coeffs -> Int] /\ w[2] \in [Coeffs -> Int]
      <4>1. 1 \in Lane
        BY DEF Lane
      <4>. QED
        BY <2>2, <4>1, TransformFacts DEF Small
    <3>. QED
      BY <2>2, <3>1, NormPolyFacts
  <2>4. ASSUME NEW l \in Lane PROVE r(l) = (N * norm) % Prime(l)
    <3>1. \A n \in Coeffs : ANtt[key][l][n] # 0
      BY <2>1 DEF Invertible
    <3>. QED
      BY <2>1, <2>2, <3>1, LaneResidue
  <2>5. r(1) = (N * norm) % P1 /\ r(2) = (N * norm) % P2
    <3>1. 1 \in Lane /\ 2 \in Lane /\ Prime(1) = P1 /\ Prime(2) = P2
      BY DEF Lane, Prime
    <3> HIDE DEF r, norm
    <3>. QED
      BY <2>4, <3>1
  <2>6. verdict <=> BoundHolds(r(1), r(2))
    BY <1>1, <2>1 DEF SameAsPrepared, PreparedVerdict, QnormInBoundPrepared
  <2> HIDE DEF r
  <2>7. BoundHolds(r(1), r(2)) <=> NormScale * norm <= NormLimit
    <3>1. N * norm < P1 * P2
      BY <2>1
    <3> HIDE DEF norm
    <3>. QED
      BY <2>3, <2>5, <3>1, BoundIsNorm
  <2>. QED
    BY <2>6, <2>7
<1>2. IndInv => SameAsPrepared
  BY DEF IndInv
<1>. QED
  BY <1>1, <1>2, InvariantHolds, PTL
=============================================================================
