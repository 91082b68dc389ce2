----------------------------- MODULE NttLevels -----------------------------
(***************************************************************************)
(* ntt and ntt_conv (src/src/ntt.rs) as the loops they are: level, block   *)
(* and butterfly, in place, with u32 lanes, u64 intermediate values and    *)
(* the additive reductions left out on every other level.  ntt works on    *)
(* lanes the caller has reduced; ntt_conv reads its signed source in the   *)
(* first level and finds its lanes unset.                                  *)
(***************************************************************************)
EXTENDS NTT

CONSTANTS Sources,      \* signed polynomials that are transformed
          LANE, WORD    \* 2^32 and 2^64

\* What the code relies on: 2p fits a lane, and 2p * p and 3p a word.
ASSUME WidthAssumption ==
  /\ LANE \in Nat /\ WORD \in Nat
  /\ \A p \in Primes : /\ p \in Nat /\ p > 1
                       /\ 2 * p <= LANE /\ 3 * p <= WORD /\ 2 * p * p <= WORD

ASSUME SourcesAssumption == \A s \in Sources : Reducible(s)

VARIABLES p, src, conv,  \* the prime, the source, and whether ntt_conv runs
          f,             \* the lanes
          k,             \* the level
          wi, i, j,      \* index of the twiddle, of the block, in the block
          pc,
          entry          \* history: the lanes the level started with

vars == <<p, src, conv, f, k, wi, i, j, pc, entry>>

InitFrom(first) ==
  /\ p \in Primes /\ src \in Sources /\ conv \in BOOLEAN
  /\ f = IF conv THEN [n \in Coeffs |-> 0] ELSE NttInit(src, p)
  /\ k = 1 /\ wi = first /\ i = 0 /\ j = 0
  /\ pc = "block" /\ entry = NttInit(src, p)

\* Mutant: the twiddle counter starts behind the unused first entry.
InitSkipped == InitFrom(1)

Init == InitFrom(0)

Block ==
  /\ pc = "block" /\ i < N
  /\ wi' = wi + 1 /\ pc' = "butterfly"
  /\ UNCHANGED <<p, src, conv, f, k, i, j, entry>>

\* The first level of ntt_conv reduces the source as it reads it.
Read(n) == IF conv /\ k = 1 THEN Red(src[n], p) ELSE f[n]

Stored(v) == (IF IsLazy(k) THEN v ELSE v % p) % LANE

\* The upper lane times the twiddle, before its reduction and after it.
WordProduct == Read(i + j + Half(k)) * W[p][wi]
Twiddled == (WordProduct % WORD) % p

ButterflyAt(n, m) ==
  f' = [f EXCEPT ![n] = Stored((Read(n) + Twiddled) % WORD),
                 ![m] = Stored((Read(n) + p - Twiddled) % WORD)]

Butterfly ==
  /\ pc = "butterfly"
  /\ ButterflyAt(i + j, i + j + Half(k))
  /\ IF j + 1 < Half(k) THEN j' = j + 1 /\ UNCHANGED <<i, pc>>
                        ELSE j' = 0 /\ i' = i + 2 * Half(k) /\ pc' = "block"
  /\ UNCHANGED <<p, src, conv, k, wi, entry>>

LevelEnd(next) ==
  /\ pc = "block" /\ i >= N
  /\ wi' = next
  /\ k' = k + 1 /\ i' = 0 /\ entry' = f
  /\ pc' = IF k < LOGN THEN "block" ELSE "done"
  /\ UNCHANGED <<p, src, conv, f, j>>

\* Mutant: every level counts its twiddles from the start.
EndLevelRestarts == LevelEnd(0)

EndLevel == LevelEnd(wi)

Next == Block \/ Butterfly \/ EndLevel

\* A plain loop: it runs on until it returns.
Spec == Init /\ [][Next]_vars /\ WF_vars(Next)

(***************************************************************************)
(* Properties.                                                             *)
(***************************************************************************)

\* What the code asserts to the compiler: the twiddle read and the block slice
\* stay inside their arrays, over all levels.
AssertedInBounds ==
  pc = "butterfly" => wi \in 1..(N - 1) /\ i + 2 * Half(k) <= N /\ j < Half(k)

\* No product or sum of two lanes leaves a u64 and no stored value a u32,
\* although every other level stores unreduced sums.
NothingWraps ==
  pc = "butterfly" =>
    /\ WordProduct < WORD /\ Read(i + j) + p < WORD
    /\ IsLazy(k) => /\ Read(i + j) + Twiddled < LANE
                    /\ Read(i + j) + p - Twiddled < LANE

\* The powers of the root, which has order 2N.
RootPowers(q) ==
  LET power[e \in 0..(2 * N - 1)] == IF e = 0 THEN 1 ELSE (power[e - 1] * FindRoot(q)) % q
  IN  power

\* The result, reduced, is the source evaluated at the odd powers of the root,
\* which are the roots of X^N + 1, in bit-reversed order: the same for ntt and
\* for ntt_conv.
Evaluates ==
  pc = "done" =>
    LET power == RootPowers(p)
        term(e) == [n \in Coeffs |-> Red(src[n], p) * power[(e * n) % (2 * N)]]
    IN  \A n \in Coeffs : f[n] = SumTo(term(2 * BitRev(n, LOGN) + 1), N) % p

\* Each pass of the loops over the lanes is one level of NttByLevels.
ByLevels == INSTANCE NttByLevels WITH level <- k, g <- entry
ImplementsLevels == ByLevels!Spec
=============================================================================
