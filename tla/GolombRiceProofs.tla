-------------------------- MODULE GolombRiceProofs --------------------------
(***************************************************************************)
(* For every size of the code, of a byte and of the buffer: no index that  *)
(* decompress_gr asserts to the compiler leaves its array, what it accepts *)
(* is the encoding of what it returns, and it refuses no encoding.         *)
(*                                                                         *)
(* Indexes stay in bounds for the length check at the start, carried along *)
(* as LongEnough; the rest is arithmetic on products of two parameters.    *)
(* For the code, the invariant has each phase's part of every integer.     *)
(***************************************************************************)
EXTENDS GolombRice, ArithTheorems

LongEnough == pc \in {"low", "unary", "sign"} => LenBits >= K * (LOW + 2)

Control ==
  /\ pc \in {"start", "low", "unary", "sign", "some", "none"}
  /\ y \in Buffers
  /\ i \in 0..K /\ j \in Nat /\ z \in Nat
  /\ pc \in {"start", "low", "unary", "sign"} => i \in Items
  /\ pc \in {"unary", "sign", "some"} => j <= LenBits

IndInv == Control /\ LongEnough

\* Products of the parameters that z3 does not find on its own: the windows of
\* the low parts, and the start of the unary part, lie inside the minimum length.
LEMMA Products ==
  ASSUME NEW n \in Items
  PROVE  /\ K * (LOW + 1) \in Nat /\ K * (LOW + 2) \in Nat
         /\ Base(n) \in Nat
         /\ Base(n) + LOW <= K * (LOW + 1)
         /\ K * (LOW + 1) + K <= K * (LOW + 2)
<1> USE SizesAssumption DEF Items
<1>1. K \in Nat /\ K >= 1 /\ LOW \in Nat /\ LOW >= 1 /\ n \in Nat /\ n + 1 <= K
  OBVIOUS
<1>2. K * (LOW + 1) = K * LOW + K /\ K * (LOW + 2) = K * LOW + K + K
  BY <1>1
<1>3. (n + 1) * LOW = n * LOW + LOW
  BY <1>1
<1>4. (n + 1) * LOW <= K * LOW
  BY <1>1
<1>5. K * LOW \in Nat /\ n * LOW \in Nat
  BY <1>1
<1>6. Base(n) + LOW <= K * LOW + K
  BY <1>1, <1>3, <1>4, <1>5 DEF Base
<1>. QED
  BY <1>1, <1>2, <1>5, <1>6 DEF Base

\* A bit below the end of the buffer lies in one of its bytes.
LEMMA BitInBuffer ==
  ASSUME NEW b \in Nat, NEW bytes \in Nat, b < bytes * BYTE
  PROVE  b \div BYTE < bytes
<1>1. BYTE \in Nat /\ BYTE >= 1
  BY SizesAssumption
<1> DEFINE q == b \div BYTE
<1>2. q \in Nat /\ q * BYTE <= b
  BY <1>1
<1> HIDE DEF q
<1>3. CASE q >= bytes
  <2>1. q * BYTE >= bytes * BYTE
    BY <1>1, <1>2, <1>3
  <2>2. q * BYTE \in Int /\ bytes * BYTE \in Int
    BY <1>1, <1>2
  <2>. QED
    BY <1>2, <2>1, <2>2
<1>. QED
  BY <1>2, <1>3 DEF q

\* The length of a buffer is a number.
LEMMA LenType == ASSUME y \in Buffers PROVE y.bytes \in Nat /\ LenBits \in Nat
<1>1. y.bytes \in Nat /\ BYTE \in Nat
  BY BuffersAssumption, SizesAssumption
<1>. QED
  BY <1>1 DEF LenBits

\* The decoder starts with the invariant,
LEMMA InvInit == Init => IndInv
  BY SizesAssumption DEF Init, IndInv, Control, LongEnough, Items

\* A step of the decoder, whatever it makes of the low bits.
AnyStep == CheckLength \/ (\E v : LowStep(v)) \/ RunTooLong \/ UnaryBit \/ SignBit

\* and every step of it keeps it.
LEMMA InvStep == IndInv /\ [AnyStep]_vars => IndInv'
<1> SUFFICES ASSUME IndInv, [AnyStep]_vars PROVE IndInv'
  OBVIOUS
<1> USE SizesAssumption
<1>0. LenBits \in Nat /\ 0 \in Items
  BY LenType DEF IndInv, Control, Items
<1>1. K * (LOW + 1) \in Nat /\ K * (LOW + 2) \in Nat /\ K * (LOW + 1) <= K * (LOW + 2)
  BY <1>0, Products
<1>2. CASE CheckLength
  BY <1>0, <1>1, <1>2 DEF CheckLength, IndInv, Control, LongEnough, LenBits, Items
<1>3. CASE \E v : LowStep(v)
  BY <1>0, <1>1, <1>3 DEF LowStep, IndInv, Control, LongEnough, LenBits, Items
<1>4. CASE RunTooLong
  BY <1>4 DEF RunTooLong, TooLong, IndInv, Control, LongEnough
<1>5. CASE UnaryBit
  BY <1>0, <1>5 DEF UnaryBit, TooLong, IndInv, Control, LongEnough, LenBits, Items
<1>6. CASE SignBit
  BY <1>0, <1>6 DEF SignBit, SignStep, IndInv, Control, LongEnough, LenBits, Items
<1>7. CASE UNCHANGED vars
  BY <1>7 DEF vars, IndInv, Control, LongEnough, LenBits
<1>. QED
  BY <1>2, <1>3, <1>4, <1>5, <1>6, <1>7 DEF AnyStep

\* The invariant holds every asserted index inside its array.
LEMMA InvInBounds == IndInv => InBounds
<1> SUFFICES ASSUME IndInv PROVE InBounds
  OBVIOUS
<1> USE DEF IndInv, Control
<1>0. LenBits \in Nat /\ y.bytes \in Nat
  BY LenType
<1>1. pc \in {"low", "unary", "sign"} => i \in Items
  OBVIOUS
<1>2. ASSUME pc = "low" PROVE Base(i) \div BYTE < y.bytes /\ Base(i) + LOW <= LenBits
  <2>1. /\ Base(i) \in Nat /\ Base(i) + LOW <= K * (LOW + 1)
        /\ K * (LOW + 1) + K <= K * (LOW + 2)
        /\ K * (LOW + 1) \in Nat /\ K * (LOW + 2) \in Nat
    BY <1>1, <1>2, Products
  <2>2. Base(i) + LOW <= LenBits /\ Base(i) < LenBits
    BY <1>0, <1>2, <2>1, SizesAssumption DEF LongEnough
  <2>. QED
    BY <1>0, <2>1, <2>2, BitInBuffer DEF LenBits
<1>3. pc = "unary" => j >= 0 /\ j <= LenBits
  OBVIOUS
<1>4. ASSUME pc = "sign" PROVE i < LenBits
  <2>1. /\ K * (LOW + 1) \in Nat /\ K * (LOW + 1) + K <= K * (LOW + 2)
        /\ K * (LOW + 2) \in Nat
    BY <1>1, <1>4, Products
  <2>2. i < K /\ i \in Nat
    BY <1>1, <1>4, SizesAssumption DEF Items
  <2>. QED
    BY <1>0, <1>4, <2>1, <2>2, SizesAssumption DEF LongEnough
<1>. QED
  BY <1>1, <1>2, <1>3, <1>4 DEF InBounds

\* InBounds, for every K, LOW, HIGH, width of a byte and set of buffers: each
\* index that decompress_gr asserts to be in range is.
THEOREM IndexesInBounds == Spec => []InBounds
<1>1. Next => AnyStep
  BY DEF Next, AnyStep, LowBits
<1>2. Spec => []IndInv
  BY <1>1, InvInit, InvStep, PTL DEF Spec
<1>. QED
  BY <1>2, InvInBounds, PTL

-----------------------------------------------------------------------------
(***************************************************************************)
(* What the decoder returns.  Each integer that a phase has dealt with is  *)
(* described by the bits that encode it, so that at the end the buffer     *)
(* starts with the encoding of out.                                        *)
(***************************************************************************)

LowBitsRight(n) ==
  \A t \in 0..(LOW - 1) : y.bits[K + n * LOW + t] = (Magnitude(out[n]) \div Pow2(t)) % 2

RunRight(n) == /\ y.bits[End(out, n) - 1] = 1
               /\ \A q \in 2..(Run(out[n]) + 1) : y.bits[End(out, n) - q] = 0

SignRight(n) == y.bits[n] = (IF out[n] < 0 THEN 1 ELSE 0)

LowDone == \A n \in Items : n < i => out[n] \in 0..(Pow2(LOW) - 1) /\ LowBitsRight(n)

RunsDone == /\ \A n \in Items : /\ out[n] \in Nat /\ LowBitsRight(n)
                                /\ n >= i => out[n] < Pow2(LOW)
                                /\ n < i => out[n] < Pow2(HIGH) /\ RunRight(n)
            /\ z <= ZMax
            /\ j = End(out, i - 1) + z
            /\ \A q \in 1..z : y.bits[j - q] = 0

SignsDone == /\ \A n \in Items : /\ Magnitude(out[n]) < Pow2(HIGH) /\ LowBitsRight(n) /\ RunRight(n)
                                 /\ IF pc = "some" \/ n < i THEN SignRight(n) ELSE out[n] >= 0
             /\ j = End(out, K - 1)

Decoded ==
  /\ out \in [Items -> Int]
  /\ pc = "start" => i = 0
  /\ pc \in {"start", "low"} => z = 0
  /\ pc = "low" => LowDone
  /\ pc = "unary" => RunsDone
  /\ pc \in {"sign", "some"} => SignsDone

\* Whatever tuple the buffer starts with, the unary phase follows its runs.
OnTrack(x) ==
  /\ pc = "unary" => z <= Run(x[i]) /\ j = End(x, i - 1) + z
  /\ pc \in {"sign", "some"} => j = End(x, K - 1)
  /\ pc # "none"

Faithful == \A x \in Encodable : StartsWithCode(x) => OnTrack(x)

\* The sizes, as the provers use them.
LEMMA Sizes == /\ LOW \in Nat /\ HIGH \in Nat /\ K \in Nat /\ K >= 1
               /\ Pow2(LOW) \in Nat /\ Pow2(LOW) > 0
               /\ ZMax \in Nat /\ ZMax > 0
               /\ Pow2(HIGH) = Pow2(LOW) * ZMax
<1>1. LOW \in Nat /\ HIGH \in Nat /\ HIGH - LOW \in Nat /\ LOW + (HIGH - LOW) = HIGH /\ K \in Nat /\ K >= 1
  BY SizesAssumption
<1>2. Pow2(LOW + (HIGH - LOW)) = Pow2(LOW) * Pow2(HIGH - LOW)
  BY <1>1, Pow2Sum
<1>. QED
  BY <1>1, <1>2, Pow2Facts DEF ZMax

\* A magnitude and its high part are naturals; a sign bit leaves both alone.
LEMMA RunType ==
  ASSUME NEW v \in Int
  PROVE  /\ Magnitude(v) \in Nat /\ Run(v) \in Nat
         /\ Magnitude(-v - 1) = Magnitude(v) /\ Run(-v - 1) = Run(v)
<1>1. Magnitude(v) \in Nat /\ Magnitude(-v - 1) = Magnitude(v)
  BY DEF Magnitude
<1>2. Run(v) \in Nat
  BY <1>1, Sizes DEF Run
<1>. QED
  BY <1>1, <1>2 DEF Run

\* A number below Pow2(LOW) and a run of length r make an integer of run r,
\* with the bits of the number, below Pow2(HIGH) when the run is short enough.
LEMMA RunAdded ==
  ASSUME NEW a \in 0..(Pow2(LOW) - 1), NEW r \in Nat
  PROVE  LET v == a + r * Pow2(LOW)
         IN  /\ v \in Nat /\ Magnitude(v) = v /\ Run(v) = r
             /\ \A t \in 0..(LOW - 1) : (v \div Pow2(t)) % 2 = (a \div Pow2(t)) % 2
             /\ r < ZMax => v < Pow2(HIGH)
<1> DEFINE d == Pow2(LOW)
           v == a + r * d
           m == r * d
<1>1. d \in Nat /\ d > 0 /\ a \in 0..(d - 1)
  BY Sizes
<1>2. m \in Nat
  <2> HIDE DEF d
  <2>. QED
    BY <1>1, Z3
<1>3. v \in Nat /\ Magnitude(v) = v
  <2>1. a + m \in Nat
    <3> HIDE DEF m
    <3>. QED
      BY <1>1, <1>2
  <2>. QED
    BY <2>1 DEF Magnitude
<1>4. Run(v) = r
  <2>1. v = d * r + a
    <3> HIDE DEF d
    <3>. QED
      BY <1>1, Z3
  <2> HIDE DEF d, v
  <2>2. (d * r + a) \div d = r
    BY <1>1, DivUnique
  <2>. QED
    BY <1>3, <2>1, <2>2 DEF Run, d
<1>5. ASSUME NEW t \in 0..(LOW - 1) PROVE (v \div Pow2(t)) % 2 = (a \div Pow2(t)) % 2
  <2> DEFINE e == Pow2(t)
             h == Pow2(LOW - t - 1)
             c == r * h
             w == a \div e
  <2>1. t \in Nat /\ LOW - t - 1 \in Nat /\ (LOW - t - 1) + 1 \in Nat /\ t + ((LOW - t - 1) + 1) = LOW
    BY Sizes
  <2>2. e \in Nat /\ e > 0 /\ h \in Nat /\ Pow2((LOW - t - 1) + 1) = 2 * h
    BY <2>1, Pow2Facts
  <2>3. Pow2(t + ((LOW - t - 1) + 1)) = e * Pow2((LOW - t - 1) + 1)
    BY <2>1, Pow2Sum
  <2>4. d = e * (2 * h)
    BY <2>1, <2>2, <2>3
  <2> HIDE DEF d, e, h
  <2>5. c \in Nat /\ r * d = (2 * c) * e
    BY <2>2, <2>4, Z3
  <2> HIDE DEF c
  <2>6. v \div e = w + 2 * c
    <3>1. 2 * c \in Int /\ a \in Int
      BY <2>5, <1>1
    <3>2. (a + (2 * c) * e) \div e = a \div e + 2 * c
      BY <2>2, <3>1, DivShift
    <3>. QED
      BY <2>5, <3>2
  <2>7. w \in Int
    BY <1>1, <2>2, DivMod
  <2> HIDE DEF w
  <2>8. (w + c * 2) % 2 = w % 2
    BY <2>5, <2>7, DivShift
  <2>9. c * 2 = 2 * c
    BY <2>5
  <2>. QED
    BY <2>6, <2>8, <2>9 DEF w, e
<1>6. ASSUME r < ZMax PROVE v < Pow2(HIGH)
  <2>1. r + 1 <= ZMax /\ ZMax \in Nat /\ Pow2(HIGH) = d * ZMax
    BY <1>6, Sizes
  <2> HIDE DEF d
  <2>2. (r + 1) * d = m + d
    BY <1>1, Z3
  <2>3. (r + 1) * d <= ZMax * d
    BY <1>1, <2>1, Z3
  <2>4. ZMax * d = Pow2(HIGH) /\ ZMax * d \in Nat
    BY <1>1, <2>1, Z3
  <2>5. v = a + m
    OBVIOUS
  <2> HIDE DEF m, v
  <2>. QED
    BY <1>1, <1>2, <2>2, <2>3, <2>4, <2>5
<1>. QED
  BY <1>3, <1>4, <1>5, <1>6

\* The run of an encodable integer is shorter than ZMax.
LEMMA RunShort ==
  ASSUME NEW v \in Int, Magnitude(v) < Pow2(HIGH)
  PROVE  Run(v) < ZMax
<1> DEFINE m == Magnitude(v)
           d == Pow2(LOW)
           q == m \div d
<1>1. m \in Nat /\ d \in Nat /\ d > 0 /\ ZMax \in Nat /\ m < d * ZMax
  BY Sizes, RunType
<1> HIDE DEF m, d
<1>2. q \in Int /\ m >= d * q
  <2>1. q \in Int /\ m % d \in 0..(d - 1) /\ m = d * q + (m % d)
    BY <1>1, DivMod
  <2>2. d * q \in Int
    BY <1>1, <2>1, Z3
  <2> HIDE DEF q
  <2>. QED
    BY <1>1, <2>1, <2>2
<1>3. CASE q >= ZMax
  <2> HIDE DEF q
  <2>1. d * q >= d * ZMax /\ d * q \in Int /\ d * ZMax \in Int
    BY <1>1, <1>2, <1>3, Z3
  <2>. QED
    BY <1>1, <1>2, <2>1
<1>. QED
  BY <1>1, <1>2, <1>3 DEF Run, m, d

\* The runs lie one behind the other.
LEMMA EndFacts ==
  ASSUME NEW x \in [Items -> Int]
  PROVE  /\ End(x, -1) = K * (LOW + 1)
         /\ \A n \in Items : End(x, n) = End(x, n - 1) + Run(x[n]) + 1
         /\ \A n \in -1..(K - 1) : End(x, n) \in Nat /\ End(x, n) <= End(x, K - 1)
         /\ End(x, K - 1) >= K * (LOW + 2)
<1> DEFINE f == [m \in Items |-> Run(x[m]) + 1]
           B == K * (LOW + 1)
<1>0. K \in Nat /\ K >= 1 /\ \A n \in Items : x[n] \in Int
  BY Sizes
<1>1. \A k \in 0..(K - 1) : Run(x[k]) \in Nat /\ f[k] = Run(x[k]) + 1 /\ f[k] \in Nat /\ f[k] >= 1
  <2> SUFFICES ASSUME NEW k \in 0..(K - 1)
               PROVE  Run(x[k]) \in Nat /\ f[k] = Run(x[k]) + 1
    OBVIOUS
  <2>1. x[k] \in Int /\ k \in Items
    BY <1>0 DEF Items
  <2>. QED
    BY <2>1, RunType
<1>2. B \in Nat /\ K * (LOW + 2) = B + K
  BY Sizes, Z3
<1> HIDE DEF f, B
<1>3. /\ SumTo(f, 0) = 0
      /\ \A n \in 0..K : SumTo(f, n) \in Int
      /\ \A n \in 0..(K - 1) : SumTo(f, n + 1) = SumTo(f, n) + f[n]
  BY <1>0, <1>1, SumFacts
<1>4. \A l, n \in 0..K : SumTo(f, l) \in Nat /\ (l <= n => SumTo(f, l) <= SumTo(f, n))
  <2> SUFFICES ASSUME NEW l \in 0..K
               PROVE  \A n \in 0..K : SumTo(f, l) \in Nat /\ (l <= n => SumTo(f, l) <= SumTo(f, n))
    OBVIOUS
  <2>1. \A k \in 0..(K - 1) : f[k] \in Nat
    BY <1>1
  <2>. QED
    BY <1>0, <2>1, SumGrows
<1>5. \A n \in -1..(K - 1) : End(x, n) = B + SumTo(f, n + 1)
  BY DEF End, f, B
<1>6. \A n \in Items : End(x, n) = End(x, n - 1) + Run(x[n]) + 1
  <2> SUFFICES ASSUME NEW n \in Items PROVE End(x, n) = End(x, n - 1) + Run(x[n]) + 1
    OBVIOUS
  <2>1. n \in 0..(K - 1) /\ n \in -1..(K - 1) /\ n - 1 \in -1..(K - 1) /\ (n - 1) + 1 = n /\ n \in 0..K
    BY <1>0 DEF Items
  <2>2. /\ End(x, n) = B + SumTo(f, n + 1) /\ End(x, n - 1) = B + SumTo(f, n)
        /\ SumTo(f, n + 1) = SumTo(f, n) + f[n]
        /\ SumTo(f, n) \in Int /\ f[n] = Run(x[n]) + 1 /\ Run(x[n]) \in Nat
    <3>1. End(x, n - 1) = B + SumTo(f, n)
      BY <1>5, <2>1
    <3>. QED
      BY <1>1, <1>3, <1>5, <2>1, <3>1
  <2>. QED
    BY <1>2, <2>2
<1>7. ASSUME NEW n \in -1..(K - 1) PROVE End(x, n) \in Nat /\ End(x, n) <= End(x, K - 1)
  <2>1. n + 1 \in 0..K /\ K \in 0..K /\ n + 1 <= K /\ K - 1 \in -1..(K - 1) /\ (K - 1) + 1 = K
    BY <1>0
  <2>. QED
    BY <1>2, <1>4, <1>5, <2>1
<1>8. SumTo(f, K) >= K
  <2> DEFINE S == {n \in Nat : n <= K => SumTo(f, n) >= n}
  <2>1. 0 \in S
    BY <1>3
  <2>2. ASSUME NEW n \in Nat, n \in S PROVE n + 1 \in S
    BY <1>0, <1>1, <1>3, <2>2
  <2> HIDE DEF S
  <2>3. Nat \subseteq S
    BY <2>1, <2>2, SetInduction
  <2>. QED
    BY <1>0, <2>3 DEF S
<1>9. End(x, K - 1) >= K * (LOW + 2)
  <2>1. K - 1 \in -1..(K - 1) /\ (K - 1) + 1 = K /\ K \in 0..K
    BY <1>0
  <2>. QED
    BY <1>0, <1>2, <1>3, <1>5, <1>8, <2>1
<1>10. End(x, -1) = K * (LOW + 1)
  <2>1. -1 \in -1..(K - 1) /\ -1 + 1 = 0
    BY <1>0
  <2>. QED
    BY <1>2, <1>3, <1>5, <2>1 DEF B
<1>. QED
  BY <1>6, <1>7, <1>9, <1>10

\* An end depends only on the runs before it.
LEMMA EndCongruence ==
  ASSUME NEW x \in [Items -> Int], NEW w \in [Items -> Int], NEW n \in -1..(K - 1),
         \A m \in Items : m <= n => Run(x[m]) = Run(w[m])
  PROVE  End(x, n) = End(w, n)
<1> DEFINE f == [m \in Items |-> Run(x[m]) + 1]
           g == [m \in Items |-> Run(w[m]) + 1]
<1>1. n + 1 \in Nat /\ n + 1 \in 0..(n + 1)
  BY Sizes
<1>2. \A k \in 0..((n + 1) - 1) : f[k] \in Int /\ f[k] = g[k]
  <2> SUFFICES ASSUME NEW k \in 0..((n + 1) - 1) PROVE f[k] \in Int /\ f[k] = g[k]
    OBVIOUS
  <2>1. k \in Items /\ k <= n /\ x[k] \in Int
    BY Sizes DEF Items
  <2>2. Run(x[k]) \in Nat
    BY <2>1, RunType
  <2>. QED
    BY <2>1, <2>2
<1> HIDE DEF f, g
<1>3. SumTo(f, n + 1) = SumTo(g, n + 1)
  BY <1>1, <1>2, SumCongruence
<1>. QED
  BY <1>3 DEF End, f, g

\* A buffer holds bits.
LEMMA BitType == ASSUME y \in Buffers, NEW q \in 0..(LenBits - 1) PROVE y.bits[q] \in 0..1
<1>1. y.bits \in [0..(LenBits - 1) -> 0..1]
  BY BuffersAssumption DEF LenBits
<1>. QED
  BY <1>1

\* A window of two bytes shows the bits that start anywhere in its first byte.
LEMMA WindowBit ==
  ASSUME y \in Buffers, NEW b \in Nat, NEW t \in 0..BYTE, b + t < LenBits
  PROVE  WordBit(b \div BYTE, (b % BYTE) + t) = y.bits[b + t]
<1> DEFINE q == b \div BYTE
           r == b % BYTE
           s == r + t
<1>1. BYTE \in Nat /\ BYTE > 0 /\ y.bytes \in Nat /\ LenBits = y.bytes * BYTE /\ LenBits \in Nat
  BY LenType, SizesAssumption DEF LenBits
<1>2. q \in Int /\ r \in 0..(BYTE - 1) /\ b = BYTE * q + r
  BY <1>1, DivMod
<1> HIDE DEF q, r
<1>3. s \in Nat /\ s < 2 * BYTE /\ q * BYTE \in Int /\ q * BYTE + s = b + t
  BY <1>1, <1>2
<1>4. (q + 1) * BYTE = q * BYTE + BYTE
  BY <1>1, <1>2
<1> HIDE DEF s
<1>5. ASSUME s < BYTE PROVE WordBit(q, s) = y.bits[b + t]
  <2>1. WordBit(q, s) = y.bits[q * BYTE + s]
    BY <1>5 DEF WordBit
  <2>. QED
    BY <1>3, <2>1
<1>6. ASSUME s >= BYTE PROVE WordBit(q, s) = y.bits[b + t]
  <2>1. (q + 1) * BYTE + s - BYTE = b + t
    BY <1>1, <1>3, <1>4
  <2>2. (q + 1) * BYTE < y.bytes * BYTE
    BY <1>1, <1>3, <1>4, <1>6
  <2>3. q + 1 < y.bytes
    <3>1. CASE q + 1 >= y.bytes
      <4>1. (q + 1) * BYTE >= y.bytes * BYTE /\ (q + 1) * BYTE \in Int /\ y.bytes * BYTE \in Int
        BY <1>1, <1>2, <3>1
      <4>. QED
        BY <2>2, <4>1
    <3>. QED
      BY <1>1, <1>2, <3>1
  <2>. QED
    BY <1>1, <1>3, <1>6, <2>1, <2>3 DEF WordBit
<1>. QED
  BY <1>1, <1>3, <1>5, <1>6 DEF q, r, s

\* The low part of an integer is the number that its bits in the buffer make.
LEMMA LowPartRight ==
  ASSUME y \in Buffers, NEW n \in Items, LenBits >= K * (LOW + 2)
  PROVE  /\ LowPart(n) \in 0..(Pow2(LOW) - 1)
         /\ \A t \in 0..(LOW - 1) : y.bits[K + n * LOW + t] = (LowPart(n) \div Pow2(t)) % 2
<1> DEFINE b == [t \in 0..(LOW - 1) |-> y.bits[Base(n) + t]]
           g == [t \in 0..(LOW - 1) |->
                   Pow2(t) * WordBit(Base(n) \div BYTE, (Base(n) % BYTE) + t)]
<1>1. /\ LenBits \in Nat /\ Base(n) \in Nat /\ LOW \in Nat /\ LOW <= BYTE + 1 /\ BYTE \in Nat
      /\ Base(n) + LOW <= LenBits
  BY Products, LenType, SizesAssumption, Sizes
<1>2. ASSUME NEW t \in 0..(LOW - 1) PROVE b[t] \in 0..1 /\ g[t] = Pow2(t) * b[t]
  <2>1. t \in 0..BYTE /\ Base(n) + t \in 0..(LenBits - 1) /\ Base(n) + t < LenBits
    BY <1>1
  <2>2. WordBit(Base(n) \div BYTE, (Base(n) % BYTE) + t) = y.bits[Base(n) + t]
    BY <1>1, <2>1, WindowBit
  <2>. QED
    BY <2>1, <2>2, BitType
<1>3. \A t \in 0..(LOW - 1) : b[t] = y.bits[K + n * LOW + t]
  <2>1. K \in Nat /\ n \in Nat /\ n * LOW \in Nat
    BY Sizes DEF Items
  <2>. QED
    BY <1>1, <2>1 DEF Base
<1>4. LowPart(n) = SumTo(g, LOW)
  BY DEF LowPart
<1> HIDE DEF b, g
<1>5. /\ SumTo(g, LOW) \in 0..(Pow2(LOW) - 1)
      /\ \A t \in 0..(LOW - 1) : (SumTo(g, LOW) \div Pow2(t)) % 2 = b[t]
  BY <1>1, <1>2, DigitsOfSum
<1>. QED
  BY <1>3, <1>4, <1>5

\* Nothing is decoded yet,
LEMMA DecodedInit == Init => Decoded
  BY DEF Init, Decoded

\* the low parts come out of the buffer one by one,
LEMMA DecodedLow == IndInv /\ Decoded /\ LowBits => Decoded'
<1> SUFFICES ASSUME IndInv, Decoded, LowBits PROVE Decoded'
  OBVIOUS
<1>0. /\ pc = "low" /\ y \in Buffers /\ i \in Items /\ LenBits >= K * (LOW + 2) /\ K \in Nat
      /\ out \in [Items -> Int] /\ z = 0 /\ LowDone /\ y' = y /\ z' = z
      /\ out' = [out EXCEPT ![i] = LowPart(i)]
      /\ IF i + 1 < K THEN pc' = "low" /\ i' = i + 1 /\ j' = j
                      ELSE pc' = "unary" /\ i' = 0 /\ j' = K * (LOW + 1)
  BY Sizes DEF IndInv, Control, LongEnough, Decoded, LowBits, LowStep
<1> DEFINE w == LowPart(i)
<1>1. /\ w \in 0..(Pow2(LOW) - 1)
      /\ \A t \in 0..(LOW - 1) : y.bits[K + i * LOW + t] = (w \div Pow2(t)) % 2
  BY <1>0, LowPartRight
<1> HIDE DEF w
<1>2. out'[i] = w /\ out' \in [Items -> Int] /\ \A n \in Items : n # i => out'[n] = out[n]
  <2>1. w \in Int
    BY <1>1, Sizes
  <2>. QED
    BY <1>0, <2>1 DEF w
<1>3. ASSUME NEW n \in Items, n < i + 1
      PROVE  out'[n] \in 0..(Pow2(LOW) - 1) /\ LowBitsRight(n)'
  <2>1. CASE n = i
    <3>1. Magnitude(w) = w
      BY <1>1, Sizes DEF Magnitude
    <3>. QED
      BY <1>0, <1>1, <1>2, <2>1, <3>1 DEF LowBitsRight
  <2>2. CASE n # i
    <3>1. n < i /\ out'[n] = out[n]
      BY <1>2, <1>3, <2>2, <1>0 DEF Items
    <3>. QED
      BY <1>0, <3>1 DEF LowDone, LowBitsRight
  <2>. QED
    BY <2>1, <2>2
<1>4. CASE i + 1 < K
  <2>1. pc' = "low" /\ i' = i + 1
    BY <1>0, <1>4
  <2>2. LowDone'
    BY <1>3, <2>1 DEF LowDone
  <2>. QED
    BY <1>0, <1>2, <2>1, <2>2 DEF Decoded
<1>5. CASE ~(i + 1 < K)
  <2>1. pc' = "unary" /\ i' = 0 /\ j' = K * (LOW + 1) /\ z' = 0
    BY <1>0, <1>5
  <2>2. ASSUME NEW n \in Items
        PROVE  /\ out'[n] \in Nat /\ LowBitsRight(n)' /\ out'[n] < Pow2(LOW) /\ ~(n < i')
    <3>1. n < i + 1 /\ n \in Nat
      BY <1>0, <1>5 DEF Items
    <3>. QED
      BY <1>3, <2>1, <3>1, Sizes
  <2>3. End(out', -1) = K * (LOW + 1) /\ K * (LOW + 1) \in Nat
    BY <1>2, EndFacts, Sizes
  <2>4. j' = End(out', i' - 1) + z'
    BY <2>1, <2>3
  <2>5. RunsDone'
    <3>1. z' <= ZMax' /\ 1..z' = {}
      BY <2>1, Sizes DEF ZMax
    <3>. QED
      BY <2>2, <2>4, <3>1 DEF RunsDone, End
  <2>. QED
    BY <1>0, <1>2, <2>1, <2>5 DEF Decoded
<1>. QED
  BY <1>4, <1>5

\* a zero makes the current run longer,
LEMMA DecodedZero == IndInv /\ Decoded /\ UnaryBit /\ y.bits[j] = 0 => Decoded'
<1> SUFFICES ASSUME IndInv, Decoded, UnaryBit, y.bits[j] = 0 PROVE Decoded'
  OBVIOUS
<1>1. /\ pc = "unary" /\ pc' = pc /\ i' = i /\ out' = out /\ y' = y
      /\ j' = j + 1 /\ z' = z + 1 /\ z < ZMax /\ z \in Nat /\ j \in Nat /\ ZMax \in Nat /\ i \in Items
      /\ RunsDone /\ out \in [Items -> Int]
  BY Sizes DEF IndInv, Control, Decoded, UnaryBit, TooLong
<1>2. End(out, i - 1) \in Nat
  <2>1. i - 1 \in -1..(K - 1)
    BY <1>1, Sizes DEF Items
  <2>. QED
    BY <1>1, <2>1, EndFacts
<1>3. j + 1 = End(out, i - 1) + (z + 1)
  BY <1>1, <1>2 DEF RunsDone
<1>4. ASSUME NEW q \in 1..(z + 1) PROVE y.bits[j + 1 - q] = 0
  <2>1. CASE q = 1
    <3>1. j + 1 - q = j
      BY <1>1, <2>1
    <3>. QED
      BY <3>1
  <2>2. CASE q # 1
    <3>1. q - 1 \in 1..z /\ j + 1 - q = j - (q - 1)
      BY <1>1, <2>2
    <3>2. y.bits[j - (q - 1)] = 0
      BY <1>1, <3>1 DEF RunsDone
    <3>. QED
      BY <3>1, <3>2
  <2>. QED
    BY <2>1, <2>2
<1>5. z + 1 <= ZMax
  BY <1>1
<1>6. RunsDone'
  <2>1. ZMax' = ZMax /\ \A n : (LowBitsRight(n)' <=> LowBitsRight(n)) /\ (RunRight(n)' <=> RunRight(n))
    BY <1>1 DEF LowBitsRight, RunRight, End, ZMax
  <2>2. End(out, i - 1)' = End(out, i - 1)
    BY <1>1 DEF End
  <2>. QED
    BY <1>1, <1>3, <1>4, <1>5, <2>1, <2>2 DEF RunsDone
<1>. QED
  BY <1>1, <1>6 DEF Decoded

\* What is known of an integer when the one that ends its run is read.
LEMMA RunEnds ==
  ASSUME IndInv, Decoded, UnaryBit, y.bits[j] = 1
  PROVE  /\ out' \in [Items -> Int] /\ i \in Items /\ y' = y /\ j' = j + 1 /\ z' = 0
         /\ IF i + 1 < K THEN pc' = "unary" /\ i' = i + 1 ELSE pc' = "sign" /\ i' = 0
         /\ \A n \in Items : out'[n] \in Nat /\ LowBitsRight(n)'
         /\ \A n \in Items : n > i => out'[n] < Pow2(LOW)
         /\ \A n \in Items : n <= i => out'[n] < Pow2(HIGH) /\ RunRight(n)'
         /\ j' = End(out', i)
<1> DEFINE v == out[i] + z * Pow2(LOW)
<1>1. /\ pc = "unary" /\ i \in Items /\ y' = y /\ j' = j + 1 /\ z' = 0
      /\ z < ZMax /\ z \in Nat /\ j \in Nat /\ ZMax \in Nat
      /\ RunsDone /\ out \in [Items -> Int]
      /\ out' = [out EXCEPT ![i] = v]
      /\ IF i + 1 < K THEN pc' = "unary" /\ i' = i + 1 ELSE pc' = "sign" /\ i' = 0
  BY Sizes DEF IndInv, Control, Decoded, UnaryBit, TooLong
<1>2. i \in Nat /\ i <= i /\ out[i] \in 0..(Pow2(LOW) - 1) /\ LowBitsRight(i)
  BY <1>1, Sizes DEF RunsDone, Items
<1>3. /\ v \in Nat /\ Magnitude(v) = v /\ Run(v) = z
      /\ \A t \in 0..(LOW - 1) : (v \div Pow2(t)) % 2 = (out[i] \div Pow2(t)) % 2
      /\ v < Pow2(HIGH)
  BY <1>1, <1>2, RunAdded
<1> HIDE DEF v
<1>4. /\ out' \in [Items -> Int] /\ out'[i] = v
      /\ \A n \in Items : n # i => out'[n] = out[n]
  BY <1>1, <1>3
<1>5. Magnitude(out[i]) = out[i]
  BY <1>2, Sizes DEF Magnitude
<1>6. ASSUME NEW n \in Items PROVE out'[n] \in Nat /\ LowBitsRight(n)'
  <2>1. CASE n = i
    BY <1>1, <1>2, <1>3, <1>4, <1>5, <2>1 DEF LowBitsRight
  <2>2. CASE n # i
    BY <1>1, <1>4, <2>2 DEF LowBitsRight, RunsDone
  <2>. QED
    BY <2>1, <2>2
<1>7. ASSUME NEW n \in -1..(K - 1), n < i PROVE End(out', n) = End(out, n)
  <2>1. ASSUME NEW m \in Items, m <= n PROVE Run(out'[m]) = Run(out[m])
    <3>1. m # i
      BY <1>7, <1>2, <2>1, Sizes DEF Items
    <3>. QED
      BY <1>4, <3>1
  <2>. QED
    BY <1>1, <1>4, <2>1, EndCongruence
<1>8. j' = End(out', i)
  <2>1. i - 1 \in -1..(K - 1) /\ i - 1 < i
    BY <1>1, Sizes DEF Items
  <2>2. End(out', i - 1) = End(out, i - 1) /\ End(out, i - 1) \in Nat
    BY <1>1, <1>7, <2>1, EndFacts
  <2>3. End(out', i) = End(out', i - 1) + Run(out'[i]) + 1
    BY <1>1, <1>4, EndFacts
  <2>. QED
    BY <1>1, <1>3, <1>4, <2>2, <2>3 DEF RunsDone
<1>9. ASSUME NEW n \in Items, n <= i PROVE out'[n] < Pow2(HIGH) /\ RunRight(n)'
  <2>1. CASE n = i
    <3>1. End(out', n) = j + 1 /\ out'[n] = v
      BY <1>1, <1>4, <1>8, <2>1
    <3>2. (j + 1) - 1 = j
      BY <1>1
    <3>3. ASSUME NEW q \in 2..(z + 1) PROVE y.bits[(j + 1) - q] = 0
      <4>1. q - 1 \in 1..z /\ (j + 1) - q = j - (q - 1)
        BY <1>1
      <4>2. y.bits[j - (q - 1)] = 0
        BY <1>1, <4>1 DEF RunsDone
      <4>. QED
        BY <4>1, <4>2
    <3>4. RunRight(n)'
      BY <1>1, <1>3, <3>1, <3>2, <3>3 DEF RunRight, End, Run, Magnitude
    <3>. QED
      BY <1>3, <3>1, <3>4
  <2>2. CASE n # i
    <3>1. n < i /\ n \in -1..(K - 1) /\ out'[n] = out[n]
      BY <1>2, <1>4, <1>9, <2>2, Sizes DEF Items
    <3>2. End(out', n) = End(out, n)
      BY <1>7, <3>1
    <3>3. RunRight(n) /\ out[n] < Pow2(HIGH)
      BY <1>1, <3>1 DEF RunsDone
    <3>. QED
      BY <1>1, <3>1, <3>2, <3>3 DEF RunRight, End
  <2>. QED
    BY <2>1, <2>2
<1>10. ASSUME NEW n \in Items, n > i PROVE out'[n] < Pow2(LOW)
  <2>1. n # i /\ n >= i
    BY <1>2, <1>10, Sizes DEF Items
  <2>. QED
    BY <1>1, <1>4, <2>1 DEF RunsDone
<1>. QED
  BY <1>1, <1>4, <1>6, <1>8, <1>9, <1>10

\* a one ends it,
LEMMA DecodedOne == IndInv /\ Decoded /\ UnaryBit /\ y.bits[j] = 1 => Decoded'
<1> SUFFICES ASSUME IndInv, Decoded, UnaryBit, y.bits[j] = 1 PROVE Decoded'
  OBVIOUS
<1>1. /\ out' \in [Items -> Int] /\ i \in Items /\ y' = y /\ j' = j + 1 /\ z' = 0
      /\ IF i + 1 < K THEN pc' = "unary" /\ i' = i + 1 ELSE pc' = "sign" /\ i' = 0
      /\ \A n \in Items : out'[n] \in Nat /\ LowBitsRight(n)'
      /\ \A n \in Items : n > i => out'[n] < Pow2(LOW)
      /\ \A n \in Items : n <= i => out'[n] < Pow2(HIGH) /\ RunRight(n)'
      /\ j' = End(out', i)
  BY RunEnds
<1>2. \A n \in Items : n \in Int /\ n <= K - 1
  BY Sizes DEF Items
<1>3. CASE i + 1 < K
  <2>1. pc' = "unary" /\ i' = i + 1
    BY <1>1, <1>3
  <2>2. z' <= ZMax' /\ 1..z' = {}
    BY <1>1, Sizes DEF ZMax
  <2>3. j' = End(out', i' - 1) + z'
    <3>1. (i + 1) - 1 = i /\ i \in -1..(K - 1)
      BY <1>1, Sizes DEF Items
    <3>2. End(out', i) \in Nat
      BY <1>1, <3>1, EndFacts
    <3>. QED
      BY <1>1, <2>1, <3>1, <3>2
  <2>4. \A n \in Items : /\ n >= i' => out'[n] < Pow2(LOW)
                         /\ n < i' => out'[n] < Pow2(HIGH) /\ RunRight(n)'
    BY <1>1, <1>2, <2>1
  <2>5. RunsDone'
    BY <1>1, <2>2, <2>3, <2>4 DEF RunsDone, End
  <2>. QED
    BY <1>1, <2>1, <2>5 DEF Decoded
<1>4. CASE ~(i + 1 < K)
  <2>1. pc' = "sign" /\ i' = 0 /\ i = K - 1
    BY <1>1, <1>2, <1>4, Sizes
  <2>2. \A n \in Items : /\ out'[n] \in Nat /\ Magnitude(out'[n]) < Pow2(HIGH)
                         /\ LowBitsRight(n)' /\ RunRight(n)' /\ ~(n < i')
    BY <1>1, <1>2, <2>1 DEF Magnitude, Items
  <2>3. \A n \in Items : out'[n] >= 0
    BY <2>2
  <2>4. SignsDone'
    BY <1>1, <2>1, <2>2, <2>3 DEF SignsDone, End, Magnitude
  <2>. QED
    BY <1>1, <2>1, <2>4 DEF Decoded
<1>. QED
  BY <1>3, <1>4

\* and a sign bit turns an integer over without touching its magnitude.
LEMMA DecodedSign == IndInv /\ Decoded /\ SignBit => Decoded'
<1> SUFFICES ASSUME IndInv, Decoded, SignBit PROVE Decoded'
  OBVIOUS
<1> DEFINE w == IF y.bits[i] = 1 THEN -out[i] - 1 ELSE out[i]
<1>1. /\ pc = "sign" /\ i \in Items /\ y' = y /\ j' = j /\ z' = z /\ y \in Buffers
      /\ SignsDone /\ out \in [Items -> Int]
      /\ out' = [out EXCEPT ![i] = w]
      /\ i' = i + 1 /\ pc' = IF i + 1 < K THEN "sign" ELSE "some"
      /\ LenBits >= K * (LOW + 2)
  BY DEF IndInv, Control, LongEnough, Decoded, SignBit, SignStep
<1>2. i \in 0..(K - 1) /\ \A n \in Items : n \in Int /\ n <= K - 1
  BY <1>1, Sizes DEF Items
<1>3. out[i] \in Nat
  BY <1>1, <1>2 DEF SignsDone
<1>4. y.bits[i] \in 0..1
  <2>1. K * (LOW + 1) \in Nat /\ K * (LOW + 1) + K <= K * (LOW + 2) /\ K * (LOW + 2) \in Nat
    BY <1>1, Products
  <2>2. i \in 0..(LenBits - 1)
    BY <1>1, <1>2, <2>1, LenType, Sizes
  <2>. QED
    BY <1>1, <2>2, BitType
<1>5. /\ w \in Int /\ Magnitude(w) = Magnitude(out[i]) /\ Run(w) = Run(out[i])
      /\ y.bits[i] = (IF w < 0 THEN 1 ELSE 0)
  <2>1. Magnitude(-out[i] - 1) = Magnitude(out[i]) /\ Run(-out[i] - 1) = Run(out[i])
    BY <1>3, RunType
  <2>. QED
    BY <1>3, <1>4, <2>1
<1> HIDE DEF w
<1>6. /\ out' \in [Items -> Int] /\ out'[i] = w
      /\ \A n \in Items : n # i => out'[n] = out[n]
  BY <1>1, <1>5
<1>7. \A n \in Items : Magnitude(out'[n]) = Magnitude(out[n]) /\ Run(out'[n]) = Run(out[n])
  BY <1>5, <1>6
<1>8. \A n \in -1..(K - 1) : End(out', n) = End(out, n)
  <2> SUFFICES ASSUME NEW n \in -1..(K - 1) PROVE End(out', n) = End(out, n)
    OBVIOUS
  <2>. QED
    BY <1>1, <1>6, <1>7, EndCongruence
<1>9. ASSUME NEW n \in Items
      PROVE  /\ Magnitude(out'[n]) < Pow2(HIGH) /\ LowBitsRight(n)' /\ RunRight(n)'
             /\ IF n <= i THEN SignRight(n)' ELSE out'[n] >= 0
  <2>1. Magnitude(out[n]) < Pow2(HIGH) /\ LowBitsRight(n) /\ RunRight(n)
    BY <1>1 DEF SignsDone
  <2>2. LowBitsRight(n)'
    BY <1>1, <1>7, <2>1 DEF LowBitsRight
  <2>3. RunRight(n)'
    <3>1. n \in -1..(K - 1)
      BY <1>2 DEF Items
    <3>2. End(out', n) = End(out, n)
      BY <1>8, <3>1
    <3>3. /\ y.bits[End(out', n) - 1] = 1
          /\ \A q \in 2..(Run(out'[n]) + 1) : y.bits[End(out', n) - q] = 0
      BY <1>7, <2>1, <3>2 DEF RunRight
    <3>. QED
      BY <1>1, <3>3 DEF RunRight, End, Run, Magnitude
  <2>4. CASE n = i
    <3>1. SignRight(n)'
      BY <1>1, <1>5, <1>6, <2>4 DEF SignRight
    <3>. QED
      BY <1>2, <1>7, <2>1, <2>2, <2>3, <2>4, <3>1
  <2>5. CASE n < i
    <3>1. SignRight(n) /\ out'[n] = out[n] /\ n <= i
      BY <1>1, <1>2, <1>6, <2>5 DEF SignsDone
    <3>2. SignRight(n)'
      BY <1>1, <3>1 DEF SignRight
    <3>. QED
      BY <1>7, <2>1, <2>2, <2>3, <3>1, <3>2
  <2>6. CASE n > i
    <3>1. out[n] >= 0 /\ out'[n] = out[n] /\ ~(n <= i)
      BY <1>1, <1>2, <1>6, <2>6 DEF SignsDone
    <3>. QED
      BY <1>7, <2>1, <2>2, <2>3, <3>1
  <2>. QED
    BY <1>2, <2>4, <2>5, <2>6
<1>10. j' = End(out', K - 1)
  <2>1. K - 1 \in -1..(K - 1)
    BY Sizes
  <2>. QED
    BY <1>1, <1>8, <2>1 DEF SignsDone
<1>11. \A n \in Items : IF pc' = "some" \/ n < i' THEN n <= i ELSE ~(n <= i)
  BY <1>1, <1>2, Sizes
<1>12. SignsDone'
  BY <1>1, <1>9, <1>10, <1>11 DEF SignsDone, End, Magnitude
<1>. QED
  BY <1>1, <1>6, <1>12 DEF Decoded

\* Every step of the decoder keeps what is known of the integers.
LEMMA DecodedStep == IndInv /\ Decoded /\ [Next]_vars => Decoded'
<1> SUFFICES ASSUME IndInv, Decoded, [Next]_vars PROVE Decoded'
  OBVIOUS
<1>1. CASE CheckLength
  <2>1. /\ pc = "start" /\ i = 0 /\ z = 0 /\ out \in [Items -> Int]
        /\ pc' \in {"none", "low"} /\ UNCHANGED <<y, i, j, z, out>>
    BY <1>1 DEF CheckLength, Decoded
  <2>2. \A n \in Items : ~(n < 0)
    BY Sizes DEF Items
  <2>. QED
    BY <2>1, <2>2 DEF Decoded, LowDone
<1>2. CASE LowBits
  BY <1>2, DecodedLow
<1>3. CASE RunTooLong
  BY <1>3 DEF RunTooLong, Decoded
<1>4. CASE UnaryBit
  <2>1. j \in 0..(LenBits - 1) /\ y \in Buffers
    BY <1>4, LenType DEF UnaryBit, TooLong, IndInv, Control
  <2>2. y.bits[j] \in 0..1
    BY <2>1, BitType
  <2>3. y.bits[j] = 0 \/ y.bits[j] = 1
    BY <2>2
  <2>. QED
    BY <1>4, <2>3, DecodedZero, DecodedOne
<1>5. CASE SignBit
  BY <1>5, DecodedSign
<1>6. CASE UNCHANGED vars
  <2>1. pc' = pc /\ y' = y /\ i' = i /\ j' = j /\ z' = z /\ out' = out
    BY <1>6 DEF vars
  <2>2. \A n : /\ LowBitsRight(n)' <=> LowBitsRight(n)
               /\ RunRight(n)' <=> RunRight(n)
               /\ SignRight(n)' <=> SignRight(n)
    BY <2>1 DEF LowBitsRight, RunRight, SignRight, End
  <2>3. LowDone' <=> LowDone
    BY <2>1, <2>2 DEF LowDone
  <2>4. RunsDone' <=> RunsDone
    BY <2>1, <2>2 DEF RunsDone, End, ZMax
  <2>5. SignsDone' <=> SignsDone
    BY <2>1, <2>2 DEF SignsDone, End
  <2>. QED
    BY <2>1, <2>3, <2>4, <2>5 DEF Decoded
<1>. QED
  BY <1>1, <1>2, <1>3, <1>4, <1>5, <1>6 DEF Next

\* What a buffer that starts with the code of x shows at a run of x.
LEMMA CodeShown ==
  ASSUME y \in Buffers, NEW x \in Encodable, StartsWithCode(x), NEW n \in Items
  PROVE  /\ x \in [Items -> Int] /\ Run(x[n]) \in Nat /\ Run(x[n]) < ZMax
         /\ End(x, n - 1) \in Nat /\ End(x, n) = End(x, n - 1) + Run(x[n]) + 1
         /\ End(x, n) <= LenBits
         /\ y.bits[End(x, n - 1) + Run(x[n])] = 1
         /\ \A r \in 0..(Run(x[n]) - 1) : y.bits[End(x, n - 1) + r] = 0
<1>1. x \in [Items -> Int] /\ x[n] \in -Pow2(HIGH)..(Pow2(HIGH) - 1) /\ Pow2(HIGH) \in Nat
  BY Sizes, Pow2Facts DEF Encodable
<1>2. x[n] \in Int /\ Magnitude(x[n]) < Pow2(HIGH)
  BY <1>1 DEF Magnitude
<1>3. Run(x[n]) \in Nat /\ Run(x[n]) < ZMax
  BY <1>2, RunType, RunShort
<1>4. n \in -1..(K - 1) /\ n - 1 \in -1..(K - 1) /\ K - 1 \in -1..(K - 1)
  BY Sizes DEF Items
<1>5. /\ End(x, n - 1) \in Nat /\ End(x, n) \in Nat /\ End(x, n) <= End(x, K - 1)
      /\ End(x, K - 1) \in Nat /\ End(x, n) = End(x, n - 1) + Run(x[n]) + 1
  BY <1>1, <1>4, EndFacts
<1>6. End(x, K - 1) <= LenBits /\ y.bits[End(x, n) - 1] = 1
  BY DEF StartsWithCode
<1>7. End(x, n) - 1 = End(x, n - 1) + Run(x[n])
  BY <1>3, <1>5
<1>8. End(x, n) <= LenBits
  BY <1>5, <1>6, LenType
<1>9. ASSUME NEW r \in 0..(Run(x[n]) - 1) PROVE y.bits[End(x, n - 1) + r] = 0
  <2>1. Run(x[n]) + 1 - r \in 2..(Run(x[n]) + 1) /\ End(x, n) - (Run(x[n]) + 1 - r) = End(x, n - 1) + r
    BY <1>3, <1>5
  <2>2. y.bits[End(x, n) - (Run(x[n]) + 1 - r)] = 0
    BY <2>1 DEF StartsWithCode
  <2>. QED
    BY <2>1, <2>2
<1>. QED
  BY <1>1, <1>3, <1>5, <1>6, <1>7, <1>8, <1>9

\* Every step of the decoder follows the runs of a tuple that the buffer starts with.
LEMMA FaithfulStep == IndInv /\ Decoded /\ Faithful /\ [Next]_vars => Faithful'
<1> SUFFICES ASSUME IndInv, Decoded, Faithful, [Next]_vars,
                    NEW x \in Encodable, StartsWithCode(x)'
             PROVE  OnTrack(x)'
  BY DEF Faithful, Encodable
<1>1. y' = y /\ y \in Buffers
  BY DEF Next, vars, CheckLength, LowBits, LowStep, RunTooLong, UnaryBit, SignBit, SignStep,
         IndInv, Control
<1>2. StartsWithCode(x) /\ OnTrack(x)
  <2>1. StartsWithCode(x)
    BY <1>1 DEF StartsWithCode, End, LenBits
  <2>. QED
    BY <2>1 DEF Faithful
<1>3. LenBits \in Nat
  BY <1>1, LenType
<1>4. x \in [Items -> Int]
  <2>1. 0 \in Items
    BY Sizes DEF Items
  <2>. QED
    BY <1>1, <1>2, <2>1, CodeShown
<1>5. CASE CheckLength
  <2>1. End(x, K - 1) >= K * (LOW + 2) /\ End(x, K - 1) <= LenBits /\ End(x, K - 1) \in Int
    <3>1. K - 1 \in -1..(K - 1)
      BY Sizes
    <3>. QED
      BY <1>2, <1>4, <3>1, EndFacts DEF StartsWithCode
  <2>2. K * (LOW + 2) \in Int
    BY Sizes
  <2>3. pc' = "low"
    BY <1>3, <1>5, <2>1, <2>2 DEF CheckLength
  <2>. QED
    BY <2>3 DEF OnTrack
<1>6. CASE LowBits
  <2>1. pc' = "low" \/ (pc' = "unary" /\ i' = 0 /\ j' = K * (LOW + 1) /\ z' = 0)
    BY <1>6 DEF LowBits, LowStep, Decoded
  <2>2. 0 \in Items /\ End(x, -1) = K * (LOW + 1) /\ K * (LOW + 1) \in Nat
    BY <1>4, EndFacts, Sizes DEF Items
  <2>3. Run(x[0]) \in Nat
    BY <1>1, <1>2, <2>2, CodeShown
  <2>. QED
    BY <2>1, <2>2, <2>3 DEF OnTrack, End, Run, Magnitude
<1>7. ASSUME RunTooLong \/ UnaryBit
      PROVE  /\ pc = "unary" /\ i \in Items /\ z \in Nat /\ j \in Nat
             /\ z <= Run(x[i]) /\ j = End(x, i - 1) + z
             /\ Run(x[i]) \in Nat /\ End(x, i - 1) \in Nat
             /\ Run(x[i]) < ZMax /\ End(x, i) = End(x, i - 1) + Run(x[i]) + 1 /\ End(x, i) <= LenBits
             /\ y.bits[End(x, i - 1) + Run(x[i])] = 1
             /\ \A r \in 0..(Run(x[i]) - 1) : y.bits[End(x, i - 1) + r] = 0
  <2>1. pc = "unary" /\ i \in Items /\ z \in Nat /\ j \in Nat
    BY <1>7 DEF RunTooLong, UnaryBit, IndInv, Control
  <2>. QED
    BY <1>1, <1>2, <2>1, CodeShown DEF OnTrack
<1>8. CASE RunTooLong
  <2>1. ~(j >= LenBits) /\ ~(z >= ZMax)
    BY <1>3, <1>7, <1>8, Sizes
  <2>. QED
    BY <1>8, <2>1 DEF RunTooLong, TooLong
<1>9. CASE UnaryBit
  <2>1. /\ j' = j + 1
        /\ IF y.bits[j] = 0
           THEN z' = z + 1 /\ i' = i /\ pc' = pc
           ELSE z' = 0 /\ IF i + 1 < K THEN pc' = "unary" /\ i' = i + 1 ELSE pc' = "sign"
    BY <1>9 DEF UnaryBit
  <2>2. CASE y.bits[j] = 0
    <3>1. z # Run(x[i])
      BY <1>7, <1>9, <2>2
    <3>2. z + 1 <= Run(x[i]) /\ j + 1 = End(x, i - 1) + (z + 1)
      BY <1>7, <1>9, <3>1
    <3>. QED
      BY <1>7, <1>9, <2>1, <2>2, <3>2 DEF OnTrack, End, Run, Magnitude
  <2>3. CASE y.bits[j] # 0
    <3>1. z = Run(x[i])
      <4>1. ~(z \in 0..(Run(x[i]) - 1))
        BY <1>7, <1>9, <2>3
      <4>. QED
        BY <1>7, <1>9, <4>1
    <3>2. j' = End(x, i) /\ End(x, i) \in Nat
      BY <1>7, <1>9, <2>1, <3>1
    <3>3. CASE i + 1 < K
      <4>1. pc' = "unary" /\ i' = i + 1 /\ z' = 0
        BY <2>1, <2>3, <3>3
      <4>2. i + 1 \in Items /\ (i + 1) - 1 = i
        BY <1>7, <1>9, <3>3, Sizes DEF Items
      <4>3. Run(x[i + 1]) \in Nat
        BY <1>1, <1>2, <4>2, CodeShown
      <4>4. z' <= Run(x[i']) /\ j' = End(x, i' - 1) + z'
        BY <3>2, <4>1, <4>2, <4>3
      <4>. QED
        BY <4>1, <4>4 DEF OnTrack, End, Run, Magnitude
    <3>4. CASE ~(i + 1 < K)
      <4>1. i = K - 1
        BY <1>7, <1>9, <3>4, Sizes DEF Items
      <4>2. pc' = "sign" /\ j' = End(x, K - 1)
        BY <2>1, <2>3, <3>2, <3>4, <4>1
      <4>. QED
        BY <4>2 DEF OnTrack, End, Run, Magnitude
    <3>. QED
      BY <3>3, <3>4
  <2>. QED
    BY <2>2, <2>3
<1>10. CASE SignBit
  BY <1>2, <1>10 DEF SignBit, SignStep, OnTrack
<1>11. CASE UNCHANGED vars
  BY <1>2, <1>11 DEF vars, OnTrack, End
<1>. QED
  BY <1>5, <1>6, <1>8, <1>9, <1>10, <1>11 DEF Next

\* All three parts together are inductive.
LEMMA Inductive == Spec => [](IndInv /\ Decoded /\ Faithful)
<1>1. Init => IndInv /\ Decoded /\ Faithful
  <2>1. Init => Faithful
    BY DEF Init, Faithful, OnTrack
  <2>. QED
    BY <2>1, InvInit, DecodedInit
<1>2. IndInv /\ [Next]_vars => IndInv'
  BY InvStep DEF Next, AnyStep, LowBits
<1>. QED
  BY <1>1, <1>2, DecodedStep, FaithfulStep, PTL DEF Spec

\* TypeOK, for every value of the constants.
THEOREM Typed == Spec => []TypeOK
<1>1. IndInv /\ Decoded => TypeOK
  BY DEF IndInv, Control, Decoded, TypeOK
<1>. QED
  BY <1>1, Inductive, PTL

\* Together the signs, the low parts and the runs of every integer are the code.
LEMMA DecodedIsCode == IndInv /\ Decoded => DecodesTheCode
<1> SUFFICES ASSUME IndInv, Decoded, pc = "some"
             PROVE  out \in Encodable /\ StartsWithCode(out) /\ j = End(out, K - 1)
  BY DEF DecodesTheCode
<1>2. SignsDone /\ out \in [Items -> Int] /\ j <= LenBits
  BY DEF Decoded, IndInv, Control
<1>3. ASSUME NEW n \in Items PROVE out[n] \in -Pow2(HIGH)..(Pow2(HIGH) - 1)
  <2>1. out[n] \in Int /\ Magnitude(out[n]) < Pow2(HIGH) /\ Pow2(HIGH) \in Nat
    BY <1>2, Sizes, Pow2Facts DEF SignsDone
  <2>. QED
    BY <2>1 DEF Magnitude
<1>4. out \in Encodable
  BY <1>2, <1>3 DEF Encodable
<1>5. StartsWithCode(out)
  BY <1>2 DEF SignsDone, StartsWithCode, SignRight, LowBitsRight, RunRight
<1>. QED
  BY <1>2, <1>4, <1>5 DEF SignsDone

\* DecodesTheCode, for every K, LOW, HIGH, width of a byte and set of buffers:
\* what decompress_gr returns is the tuple whose encoding the buffer starts
\* with, and the number of bits it reports is the length of that encoding.
THEOREM DecodesOnlyCode == Spec => []DecodesTheCode
BY DecodedIsCode, Inductive, PTL

\* GivesUpRightly, for every value of the constants: decompress_gr returns
\* None only for a buffer that starts with the encoding of no tuple.
THEOREM RefusesOnlyNonCode == Spec => []GivesUpRightly
<1>1. Faithful => GivesUpRightly
  BY DEF Faithful, OnTrack, GivesUpRightly
<1>. QED
  BY <1>1, Inductive, PTL
=============================================================================
