----------------------------- MODULE GolombRice -----------------------------
(***************************************************************************)
(* decompress_gr (src/src/codec.rs): K signed integers from a bit string.  *)
(* The buffer holds K sign bits, then LOW bits of each integer, then the   *)
(* unary high parts, each ended by a one.  Each phase indexes the buffer   *)
(* after assert_unchecked, so an index out of range would be undefined     *)
(* behaviour.  The width of a byte is a parameter: a model with narrow     *)
(* bytes reaches every alignment of a window with a few bits.              *)
(***************************************************************************)
EXTENDS Sums

CONSTANTS BYTE,      \* 8
          K, LOW,    \* how many integers, and their low bits
          HIGH,      \* an absolute value (minus the sign) is below 2^HIGH
          Buffers    \* [bytes, bits], bits being a function on 0..(bytes*BYTE-1)

ASSUME SizesAssumption ==
  /\ BYTE \in Nat \ {0} /\ K \in Nat \ {0}
  /\ LOW \in 1..(BYTE + 1) /\ HIGH \in Nat /\ LOW <= HIGH

ASSUME BuffersAssumption ==
  \A y \in Buffers : /\ y.bytes \in Nat
                     /\ y.bits \in [0..(y.bytes * BYTE - 1) -> 0..1]

VARIABLES pc,    \* the phase
          y,     \* the buffer
          i,     \* index of the integer
          j,     \* next bit of the unary part
          z,     \* length of the current unary run
          out

vars == <<pc, y, i, j, z, out>>

LenBits == y.bytes * BYTE
ZMax == Pow2(HIGH - LOW)
Items == 0..(K - 1)

\* Bit s of the word made of byte b and, where there is one, the byte after it.
WordBit(b, s) == IF s < BYTE THEN y.bits[b * BYTE + s]
                 ELSE IF s < 2 * BYTE /\ b + 1 < y.bytes THEN y.bits[(b + 1) * BYTE + s - BYTE]
                 ELSE 0

Base(n) == n * LOW + K

LowPart(n) ==
  SumTo([t \in 0..(LOW - 1) |-> Pow2(t) * WordBit(Base(n) \div BYTE, (Base(n) % BYTE) + t)], LOW)

\* The caller's array starts zeroed.
Init == /\ y \in Buffers
        /\ out = [n \in Items |-> 0]
        /\ pc = "start" /\ i = 0 /\ j = 0 /\ z = 0

\* Mutant: room for the sign bits is enough.
CheckSigns ==
  /\ pc = "start"
  /\ pc' = IF LenBits < K THEN "none" ELSE "low"
  /\ UNCHANGED <<y, i, j, z, out>>

CheckLength ==
  /\ pc = "start"
  /\ pc' = IF LenBits < K * (LOW + 2) THEN "none" ELSE "low"
  /\ UNCHANGED <<y, i, j, z, out>>

LowStep(v) ==
  /\ pc = "low"
  /\ out' = [out EXCEPT ![i] = v]
  /\ IF i + 1 < K THEN pc' = "low" /\ i' = i + 1 /\ j' = j
                  ELSE pc' = "unary" /\ i' = 0 /\ j' = K * (LOW + 1)
  /\ UNCHANGED <<y, z>>

LowBits == LowStep(LowPart(i))

\* A run must end inside the buffer and within ZMax bits.  The mutants stop one
\* bit early and one bit late.
TooLongEarly == j >= LenBits \/ z >= ZMax - 1
TooLongLate == j >= LenBits \/ z > ZMax

TooLong == j >= LenBits \/ z >= ZMax

RunTooLong ==
  /\ pc = "unary"
  /\ TooLong
  /\ pc' = "none"
  /\ UNCHANGED <<y, i, j, z, out>>

UnaryBit ==
  /\ pc = "unary"
  /\ ~TooLong
  /\ j' = j + 1
  /\ IF y.bits[j] = 0
     THEN z' = z + 1 /\ UNCHANGED <<pc, i, out>>
     ELSE /\ out' = [out EXCEPT ![i] = @ + z * Pow2(LOW)]
          /\ z' = 0
          /\ IF i + 1 < K THEN pc' = "unary" /\ i' = i + 1
                          ELSE pc' = "sign" /\ i' = 0
  /\ UNCHANGED y

\* x ^ -s is the ones' complement of x for s = 1.
SignStep(next, more) ==
  /\ pc = "sign"
  /\ out' = [out EXCEPT ![i] = IF y.bits[i] = 1 THEN -@ - 1 ELSE @]
  /\ i' = next
  /\ pc' = IF more THEN "sign" ELSE "some"
  /\ UNCHANGED <<y, j, z>>

\* Mutants: one sign too many, and an index that is not advanced.
SignBitOneMore == SignStep(i + 1, i < K)
SignBitStuck == SignStep(i, i + 1 < K)

SignBit == SignStep(i + 1, i + 1 < K)

Next == CheckLength \/ LowBits \/ RunTooLong \/ UnaryBit \/ SignBit

\* The decoder is a plain loop: it runs on until it returns.
Spec == Init /\ [][Next]_vars /\ WF_vars(Next)

-----------------------------------------------------------------------------
(***************************************************************************)
(* Reference: the encoding of a tuple of integers, as a set of facts about *)
(* the buffer that starts with it.  End(x, n) is where integer n ends.     *)
(***************************************************************************)

Magnitude(v) == IF v < 0 THEN -v - 1 ELSE v

Run(v) == Magnitude(v) \div Pow2(LOW)

End(x, n) == K * (LOW + 1) + SumTo([m \in Items |-> Run(x[m]) + 1], n + 1)

StartsWithCode(x) ==
  /\ End(x, K - 1) <= LenBits
  /\ \A n \in Items :
       /\ y.bits[n] = (IF x[n] < 0 THEN 1 ELSE 0)
       /\ \A t \in 0..(LOW - 1) : y.bits[K + n * LOW + t] = (Magnitude(x[n]) \div Pow2(t)) % 2
       /\ y.bits[End(x, n) - 1] = 1
       /\ \A q \in 2..(Run(x[n]) + 1) : y.bits[End(x, n) - q] = 0

Encodable == [Items -> -Pow2(HIGH)..(Pow2(HIGH) - 1)]

(***************************************************************************)
(* Properties.                                                             *)
(***************************************************************************)

\* The variables keep their types.
TypeOK ==
  /\ pc \in {"start", "low", "unary", "sign", "some", "none"}
  /\ y \in Buffers
  /\ i \in 0..K /\ j \in Nat /\ z \in Nat
  /\ out \in [Items -> Int]

\* No phase reads outside the buffer or writes outside the K integers, which
\* is what the code asserts to the compiler instead of checking.
InBounds ==
  /\ pc \in {"low", "unary", "sign"} => i \in Items
  /\ pc = "low" => Base(i) \div BYTE < y.bytes /\ Base(i) + LOW <= LenBits
  /\ pc = "unary" => j >= 0 /\ j <= LenBits
  /\ pc = "sign" => i < LenBits

\* The decoder returns exactly the integers whose encoding the buffer starts
\* with, and the length of that encoding: what it accepts re-encodes to the
\* same bits, so no two decodable buffers stand for one tuple.
DecodesTheCode ==
  pc = "some" => out \in Encodable /\ StartsWithCode(out) /\ j = End(out, K - 1)

\* It gives up only on a buffer that starts with no encoding.
GivesUpRightly == pc = "none" => \A x \in Encodable : ~StartsWithCode(x)

\* It always returns.
Returns == <>(pc \in {"some", "none"})
=============================================================================
