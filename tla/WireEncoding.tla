---------------------------- MODULE WireEncoding ----------------------------
(***************************************************************************)
(* What WireCodec has to decode: the HAWK encoding of a key or a signature *)
(* as the concatenation of its parts, against which the bit-by-bit decoder *)
(* with its offsets, limits and padding loops is checked.                  *)
(***************************************************************************)
EXTENDS WireCodec, SequencesExt

CONSTANTS Sampled00, Sampled01, SampledS1,  \* polynomials that are encoded
          Salts                             \* bit strings of SALT_LEN bytes

\* The low n bits of m, least significant first.
LowBitsOf(m, n) == [t \in 1..n |-> (m \div Pow2(t - 1)) % 2]

Zeros(n) == [t \in 1..n |-> 0]

Unary(m) == Zeros(m) \o <<1>>

Magnitude(v) == IF v < 0 THEN -v - 1 ELSE v

SignOf(v) == IF v < 0 THEN 1 ELSE 0

\* Golomb-Rice: the signs, the low parts, the high parts of the first k.
Code(x, k, low) ==
      [n \in 1..k |-> SignOf(x[n - 1])]
   \o FlattenSeq([n \in 1..k |-> LowBitsOf(Magnitude(x[n - 1]), low)])
   \o FlattenSeq([n \in 1..k |-> Unary(Magnitude(x[n - 1]) \div Pow2(low))])

PadTo(s, len) == s \o Zeros(len - Len(s))

ToByte(s) == PadTo(s, BYTE * ((Len(s) + BYTE - 1) \div BYTE))

\* What is coded of q00: its first half, without the extra bits of q00[0] ...
Half(q) == [n \in 0..(N \div 2 - 1) |-> IF n = 0 THEN q[0] \div Pow2(EXTRA) ELSE q[n]]

\* ... which follow.
FirstPart(q) == Code(Half(q), N \div 2, LOW_00) \o LowBitsOf(q[0] % Pow2(EXTRA), EXTRA)

KeyCode(q, p) == ToByte(FirstPart(q)) \o Code(p, N, LOW_01)

KeyBits(q, p) == PadTo(KeyCode(q, p), PUBKEY_LEN * BYTE)

SigCode(salt, s1) == salt \o Code(s1, N, LOW_S1)

SigBits(salt, s1) == PadTo(SigCode(salt, s1), SIGNATURE_LEN * BYTE)

AsBuffer(s) == [bytes |-> Len(s) \div BYTE, bits |-> [t \in 0..(Len(s) - 1) |-> s[t + 1]]]

BitSeq(b) == [t \in 1..(b.bytes * BYTE) |-> b.bits[t - 1]]

\* An encoding that does not fit is no key: the signer draws another one.
EncodedKeys ==
  {AsBuffer(s) : s \in {b \in {KeyBits(q, p) : q \in Sampled00, p \in Sampled01} :
                          Len(b) = PUBKEY_LEN * BYTE}}

EncodedSigs ==
  {AsBuffer(s) : s \in {b \in {SigBits(t, x) : t \in Salts, x \in SampledS1} :
                          Len(b) = SIGNATURE_LEN * BYTE}}

\* The sample is of polynomials that the format has room for.
ASSUME SampleAssumption ==
  /\ \A q \in Sampled00 : q \in [Coeffs -> Int] /\ Half(q) \in Dec00!Encodable
  /\ Sampled01 \subseteq Dec01!Encodable
  /\ SampledS1 \subseteq DecS1!Encodable
  /\ Salts \subseteq [1..(SALT_LEN * BYTE) -> 0..1]

(***************************************************************************)
(* Properties.                                                             *)
(***************************************************************************)

\* What is accepted is, bit for bit, the encoding of what was decoded, so a
\* key or a signature has one encoding: no bit goes unread, neither between
\* q00 and q01 nor behind the last run.  The decoded q00 is self-adjoint.
Canonical ==
  stage = "good" =>
    \/ /\ call = "public"
       /\ BitSeq(buf) = KeyBits(q00, out)
       /\ \A n \in 1..(N - 1) : q00[n] = -q00[N - n]
    \/ /\ call = "signature"
       /\ BitSeq(buf) = SigBits(SubSeq(BitSeq(buf), 1, SALT_LEN * BYTE), out)

\* The converse: no encoding of the sample is refused.
AcceptsEncodings ==
  stage = "bad" => buf \notin (IF call = "public" THEN EncodedKeys ELSE EncodedSigs)
=============================================================================
