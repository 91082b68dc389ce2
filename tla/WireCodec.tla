----------------------------- MODULE WireCodec -----------------------------
(***************************************************************************)
(* decode_public and decode_signature (src/src/codec.rs): the framing      *)
(* around the Golomb-Rice decoder, which runs inside as an instance of     *)
(* GolombRice on the rest of the buffer.  Everything the decoder does not  *)
(* consume must be zero, so that a key or a signature has one encoding.    *)
(***************************************************************************)
EXTENDS Params, Sums

CONSTANTS BYTE, CHUNK,         \* bits of a byte, bytes of a u64
          LOW_00, HIGH_00, LOW_01, HIGH_01, LOW_S1, HIGH_S1,
          EXTRA,               \* 16 - HIGH_00: further low bits of q00[0]
          PUBKEY_LEN, SIGNATURE_LEN, SALT_LEN,
          Keys, Signatures     \* buffers, as in GolombRice

ASSUME FramingAssumption ==
  /\ BYTE \in Nat \ {0} /\ CHUNK \in Nat \ {0} /\ EXTRA \in Nat
  /\ PUBKEY_LEN \in Nat /\ SIGNATURE_LEN \in Nat
  /\ SALT_LEN \in Nat /\ SALT_LEN <= SIGNATURE_LEN
  /\ LOW_00 \in 1..(BYTE + 1) /\ HIGH_00 \in Nat /\ LOW_00 <= HIGH_00
  /\ LOW_01 \in 1..(BYTE + 1) /\ HIGH_01 \in Nat /\ LOW_01 <= HIGH_01
  /\ LOW_S1 \in 1..(BYTE + 1) /\ HIGH_S1 \in Nat /\ LOW_S1 <= HIGH_S1

ASSUME InputsAssumption ==
  \A b \in Keys \cup Signatures :
    b.bytes \in Nat /\ b.bits \in [0..(b.bytes * BYTE - 1) -> 0..1]

VARIABLES call,   \* "public" or "signature": which of the two decoders runs
          stage,  \* where it is
          buf,    \* the key or the signature
          at,     \* its next bit: j of the framing functions
          q00,    \* the first polynomial of a key
          pc, y, i, j, z, out  \* the Golomb-Rice decoder

gr == <<pc, y, i, j, z, out>>
frame == <<call, stage, buf, at, q00>>
vars == <<frame, gr>>

BufBits == buf.bytes * BYTE

\* The buffer without its first n bytes.
Rest(b, n) == [bytes |-> b.bytes - n,
               bits  |-> [t \in 0..((b.bytes - n) * BYTE - 1) |-> b.bits[t + n * BYTE]]]

Slices == UNION {{Rest(b, n) : n \in 0..b.bytes} : b \in Keys \cup Signatures}

Dec00 == INSTANCE GolombRice WITH K <- N \div 2, LOW <- LOW_00, HIGH <- HIGH_00, Buffers <- Slices
Dec01 == INSTANCE GolombRice WITH K <- N, LOW <- LOW_01, HIGH <- HIGH_01, Buffers <- Slices
DecS1 == INSTANCE GolombRice WITH K <- N, LOW <- LOW_S1, HIGH <- HIGH_S1, Buffers <- Slices

Zeroes(k) == [n \in 0..(k - 1) |-> 0]

Done == {"good", "bad"}

-----------------------------------------------------------------------------

Init ==
  /\ \/ call = "public" /\ buf \in Keys
     \/ call = "signature" /\ buf \in Signatures
  /\ stage = "called" /\ at = 0 /\ q00 = Zeroes(N)
  /\ pc = "idle" /\ y = buf /\ i = 0 /\ j = 0 /\ z = 0 /\ out = Zeroes(N)

\* Hand the rest of the buffer to the decoder, and the k entries that it
\* writes of a zeroed array.
Decompress(n, k) ==
  /\ pc' = "start" /\ y' = Rest(buf, n)
  /\ i' = 0 /\ j' = 0 /\ z' = 0 /\ out' = Zeroes(k)

Fail == stage' = "bad" /\ UNCHANGED <<call, buf, at, q00, gr>>

DecodePublic ==
  /\ stage = "called" /\ call = "public"
  /\ IF buf.bytes # PUBKEY_LEN THEN Fail
     ELSE stage' = "q00" /\ Decompress(0, N \div 2) /\ UNCHANGED <<call, buf, at, q00>>

\* The decoder at work, one iteration of its loops.
Decode ==
  /\ \/ stage = "q00" /\ Dec00!Next
     \/ stage = "q01" /\ Dec01!Next
     \/ stage = "s1" /\ DecS1!Next
  /\ UNCHANGED frame

\* The decoder gave up.
DecodeFails ==
  /\ stage \in {"q00", "q01", "s1"} /\ pc = "none"
  /\ Fail

\* It has decoded q00: there must be room for the extra bits of q00[0] ...
DecodedQ00 ==
  /\ stage = "q00" /\ pc = "some"
  /\ IF BufBits < j + EXTRA THEN Fail
     ELSE /\ stage' = "extra" /\ at' = j
          /\ q00' = [n \in Coeffs |-> IF n < N \div 2 THEN out[n] ELSE 0]
          /\ UNCHANGED <<call, buf, gr>>

\* ... which are its low bits.
DecodeInt(off, v) == SumTo([t \in 0..(v - 1) |-> Pow2(t) * buf.bits[off + t]], v)

WithExtra == q00[0] * Pow2(EXTRA) + DecodeInt(at, EXTRA)

ExtraBits ==
  /\ stage = "extra"
  /\ q00' = [q00 EXCEPT ![0] = WithExtra]
  /\ at' = at + EXTRA
  /\ stage' = "pad"
  /\ UNCHANGED <<call, buf, gr>>

\* Zeroes up to the next byte; the mutant skips them unread.
PadFailsNever == at >= BufBits

PadFails == at >= BufBits \/ buf.bits[at] # 0

PadStep(next) ==
  /\ stage = "pad" /\ at % BYTE # 0
  /\ IF PadFails THEN Fail ELSE at' = next /\ UNCHANGED <<call, stage, buf, q00, gr>>

\* Mutant: the index is not advanced.
PadBitStuck == PadStep(at)

PadBit == PadStep(at + 1)

\* q00 is self-adjoint: its second half is minus its first half, backwards.
SelfAdjoint(q) == [n \in Coeffs |-> IF n < N \div 2 THEN q[n]
                                    ELSE IF n = N \div 2 THEN 0 ELSE -q[N - n]]

Padded ==
  /\ stage = "pad" /\ at % BYTE = 0
  /\ q00' = SelfAdjoint(q00)
  /\ stage' = "q01" /\ Decompress(at \div BYTE, N)
  /\ UNCHANGED <<call, buf, at>>

DecodedQ01 ==
  /\ stage = "q01" /\ pc = "some"
  /\ stage' = "tail" /\ at' = at + j
  /\ UNCHANGED <<call, buf, q00, gr>>

\* The salt is the first SALT_LEN bytes, s1 the rest.  Mutant: any length will do.
SaltedAnyLength(long) == TRUE

Salted(long) == long

DecodeSignature ==
  /\ stage = "called" /\ call = "signature"
  /\ IF ~Salted(buf.bytes = SIGNATURE_LEN) THEN Fail
     ELSE stage' = "s1" /\ Decompress(SALT_LEN, N) /\ UNCHANGED <<call, buf, at, q00>>

DecodedS1 ==
  /\ stage = "s1" /\ pc = "some"
  /\ stage' = "tail" /\ at' = j + SALT_LEN * BYTE
  /\ UNCHANGED <<call, buf, q00, gr>>

(***************************************************************************)
(* padding_all_zero, from bit at to the end: single bits to the next byte, *)
(* then words of CHUNK bytes, then single bytes.                           *)
(***************************************************************************)

AllZero(first, n) == \A t \in first..(first + n - 1) : buf.bits[t] = 0

\* The next n bits are read together.
Scan(n) ==
  IF AllZero(at, n) THEN at' = at + n /\ UNCHANGED <<call, stage, buf, q00, gr>> ELSE Fail

\* Mutant: the bytes are scanned from the one the code ends in.
TailBitSkipped ==
  /\ stage = "tail" /\ at % BYTE # 0
  /\ at' = at - (at % BYTE) /\ UNCHANGED <<call, stage, buf, q00, gr>>

TailBit ==
  /\ stage = "tail" /\ at % BYTE # 0
  /\ IF at < BufBits THEN Scan(1) ELSE stage' = "good" /\ UNCHANGED <<call, buf, at, q00, gr>>

WordFits == at + CHUNK * BYTE <= BufBits

TailWord == stage = "tail" /\ at % BYTE = 0 /\ WordFits /\ Scan(CHUNK * BYTE)

MoreBytes == at < BufBits

TailByte == stage = "tail" /\ at % BYTE = 0 /\ ~WordFits /\ MoreBytes /\ Scan(BYTE)

TailEnd ==
  /\ stage = "tail" /\ at % BYTE = 0 /\ ~WordFits /\ ~MoreBytes
  /\ stage' = "good" /\ UNCHANGED <<call, buf, at, q00, gr>>

Next == \/ DecodePublic \/ DecodeSignature \/ Decode \/ DecodeFails
        \/ DecodedQ00 \/ ExtraBits \/ PadBit \/ Padded \/ DecodedQ01 \/ DecodedS1
        \/ TailBit \/ TailWord \/ TailByte \/ TailEnd

\* Plain sequential code: it runs on until it returns.
Spec == Init /\ [][Next]_vars /\ WF_vars(Next)

(***************************************************************************)
(* Properties.                                                             *)
(***************************************************************************)

\* Every read of the framing and of the decoder inside it is inside the
\* buffer: the bits asserted to be there, the slices, and the unaligned word.
InBounds ==
  /\ stage \in {"q00", "q01", "s1"} => y.bytes \in Nat
  /\ stage = "q00" => Dec00!InBounds
  /\ stage = "q01" => Dec01!InBounds
  /\ stage = "s1" => DecS1!InBounds
  /\ stage = "extra" => at + EXTRA <= BufBits
  /\ stage \in {"pad", "tail"} => at <= BufBits

\* Every decoding returns.
Returns == <>(stage \in Done)
=============================================================================
