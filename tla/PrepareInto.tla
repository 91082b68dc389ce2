---------------------------- MODULE PrepareInto ----------------------------
(***************************************************************************)
(* Hawk512Pubkey::prepare_into (src/src/lib.rs): decode a wire public key  *)
(* and write its prepared form, field by field and in place, into a buffer *)
(* the caller owns -- on chain, an account.  The buffer arrives with any   *)
(* contents: zeroes, garbage, the factors of an earlier key, or what an    *)
(* earlier call left when it failed half way.                              *)
(***************************************************************************)
EXTENDS PublicKey, BatchInversion

CONSTANTS Hashes,           \* the range of Hpub, and any other 32 bytes
          InitBlobs         \* contents the buffer may have at first

VARIABLES pc,       \* the point the call has reached
          aligned,  \* whether the buffer is 8-byte aligned
          pub,      \* the key being prepared
          lane,     \* which prime prepare_ntt works on
          i,        \* loop index
          acc,      \* running product of the batch inversion
          \* the fields of Hawk512PreparedPubkey:
          pvbound, fq01, q00n, q00inv, q01n, hpub

blob == <<pvbound, fq01, q00n, q00inv, q01n, hpub>>
vars == <<pc, aligned, pub, lane, i, acc, blob>>

Blob == [pvbound : [Slots -> Int],
         fq01    : Complex,
         q00n    : [Lane -> [Coeffs -> Nat]],
         q00inv  : [Lane -> [Coeffs -> Nat]],
         q01n    : [Lane -> [Coeffs -> Nat]],
         hpub    : Hashes]

\* The buffer, read as one Hawk512PreparedPubkey.
BlobNow == [pvbound |-> pvbound, fq01 |-> fq01, q00n |-> q00n,
            q00inv |-> q00inv, q01n |-> q01n, hpub |-> hpub]

Resting == {"idle", "ok", "err"}
Running == {"decode", "fft", "divisor", "ntt", "prefix", "invert", "back", "hash"}

(***************************************************************************)
(* The assumptions of the proofs; TLC evaluates them on every instance.    *)
(***************************************************************************)

ASSUME PrimesAssumption ==
  \A p \in {P1, P2} : p \in Nat /\ p > 1 /\ NoZeroDivisors(p) /\ Fermat(p)


ASSUME KeyAssumption ==
  \A k \in Wire :
    /\ Hpub(k) \in Hashes
    /\ DecodePublic(k).ok \in BOOLEAN
    /\ DecodePublic(k).ok => Reducible(Q00(k)) /\ Reducible(Q01(k))

ASSUME BlobAssumption == InitBlobs \subseteq Blob

-----------------------------------------------------------------------------

Init ==
  /\ \E b \in InitBlobs : /\ pvbound = b.pvbound /\ fq01 = b.fq01
                          /\ q00n = b.q00n /\ q00inv = b.q00inv
                          /\ q01n = b.q01n /\ hpub = b.hpub
  /\ aligned \in BOOLEAN
  /\ pub \in Wire
  /\ pc = "idle" /\ lane = 1 /\ i = 0 /\ acc = 1

\* Mutant: the alignment that the chain guarantees is not tested again.
CallUntested(k) ==
  /\ pc \in Resting
  /\ pub' = k
  /\ pc' = "decode"
  /\ UNCHANGED <<aligned, lane, i, acc, blob>>

\* A caller hands the buffer over; a misaligned one is refused.
Call(k) ==
  /\ pc \in Resting
  /\ pub' = k
  /\ pc' = IF aligned THEN "decode" ELSE "err"
  /\ UNCHANGED <<aligned, lane, i, acc, blob>>

\* Mutant: the key's name is written as soon as the key decodes.
DecodeNamesEarly ==
  /\ pc = "decode"
  /\ pc' = IF DecodePublic(pub).ok THEN "fft" ELSE "err"
  /\ hpub' = IF DecodePublic(pub).ok THEN Hpub(pub) ELSE hpub
  /\ UNCHANGED <<aligned, pub, lane, i, acc, pvbound, fq01, q00n, q00inv, q01n>>

Decode ==
  /\ pc = "decode"
  /\ pc' = IF DecodePublic(pub).ok THEN "fft" ELSE "err"
  /\ UNCHANGED <<aligned, pub, lane, i, acc, blob>>

\* The FFT of q00 is a transient; only that of q01 is stored.
PrepareFft ==
  /\ pc = "fft"
  /\ IF Q00(pub)[0] < 0
     THEN pc' = "err" /\ UNCHANGED <<fq01, i>>
     ELSE pc' = "divisor" /\ fq01' = Fq01(pub) /\ i' = 0
  /\ UNCHANGED <<aligned, pub, lane, acc, pvbound, q00n, q00inv, q01n, hpub>>

\* One slot of prepare_divisor; the first bad divisor stops the loop.
DivisorStep(good, bound) ==
  /\ pc = "divisor"
  /\ IF good
     THEN /\ pvbound' = [pvbound EXCEPT ![i] = bound]
          /\ i' = i + 1
          /\ pc' = IF i + 1 < N \div 2 THEN "divisor" ELSE "ntt"
          /\ lane' = 1
     ELSE pc' = "err" /\ UNCHANGED <<pvbound, i, lane>>
  /\ UNCHANGED <<aligned, pub, acc, fq01, q00n, q00inv, q01n, hpub>>

\* Mutants: no range test, and a bound stored without its scale.
PrepareDivisorUnchecked == DivisorStep(TRUE, BoundScale * V(pub)[i])
PrepareDivisorUnscaled == DivisorStep(InRange(V(pub)[i]), V(pub)[i])

PrepareDivisor == DivisorStep(InRange(V(pub)[i]), BoundScale * V(pub)[i])

\* prepare_ntt for the current prime: both transforms ...
NttTransforms(f00, f01) ==
  /\ pc = "ntt"
  /\ q00n' = [q00n EXCEPT ![lane] = f00]
  /\ q01n' = [q01n EXCEPT ![lane] = f01]
  /\ acc' = 1 /\ i' = 0 /\ pc' = "prefix"
  /\ UNCHANGED <<aligned, pub, lane, pvbound, fq01, q00inv, hpub>>

\* Mutant: the buffer is believed to hold q01 already.
NttFactorsStale == NttTransforms(Q00n(pub, lane), q01n[lane])

NttFactors == NttTransforms(Q00n(pub, lane), Q01n(pub, lane))

\* ... the prefix products, in the slots that will hold the inverses ...
PrefixStep(more) ==
  /\ pc = "prefix"
  /\ acc' = MulMod(acc, q00n[lane][i], Prime(lane))
  /\ q00inv' = [q00inv EXCEPT ![lane] = [@ EXCEPT ![i] = acc']]
  /\ i' = i + 1
  /\ pc' = IF more THEN "prefix" ELSE "invert"
  /\ UNCHANGED <<aligned, pub, lane, pvbound, fq01, q00n, q01n, hpub>>

\* Mutant: one product too many.
PrefixProductOneMore == PrefixStep(i < N)

PrefixProduct == PrefixStep(i + 1 < N)

\* ... one inversion of the whole product ...
InvertProduct ==
  /\ pc = "invert"
  /\ LET x == Inv(acc, Prime(lane)) IN
       IF x = None THEN pc' = "err" /\ UNCHANGED <<acc, i>>
                   ELSE pc' = "back" /\ acc' = x /\ i' = N
  /\ UNCHANGED <<aligned, pub, lane, blob>>

\* ... and the backward pass.  The slot before it still holds a prefix.
\* The mutant takes the accumulator of the slot after.
PeeledLate(j) ==
  LET p == Prime(lane) IN MulMod(MulMod(acc, q00n[lane][j], p), Product(q00inv[lane], j), p)

Peeled(j) == MulMod(acc, Product(q00inv[lane], j), Prime(lane))

\* When it ends, prepare_into goes on to the second prime or to the hash.
PeelSlot(j, left) ==
  /\ pc = "back"
  /\ q00inv' = [q00inv EXCEPT ![lane] = [@ EXCEPT ![j] = Peeled(j)]]
  /\ acc' = MulMod(acc, q00n[lane][j], Prime(lane))
  /\ i' = left
  /\ pc' = IF left > 0 THEN "back" ELSE IF lane = 1 THEN "ntt" ELSE "hash"
  /\ lane' = IF left = 0 THEN 2 ELSE lane
  /\ UNCHANGED <<aligned, pub, pvbound, fq01, q00n, q01n, hpub>>

\* Mutant: the slot below is taken, but i is not moved down to it.
BackwardPassStuck == PeelSlot(i - 1, i)

BackwardPass == PeelSlot(i - 1, i - 1)

HashPub ==
  /\ pc = "hash"
  /\ hpub' = Hpub(pub)
  /\ pc' = "ok"
  /\ UNCHANGED <<aligned, pub, lane, i, acc, pvbound, fq01, q00n, q00inv, q01n>>

Step == \/ Decode \/ PrepareFft \/ PrepareDivisor \/ NttFactors
        \/ PrefixProduct \/ InvertProduct \/ BackwardPass \/ HashPub

Next == Step \/ \E k \in Wire : Call(k)

\* A call that has started is ordinary sequential code: it runs on.
Spec == Init /\ [][Next]_vars /\ WF_vars(Step)

-----------------------------------------------------------------------------
(***************************************************************************)
(* Reference: what a prepared key must hold.                               *)
(***************************************************************************)

FactorsOf(k, l) == q00n[l] = Q00n(k, l) /\ q01n[l] = Q01n(k, l)

LaneComplete(k, l) ==
  FactorsOf(k, l) /\ InvertedFrom(q00n[l], q00inv[l], 0, Prime(l))

Complete(k) ==
  /\ fq01 = Fq01(k)
  /\ pvbound = [u \in Slots |-> BoundScale * V(k)[u]]
  /\ \A l \in Lane : LaneComplete(k, l)
  /\ hpub = Hpub(k)

(***************************************************************************)
(* Properties.                                                             *)
(***************************************************************************)

\* Every field keeps its type; the indices stay inside the arrays that the
\* code indexes after assert_unchecked(i < N).
TypeOK ==
  /\ pc \in Resting \cup Running
  /\ aligned \in BOOLEAN
  /\ pub \in Wire
  /\ lane \in Lane
  /\ i \in 0..N
  /\ acc \in Nat
  /\ pvbound \in [Slots -> Int]
  /\ fq01 \in Complex
  /\ q00n \in [Lane -> [Coeffs -> Nat]]
  /\ q00inv \in [Lane -> [Coeffs -> Nat]]
  /\ q01n \in [Lane -> [Coeffs -> Nat]]
  /\ hpub \in Hashes
  /\ pc = "divisor" => i \in Slots
  /\ pc = "prefix" => i \in Coeffs
  /\ pc = "back" => i - 1 \in Coeffs

\* Ok(()) means that every field of the buffer belongs to this key, whatever
\* the buffer held before: nothing stale and no prefix product survives.
OkIsComplete == pc = "ok" => Complete(pub)

\* Ok and Err depend on the key and the alignment alone: no content of the
\* buffer makes a usable key fail or a useless one succeed.
OutcomeIsTheKeys ==
  /\ pc = "ok" => aligned /\ Usable(pub)
  /\ pc = "err" => ~(aligned /\ Usable(pub))

\* What README.md and the comment on prepare_into give as the causes of Err: a
\* misaligned buffer, a malformed encoding or a q00 that is not invertible.
ErrHasADocumentedCause ==
  pc = "err" => ~aligned \/ ~DecodePublic(pub).ok \/ ~Invertible(pub)

\* hpub, the field that names the key, is written last: it changes only in a
\* step that leaves every other field complete, so a failed call that has
\* mixed two keys' factors never relabels them.
HpubIsLast == [][hpub' # hpub => Complete(pub)']_vars

\* A call that is refused for its buffer, its encoding or the sign of q00[0]
\* leaves the buffer as it was: no field is written, by this call or the next,
\* before those tests have passed for the key at hand.
UntouchedUntilAdmitted ==
  [][blob' # blob => aligned /\ DecodePublic(pub).ok /\ Q00(pub)[0] >= 0]_vars

\* Every call returns: both passes of the inversion reach the end of their index.
Returns == pc \in Running ~> pc \in {"ok", "err"}

(***************************************************************************)
(* The inductive invariant behind OkIsComplete and OutcomeIsTheKeys.       *)
(***************************************************************************)

BoundOf(k, u) == InRange(V(k)[u]) /\ pvbound[u] = BoundScale * V(k)[u]

InNtt == pc \in {"ntt", "prefix", "invert", "back", "hash"}

\* What the call has established about its key, and the FFT fields it wrote.
KeyInv ==
  /\ pc \in Running => aligned
  /\ pc \in Running \ {"decode"} => DecodePublic(pub).ok
  /\ pc = "divisor" \/ InNtt => Q00(pub)[0] >= 0 /\ fq01 = Fq01(pub)
  /\ pc = "divisor" => \A u \in Slots : u < i => BoundOf(pub, u)
  /\ InNtt => \A u \in Slots : BoundOf(pub, u)

\* The lanes that are finished, and the one being worked on.
LaneInv ==
  /\ InNtt /\ lane = 2 => LaneComplete(pub, 1)
  /\ pc = "hash" => lane = 2 /\ LaneComplete(pub, 2)
  /\ pc \in {"prefix", "invert", "back"} => FactorsOf(pub, lane)

\* The batch inversion of the current lane.
InversionInv ==
  LET f == q00n[lane]
      g == q00inv[lane]
      p == Prime(lane)
  IN  /\ pc = "prefix" => ForwardInv(f, g, i, acc, p)
      /\ pc = "invert" => ForwardInv(f, g, N, acc, p)
      /\ pc = "back" => BackwardInv(f, g, i, acc, p) /\ InvertedFrom(f, g, i, p)

IndInv == KeyInv /\ LaneInv /\ InversionInv /\ OkIsComplete /\ OutcomeIsTheKeys
=============================================================================
