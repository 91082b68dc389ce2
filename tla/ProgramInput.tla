---------------------------- MODULE ProgramInput ----------------------------
(***************************************************************************)
(* How the example program's entrypoint (src/program/src/lib.rs) finds its *)
(* way in the region that the runtime serializes: it reads the number of   *)
(* accounts, walks over the account record to the instruction data, and    *)
(* cuts that into key, signature and message.  Program takes the result    *)
(* for granted; here the region is a list of parts with their lengths, an  *)
(* address is an offset in it, and a read off its part returns anything.   *)
(***************************************************************************)
EXTENDS Sums, SequencesExt

CONSTANTS Regions,        \* what the runtime may serialize: see Parts
          ReallocLen,     \* MAX_PERMITTED_DATA_INCREASE
          KeyLen, SigLen, BlobLen,
          Junk,           \* values that a stray read may return
          Nothing         \* not found yet

ASSUME InputAssumption ==
  /\ ReallocLen \in Nat /\ ReallocLen % 8 = 0
  /\ KeyLen \in Nat /\ SigLen \in Nat /\ BlobLen \in Nat
  /\ \A r \in Regions : r.dataLen \in Nat /\ r.ixLen \in Nat /\ r.duplicate \in BOOLEAN

VARIABLES region,         \* the input
          pc,
          off,            \* the walk's offset
          acct,           \* the account's data, as the walk found it
          data,           \* the instruction data, as the walk found it
          taken,          \* the slices cut from it, and the one to write
          code            \* what is returned

vars == <<region, pc, off, acct, data, taken, code>>

-----------------------------------------------------------------------------

\* What is missing to a multiple of eight (align_offset).
Padding(n) == (8 - (n % 8)) % 8

\* The serializer of the runtime.  An account record is a header of 88 bytes,
\* the data and room to grow, then the rent epoch and the padding in one order
\* or the other: the walk must not depend on it.
AccountParts(r) ==
  LET pad == [part |-> "pad", len |-> Padding(r.dataLen)]
      rent == [part |-> "rentEpoch", len |-> 8]
      header == << [part |-> "marker", len |-> 1], [part |-> "flags", len |-> 7],
                   [part |-> "key", len |-> 32], [part |-> "owner", len |-> 32],
                   [part |-> "lamports", len |-> 8], [part |-> "dataLen", len |-> 8],
                   [part |-> "data", len |-> r.dataLen], [part |-> "realloc", len |-> ReallocLen] >>
  IN  header \o IF r.rentFirst THEN <<rent, pad>> ELSE <<pad, rent>>

\* The record of a duplicate names an earlier account in its first byte.
DuplicateParts == << [part |-> "marker", len |-> 1], [part |-> "flags", len |-> 7] >>

Parts(r) ==
  LET count == << [part |-> "count", len |-> 8] >>
  IN  (CASE r.accounts = 0 -> count
         [] r.accounts # 0 /\ r.duplicate -> count \o DuplicateParts
         [] OTHER -> count \o AccountParts(r))
      \o << [part |-> "ixLen", len |-> 8], [part |-> "ixData", len |-> r.ixLen],
            [part |-> "programId", len |-> 32] >>

\* The ranges of the parts of a kind: one at most.
RangesOf(r, part) ==
  LET parts == Parts(r)
      start(k) == SumTo([m \in 0..(Len(parts) - 1) |-> parts[m + 1].len], k - 1)
  IN  {[at |-> start(k), len |-> parts[k].len] : k \in {k \in DOMAIN parts : parts[k].part = part}}

RangeOf(r, part) == CHOOSE x \in RangesOf(r, part) : TRUE

\* What a read of a u64, of the marker or of the mode may return.
At(o, part) == \E x \in RangesOf(region, part) : x.at = o

U64At(o) ==
  CASE At(o, "count") -> {region.accounts}
    [] At(o, "dataLen") -> {region.dataLen}
    [] At(o, "ixLen") -> {region.ixLen}
    [] OTHER -> Junk

MarkerAt(o) == IF At(o, "marker") THEN {~region.duplicate} ELSE BOOLEAN

Modes == {0, 1, 2, 3}       \* 3: every other value
ModeAt(o) == IF At(o, "ixData") THEN {region.mode} ELSE Modes

-----------------------------------------------------------------------------

Init ==
  /\ region \in Regions
  /\ pc = "count" /\ off = 0
  /\ acct = Nothing /\ data = Nothing /\ taken = << >> /\ code = Nothing

Return(c) == pc' = "returned" /\ code' = c

\* num_accounts: the walk goes over one account or none.
ReadCount ==
  /\ pc = "count"
  /\ \E n \in U64At(off) :
       CASE n = 0 -> pc' = "instruction" /\ code' = code
         [] n = 1 -> pc' = "account" /\ code' = code
         [] OTHER -> Return("invalid")
  /\ off' = off + 8
  /\ UNCHANGED <<region, acct, data, taken>>

\* Mutant: the walk assumes a data length that is a multiple of eight.
BehindUnaligned(o, len) == o + 88 + len + ReallocLen + 8

\* The offset behind the account record at o.
Behind(o, len) ==
  LET end == o + 88 + len + ReallocLen + 8
  IN  end + Padding(end)

DataAt(o) == o + 88

ReadAccount ==
  /\ pc = "account"
  /\ \E unique \in MarkerAt(off) :
       IF ~unique THEN Return("invalid") /\ UNCHANGED <<acct, off>>
       ELSE \E len \in U64At(off + 80) :
              /\ acct' = [at |-> DataAt(off), len |-> len]
              /\ off' = Behind(off, len)
              /\ pc' = "instruction" /\ code' = code
  /\ UNCHANGED <<region, data, taken>>

ReadInstruction ==
  /\ pc = "instruction"
  /\ \E len \in U64At(off) :
       IF len < 1 THEN Return("invalid") /\ data' = data
       ELSE data' = [at |-> off + 8, len |-> len] /\ pc' = "dispatch" /\ code' = code
  /\ UNCHANGED <<region, off, acct, taken>>

\* What comes before chunk k.
Before(lens, k) == SumTo([m \in 0..(Len(lens) - 1) |-> lens[m + 1]], k - 1)

\* Mutant: the message is all that follows the mode.
ChunksOverlap(lens) ==
  [k \in 1..(Len(lens) + 1) |->
     LET before == Before(lens, k)
     IN  IF k <= Len(lens) THEN [at |-> data.at + 1 + before, len |-> lens[k]]
         ELSE [at |-> data.at + 1, len |-> data.len - 1]]

\* split_first_chunk, once per length, and what is left of the payload.
Chunks(lens) ==
  [k \in 1..(Len(lens) + 1) |->
     LET before == Before(lens, k)
     IN  [at |-> data.at + 1 + before,
          len |-> IF k <= Len(lens) THEN lens[k] ELSE data.len - 1 - before]]

HasChunks(lens) == Before(lens, Len(lens) + 1) <= data.len - 1

\* A verification is asked for with the key in the instruction (mode 0) or
\* with the baked one (mode 1).
DispatchVerify(lens) ==
  IF HasChunks(lens) THEN taken' = Chunks(lens) /\ pc' = "verify" /\ code' = code
  ELSE Return("invalid") /\ taken' = taken

\* Mutant: any account is long enough.
FitsAny(len) == TRUE

\* An account takes a blob: a longer one does, too.
FitsBlob(len) == len >= BlobLen

DispatchRegister ==
  CASE acct = Nothing -> Return("invalid") /\ taken' = taken
    [] acct # Nothing /\ ~FitsBlob(acct.len) -> Return("too_small") /\ taken' = taken
    [] acct # Nothing /\ FitsBlob(acct.len) /\ ~HasChunks(<<KeyLen>>) -> Return("invalid") /\ taken' = taken
    [] OTHER -> /\ taken' = <<Chunks(<<KeyLen>>)[1], [at |-> acct.at, len |-> BlobLen]>>
                /\ pc' = "prepare" /\ code' = code

Dispatch ==
  /\ pc = "dispatch"
  /\ \E mode \in ModeAt(data.at) :
       CASE mode = 0 -> DispatchVerify(<<KeyLen, SigLen>>)
         [] mode = 1 -> DispatchVerify(<<SigLen>>)
         [] mode = 2 -> DispatchRegister
         [] OTHER -> Return("invalid") /\ taken' = taken
  /\ UNCHANGED <<region, off, acct, data>>

\* HawkVerify and PrepareInto tell which; prepare_into refuses an odd address.
Verify ==
  /\ pc = "verify"
  /\ Return("ok") \/ Return("verify_failed")
  /\ UNCHANGED <<region, off, acct, data, taken>>

Prepare ==
  /\ pc = "prepare"
  /\ (taken[2].at % 8 = 0 /\ Return("ok")) \/ Return("prepare_failed")
  /\ UNCHANGED <<region, off, acct, data, taken>>

Walk == ReadCount \/ ReadAccount \/ ReadInstruction \/ Dispatch \/ Verify

Next == Walk \/ Prepare

Spec == Init /\ [][Next]_vars

(***************************************************************************)
(* Properties.                                                             *)
(***************************************************************************)

Within(a, b) == a.at >= b.at /\ a.at + a.len <= b.at + b.len

\* Whatever the length of the account's data and the order of what follows it,
\* the walk ends on the instruction: every byte that the program takes for the
\* instruction data is one, and none is left out.
FindsInstruction == data # Nothing => data = RangeOf(region, "ixData")

\* prepare_into is given memory of the account's data only, of the length of a
\* blob and on the boundary that it asks for: a registration never fails for
\* its address and never reaches the room to grow or the next part.
WritesInsideAccount ==
  pc = "prepare" =>
    /\ \E x \in RangesOf(region, "data") : Within(taken[2], x)
    /\ taken[2].at % 8 = 0

\* Key, signature and message are cut from the payload side by side, and what
\* verify takes for the message is all of the rest: no byte of an instruction
\* is read twice or left unauthenticated.
CutsThePayload ==
  pc = "verify" =>
    /\ taken[1].at = RangeOf(region, "ixData").at + 1
    /\ \A k \in 1..(Len(taken) - 1) : taken[k + 1].at = taken[k].at + taken[k].len
    /\ Last(taken).at + Last(taken).len = RangeOf(region, "ixData").at + region.ixLen
    /\ taken[Len(taken) - 1].len = SigLen
=============================================================================
