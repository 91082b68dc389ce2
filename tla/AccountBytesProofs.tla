-------------------------- MODULE AccountBytesProofs --------------------------
(***************************************************************************)
(* The entrypoint's walk for every length of the account's data and of the *)
(* instruction, and every order of what follows the data: it reads what it *)
(* takes its reads for.  Then the reader of the blob that a registration   *)
(* leaves there, for every degree, every width of a byte and every image.  *)
(***************************************************************************)
EXTENDS AccountBytes, ArithTheorems

\* Where each part of a region starts.
Starts(parts) == [k \in 1..(Len(parts) + 1) |->
                    SumTo([m \in 0..(Len(parts) - 1) |-> parts[m + 1].len], k - 1)]

\* Each part starts where the one before it ends.
LEMMA StartFacts ==
  ASSUME NEW parts, Len(parts) \in Nat, \A k \in 1..Len(parts) : parts[k].len \in Nat
  PROVE  /\ Starts(parts)[1] = 0
         /\ \A k \in 1..Len(parts) : Starts(parts)[k + 1] = Starts(parts)[k] + parts[k].len
<1> DEFINE n == Len(parts)
           ln == [m \in 0..(n - 1) |-> parts[m + 1].len]
<1>1. n \in Nat /\ \A k \in 0..(n - 1) : ln[k] \in Int /\ ln[k] = parts[k + 1].len
  OBVIOUS
<1> HIDE DEF ln
<1>2. /\ SumTo(ln, 0) = 0
      /\ \A k \in 0..(n - 1) : SumTo(ln, k + 1) = SumTo(ln, k) + ln[k]
  <2> HIDE DEF n
  <2>. QED
    BY <1>1, SumFacts
<1>3. \A k \in 1..(n + 1) : Starts(parts)[k] = SumTo(ln, k - 1)
  BY <1>1 DEF Starts, ln
<1> HIDE DEF n
<1>4. ASSUME NEW k \in 1..n PROVE Starts(parts)[k + 1] = Starts(parts)[k] + parts[k].len
  <2>1. k - 1 \in 0..(n - 1) /\ (k - 1) + 1 = k /\ k \in 1..(n + 1) /\ k + 1 \in 1..(n + 1) /\ (k + 1) - 1 = k
    BY <1>1
  <2>2. SumTo(ln, (k - 1) + 1) = SumTo(ln, k - 1) + ln[k - 1] /\ ln[k - 1] = parts[(k - 1) + 1].len
    BY <1>1, <1>2, <2>1
  <2>. QED
    BY <1>3, <2>1, <2>2
<1>5. Starts(parts)[1] = 0
  BY <1>1, <1>2, <1>3
<1>. QED
  BY <1>4, <1>5 DEF n

\* Of n parts, the kth is the only one of its kind.
Only(parts, n, k, part) == /\ DOMAIN parts = 1..n /\ Len(parts) = n /\ n \in Nat /\ k \in 1..n
                           /\ \A l \in 1..n : parts[l].part = part <=> l = k

\* The range of a part that is the only one of its kind.
LEMMA OneRange ==
  ASSUME NEW r, NEW part, NEW n, NEW k, Only(Parts(r), n, k, part)
  PROVE  RangesOf(r, part) = {[at |-> Starts(Parts(r))[k], len |-> Parts(r)[k].len]}
<1> DEFINE parts == Parts(r)
<1>0. Only(parts, n, k, part)
  OBVIOUS
<1>1. {l \in DOMAIN parts : parts[l].part = part} = {k}
  BY DEF Only
<1>2. Starts(parts)[k] = SumTo([m \in 0..(Len(parts) - 1) |-> parts[m + 1].len], k - 1)
  BY DEF Starts, Only
<1>. QED
  BY <1>1, <1>2 DEF RangesOf

\* A region without accounts: the instruction follows the count.
LEMMA NoAccount ==
  ASSUME NEW r, r.accounts = 0, r.ixLen \in Nat
  PROVE  /\ RangesOf(r, "count") = {[at |-> 0, len |-> 8]}
         /\ RangesOf(r, "dataLen") = {}
         /\ RangesOf(r, "ixLen") = {[at |-> 8, len |-> 8]}
         /\ RangesOf(r, "ixData") = {[at |-> 16, len |-> r.ixLen]}
<1> DEFINE s == Parts(r)
<1>1. /\ DOMAIN s = 1..4 /\ Len(s) = 4
      /\ s[1] = [part |-> "count", len |-> 8] /\ s[2] = [part |-> "ixLen", len |-> 8]
      /\ s[3] = [part |-> "ixData", len |-> r.ixLen] /\ s[4] = [part |-> "programId", len |-> 32]
  BY DEF Parts
<1> HIDE DEF s
<1>2. Len(s) \in Nat /\ \A k \in 1..Len(s) : s[k].len \in Nat
  BY <1>1
<1>3. Starts(s)[1] = 0 /\ Starts(s)[2] = 8 /\ Starts(s)[3] = 16
  <2>1. Starts(s)[1] = 0 /\ \A k \in 1..Len(s) : Starts(s)[k + 1] = Starts(s)[k] + s[k].len
    BY <1>2, StartFacts
  <2>2. /\ Starts(s)[1] = 0 /\ Starts(s)[1 + 1] = Starts(s)[1] + s[1].len
        /\ Starts(s)[2 + 1] = Starts(s)[2] + s[2].len
    BY <1>1, <2>1
  <2>. QED
    BY <1>1, <2>2
<1>4. /\ Only(s, 4, 1, "count") /\ Only(s, 4, 2, "ixLen") /\ Only(s, 4, 3, "ixData")
      /\ \A l \in 1..4 : s[l].part # "dataLen"
  BY <1>1 DEF Only
<1>5. RangesOf(r, "dataLen") = {}
  BY <1>1, <1>4 DEF RangesOf, s
<1>6. RangesOf(r, "count") = {[at |-> Starts(s)[1], len |-> s[1].len]}
  BY <1>4, OneRange DEF s
<1>7. RangesOf(r, "ixLen") = {[at |-> Starts(s)[2], len |-> s[2].len]}
  BY <1>4, OneRange DEF s
<1>8. RangesOf(r, "ixData") = {[at |-> Starts(s)[3], len |-> s[3].len]}
  BY <1>4, OneRange DEF s
<1>. QED
  BY <1>1, <1>3, <1>5, <1>6, <1>7, <1>8

\* The instruction of a region with an account.
InstructionAt(r) == 112 + r.dataLen + ReallocLen + Padding(r.dataLen)

\* A region with an account: its data starts at 96, and the instruction
\* follows the room to grow and what fills up to a multiple of eight.
LEMMA WithAccount ==
  ASSUME NEW r, r.accounts # 0, ~r.duplicate, r.dataLen \in Nat, r.ixLen \in Nat
  PROVE  /\ RangesOf(r, "count") = {[at |-> 0, len |-> 8]}
         /\ RangesOf(r, "marker") = {[at |-> 8, len |-> 1]}
         /\ RangesOf(r, "dataLen") = {[at |-> 88, len |-> 8]}
         /\ RangesOf(r, "data") = {[at |-> 96, len |-> r.dataLen]}
         /\ RangesOf(r, "ixLen") = {[at |-> InstructionAt(r) - 8, len |-> 8]}
         /\ RangesOf(r, "ixData") = {[at |-> InstructionAt(r), len |-> r.ixLen]}
<1> DEFINE s == Parts(r)
           pad == Padding(r.dataLen)
<1>0. pad \in Nat /\ ReallocLen \in Nat
  BY InputAssumption DEF Padding
<1> HIDE DEF pad
<1>1. /\ DOMAIN s = 1..14 /\ Len(s) = 14
      /\ s[1] = [part |-> "count", len |-> 8] /\ s[2] = [part |-> "marker", len |-> 1]
      /\ s[3] = [part |-> "flags", len |-> 7] /\ s[4] = [part |-> "key", len |-> 32]
      /\ s[5] = [part |-> "owner", len |-> 32] /\ s[6] = [part |-> "lamports", len |-> 8]
      /\ s[7] = [part |-> "dataLen", len |-> 8] /\ s[8] = [part |-> "data", len |-> r.dataLen]
      /\ s[9] = [part |-> "realloc", len |-> ReallocLen]
      /\ \/ s[10] = [part |-> "rentEpoch", len |-> 8] /\ s[11] = [part |-> "pad", len |-> pad]
         \/ s[10] = [part |-> "pad", len |-> pad] /\ s[11] = [part |-> "rentEpoch", len |-> 8]
      /\ s[12] = [part |-> "ixLen", len |-> 8] /\ s[13] = [part |-> "ixData", len |-> r.ixLen]
      /\ s[14] = [part |-> "programId", len |-> 32]
  BY DEF Parts, AccountParts, pad
<1> HIDE DEF s
<1>2. Len(s) \in Nat /\ \A k \in 1..Len(s) : s[k].len \in Nat
  BY <1>0, <1>1
<1>3. Starts(s)[1] = 0 /\ \A k \in 1..Len(s) : Starts(s)[k + 1] = Starts(s)[k] + s[k].len
  BY <1>2, StartFacts
<1> DEFINE a == Starts(s)
<1>4. a[1] = 0 /\ \A k \in 1..14 : a[k + 1] = a[k] + s[k].len
  BY <1>1, <1>3
<1> HIDE DEF a
<1>5. /\ a[1] = 0 /\ a[1 + 1] = a[1] + s[1].len /\ a[2 + 1] = a[2] + s[2].len
      /\ a[3 + 1] = a[3] + s[3].len /\ a[4 + 1] = a[4] + s[4].len /\ a[5 + 1] = a[5] + s[5].len
      /\ a[6 + 1] = a[6] + s[6].len /\ a[7 + 1] = a[7] + s[7].len /\ a[8 + 1] = a[8] + s[8].len
      /\ a[9 + 1] = a[9] + s[9].len /\ a[10 + 1] = a[10] + s[10].len
      /\ a[11 + 1] = a[11] + s[11].len /\ a[12 + 1] = a[12] + s[12].len
  BY <1>4
<1>6. a[2] = 8 /\ a[7] = 88 /\ a[8] = 96 /\ a[10] = 96 + r.dataLen + ReallocLen
  BY <1>0, <1>1, <1>5
<1>7. a[12] = a[10] + 8 + pad /\ a[13] = a[12] + 8
  BY <1>0, <1>1, <1>5, <1>6
<1>8. /\ Only(s, 14, 1, "count") /\ Only(s, 14, 2, "marker") /\ Only(s, 14, 7, "dataLen")
      /\ Only(s, 14, 8, "data") /\ Only(s, 14, 12, "ixLen") /\ Only(s, 14, 13, "ixData")
  BY <1>1 DEF Only
<1>9. RangesOf(r, "count") = {[at |-> a[1], len |-> s[1].len]}
  BY <1>8, OneRange DEF s, a
<1>10. RangesOf(r, "marker") = {[at |-> a[2], len |-> s[2].len]}
  BY <1>8, OneRange DEF s, a
<1>11. RangesOf(r, "dataLen") = {[at |-> a[7], len |-> s[7].len]}
  BY <1>8, OneRange DEF s, a
<1>12. RangesOf(r, "data") = {[at |-> a[8], len |-> s[8].len]}
  BY <1>8, OneRange DEF s, a
<1>13. RangesOf(r, "ixLen") = {[at |-> a[12], len |-> s[12].len]}
  BY <1>8, OneRange DEF s, a
<1>14. RangesOf(r, "ixData") = {[at |-> a[13], len |-> s[13].len]}
  BY <1>8, OneRange DEF s, a
<1>15. InstructionAt(r) \in Nat /\ a[12] = InstructionAt(r) - 8 /\ a[13] = InstructionAt(r)
  BY <1>0, <1>6, <1>7 DEF InstructionAt, pad
<1>. QED
  BY <1>1, <1>5, <1>6, <1>9, <1>10, <1>11, <1>12, <1>13, <1>14, <1>15

\* A region whose account is a duplicate: the record starts with its marker.
LEMMA WithDuplicate ==
  ASSUME NEW r, r.accounts # 0, r.duplicate, r.ixLen \in Nat
  PROVE  /\ RangesOf(r, "count") = {[at |-> 0, len |-> 8]}
         /\ RangesOf(r, "marker") = {[at |-> 8, len |-> 1]}
         /\ RangesOf(r, "dataLen") = {}
         /\ RangesOf(r, "ixLen") = {[at |-> 16, len |-> 8]}
<1> DEFINE s == Parts(r)
<1>1. /\ DOMAIN s = 1..6 /\ Len(s) = 6
      /\ s[1] = [part |-> "count", len |-> 8] /\ s[2] = [part |-> "marker", len |-> 1]
      /\ s[3] = [part |-> "flags", len |-> 7] /\ s[4] = [part |-> "ixLen", len |-> 8]
      /\ s[5] = [part |-> "ixData", len |-> r.ixLen] /\ s[6] = [part |-> "programId", len |-> 32]
  BY DEF Parts, DuplicateParts
<1> HIDE DEF s
<1>2. Len(s) \in Nat /\ \A k \in 1..Len(s) : s[k].len \in Nat
  BY <1>1
<1>3. Starts(s)[1] = 0 /\ \A k \in 1..Len(s) : Starts(s)[k + 1] = Starts(s)[k] + s[k].len
  BY <1>2, StartFacts
<1>4. Starts(s)[1] = 0 /\ Starts(s)[2] = 8 /\ Starts(s)[4] = 16
  <2>1. /\ Starts(s)[1 + 1] = Starts(s)[1] + s[1].len /\ Starts(s)[2 + 1] = Starts(s)[2] + s[2].len
        /\ Starts(s)[3 + 1] = Starts(s)[3] + s[3].len
    BY <1>1, <1>3
  <2>. QED
    BY <1>1, <1>3, <2>1
<1>5. /\ Only(s, 6, 1, "count") /\ Only(s, 6, 2, "marker") /\ Only(s, 6, 4, "ixLen")
      /\ \A l \in 1..6 : s[l].part # "dataLen"
  BY <1>1 DEF Only
<1>6. RangesOf(r, "count") = {[at |-> Starts(s)[1], len |-> s[1].len]}
  BY <1>5, OneRange DEF s
<1>7. RangesOf(r, "marker") = {[at |-> Starts(s)[2], len |-> s[2].len]}
  BY <1>5, OneRange DEF s
<1>8. RangesOf(r, "ixLen") = {[at |-> Starts(s)[4], len |-> s[4].len]}
  BY <1>5, OneRange DEF s
<1>9. RangesOf(r, "dataLen") = {}
  BY <1>1, <1>5 DEF RangesOf, s
<1>. QED
  BY <1>1, <1>4, <1>6, <1>7, <1>8, <1>9

-----------------------------------------------------------------------------
(***************************************************************************)
(* The walk.                                                               *)
(***************************************************************************)

\* Where the instruction data is.
Instruction(r) == [at |-> IF r.accounts = 0 THEN 16 ELSE InstructionAt(r), len |-> r.ixLen]

WalkInv ==
  /\ region \in Regions
  /\ pc = "count" => off = 0
  /\ pc = "account" => off = 8 /\ region.accounts # 0
  /\ pc = "instruction" => /\ region.accounts # 0 => ~region.duplicate
                           /\ off + 8 = Instruction(region).at /\ off \in Nat
  /\ acct # Nothing => /\ region.accounts # 0 /\ ~region.duplicate
                       /\ acct = [at |-> 96, len |-> region.dataLen]
  /\ pc \in {"dispatch", "verify", "prepare"} \/ data # Nothing =>
       /\ region.accounts # 0 => ~region.duplicate
       /\ data = Instruction(region)

\* What is cut from the instruction.
TakenInv ==
  /\ pc = "verify" => \E lens \in {<<KeyLen, SigLen>>, <<SigLen>>} : HasChunks(lens) /\ taken = Chunks(lens)
  /\ pc = "prepare" => /\ acct # Nothing /\ BlobLen <= region.dataLen
                       /\ taken[2] = [at |-> 96, len |-> BlobLen]

\* A part of a kind that the region has once, at a.
Once(part, a) == \E l : RangesOf(region, part) = {[at |-> a, len |-> l]}

\* A read meets a part where the part starts.
LEMMA AtStart ==
  ASSUME NEW part, NEW a, Once(part, a)
  PROVE  \A b : At(b, part) <=> b = a
<1>1. PICK l : RangesOf(region, part) = {[at |-> a, len |-> l]}
  BY DEF Once
<1>. QED
  BY <1>1 DEF At

\* The three kinds of regions.
LEMMA InstructionFacts ==
  ASSUME region \in Regions
  PROVE  /\ region.dataLen \in Nat /\ region.ixLen \in Nat /\ region.duplicate \in BOOLEAN
         /\ U64At(0) = {region.accounts}
         /\ region.accounts # 0 => MarkerAt(8) = {~region.duplicate}
         /\ region.accounts # 0 /\ ~region.duplicate =>
              /\ U64At(88) = {region.dataLen}
              /\ RangesOf(region, "data") = {[at |-> 96, len |-> region.dataLen]}
         /\ (region.accounts # 0 => ~region.duplicate) =>
              /\ Instruction(region).at \in Nat /\ Instruction(region).at >= 16
              /\ U64At(Instruction(region).at - 8) = {region.ixLen}
              /\ RangesOf(region, "ixData") = {Instruction(region)}
<1>1. region.dataLen \in Nat /\ region.ixLen \in Nat /\ region.duplicate \in BOOLEAN
  BY InputAssumption
<1>2. InstructionAt(region) \in Nat /\ InstructionAt(region) > 96
  BY <1>1, InputAssumption DEF InstructionAt, Padding
<1>3. CASE region.accounts = 0
  <2>1. /\ RangesOf(region, "count") = {[at |-> 0, len |-> 8]}
        /\ RangesOf(region, "dataLen") = {}
        /\ RangesOf(region, "ixLen") = {[at |-> 8, len |-> 8]}
        /\ RangesOf(region, "ixData") = {[at |-> 16, len |-> region.ixLen]}
    BY <1>1, <1>3, NoAccount
  <2>2. \A b : /\ At(b, "count") <=> b = 0
               /\ ~At(b, "dataLen")
               /\ At(b, "ixLen") <=> b = 8
    <3>1. \A b : ~At(b, "dataLen")
      BY <2>1 DEF At
    <3>2. \A b : At(b, "count") <=> b = 0
      <4>1. Once("count", 0)
        BY <2>1 DEF Once
      <4>. QED
        BY <4>1, AtStart
    <3>3. \A b : At(b, "ixLen") <=> b = 8
      <4>1. Once("ixLen", 8)
        BY <2>1 DEF Once
      <4>. QED
        BY <4>1, AtStart
    <3>. QED
      BY <3>1, <3>2, <3>3
  <2>3. U64At(0) = {region.accounts} /\ U64At(8) = {region.ixLen}
    BY <2>2 DEF U64At
  <2>. QED
    BY <1>1, <1>3, <2>1, <2>3 DEF Instruction
<1>4. CASE region.accounts # 0 /\ ~region.duplicate
  <2>1. /\ RangesOf(region, "count") = {[at |-> 0, len |-> 8]}
        /\ RangesOf(region, "marker") = {[at |-> 8, len |-> 1]}
        /\ RangesOf(region, "dataLen") = {[at |-> 88, len |-> 8]}
        /\ RangesOf(region, "data") = {[at |-> 96, len |-> region.dataLen]}
        /\ RangesOf(region, "ixLen") = {[at |-> InstructionAt(region) - 8, len |-> 8]}
        /\ RangesOf(region, "ixData") = {[at |-> InstructionAt(region), len |-> region.ixLen]}
    BY <1>1, <1>4, WithAccount
  <2>2. \A b : /\ At(b, "count") <=> b = 0
               /\ At(b, "marker") <=> b = 8
               /\ At(b, "dataLen") <=> b = 88
               /\ At(b, "ixLen") <=> b = InstructionAt(region) - 8
    <3>1. \A b : At(b, "count") <=> b = 0
      <4>1. Once("count", 0)
        BY <2>1 DEF Once
      <4>. QED
        BY <4>1, AtStart
    <3>2. \A b : At(b, "marker") <=> b = 8
      <4>1. Once("marker", 8)
        BY <2>1 DEF Once
      <4>. QED
        BY <4>1, AtStart
    <3>3. \A b : At(b, "dataLen") <=> b = 88
      <4>1. Once("dataLen", 88)
        BY <2>1 DEF Once
      <4>. QED
        BY <4>1, AtStart
    <3>4. \A b : At(b, "ixLen") <=> b = InstructionAt(region) - 8
      <4>1. Once("ixLen", InstructionAt(region) - 8)
        BY <2>1 DEF Once
      <4>. QED
        BY <4>1, AtStart
    <3>. QED
      BY <3>1, <3>2, <3>3, <3>4
  <2>3. InstructionAt(region) - 8 # 0 /\ InstructionAt(region) - 8 # 88
    BY <1>2
  <2>4. /\ U64At(0) = {region.accounts} /\ U64At(88) = {region.dataLen}
        /\ U64At(InstructionAt(region) - 8) = {region.ixLen}
    <3>1. U64At(0) = {region.accounts}
      <4>1. At(0, "count") /\ ~At(0, "dataLen") /\ ~At(0, "ixLen")
        <5>1. At(0, "count") /\ (At(0, "dataLen") => 0 = 88) /\ (At(0, "ixLen") => 0 = InstructionAt(region) - 8)
          BY <2>2, Zenon
        <5>. QED
          BY <2>3, <5>1
      <4>. QED
        BY <4>1 DEF U64At
    <3>2. U64At(88) = {region.dataLen}
      <4>1. ~At(88, "count") /\ At(88, "dataLen") /\ ~At(88, "ixLen")
        <5>1. At(88, "dataLen") /\ (At(88, "count") => 88 = 0) /\ (At(88, "ixLen") => 88 = InstructionAt(region) - 8)
          BY <2>2, Zenon
        <5>. QED
          BY <2>3, <5>1
      <4>. QED
        BY <4>1 DEF U64At
    <3>3. U64At(InstructionAt(region) - 8) = {region.ixLen}
      BY <2>2, <2>3 DEF U64At
    <3>. QED
      BY <3>1, <3>2, <3>3
  <2>5. MarkerAt(8) = {~region.duplicate}
    BY <2>2 DEF MarkerAt
  <2>. QED
    BY <1>1, <1>2, <1>4, <2>1, <2>4, <2>5 DEF Instruction
<1>5. CASE region.accounts # 0 /\ region.duplicate
  <2>1. /\ RangesOf(region, "count") = {[at |-> 0, len |-> 8]}
        /\ RangesOf(region, "marker") = {[at |-> 8, len |-> 1]}
        /\ RangesOf(region, "dataLen") = {}
        /\ RangesOf(region, "ixLen") = {[at |-> 16, len |-> 8]}
    BY <1>1, <1>5, WithDuplicate
  <2>2. /\ At(0, "count") /\ ~At(0, "dataLen") /\ ~At(0, "ixLen") /\ At(8, "marker")
    <3>1. ~At(0, "dataLen")
      BY <2>1 DEF At
    <3>2. At(0, "count")
      <4>1. Once("count", 0)
        BY <2>1 DEF Once
      <4>. QED
        BY <4>1, AtStart
    <3>3. At(8, "marker")
      <4>1. Once("marker", 8)
        BY <2>1 DEF Once
      <4>. QED
        BY <4>1, AtStart
    <3>4. ~At(0, "ixLen")
      <4>1. Once("ixLen", 16)
        BY <2>1 DEF Once
      <4>. QED
        BY <4>1, AtStart
    <3>. QED
      BY <3>1, <3>2, <3>3, <3>4
  <2>3. U64At(0) = {region.accounts} /\ MarkerAt(8) = {~region.duplicate}
    BY <2>2 DEF U64At, MarkerAt
  <2>. QED
    BY <1>1, <1>5, <2>3
<1>. QED
  BY <1>1, <1>3, <1>4, <1>5

\* Behind the account's record is the instruction: the padding that the walk
\* adds is the padding that the serializer added.
LEMMA BehindRecord ==
  ASSUME NEW len \in Nat
  PROVE  Behind(8, len) + 8 = 112 + len + ReallocLen + Padding(len)
<1> DEFINE end == 8 + 88 + len + ReallocLen + 8
<1>1. ReallocLen \in Nat /\ ReallocLen % 8 = 0
  BY InputAssumption
<1>2. end % 8 = len % 8
  BY <1>1
<1>3. Padding(end) = Padding(len) /\ Padding(len) \in Nat
  BY <1>2 DEF Padding
<1>4. Behind(8, len) = end + Padding(end)
  BY DEF Behind
<1>. QED
  BY <1>1, <1>3, <1>4

\* The walk begins so,
LEMMA WalkInit == Init => WalkInv /\ TakenInv
BY DEF Init, WalkInv, TakenInv

\* and every step of it keeps both invariants.
LEMMA WalkNext == WalkInv /\ TakenInv /\ [Next]_vars => WalkInv' /\ TakenInv'
<1> SUFFICES ASSUME WalkInv, TakenInv, [Next]_vars
             PROVE  WalkInv' /\ TakenInv'
  OBVIOUS
<1>0. region \in Regions
  BY DEF WalkInv
<1>1. CASE ReadCount
  <2>1. pc = "count" /\ off = 0 /\ U64At(off) = {region.accounts}
    BY <1>0, <1>1, InstructionFacts DEF ReadCount, WalkInv
  <2>2. \/ region.accounts = 0 /\ pc' = "instruction"
        \/ region.accounts = 1 /\ pc' = "account"
        \/ pc' = "returned"
    BY <1>1, <2>1 DEF ReadCount, Return
  <2>3. off' = 8 /\ region' = region /\ acct' = acct /\ data' = data /\ taken' = taken
    BY <1>1, <2>1 DEF ReadCount
  <2>4. region.accounts = 0 => Instruction(region).at = 16
    BY DEF Instruction
  <2>. QED
    BY <1>0, <2>1, <2>2, <2>3, <2>4 DEF WalkInv, TakenInv
<1>2. CASE ReadAccount
  <2>1. pc = "account" /\ off = 8 /\ region.accounts # 0 /\ MarkerAt(off) = {~region.duplicate}
    BY <1>0, <1>2, InstructionFacts DEF ReadAccount, WalkInv
  <2>2. UNCHANGED <<region, data, taken>>
    BY <1>2 DEF ReadAccount
  <2>3. CASE region.duplicate
    <3>1. pc' = "returned" /\ acct' = acct
      BY <1>2, <2>1, <2>3 DEF ReadAccount, Return
    <3>. QED
      BY <1>0, <2>1, <2>2, <3>1 DEF WalkInv, TakenInv
  <2>4. CASE ~region.duplicate
    <3>1. region.dataLen \in Nat /\ U64At(88) = {region.dataLen}
      BY <1>0, <2>1, <2>4, InstructionFacts
    <3>2. off + 80 = 88
      BY <2>1
    <3>3. /\ acct' = [at |-> DataAt(off), len |-> region.dataLen]
          /\ off' = Behind(off, region.dataLen) /\ pc' = "instruction"
      BY <1>2, <2>1, <2>4, <3>1, <3>2 DEF ReadAccount
    <3>4. DataAt(off) = 96
      BY <2>1 DEF DataAt
    <3>5. off' + 8 = Instruction(region).at /\ off' \in Nat
      <4>1. Behind(8, region.dataLen) + 8 = Instruction(region).at
        BY <2>1, <3>1, BehindRecord DEF Instruction, InstructionAt
      <4>2. Behind(8, region.dataLen) \in Nat
        BY <3>1, InputAssumption DEF Behind, Padding
      <4>. QED
        BY <2>1, <3>3, <4>1, <4>2
    <3>. QED
      BY <1>0, <2>1, <2>2, <2>4, <3>3, <3>4, <3>5 DEF WalkInv, TakenInv
  <2>. QED
    BY <1>0, <2>3, <2>4, InstructionFacts
<1>3. CASE ReadInstruction
  <2>1. /\ pc = "instruction" /\ (region.accounts # 0 => ~region.duplicate)
        /\ off + 8 = Instruction(region).at /\ off \in Nat
    BY <1>3 DEF ReadInstruction, WalkInv
  <2>2. U64At(Instruction(region).at - 8) = {region.ixLen}
    BY <1>0, <2>1, InstructionFacts
  <2>3. Instruction(region).at - 8 = off
    BY <2>1
  <2>4. \/ pc' = "returned" /\ data' = data
        \/ pc' = "dispatch" /\ data' = [at |-> off + 8, len |-> region.ixLen]
    BY <1>3, <2>2, <2>3 DEF ReadInstruction, Return
  <2>5. [at |-> off + 8, len |-> region.ixLen] = Instruction(region)
    BY <2>1 DEF Instruction
  <2>6. UNCHANGED <<region, off, acct, taken>>
    BY <1>3 DEF ReadInstruction
  <2>. QED
    BY <1>0, <2>1, <2>4, <2>5, <2>6 DEF WalkInv, TakenInv
<1>4. CASE Dispatch
  <2>1. UNCHANGED <<region, off, acct, data>> /\ pc = "dispatch"
    BY <1>4 DEF Dispatch
  <2>2. \/ pc' = "returned"
        \/ /\ pc' = "verify"
           /\ \E lens \in {<<KeyLen, SigLen>>, <<SigLen>>} : HasChunks(lens) /\ taken' = Chunks(lens)
        \/ /\ pc' = "prepare" /\ acct # Nothing /\ FitsBlob(acct.len)
           /\ taken' = <<Chunks(<<KeyLen>>)[1], [at |-> acct.at, len |-> BlobLen]>>
    BY <1>4 DEF Dispatch, DispatchVerify, DispatchRegister, Return
  <2>3. WalkInv'
    BY <1>0, <2>1, <2>2 DEF WalkInv
  <2>4. TakenInv'
    <3>1. pc' = "verify" => \E lens \in {<<KeyLen, SigLen>>, <<SigLen>>} : (HasChunks(lens) /\ taken = Chunks(lens))'
      BY <2>1, <2>2 DEF HasChunks, Chunks
    <3>2. pc' = "prepare" => /\ acct # Nothing /\ BlobLen <= region.dataLen
                             /\ taken'[2] = [at |-> 96, len |-> BlobLen]
      BY <2>1, <2>2 DEF FitsBlob, WalkInv
    <3>. QED
      BY <2>1, <3>1, <3>2 DEF TakenInv
  <2>. QED
    BY <2>3, <2>4
<1>5. CASE Verify \/ Prepare
  BY <1>5 DEF Verify, Prepare, Return, WalkInv, TakenInv
<1>6. CASE UNCHANGED vars
  BY <1>6 DEF vars, WalkInv, TakenInv, HasChunks, Chunks
<1>. QED
  BY <1>1, <1>2, <1>3, <1>4, <1>5, <1>6 DEF Next, Walk

\* What the walk has found and cut is right in every state.
THEOREM Walked == AccountSpec => [](WalkInv /\ TakenInv)
<1>1. AccountInit => WalkInv /\ TakenInv
  BY WalkInit DEF AccountInit
<1>2. [AccountNext]_allVars => [Next]_vars
  BY DEF AccountNext, allVars, Serve, Register, Read, Next
<1>. QED
  BY <1>1, <1>2, WalkNext, PTL DEF AccountSpec

\* Whatever the length of the account's data and the order of the parts behind
\* it, the walk of the entrypoint ends on the instruction data (lib.rs of the
\* program: the offset is aligned after the data and the room to grow).
THEOREM WalkFindsInstruction == AccountSpec => []FindsInstruction
<1>1. WalkInv => FindsInstruction
  <2> SUFFICES ASSUME WalkInv, data # Nothing PROVE data = RangeOf(region, "ixData")
    BY DEF FindsInstruction
  <2>1. region \in Regions /\ (region.accounts # 0 => ~region.duplicate) /\ data = Instruction(region)
    BY DEF WalkInv
  <2>2. RangesOf(region, "ixData") = {Instruction(region)}
    BY <2>1, InstructionFacts
  <2>. QED
    BY <2>1, <2>2 DEF RangeOf
<1>. QED
  BY <1>1, Walked, PTL

\* A registration writes to the account's data only, never to the room to grow
\* or to the next part, and its address is a multiple of eight, as
\* prepare_into demands.
THEOREM WritesStayInAccount == AccountSpec => []WritesInsideAccount
<1>1. WalkInv /\ TakenInv => WritesInsideAccount
  <2> SUFFICES ASSUME WalkInv, TakenInv, pc = "prepare"
               PROVE  /\ \E x \in RangesOf(region, "data") : Within(taken[2], x)
                      /\ taken[2].at % 8 = 0
    BY DEF WritesInsideAccount
  <2>1. /\ region \in Regions /\ region.accounts # 0 /\ ~region.duplicate /\ BlobLen <= region.dataLen
        /\ taken[2] = [at |-> 96, len |-> BlobLen]
    BY DEF WalkInv, TakenInv
  <2>2. RangesOf(region, "data") = {[at |-> 96, len |-> region.dataLen]} /\ region.dataLen \in Nat
    BY <2>1, InstructionFacts
  <2>3. BlobLen \in Nat
    BY InputAssumption
  <2>4. Within(taken[2], [at |-> 96, len |-> region.dataLen])
    BY <2>1, <2>2, <2>3 DEF Within
  <2>5. taken[2].at % 8 = 0
    BY <2>1
  <2>. QED
    BY <2>2, <2>4, <2>5
<1>. QED
  BY <1>1, Walked, PTL

\* What comes before each of one or two chunks.
LEMMA BeforeOne ==
  ASSUME NEW a \in Nat
  PROVE  Before(<<a>>, 1) = 0 /\ Before(<<a>>, 2) = a
<1> DEFINE ln == [m \in 0..(Len(<<a>>) - 1) |-> <<a>>[m + 1]]
<1>1. ln[0] = a /\ \A k \in 0..0 : ln[k] \in Int
  OBVIOUS
<1>2. Before(<<a>>, 1) = SumTo(ln, 0) /\ Before(<<a>>, 2) = SumTo(ln, 1)
  BY DEF Before
<1> HIDE DEF ln
<1>3. SumTo(ln, 0) = 0 /\ \A n \in 0..(1 - 1) : SumTo(ln, n + 1) = SumTo(ln, n) + ln[n]
  BY <1>1, SumFacts
<1>4. SumTo(ln, 0 + 1) = SumTo(ln, 0) + ln[0]
  BY <1>3
<1>. QED
  BY <1>1, <1>2, <1>3, <1>4

\* What comes before the chunks of a split in two.
LEMMA BeforeTwo ==
  ASSUME NEW a \in Nat, NEW b \in Nat
  PROVE  Before(<<a, b>>, 1) = 0 /\ Before(<<a, b>>, 2) = a /\ Before(<<a, b>>, 3) = a + b
<1> DEFINE ln == [m \in 0..(Len(<<a, b>>) - 1) |-> <<a, b>>[m + 1]]
<1>1. ln[0] = a /\ ln[1] = b /\ \A k \in 0..(2 - 1) : ln[k] \in Int
  OBVIOUS
<1>2. Before(<<a, b>>, 1) = SumTo(ln, 0) /\ Before(<<a, b>>, 2) = SumTo(ln, 1) /\ Before(<<a, b>>, 3) = SumTo(ln, 2)
  BY DEF Before
<1> HIDE DEF ln
<1>3. SumTo(ln, 0) = 0 /\ \A n \in 0..(2 - 1) : SumTo(ln, n + 1) = SumTo(ln, n) + ln[n]
  BY <1>1, SumFacts
<1>4. SumTo(ln, 0 + 1) = SumTo(ln, 0) + ln[0] /\ SumTo(ln, 1 + 1) = SumTo(ln, 1) + ln[1]
  BY <1>3
<1>. QED
  BY <1>1, <1>2, <1>3, <1>4

\* Key, signature and message are side by side and the message is all that is
\* left of the payload, with the key in the instruction and without it.
THEOREM PayloadIsCut == AccountSpec => []CutsThePayload
<1>1. WalkInv /\ TakenInv => CutsThePayload
  <2> SUFFICES ASSUME WalkInv, TakenInv, pc = "verify" PROVE CutsThePayload
    BY DEF CutsThePayload
  <2>1. region \in Regions /\ (region.accounts # 0 => ~region.duplicate) /\ data = Instruction(region)
    BY DEF WalkInv
  <2>2. /\ region.ixLen \in Nat /\ data.at \in Nat /\ data.len = region.ixLen
        /\ RangesOf(region, "ixData") = {data}
    BY <2>1, InstructionFacts DEF Instruction
  <2>3. RangeOf(region, "ixData") = data
    BY <2>2 DEF RangeOf
  <2>4. KeyLen \in Nat /\ SigLen \in Nat
    BY InputAssumption
  <2>5. CASE taken = Chunks(<<KeyLen, SigLen>>)
    <3>1. /\ DOMAIN taken = 1..3
          /\ taken[1] = [at |-> data.at + 1 + 0, len |-> KeyLen]
          /\ taken[2] = [at |-> data.at + 1 + KeyLen, len |-> SigLen]
          /\ taken[3] = [at |-> data.at + 1 + (KeyLen + SigLen), len |-> data.len - 1 - (KeyLen + SigLen)]
      BY <2>4, <2>5, BeforeTwo DEF Chunks
    <3>2. Len(taken) = 3
      BY <2>5 DEF Chunks
    <3>3. \A k \in 1..2 : taken[k + 1].at = taken[k].at + taken[k].len
      <4>1. taken[1 + 1].at = taken[1].at + taken[1].len /\ taken[2 + 1].at = taken[2].at + taken[2].len
        BY <2>2, <2>4, <3>1
      <4>. QED
        BY <4>1
    <3>4. Last(taken) = taken[3]
      BY <3>2 DEF Last
    <3>. QED
      BY <2>2, <2>3, <2>4, <3>1, <3>2, <3>3, <3>4 DEF CutsThePayload
  <2>6. CASE taken = Chunks(<<SigLen>>)
    <3>1. /\ DOMAIN taken = 1..2
          /\ taken[1] = [at |-> data.at + 1 + 0, len |-> SigLen]
          /\ taken[2] = [at |-> data.at + 1 + SigLen, len |-> data.len - 1 - SigLen]
      BY <2>4, <2>6, BeforeOne DEF Chunks
    <3>2. Len(taken) = 2
      BY <2>6 DEF Chunks
    <3>3. \A k \in 1..1 : taken[k + 1].at = taken[k].at + taken[k].len
      <4>1. taken[1 + 1].at = taken[1].at + taken[1].len
        BY <2>2, <2>4, <3>1
      <4>. QED
        BY <4>1
    <3>4. Last(taken) = taken[2]
      BY <3>2 DEF Last
    <3>. QED
      BY <2>2, <2>3, <2>4, <3>1, <3>2, <3>3, <3>4 DEF CutsThePayload
  <2>. QED
    BY <2>5, <2>6 DEF TakenInv
<1>. QED
  BY <1>1, Walked, PTL

-----------------------------------------------------------------------------
(***************************************************************************)
(* The blob that a registration has left there, and its reader.            *)
(***************************************************************************)

\* The fields of the structure, and their order in from_bytes.
LEMMA FieldFacts ==
  /\ DOMAIN Layout!Fields = 1..9 /\ Len(Layout!FillOrder) = 9
  /\ \A k \in 1..9 :
       /\ Layout!Size(k) = IF k <= 2 THEN 8 ELSE IF k <= 8 THEN 4 ELSE 1
       /\ Layout!Fields[k].count = IF k = 1 THEN N \div 2 ELSE IF k <= 8 THEN N ELSE HpubLen
       /\ Layout!Fields[k].type = IF k <= 2 THEN "i64" ELSE IF k <= 8 THEN "u32" ELSE "u8"
       /\ Layout!Width[Layout!Fields[k].type] = Layout!Size(k)
       /\ Layout!FillOrder[k] = Layout!Fields[k].name
  /\ \A k, l \in 1..9 : Layout!Fields[k].name = Layout!Fields[l].name => k = l
<1>1. DOMAIN Layout!Fields = 1..9 /\ Len(Layout!FillOrder) = 9
  BY DEF Layout!Fields, Layout!FillOrder
<1>2. ASSUME NEW k \in 1..9
      PROVE  /\ Layout!Size(k) = IF k <= 2 THEN 8 ELSE IF k <= 8 THEN 4 ELSE 1
             /\ Layout!Fields[k].count = IF k = 1 THEN N \div 2 ELSE IF k <= 8 THEN N ELSE HpubLen
             /\ Layout!Fields[k].type = IF k <= 2 THEN "i64" ELSE IF k <= 8 THEN "u32" ELSE "u8"
             /\ Layout!Width[Layout!Fields[k].type] = Layout!Size(k)
             /\ Layout!FillOrder[k] = Layout!Fields[k].name
  <2>1. k = 1 \/ k = 2 \/ k = 3 \/ k = 4 \/ k = 5 \/ k = 6 \/ k = 7 \/ k = 8 \/ k = 9
    OBVIOUS
  <2>2. Layout!Width["i64"] = 8 /\ Layout!Width["u32"] = 4 /\ Layout!Width["u8"] = 1
    BY DEF Layout!Width
  <2>. QED
    BY <2>1, <2>2 DEF Layout!Fields, Layout!FillOrder, Layout!Size
<1>3. ASSUME NEW k \in 1..9, NEW l \in 1..9, Layout!Fields[k].name = Layout!Fields[l].name
      PROVE  k = l
  <2> DEFINE at == [name \in {"pvbound", "fq01", "p1_q00n", "p1_q00inv", "p1_q01n",
                              "p2_q00n", "p2_q00inv", "p2_q01n", "hpub"} |->
                      CASE name = "pvbound" -> 1 [] name = "fq01" -> 2 [] name = "p1_q00n" -> 3
                        [] name = "p1_q00inv" -> 4 [] name = "p1_q01n" -> 5 [] name = "p2_q00n" -> 6
                        [] name = "p2_q00inv" -> 7 [] name = "p2_q01n" -> 8 [] name = "hpub" -> 9]
  <2>1. ASSUME NEW n \in 1..9 PROVE at[Layout!Fields[n].name] = n
    <3>1. n = 1 \/ n = 2 \/ n = 3 \/ n = 4 \/ n = 5 \/ n = 6 \/ n = 7 \/ n = 8 \/ n = 9
      OBVIOUS
    <3>. QED
      BY <3>1 DEF Layout!Fields
  <2> HIDE DEF at
  <2>. QED
    BY <1>3, <2>1
<1>. QED
  BY <1>1, <1>2, <1>3

\* A name finds its field.
LEMMA FieldByName ==
  ASSUME NEW k \in 1..9
  PROVE  /\ Layout!FieldOf(Layout!Fields[k].name) = Layout!Fields[k]
         /\ Layout!Fields[k].name \in Layout!Names
<1> DEFINE F == Layout!Fields
<1>1. DOMAIN F = 1..9 /\ \A m, n \in 1..9 : F[m].name = F[n].name => m = n
  BY FieldFacts
<1>2. Layout!Names = {F[m].name : m \in DOMAIN F}
  BY DEF Layout!Names
<1>3. Layout!ToSet(F) = {F[m] : m \in DOMAIN F}
  BY DEF Layout!ToSet
<1>4. Layout!FieldOf(F[k].name) = CHOOSE x \in Layout!ToSet(F) : x.name = F[k].name
  BY DEF Layout!FieldOf
<1> HIDE DEF F
<1>5. F[k] \in Layout!ToSet(F) /\ \A x \in Layout!ToSet(F) : x.name = F[k].name => x = F[k]
  BY <1>1, <1>3
<1>6. (CHOOSE x \in Layout!ToSet(F) : x.name = F[k].name) = F[k]
  BY <1>5
<1>7. F[k].name \in Layout!Names
  BY <1>1, <1>2
<1>. QED
  BY <1>4, <1>6, <1>7 DEF F

\* Where each field starts, and where the last one ends.
Base(k) == IF k = 1 THEN 0 ELSE IF k = 2 THEN 4 * N ELSE IF k <= 9 THEN 4 * N * k ELSE 36 * N + HpubLen

\* The fields follow each other without a gap, from the first byte of the blob
\* to the last, each at a multiple of its elements' size.
LEMMA BaseFacts ==
  /\ Base(1) = 0 /\ Base(10) = Layout!PreparedPubkeyLen
  /\ \A k \in 1..9 : /\ Base(k) \in Nat /\ Base(k + 1) \in Nat
                     /\ Layout!Size(k) \in {1, 4, 8} /\ Layout!Fields[k].count \in Nat \ {0}
                     /\ Base(k + 1) = Base(k) + Layout!Fields[k].count * Layout!Size(k)
                     /\ Base(k) % Layout!Size(k) = 0
                     /\ Base(k + 1) <= Layout!PreparedPubkeyLen
<1> DEFINE H == N \div 2
<1>1. H \in Nat \ {0} /\ N = 2 * H /\ HpubLen \in Nat \ {0}
  BY PowerSizes, ParamsAssumption, BlobLenAssumption
<1>2. Layout!PreparedPubkeyLen = H * 8 + N * 8 + 6 * (N * 4) + HpubLen
  BY DEF Layout!PreparedPubkeyLen
<1> HIDE DEF H
<1>3. Layout!PreparedPubkeyLen = 72 * H + HpubLen
  BY <1>1, <1>2
<1>4. ASSUME NEW k \in 1..9
      PROVE  /\ Base(k) \in Nat /\ Base(k + 1) \in Nat
             /\ Layout!Size(k) \in {1, 4, 8} /\ Layout!Fields[k].count \in Nat \ {0}
             /\ Base(k + 1) = Base(k) + Layout!Fields[k].count * Layout!Size(k)
             /\ Base(k) % Layout!Size(k) = 0
             /\ Base(k + 1) <= Layout!PreparedPubkeyLen
  <2>1. /\ Layout!Size(k) = IF k <= 2 THEN 8 ELSE IF k <= 8 THEN 4 ELSE 1
        /\ Layout!Fields[k].count = IF k = 1 THEN H ELSE IF k <= 8 THEN 2 * H ELSE HpubLen
    BY <1>1, FieldFacts DEF H
  <2>2. CASE k = 1
    BY <1>1, <1>3, <2>1, <2>2 DEF Base
  <2>3. CASE k = 2
    BY <1>1, <1>3, <2>1, <2>3 DEF Base
  <2>4. CASE k \in 3..8
    <3>1. k = 3 \/ k = 4 \/ k = 5 \/ k = 6 \/ k = 7 \/ k = 8
      BY <2>4
    <3>2. Base(k) = 8 * H * k /\ Base(k + 1) = 8 * H * (k + 1)
      BY <1>1, <3>1 DEF Base
    <3>. QED
      BY <1>1, <1>3, <2>1, <3>1, <3>2
  <2>5. CASE k = 9
    BY <1>1, <1>3, <2>1, <2>5 DEF Base
  <2>. QED
    BY <2>2, <2>3, <2>4, <2>5
<1>5. Base(1) = 0 /\ Base(10) = Layout!PreparedPubkeyLen
  BY <1>1, <1>3 DEF Base
<1>. QED
  BY <1>4, <1>5

\* Each field of the structure is where the one before it ends: repr(C) leaves
\* no gap.
LEMMA Offsets == \A k \in 1..9 : Layout!Offset(k) = Base(k)
<1> SUFFICES ASSUME NEW k \in 1..9 PROVE Layout!Offset(k) = Base(k)
  OBVIOUS
<1> DEFINE Turn(c, n) == IF n = 0 THEN 0
                          ELSE Layout!Aligned(c[n - 1], Layout!Size(n)) + Layout!Fields[n].count * Layout!Size(n)
           P(c) == c = [n \in 0..(k - 1) |-> Turn(c, n)]
           s == [n \in 0..(k - 1) |-> Base(n + 1)]
           e == CHOOSE c : P(c)
<1>1. ASSUME NEW n \in 1..9 PROVE Layout!Aligned(Base(n), Layout!Size(n)) = Base(n)
  <2>1. Base(n) \in Nat /\ Base(n) % Layout!Size(n) = 0 /\ Layout!Size(n) \in {1, 4, 8}
    BY BaseFacts
  <2>. QED
    BY <2>1 DEF Layout!Aligned
<1>2. ASSUME NEW n \in 0..(k - 1) PROVE s[n] = Turn(s, n)
  <2>1. CASE n = 0
    BY <2>1, BaseFacts
  <2>2. CASE n # 0
    <3>1. n \in 1..9 /\ n - 1 \in 0..(k - 1) /\ (n - 1) + 1 = n
      BY <2>2
    <3>2. s[n] = Base(n + 1) /\ s[n - 1] = Base(n)
      BY <3>1
    <3>3. Base(n + 1) = Base(n) + Layout!Fields[n].count * Layout!Size(n)
      BY <3>1, BaseFacts
    <3>. QED
      BY <1>1, <2>2, <3>1, <3>2, <3>3
  <2>. QED
    BY <2>1, <2>2
<1>3. P(s)
  BY <1>2
<1>4. P(e)
  <2> HIDE DEF P
  <2>. QED
    BY <1>3
<1>5. Layout!Offset(k) = Layout!Aligned(e[k - 1], Layout!Size(k))
  BY DEF Layout!Offset
<1> HIDE DEF e, s
<1>6. e[0] = 0 /\ \A n \in 1..(k - 1) :
        e[n] = Layout!Aligned(e[n - 1], Layout!Size(n)) + Layout!Fields[n].count * Layout!Size(n)
  BY <1>4
<1> HIDE DEF P, Turn
<1> DEFINE T == {n \in Nat : n <= k - 1 => e[n] = Base(n + 1)}
<1>7. 0 \in T
  BY <1>6, BaseFacts
<1>8. ASSUME NEW n \in Nat, n \in T PROVE n + 1 \in T
  <2> SUFFICES ASSUME n + 1 <= k - 1 PROVE e[n + 1] = Base((n + 1) + 1)
    OBVIOUS
  <2>1. n + 1 \in 1..(k - 1) /\ n + 1 \in 1..9 /\ (n + 1) - 1 = n /\ n <= k - 1
    OBVIOUS
  <2>2. e[n] = Base(n + 1)
    BY <1>8, <2>1
  <2>3. e[n + 1] = Layout!Aligned(e[n], Layout!Size(n + 1)) + Layout!Fields[n + 1].count * Layout!Size(n + 1)
    BY <1>6, <2>1
  <2>4. Base((n + 1) + 1) = Base(n + 1) + Layout!Fields[n + 1].count * Layout!Size(n + 1)
    BY <2>1, BaseFacts
  <2>. QED
    BY <1>1, <2>1, <2>2, <2>3, <2>4
<1> HIDE DEF T
<1>9. Nat \subseteq T
  BY <1>7, <1>8, SetInduction
<1>10. e[k - 1] = Base(k)
  <2>1. k - 1 \in T /\ k - 1 \in Nat
    BY <1>9
  <2>. QED
    BY <2>1 DEF T
<1>. QED
  BY <1>1, <1>5, <1>10

\* Little-endian encoding undoes the decoding, of signed values too.
LEMMA LittleEndian ==
  ASSUME NEW type \in {"i64", "u32", "u8"}, NEW b,
         \A t \in 0..(Layout!Width[type] - 1) : b[t] \in 0..(Pow2(BYTE) - 1),
         NEW j \in 0..(Layout!Width[type] - 1)
  PROVE  Layout!LE(type, Layout!FromLE(type, b), j) = b[j]
<1> DEFINE w == Layout!Width[type]
           g == [k \in 0..(w - 1) |-> Pow2(BYTE * k) * b[k]]
           value == SumTo(g, w)
           M == Pow2(BYTE * w)
           x == Layout!FromLE(type, b)
<1>1. w \in Nat /\ BYTE \in Nat
  BY BlobLenAssumption DEF Layout!Width
<1>2. \A t \in 0..(w - 1) : b[t] \in 0..(Pow2(BYTE) - 1) /\ g[t] = Pow2(BYTE * t) * b[t]
  OBVIOUS
<1>3. x = value \/ x = value - M
  BY DEF Layout!FromLE, Layout!Pow2, Pow2, Layout!SumTo, SumTo
<1>4. Layout!LE(type, x, j) = ((x % M) \div Pow2(BYTE * j)) % Pow2(BYTE)
  BY DEF Layout!LE, Layout!Pow2, Pow2
<1> HIDE DEF g, w
<1>5. /\ value \in 0..(M - 1)
      /\ \A t \in 0..(w - 1) : (value \div Pow2(BYTE * t)) % Pow2(BYTE) = b[t]
  <2>1. /\ SumTo(g, w) \in 0..(Pow2(BYTE * w) - 1)
        /\ \A t \in 0..(w - 1) : (SumTo(g, w) \div Pow2(BYTE * t)) % Pow2(BYTE) = b[t]
    <3>1. Bytes(b, g, BYTE, w)
      BY <1>2 DEF Bytes
    <3>. QED
      BY <1>1, <3>1, BytesOfNumber
  <2>. QED
    BY <2>1
<1>6. M \in Nat /\ M > 0
  BY <1>1, Places
<1> HIDE DEF M, value, x
<1>7. x % M = value
  <2>1. x = M * 0 + value \/ x = M * (-1) + value
    BY <1>3, <1>5, <1>6
  <2>. QED
    BY <1>5, <1>6, <2>1, ModUnique
<1>8. j \in 0..(w - 1)
  BY DEF w
<1>9. Layout!LE(type, x, j) = (value \div Pow2(BYTE * j)) % Pow2(BYTE)
  BY <1>4, <1>7
<1>. QED
  BY <1>5, <1>8, <1>9 DEF x
-----------------------------------------------------------------------------
\* Where element n of field k is in the blob, and what it is there.
Place(k, n) == Base(k) + n * Layout!Size(k)
Element(k, n) == Layout!FromLE(Layout!Fields[k].type,
                               [j \in 0..(Layout!Size(k) - 1) |-> blob[Place(k, n) + j]])

\* The elements follow each other and the last one ends where the field does.
LEMMA PlaceFacts ==
  ASSUME NEW k \in 1..9, NEW n \in 0..(Layout!Fields[k].count - 1)
  PROVE  /\ Place(k, n) \in Nat /\ Place(k, 0) = Base(k)
         /\ Place(k, n + 1) = Place(k, n) + Layout!Size(k)
         /\ Place(k, n) + Layout!Size(k) <= Base(k + 1)
         /\ Place(k, n) + Layout!Size(k) <= Layout!PreparedPubkeyLen
         /\ n + 1 = Layout!Fields[k].count => Place(k, n) + Layout!Size(k) = Base(k + 1)
<1> DEFINE c == Layout!Fields[k].count
           z == Layout!Size(k)
           b == Base(k)
           d == Base(k + 1)
           l == Layout!PreparedPubkeyLen
<1>1. /\ b \in Nat /\ d \in Nat /\ c \in Nat \ {0} /\ (z = 1 \/ z = 4 \/ z = 8)
      /\ d = b + c * z /\ d <= l
  BY BaseFacts
<1>2. l \in Int
  BY BaseFacts
<1>3. /\ Place(k, n) = b + n * z /\ Place(k, 0) = b + 0 * z /\ Place(k, n + 1) = b + (n + 1) * z
  BY DEF Place
<1>4. n \in 0..(c - 1)
  OBVIOUS
<1> HIDE DEF c, z, b, d, l
<1>5. CASE z = 1
  BY <1>1, <1>2, <1>3, <1>4, <1>5 DEF c, z, b, d, l
<1>6. CASE z = 4
  BY <1>1, <1>2, <1>3, <1>4, <1>6 DEF c, z, b, d, l
<1>7. CASE z = 8
  BY <1>1, <1>2, <1>3, <1>4, <1>7 DEF c, z, b, d, l
<1>. QED
  BY <1>1, <1>5, <1>6, <1>7

\* A registration is the last step before the reads, and leaves an image.
WrittenInv ==
  /\ written = Nothing => f = 1 /\ i = 0 /\ o = 0
  /\ written # Nothing => pc = "returned" /\ blob = written /\ written \in Images

\* The reader is at element i of field f, and what it has read before is there.
ReadInv ==
  /\ f \in 1..10 /\ i \in Nat
  /\ f <= 9 => /\ i \in 0..(Layout!Fields[f].count - 1)
               /\ o = IF f = 9 THEN Base(f) ELSE Place(f, i)
  /\ DOMAIN p = Layout!Names
  /\ \A k \in 1..9 :
       /\ DOMAIN p[Layout!Fields[k].name] = 0..(Layout!Fields[k].count - 1)
       /\ \A n \in 0..(Layout!Fields[k].count - 1) :
            k < f \/ (k = f /\ n < i) => p[Layout!Fields[k].name][n] = Element(k, n)

\* The field that is read, and where.
LEMMA FieldFound ==
  ASSUME ReadInv, f <= 9
  PROVE  /\ f \in 1..9 /\ Layout!Field = Layout!Fields[f]
         /\ Layout!Width[Layout!Field.type] = Layout!Size(f)
         /\ Layout!Step = Layout!Size(f)
         /\ Layout!Field.type = "u8" <=> f = 9
         /\ (IF Layout!Field.type = "u8" THEN o + i ELSE o) = Place(f, i)
<1>1. f \in 1..9 /\ i \in 0..(Layout!Fields[f].count - 1) /\ o = IF f = 9 THEN Base(f) ELSE Place(f, i)
  BY DEF ReadInv
<1>2. Layout!FillOrder[f] = Layout!Fields[f].name
  BY <1>1, FieldFacts
<1>3. Layout!Field = Layout!Fields[f]
  BY <1>1, <1>2, FieldByName DEF Layout!Field
<1>4. /\ Layout!Width[Layout!Fields[f].type] = Layout!Size(f)
      /\ Layout!Fields[f].type = IF f <= 2 THEN "i64" ELSE IF f <= 8 THEN "u32" ELSE "u8"
      /\ Layout!Size(f) = IF f <= 2 THEN 8 ELSE IF f <= 8 THEN 4 ELSE 1
  BY <1>1, FieldFacts
<1>5. f = 9 => Place(f, i) = Base(f) + i
  BY <1>1, <1>4 DEF Place
<1>6. Layout!Step = Layout!Size(f)
  BY <1>3, <1>4 DEF Layout!Step
<1>7. Layout!Fields[f].type = "u8" <=> f = 9
  BY <1>1, <1>4
<1>. QED
  BY <1>1, <1>3, <1>4, <1>5, <1>6, <1>7

\* The reader starts so,
LEMMA ReadStart == Layout!Init => ReadInv
<1> SUFFICES ASSUME Layout!Init PROVE ReadInv
  OBVIOUS
<1>1. /\ p = [name \in Layout!Names |-> [n \in 0..(Layout!FieldOf(name).count - 1) |-> 0]]
      /\ f = 1 /\ i = 0 /\ o = 0
  BY DEF Layout!Init
<1>2. ASSUME NEW k \in 1..9
      PROVE  DOMAIN p[Layout!Fields[k].name] = 0..(Layout!Fields[k].count - 1)
  BY <1>1, FieldByName
<1>3. Layout!Fields[1].count \in Nat \ {0} /\ Place(1, 0) = 0
  <2>1. Layout!Fields[1].count \in Nat \ {0} /\ Base(1) = 0
    BY BaseFacts
  <2>2. 1 \in 1..9 /\ 0 \in 0..(Layout!Fields[1].count - 1)
    BY <2>1
  <2>3. Place(1, 0) = Base(1)
    BY <2>2, PlaceFacts
  <2>. QED
    BY <2>1, <2>3
<1>. QED
  BY <1>1, <1>2, <1>3 DEF ReadInv

\* and every element that it reads keeps its invariant.
LEMMA ReadStep == ReadInv /\ Layout!Fill => ReadInv'
<1> SUFFICES ASSUME ReadInv, Layout!Fill PROVE ReadInv'
  OBVIOUS
<1> DEFINE c == Layout!Fields[f].count
           name == Layout!Fields[f].name
           val == Element(f, i)
<1>1. f <= 9
  BY FieldFacts DEF Layout!Fill, ReadInv
<1>2. /\ f \in 1..9 /\ Layout!Field = Layout!Fields[f]
      /\ Layout!Width[Layout!Field.type] = Layout!Size(f)
      /\ Layout!Step = Layout!Size(f)
      /\ Layout!Field.type = "u8" <=> f = 9
      /\ (IF Layout!Field.type = "u8" THEN o + i ELSE o) = Place(f, i)
  BY <1>1, FieldFound
<1>3. /\ i \in 0..(c - 1) /\ c \in Nat \ {0} /\ o = IF f = 9 THEN Base(f) ELSE Place(f, i)
  BY <1>1, <1>2, BaseFacts DEF ReadInv
<1>4. p' = [p EXCEPT ![name] = [@ EXCEPT ![i] = val]]
  BY <1>2 DEF Layout!Fill, Element
<1>5. /\ o' = IF f = 9 THEN o ELSE o + Layout!Size(f)
      /\ IF i + 1 < c THEN i' = i + 1 /\ f' = f ELSE i' = 0 /\ f' = f + 1
      /\ blob' = blob
  BY <1>2 DEF Layout!Fill
<1> HIDE DEF val
<1>6. f' \in 1..10 /\ i' \in Nat
  BY <1>2, <1>3, <1>5
<1>7. ASSUME f' <= 9
      PROVE  i' \in 0..(Layout!Fields[f'].count - 1) /\ o' = IF f' = 9 THEN Base(f') ELSE Place(f', i')
  <2>1. /\ Place(f, i + 1) = Place(f, i) + Layout!Size(f)
        /\ i + 1 = c => Place(f, i) + Layout!Size(f) = Base(f + 1)
    BY <1>2, <1>3, PlaceFacts
  <2>2. CASE i + 1 < c
    BY <1>2, <1>3, <1>5, <2>1, <2>2
  <2>3. CASE ~(i + 1 < c)
    <3>1. i' = 0 /\ f' = f + 1 /\ f + 1 \in 1..9 /\ i + 1 = c
      BY <1>2, <1>3, <1>5, <1>7, <2>3
    <3>2. o' = Base(f + 1)
      BY <1>2, <1>3, <1>5, <2>1, <3>1
    <3>3. Layout!Fields[f + 1].count \in Nat \ {0}
      BY <3>1, BaseFacts
    <3>4. 0 \in 0..(Layout!Fields[f + 1].count - 1)
      BY <3>3
    <3>5. Place(f + 1, 0) = Base(f + 1)
      BY <3>1, <3>4, PlaceFacts
    <3>. QED
      BY <3>1, <3>2, <3>4, <3>5
  <2>. QED
    BY <2>2, <2>3
<1>8. /\ DOMAIN p = Layout!Names /\ name \in Layout!Names
      /\ DOMAIN p[name] = 0..(c - 1)
  BY <1>2, FieldByName DEF ReadInv
<1>9. DOMAIN p' = Layout!Names
  BY <1>4, <1>8
<1>10. /\ DOMAIN p'[name] = 0..(c - 1) /\ p'[name][i] = val
       /\ \A n \in 0..(c - 1) : n # i => p'[name][n] = p[name][n]
       /\ \A m \in Layout!Names : m # name => p'[m] = p[m]
  BY <1>3, <1>4, <1>8
<1>11. ASSUME NEW k \in 1..9
       PROVE  /\ DOMAIN p'[Layout!Fields[k].name] = 0..(Layout!Fields[k].count - 1)
              /\ \A n \in 0..(Layout!Fields[k].count - 1) :
                   k < f' \/ (k = f' /\ n < i') => p'[Layout!Fields[k].name][n] = Element(k, n)
  <2>1. /\ DOMAIN p[Layout!Fields[k].name] = 0..(Layout!Fields[k].count - 1)
        /\ \A n \in 0..(Layout!Fields[k].count - 1) :
             k < f \/ (k = f /\ n < i) => p[Layout!Fields[k].name][n] = Element(k, n)
    BY DEF ReadInv
  <2>2. CASE k = f
    <3> SUFFICES ASSUME NEW n \in 0..(c - 1), k < f' \/ (k = f' /\ n < i')
                 PROVE  p'[name][n] = Element(f, n)
      BY <1>10, <2>2
    <3>1. n = i \/ n < i
      BY <1>2, <1>3, <1>5, <2>2
    <3>2. CASE n = i
      BY <1>10, <3>2 DEF val
    <3>3. CASE n < i
      <4>1. p[name][n] = Element(f, n)
        BY <2>1, <2>2, <3>3
      <4>2. n # i
        BY <1>3, <3>3
      <4>. QED
        BY <1>10, <4>1, <4>2
    <3>. QED
      BY <3>1, <3>2, <3>3
  <2>3. CASE k # f
    <3>1. Layout!Fields[k].name # name /\ Layout!Fields[k].name \in Layout!Names
      BY <1>2, <2>3, FieldFacts, FieldByName
    <3>2. p'[Layout!Fields[k].name] = p[Layout!Fields[k].name]
      BY <1>10, <3>1
    <3>3. ASSUME NEW n \in 0..(Layout!Fields[k].count - 1), k < f' \/ (k = f' /\ n < i')
          PROVE  k < f
      BY <1>2, <1>3, <1>5, <2>3, <3>3
    <3>. QED
      BY <2>1, <3>2, <3>3
  <2>. QED
    BY <2>2, <2>3
<1>12. \A k, n : Element(k, n)' = Element(k, n)
  BY <1>5 DEF Element
<1>. QED
  BY <1>6, <1>7, <1>9, <1>11, <1>12 DEF ReadInv

\* What is written is what the reader reads.
LEMMA DataIsImage ==
  ASSUME WalkInv, TakenInv, pc = "prepare", NEW image \in Images
  PROVE  DataWith(image) = image
<1>1. /\ region \in Regions /\ region.accounts # 0 /\ ~region.duplicate
      /\ taken[2] = [at |-> 96, len |-> BlobLen]
  BY DEF WalkInv, TakenInv
<1>2. RangesOf(region, "data") = {[at |-> 96, len |-> region.dataLen]}
  BY <1>1, InstructionFacts
<1>3. RangeOf(region, "data").at - taken[2].at = 0
  <2> DEFINE d == [at |-> 96, len |-> region.dataLen]
  <2>1. d.at = 96 /\ taken[2].at = 96
    BY <1>1
  <2>2. RangesOf(region, "data") = {d}
    BY <1>2
  <2> HIDE DEF d
  <2>3. RangeOf(region, "data") = d
    BY <2>2 DEF RangeOf
  <2>. QED
    BY <2>1, <2>3
<1>4. DataWith(image) = [at \in 0..(BlobLen - 1) |->
                           IF at + 0 \in 0..(BlobLen - 1) THEN image[at + 0] ELSE blob[at]]
  BY <1>3 DEF DataWith
<1>5. image \in [0..(BlobLen - 1) -> 0..(Pow2(BYTE) - 1)]
  BY BlobLenAssumption
<1>6. \A at \in 0..(BlobLen - 1) : at + 0 = at
  BY InputAssumption
<1>. QED
  BY <1>4, <1>5, <1>6

\* The reader's position and all that it has read, in every state.
THEOREM Reads == AccountSpec => [](WrittenInv /\ ReadInv)
<1> DEFINE IInv == WalkInv /\ TakenInv /\ WrittenInv /\ ReadInv
<1>1. AccountInit => IInv
  BY WalkInit, ReadStart DEF AccountInit, Layout!Init, WrittenInv
<1>2. ASSUME IInv, [AccountNext]_allVars PROVE IInv'
  <2>1. [Next]_vars
    BY <1>2 DEF AccountNext, allVars, Serve, Register, Read, Next
  <2>2. WalkInv' /\ TakenInv'
    BY <1>2, <2>1, WalkNext
  <2>3. ASSUME UNCHANGED <<blob, p, f, i, o>> PROVE ReadInv'
    BY <1>2, <2>3 DEF ReadInv, Element
  <2>4. CASE Serve
    <3>1. pc # "returned"
      BY <2>4 DEF Serve, Walk, ReadCount, ReadAccount, ReadInstruction, Dispatch, Verify
    <3>2. UNCHANGED <<written, blob, p, f, i, o>>
      BY <2>4 DEF Serve, reader
    <3>. QED
      BY <1>2, <2>2, <2>3, <3>1, <3>2 DEF WrittenInv
  <2>5. CASE Register
    <3>1. pc = "prepare" /\ pc' = "returned"
      BY <2>5 DEF Register, Prepare, Return
    <3>2. written = Nothing /\ f = 1 /\ i = 0 /\ o = 0 /\ UNCHANGED <<p, f, i, o>>
      BY <1>2, <2>5, <3>1 DEF WrittenInv, Register
    <3>3. CASE UNCHANGED <<written, blob>>
      BY <1>2, <2>2, <2>3, <3>1, <3>2, <3>3 DEF WrittenInv
    <3>4. CASE \E image \in Images : written' = image /\ blob' = DataWith(image)
      <4>1. PICK image \in Images : written' = image /\ blob' = DataWith(image)
        BY <3>4
      <4>2. blob' = image
        BY <1>2, <3>1, <4>1, DataIsImage
      <4>3. WrittenInv'
        BY <3>1, <3>2, <4>1, <4>2 DEF WrittenInv
      <4>4. ASSUME NEW k \in 1..9, NEW n \in 0..(Layout!Fields[k].count - 1), k < f \/ (k = f /\ n < i)
            PROVE  FALSE
        BY <3>2, <4>4, BaseFacts
      <4>5. ReadInv'
        BY <1>2, <3>2, <4>4 DEF ReadInv
      <4>. QED
        BY <2>2, <4>3, <4>5
    <3>. QED
      BY <2>5, <3>3, <3>4 DEF Register
  <2>6. CASE Read
    <3>1. Layout!Fill /\ written # Nothing /\ UNCHANGED <<pc, written>>
      BY <2>6 DEF Read, Layout!Next, vars
    <3>2. blob' = blob
      BY <3>1 DEF Layout!Fill
    <3>3. ReadInv'
      BY <1>2, <3>1, ReadStep
    <3>. QED
      BY <1>2, <2>2, <3>1, <3>2, <3>3 DEF WrittenInv
  <2>7. CASE UNCHANGED allVars
    <3>1. UNCHANGED <<pc, written, blob, p, f, i, o>>
      BY <2>7 DEF allVars, vars, reader
    <3>. QED
      BY <1>2, <2>2, <2>3, <3>1 DEF WrittenInv
  <2>. QED
    BY <1>2, <2>4, <2>5, <2>6, <2>7 DEF AccountNext
<1>. QED
  BY <1>1, <1>2, PTL DEF AccountSpec

\* from_bytes never reads behind the blob, whatever the degree, the length of
\* hpub and the bytes: a constant evaluation of it cannot fail.
THEOREM ReadsStayInBlob == AccountSpec => []ReadsInBlob
<1>1. ReadInv => ReadsInBlob
  <2> SUFFICES ASSUME ReadInv, f <= Len(Layout!FillOrder)
               PROVE  (IF Layout!Field.type = "u8" THEN o + i ELSE o) + Layout!Width[Layout!Field.type]
                        <= Layout!PreparedPubkeyLen
    BY DEF ReadsInBlob, Layout!InBounds
  <2>1. f <= 9
    BY FieldFacts
  <2>2. /\ f \in 1..9 /\ Layout!Width[Layout!Field.type] = Layout!Size(f)
        /\ (IF Layout!Field.type = "u8" THEN o + i ELSE o) = Place(f, i)
    BY <2>1, FieldFound
  <2>3. i \in 0..(Layout!Fields[f].count - 1)
    BY <2>1 DEF ReadInv
  <2>. QED
    BY <2>2, <2>3, PlaceFacts
<1>. QED
  BY <1>1, Reads, PTL

\* What from_bytes makes of a registered account is the structure whose memory
\* prepare_into left there: as_bytes of it gives every byte back.
THEOREM BlobReadsBack == AccountSpec => []ReadsBack
<1>1. WrittenInv /\ ReadInv => ReadsBack
  <2> SUFFICES ASSUME WrittenInv, ReadInv, written # Nothing, f > Len(Layout!FillOrder)
               PROVE  Layout!AsBytes(p) = written
    BY DEF ReadsBack
  <2> DEFINE l == Layout!PreparedPubkeyLen
             F == Layout!Fields
             In(k, at) == at \in Layout!Offset(k)..(Layout!Offset(k) + F[k].count * Layout!Size(k) - 1)
             Of(at) == CHOOSE k \in DOMAIN F : In(k, at)
             from(at) == at - Layout!Offset(Of(at))
             byte(at) == Layout!LE(F[Of(at)].type, p[F[Of(at)].name][from(at) \div Layout!Size(Of(at))],
                                   from(at) % Layout!Size(Of(at)))
  <2>1. f = 10
    BY FieldFacts DEF ReadInv
  <2>2. blob = written /\ blob \in [0..(l - 1) -> 0..(Pow2(BYTE) - 1)]
    BY BlobLenAssumption DEF WrittenInv
  <2>3. Layout!AsBytes(p) = [at \in 0..(l - 1) |-> byte(at)]
    BY DEF Layout!AsBytes
  <2>4. ASSUME NEW at \in 0..(l - 1) PROVE byte(at) = blob[at]
    <3> DEFINE k == Of(at)
               z == Layout!Size(k)
               c == F[k].count
               n == (at - Base(k)) \div z
               j == (at - Base(k)) % z
    <3>1. \E m \in 1..9 : In(m, at)
      <4>1. \E m \in 1..9 : Base(m) <= at /\ at < Base(m + 1)
        <5>1. /\ Base(1) = 0 /\ Base(10) = l
              /\ \A m \in 1..9 : Base(m) \in Nat /\ Base(m + 1) \in Nat
          BY BaseFacts
        <5> HIDE DEF l
        <5>2. /\ Base(1 + 1) \in Nat /\ Base(2 + 1) \in Nat /\ Base(3 + 1) \in Nat /\ Base(4 + 1) \in Nat
              /\ Base(5 + 1) \in Nat /\ Base(6 + 1) \in Nat /\ Base(7 + 1) \in Nat /\ Base(8 + 1) \in Nat
              /\ Base(9 + 1) \in Nat
          BY <5>1
        <5>3. \/ (Base(1) <= at /\ at < Base(1 + 1)) \/ (Base(2) <= at /\ at < Base(2 + 1))
              \/ (Base(3) <= at /\ at < Base(3 + 1)) \/ (Base(4) <= at /\ at < Base(4 + 1))
              \/ (Base(5) <= at /\ at < Base(5 + 1)) \/ (Base(6) <= at /\ at < Base(6 + 1))
              \/ (Base(7) <= at /\ at < Base(7 + 1)) \/ (Base(8) <= at /\ at < Base(8 + 1))
              \/ (Base(9) <= at /\ at < Base(9 + 1))
          BY <5>1, <5>2
        <5>. QED
          BY <5>3
      <4>2. PICK m \in 1..9 : Base(m) <= at /\ at < Base(m + 1)
        BY <4>1
      <4>3. /\ Base(m) \in Nat /\ Base(m + 1) \in Nat
            /\ Base(m + 1) = Base(m) + F[m].count * Layout!Size(m) /\ Layout!Offset(m) = Base(m)
        BY BaseFacts, Offsets
      <4> DEFINE e == F[m].count * Layout!Size(m)
      <4>4. Base(m + 1) = Base(m) + e /\ e \in Int
        <5>1. F[m].count \in Int /\ Layout!Size(m) \in Int
          <6>1. F[m].count \in Nat \ {0} /\ Layout!Size(m) \in {1, 4, 8}
            BY BaseFacts, Zenon
          <6>. QED
            BY <6>1
        <5> HIDE DEF F
        <5>2. e \in Int
          BY <5>1
        <5>. QED
          BY <4>3, <5>2
      <4> HIDE DEF e
      <4>5. at \in Layout!Offset(m)..(Layout!Offset(m) + e - 1)
        BY <4>2, <4>3, <4>4
      <4>6. In(m, at)
        BY <4>5 DEF e
      <4>. QED
        BY <4>6
    <3>2. k \in 1..9 /\ In(k, at)
      <4>1. DOMAIN F = 1..9
        BY FieldFacts
      <4> HIDE DEF F, In
      <4>. QED
        BY <3>1, <4>1
    <3> HIDE DEF Of
    <3>3. /\ Base(k) \in Nat /\ c \in Nat \ {0} /\ (z = 1 \/ z = 4 \/ z = 8)
          /\ Layout!Offset(k) = Base(k) /\ Place(k, n) = Base(k) + n * z
      BY <3>2, BaseFacts, Offsets DEF Place
    <3>4. at - Base(k) \in 0..(c * z - 1)
      <4> DEFINE e == c * z
      <4>1. at \in Layout!Offset(k)..(Layout!Offset(k) + e - 1)
        BY <3>2
      <4>2. e \in Int
        BY <3>3
      <4> HIDE DEF e, c, z
      <4>3. at - Base(k) \in 0..(e - 1)
        BY <3>3, <4>1, <4>2
      <4>. QED
        BY <4>3 DEF e
    <3> HIDE DEF F
    <3>5. n \in 0..(c - 1) /\ j \in 0..(z - 1) /\ at = Place(k, n) + j
      <4> DEFINE x == at - Base(k)
      <4>1. x \in 0..(c * z - 1) /\ at = Base(k) + x
        BY <3>3, <3>4
      <4>2. n = x \div z /\ j = x % z
        OBVIOUS
      <4> HIDE DEF x, n, j, c, z
      <4>3. CASE z = 1
        BY <3>3, <4>1, <4>2, <4>3
      <4>4. CASE z = 4
        BY <3>3, <4>1, <4>2, <4>4
      <4>5. CASE z = 8
        BY <3>3, <4>1, <4>2, <4>5
      <4>. QED
        BY <3>3, <4>3, <4>4, <4>5
    <3>6. byte(at) = Layout!LE(F[k].type, p[F[k].name][n], j)
      BY <3>3
    <3> DEFINE b == [t \in 0..(z - 1) |-> blob[Place(k, n) + t]]
    <3>7. p[F[k].name][n] = Layout!FromLE(F[k].type, b)
      <4>1. k < f
        BY <2>1, <3>2
      <4>. QED
        BY <3>2, <3>5, <4>1 DEF ReadInv, Element, F
    <3>8. Layout!Width[F[k].type] = z /\ F[k].type \in {"i64", "u32", "u8"}
      BY <3>2, FieldFacts DEF F
    <3>9. Place(k, n) \in Nat /\ Place(k, n) + z <= l
      BY <3>2, <3>5, PlaceFacts DEF F
    <3>10. \A t \in 0..(z - 1) : b[t] \in 0..(Pow2(BYTE) - 1)
      <4>1. l \in Int
        BY BaseFacts
      <4>2. \A t \in 0..(z - 1) : Place(k, n) + t \in 0..(l - 1)
        BY <3>3, <3>9, <4>1
      <4>. QED
        BY <2>2, <4>2
    <3>11. b[j] = blob[at]
      BY <3>5
    <3> HIDE DEF b, n, j, z
    <3>12. Layout!LE(F[k].type, Layout!FromLE(F[k].type, b), j) = b[j]
      BY <3>5, <3>8, <3>10, LittleEndian
    <3>. QED
      BY <3>6, <3>7, <3>11, <3>12
  <2> HIDE DEF byte, l
  <2>. QED
    BY <2>2, <2>3, <2>4
<1>. QED
  BY <1>1, Reads, PTL
===============================================================================
