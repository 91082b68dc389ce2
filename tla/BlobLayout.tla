----------------------------- MODULE BlobLayout -----------------------------
(***************************************************************************)
(* Hawk512PreparedPubkey as bytes (src/src/lib.rs).  as_bytes and from_ref *)
(* give the memory of a repr(C) structure as it is; from_bytes decodes the *)
(* same blob field by field, at an offset that it carries from one to the  *)
(* next.  Two programs may use one each for the same account.              *)
(***************************************************************************)
EXTENDS Params, SequencesExt

CONSTANTS BYTE,          \* 8: the bits of a byte
          HpubLen,       \* a multiple of 8, as 32 is
          Blobs          \* what may be read

VARIABLES blob,          \* the bytes
          p,             \* the structure that from_bytes fills
          f, i, o        \* field of FillOrder, element, offset

vars == <<blob, p, f, i, o>>

\* The fields in the order of the structure.
Fields == << [name |-> "pvbound", type |-> "i64", count |-> N \div 2],
             [name |-> "fq01", type |-> "i64", count |-> N],
             [name |-> "p1_q00n", type |-> "u32", count |-> N],
             [name |-> "p1_q00inv", type |-> "u32", count |-> N],
             [name |-> "p1_q01n", type |-> "u32", count |-> N],
             [name |-> "p2_q00n", type |-> "u32", count |-> N],
             [name |-> "p2_q00inv", type |-> "u32", count |-> N],
             [name |-> "p2_q01n", type |-> "u32", count |-> N],
             [name |-> "hpub", type |-> "u8", count |-> HpubLen] >>

Width == [i64 |-> 8, u32 |-> 4, u8 |-> 1]

Size(k) == Width[Fields[k].type]
Names == {Fields[k].name : k \in DOMAIN Fields}
FieldOf(name) == CHOOSE x \in ToSet(Fields) : x.name = name

\* HAWK_512_PREPARED_PUBKEY_LEN
PreparedPubkeyLen == (N \div 2) * 8 + N * 8 + 6 * (N * 4) + HpubLen

\* repr(C): each field at the next multiple of its alignment.
Aligned(at, width) == at + ((width - (at % width)) % width)
Offset(k) ==
  LET end[n \in 0..(k - 1)] ==
        IF n = 0 THEN 0 ELSE Aligned(end[n - 1], Size(n)) + Fields[n].count * Size(n)
  IN  Aligned(end[k - 1], Size(k))

\* Little-endian, a signed value in two's complement.
FromLE(type, b) ==
  LET w == Width[type]
      value == SumTo([k \in 0..(w - 1) |-> Pow2(BYTE * k) * b[k]], w)
  IN  IF type = "i64" /\ value >= Pow2(BYTE * w - 1) THEN value - Pow2(BYTE * w) ELSE value

LE(type, v, k) == ((v % Pow2(BYTE * Width[type])) \div Pow2(BYTE * k)) % Pow2(BYTE)

\* The memory of a structure.
AsBytes(s) ==
  [at \in 0..(PreparedPubkeyLen - 1) |->
     LET k == CHOOSE k \in DOMAIN Fields : at \in Offset(k)..(Offset(k) + Fields[k].count * Size(k) - 1)
         from == at - Offset(k)
     IN  LE(Fields[k].type, s[Fields[k].name][from \div Size(k)], from % Size(k))]

\* Mutant: the two factors of q00 change places.
FillOrderSwapped ==
  <<"pvbound", "fq01", "p1_q00inv", "p1_q00n", "p1_q01n", "p2_q00n", "p2_q00inv", "p2_q01n", "hpub">>

\* The order in which from_bytes reads them.
FillOrder ==
  <<"pvbound", "fq01", "p1_q00n", "p1_q00inv", "p1_q01n", "p2_q00n", "p2_q00inv", "p2_q01n", "hpub">>

-----------------------------------------------------------------------------

Init ==
  /\ blob \in Blobs
  /\ p = [name \in Names |-> [k \in 0..(FieldOf(name).count - 1) |-> 0]]
  /\ f = 1 /\ i = 0 /\ o = 0

Field == FieldOf(FillOrder[f])

\* Mutant: every element is read as one of eight bytes.
StepOfI64 == 8

Step == Width[Field.type]

\* One turn of fill_i64, fill_u32 or the loop over hpub, which reads at o + k
\* and leaves o alone.
Fill ==
  /\ f <= Len(FillOrder)
  /\ LET at == IF Field.type = "u8" THEN o + i ELSE o
     IN  p' = [p EXCEPT ![Field.name] =
                 [@ EXCEPT ![i] = FromLE(Field.type, [k \in 0..(Width[Field.type] - 1) |-> blob[at + k]])]]
  /\ o' = IF Field.type = "u8" THEN o ELSE o + Step
  /\ IF i + 1 < Field.count THEN i' = i + 1 /\ f' = f ELSE i' = 0 /\ f' = f + 1
  /\ blob' = blob

Next == Fill

Spec == Init /\ [][Next]_vars

(***************************************************************************)
(* Properties.                                                             *)
(***************************************************************************)

\* from_bytes never indexes past the blob, so a constant evaluation of it
\* cannot fail and a blob cannot make it panic.
InBounds ==
  f <= Len(FillOrder) =>
    (IF Field.type = "u8" THEN o + i ELSE o) + Width[Field.type] <= PreparedPubkeyLen
=============================================================================
