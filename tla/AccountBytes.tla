---------------------------- MODULE AccountBytes ----------------------------
(***************************************************************************)
(* A registered key as bytes, from the entrypoint to a later reader: the   *)
(* walk of ProgramInput finds the account's data, prepare_into leaves the  *)
(* memory of a structure there, and a client that does not know how its    *)
(* copy of the data is aligned reads it with from_bytes (BlobLayout).      *)
(***************************************************************************)
EXTENDS ProgramInput, Params

CONSTANTS BYTE, HpubLen,
          Images         \* bytes of the structures that prepare_into makes

VARIABLES written,       \* the bytes that prepare_into has written, or Nothing
          blob,          \* the account's data, as far as a blob is long
          p, f, i, o     \* from_bytes

reader == <<blob, p, f, i, o>>
allVars == <<vars, written, reader>>

\* Accounts are created zeroed.
Blank == [at \in 0..(BlobLen - 1) |-> 0]

Layout == INSTANCE BlobLayout WITH Blobs <- {Blank}

ASSUME BlobLenAssumption ==
  /\ BYTE \in Nat \ {0} /\ HpubLen \in Nat \ {0} /\ BlobLen = Layout!PreparedPubkeyLen
  /\ Images \subseteq [0..(BlobLen - 1) -> 0..(Pow2(BYTE) - 1)]

AccountInit == Init /\ Layout!Init /\ written = Nothing

Serve == Walk /\ UNCHANGED <<written, reader>>

\* What an account's data is when an image has been written where the walk led.
DataWith(image) ==
  LET shift == RangeOf(region, "data").at - taken[2].at
  IN  [at \in 0..(BlobLen - 1) |->
         IF at + shift \in 0..(BlobLen - 1) THEN image[at + shift] ELSE blob[at]]

Register ==
  /\ Prepare
  /\ IF code' = "ok"
     THEN \E image \in Images : written' = image /\ blob' = DataWith(image)
     ELSE UNCHANGED <<written, blob>>
  /\ UNCHANGED <<p, f, i, o>>

Read == written # Nothing /\ Layout!Next /\ UNCHANGED <<vars, written>>

AccountNext == Serve \/ Register \/ Read

AccountSpec == AccountInit /\ [][AccountNext]_allVars

(***************************************************************************)
(* Properties.                                                             *)
(***************************************************************************)

\* The reads of from_bytes are inside the blob.
ReadsInBlob == Layout!InBounds

\* What a client decodes from a registered account is, field by field, the
\* structure that prepare_into left in memory, so reading a key with from_bytes
\* and borrowing it with from_ref are the same.
ReadsBack == written # Nothing /\ f > Len(Layout!FillOrder) => Layout!AsBytes(p) = written
=============================================================================
