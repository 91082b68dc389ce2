--------------------------- MODULE MCPartialBlob ---------------------------
(***************************************************************************)
(* PartialBlob with the keys of MCKeys, on a buffer that was zeroed or     *)
(* holds an earlier key, and on one that holds anything.                   *)
(***************************************************************************)
EXTENDS PartialBlob, MCKeys

MCGoodBlobs == {MCZeroBlob, PreparedBlob("unit")}

\* One slot's bound is none that prepare_into writes: negative, zero, or positive
\* and below the scale.
MCCorruptBlobs == {[PreparedBlob("unit") EXCEPT !.pvbound = [@ EXCEPT ![0] = n]] : n \in {-1, 0, 1}}
=============================================================================
