---------------------------- MODULE PartialBlob ----------------------------
(***************************************************************************)
(* verify_with_prepared on a buffer at any point of the calls that write   *)
(* it: a host program may keep using a buffer after prepare_into has       *)
(* failed, or has been stopped, half way through it.                       *)
(***************************************************************************)
EXTENDS PrepareInto, HawkVerify

CONSTANTS Messages, Signatures

ASSUME CallsAssumption == \A msg \in Messages, sig \in Signatures : DecodesTo(msg, sig, Hashes)

\* "Returns false on any failure mode; never panics": every message and
\* signature gets a verdict, whatever mixture of keys the buffer holds.
NeverPanics ==
  \A msg \in Messages, sig \in Signatures : VerifyPrepared(BlobNow, msg, sig) # "panic"
=============================================================================
