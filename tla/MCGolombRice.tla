---------------------------- MODULE MCGolombRice ----------------------------
(***************************************************************************)
(* GolombRice on two integers with LOW = 2, HIGH = 4, in three-bit bytes.  *)
(* The shortest encoding has eight bits and the longest fourteen, so one   *)
(* and two bytes are too few, three and four cut long runs off, and five    *)
(* hold any.                                                               *)
(***************************************************************************)
EXTENDS GolombRice

AllOf(n) == [bytes : {n}, bits : [0..(3 * n - 1) -> 0..1]]

\* Five bytes: every unary part, after sign and low bits that are all alike.
LongOnes == {[bytes |-> 5, bits |-> [b \in 0..14 |-> IF b < 6 THEN c ELSE f[b - 6]]] :
               c \in 0..1, f \in [0..8 -> 0..1]}

MCBuffers == AllOf(1) \cup AllOf(2) \cup AllOf(3) \cup AllOf(4) \cup LongOnes
=============================================================================
