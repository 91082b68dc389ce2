--------------------------- MODULE MCAccountBytes ---------------------------
(***************************************************************************)
(* Account data of every length modulo eight, of none, and of those around *)
(* the blob's, payloads around the real lengths that the entrypoint splits *)
(* at, and blobs of four coefficients in bytes of two bits, which tell     *)
(* fields and elements apart and reach both ends of each type.             *)
(***************************************************************************)
EXTENDS AccountBytes

Around(n) == {n - 1, n, n + 1}

DataLens == (0..8) \union ((BlobLen - 1)..(BlobLen + 7))
Payloads == {0, 1, 2} \union UNION {Around(1 + n) : n \in {KeyLen, SigLen, KeyLen + SigLen}}

Input(accounts, duplicates, dataLens) ==
  [accounts : accounts, duplicate : duplicates, dataLen : dataLens,
   rentFirst : BOOLEAN, ixLen : Payloads, mode : Modes]

MCRegions ==
  Input({0, 2}, {FALSE}, {0}) \union Input({1}, {FALSE}, DataLens) \union Input({1}, {TRUE}, {0})

Pattern(a, b, c) == [at \in 0..(BlobLen - 1) |-> (a * at + b * (at \div 8) + c * (at \div 16) * at) % Pow2(BYTE)]

MCImages == {Pattern(1, 1, 0), Pattern(3, 0, 1), Pattern(0, 1, 1), Pattern(2, 3, 3)}
              \union {[at \in 0..(BlobLen - 1) |-> v] : v \in {1, 2, 3}}

MCJunk == {0, 1, 2, BlobLen}
=============================================================================
