# Verification of solana-hawk512

TLA+ modules, TLC configurations and TLAPS proofs for `solana-hawk512`, a
verifier of HAWK-512 signatures that runs on chain, and for the example program
that registers keys in accounts. Paths are relative to the repository root
(`src/ntt.rs`, `program/src/lib.rs`, ...).

    tlc -config MCProgram.cfg MCProgram.tla      # one run
    tlapm ProgramProofs.tla                      # one module of proofs

## 1. Inventory

| Component | Where | State | Operations |
|---|---|---|---|
| Registration | `src/lib.rs` 418-555 | the caller's buffer, seen as nine fields | `prepare_into`, `prep_a` to `prep_e`; `prepare_fft`, `prepare_divisor`, `prepare_ntt` |
| Verification | `src/lib.rs` 557-738 | none (stack frames) | `verify`, `verify_with_prepared` |
| PolyQnorm, direct | `src/ntt.rs` 245-376 | five lanes in nested frames, two of them overwritten in place | `poly_qnorm`, `pq_a` to `pq_e`, `qnorm_in_bound` |
| PolyQnorm, prepared | `src/ntt.rs` 425-545 | none | `qnorm_prepared`, `qnorm_in_bound_prepared` |
| NTT, modular arithmetic | `src/ntt.rs` 19-243 | the lane being transformed | `mulmod`, `powmod`, `inv`, `red`, `calc_w`, `ntt`, `ntt_conv` |
| Fixed-point FFT, RebuildS0 | `src/fft.rs` | the two halves being transformed | `fft_conv`, `inv_fft_to_w0`, `rebuild_s0`, `rebuild_s0_prepared` |
| Golomb-Rice decoder | `src/codec.rs` 26-133 | output array and three counters | `decompress_gr` |
| Framing of keys and signatures | `src/codec.rs` 135-249 | none | `decode_public`, `decode_signature`, `padding_all_zero` |
| Hashing | `src/codec.rs` 265-324 | a sponge (external crate) | `compute_hpub`, `compute_m`, `compute_h` |
| Blob serialisation | `src/lib.rs` 274-416 | none | `as_bytes`, `from_bytes`, `from_ref`, `try_from_slice` |
| Example program | `program/src/lib.rs` | account data | modes 0 (raw key), 1 (baked key), 2 (registration) |
| Runtime | external | accounts, compute budget | loads, meters and commits transactions |
| Delta table, tests, Lean development | `src/delta_table.rs`, `*/tests`, `formal_verification` | - | - |

How they meet. `prepare_into` decodes a key and writes its FFT and NTT factors
and its hash into a buffer, on chain the data of an account. `verify` starts from
the wire key and computes everything again; `verify_with_prepared` reads the
buffer. Both decode the signature, hash, break the symmetry, rebuild `w0` and
bound a norm modulo two primes. Nothing is locked and nothing is shared but the
buffer, so concurrency is the runtime's: one transaction at a time per account.

What is hard here, and so what the properties are about:

- *Partial failure.* A registration fails, or runs out of compute units, after it
  has written some of the fields, over a buffer that held another key.
- *In-place algorithms.* Montgomery's trick keeps prefix products in the slots
  that will hold inverses; `pq_e` fuses a second accumulation into that pass.
- *Checks made at another time.* The divisor range is tested once at preparation
  and trusted in every verification, where the direct path tests it each time.
- *Two implementations of one verdict*, over two call chains.
- *Unchecked indexes.* `assert_unchecked` turns a wrong length test into
  undefined behaviour.
- *Numeric edges.* Lazy sums in `u32` lanes, fixed-point products near the end of
  an `i64`, a dual-prime residue that must stand for an integer, unary runs at
  their limit.
- *Offsets.* Keys, signatures, blobs and the program's input are cut up by running
  offsets that depend on the data before them.

`PROJECT.json` lists each hazard at its line with the properties that cover it.

## 2. Modules

Edges point from a module to those that extend or instantiate it.

    Sums -- Params -+- BlobLayout -- AccountBytes (with ProgramInput) --- AccountBytesProofs
      |             |
      +-- GolombRice ---- GolombRiceProofs
      |      |      |           |
      |      +-- WireCodec ---- WireCodecProofs
      |             |    |
      |             | WireEncoding
      |             |
      |             +- FFT --+-- RebuildS0 ---+-- RebuildLoops (with RingNorm) -- RebuildLoopsProofs
      |             |        |                |                                      |
      |             |     PublicKey --+       |                                (instantiates)
      |             |                 |   HawkVerify --+-- PartialBlob                |
      |             +- NTT -----------+--     |        |   (with PrepareInto)         |
      |             |  (ModArith) \      PrepareInto --+-- Program -------- ProgramProofs
      |             |           Qnorm ---------/            |
      |             |             |                     (refines) --- KeyRegistry
      |             |     PolyQnorm (with RingNorm) --- PolyQnormProofs -- (instantiates NttLevelsProofs)
      |             |
      |             +- NttByLevels -- (refined by) -- NttLevels --- NttLevelsProofs
      |
    ArithTheorems (with BatchInversion): in every module of proofs

| Module | Models | Notes |
|---|---|---|
| `Params` | `N`, `LOGN` | any power of two above 3; 512 and 9 in the code |
| `Sums` | `bitrev`; running sums and powers of two | recursive functions, with what proofs need of them in `ArithTheorems` |
| `ModArith` | `red`, `mulmod`, `powmod`, `inv` | `powmod` by the code's square and multiply |
| `NTT` | twiddle tables, levels, `ntt`, `ntt_conv` | the butterflies in the code's order, full and lazy levels |
| `FFT` | `fft_conv`, the divide step, `inv_fft_to_w0` | shifts are floor divisions, casts to `i32` and sums in an `i64` wrap, widths and scales are CONSTANTS |
| `BatchInversion` | the loop relations of Montgomery's trick | used by `PrepareInto` and `PolyQnorm` and proved about once |
| `PublicKey` | what the transforms make of a key | decoding and hashing are parameters; `Usable` says which keys can be prepared |
| `PrepareInto` | `prepare_into` | a state machine on the nine fields |
| `Qnorm` | `qnorm_prepared`, the bound | |
| `PolyQnorm` | `poly_qnorm` for both primes, `qnorm_in_bound` | a state machine on `c`, `e` and the accumulator |
| `RebuildS0` | `rebuild_s0`, `rebuild_s0_prepared` | ends in w0, a rejection or a division by zero |
| `HawkVerify` | `verify`, `verify_with_prepared` | |
| `Program` | the entrypoint, the runtime around it | composes `PrepareInto` (its actions run inside a transaction) and `HawkVerify` |
| `KeyRegistry` | nothing: the abstract specification of `Program` | accounts hold keys, registrations are atomic, every verdict is `Verify` of the wire key; `Verify` and `Usable` are parameters |
| `PartialBlob` | a verification on a buffer in any state of `PrepareInto` | |
| `GolombRice` | `decompress_gr` | with its encoding as a reference |
| `WireCodec` | `decode_public`, `decode_signature`, `padding_all_zero`, `decode_int` | runs `GolombRice` as three instances |
| `WireEncoding` | nothing: the encoding of keys and signatures | what `WireCodec` has to decode |
| `NttLevels` | the loops of `ntt` and `ntt_conv` | in place, `u32` lanes, `u64` words |
| `NttByLevels` | nothing: whole exact levels | the abstract specification of `NttLevels` |
| `RebuildLoops` | the loops of `rebuild_s0` | in place, `i32` lanes, wrapping `i64` words |
| `ProgramInput` | the entrypoint's walk over its serialized input | offsets in bytes; every length is a CONSTANT |
| `BlobLayout` | `from_bytes` and the memory of the structure | bytes of any width |
| `AccountBytes` | a key from the serialized input to a later reader | composes `ProgramInput` and `BlobLayout` |
| `RingNorm` | nothing: plain polynomial arithmetic | the reference in `PolyQnorm` and `RebuildLoops` |

### PrepareInto

`pc` names the stage: `decode`, `fft`, `divisor`, `ntt`, `prefix`, `invert`,
`back`, `hash`, and `ok` or `err` at the end, after which another `Call` may
follow on the same buffer. The variables `pvbound`, `fq01`, `q00n`, `q00inv`,
`q01n` and `hpub` are the fields of `Hawk512PreparedPubkey`; the three NTT
fields are functions of the lane, so `q00inv[2]` is `p2_q00inv`. A step is one
loop iteration wherever the loop leaves the buffer in a new state
(`prepare_divisor`, both passes of the inversion), and one call elsewhere: the
transforms write whole fields and cannot fail on the way. `aligned` is chosen
once. The buffer starts with whatever `InitBlobs` allows.

### PolyQnorm

`c` and `e` are the arrays that `pq_e` rewrites. The arrays `a`, `b` and `d` are
written once per call and stay functions of the input (`ANtt`, `BNtt`, `DNtt`).
`c` and `e` are `u32` lanes: `LaneMax` is 2^32 in the code, and `TypeOK` says that
the sums that the code leaves unreduced stay below it. What the verdict is about is
`MeasuresNorm`: `Bases` are secret bases, which only the property knows, and the key
of one is its Gram polynomials (`KeyOf`).

### HawkVerify and RebuildS0

Verification keeps no state, so it is a pair of functions. `Verify` gives
`reject` wherever the code returns false and `panic` where it divides by zero.
`Verify` uses `Qnorm` on exact inverses for the direct norm: that the fused
in-place code computes just that is the theorem `FusedIsPrepared`.

### Program

A transaction is parsed and answered at once, unless it registers: then `tx`
holds it, the fields are loaded from the account (`Register`), the actions of
`PrepareInto` run one by one (`Run`), and `Return` commits the buffer if the code
is 0 and drops it otherwise, as the runtime does. `Exhaust` ends the compute
budget anywhere inside. The mode `stored` is not in the example program; it is the
continuation that `README.md` gives for it (`try_from_slice` on the account's data,
then `verify_with_prepared`) and its length test is that of `try_from_slice`.
`Collect` only clears the answer. The account block is a record: no account, one
account, or one of the shapes the program refuses (`OddAccounts`: a duplicate, more
than one). The runtime's refusal to write read-only accounts is not modelled.

`ImplementsRegistry` is a refinement: the registry's `key[a]` is the key whose hash
is in the account's `hpub`, so a mixture of two keys under one hash gives verdicts
that the registry does not allow.

### GolombRice

Each action is one iteration: `LowBits` one integer, `UnaryBit` one bit,
`SignBit` one sign (the code loads eight at once; the stores are the same). The
reference, `StartsWithCode(x)`, states the encoding of a tuple `x` as facts about
the bits, without decoding.

### WireCodec

`stage` is the place in the framing function and `at` its bit index `j`; the
decoder's variables are those of the instance that is at work, which starts on the
rest of the buffer with its own `j`. The array that a caller hands in starts zeroed,
as all callers' do. `padding_all_zero` reads bits up to a byte boundary, then words of
`CHUNK` bytes, then bytes, one action each. `Canonical` compares what was accepted
with its encoding (`KeyBits`, `SigBits`), which is built by concatenation and knows
nothing of offsets.

### NttLevels

One action is one turn of the block loop or one butterfly; `conv` chooses between
`ntt`, whose lanes the caller has reduced, and `ntt_conv`, whose first level reads the
signed source. `entry` is a history variable: the lanes with which the level began.
It is the variable `g` of `NttByLevels` in the refinement `ImplementsLevels`.
`Stored` and `Twiddled` wrap at `LANE` and `WORD` as `u32` and `u64` do.

### RebuildLoops

`job` names the transform at work, `m` the level and `u`, `j` the indexes of its
loops; `hat` holds the three transforms in their two halves, as complex numbers. A
butterfly is one action. `Divide` and `Finalize` are the bodies of the last two
loops, with the four writes of `finalize!` in their order, so a refusal leaves `w0`
partly written. Sums and shifts wrap in 64 bits and casts to `i32` in 32. A quotient
may pass the test against 2^32 v and still need a 33rd bit, which `as i32` drops, as the
published algorithm does; nothing is promised of what is rebuilt from such a lane
(the hypothesis of `RoundsTheQuotient`), and the values of the inverse transform are
not claimed to fit: after such a loss a product may wrap.

### ProgramInput

The region is a sequence of parts with their lengths, as the runtime serializes them,
and an address is an offset in it. A read that is not at the start of the part it is
meant for returns any value of `Junk`, so a walk that goes astray reads arbitrary
lengths. The order of padding and rent epoch is left open: the code adds both.
`Verify` and `Prepare` may end either way here; `Program` says which.

### BlobLayout and AccountBytes

`AsBytes` is the memory of a `repr(C)` structure, by the alignment of its fields;
`Fill` is one turn of `fill_i64`, `fill_u32` or of the last loop of `from_bytes`.
`AccountBytes` puts the bytes that `prepare_into` leaves (`Images`, any bytes) where the
walk has led it, and lets a client read the account with `from_bytes`: what it
decodes must have the memory that was written.

### Variants for mutation

Definitions marked *mutant* are what a slip in the code would make of the
definition after them: a stale field, a loop one too long, a shift by 31. Nothing
uses them. For each property `PROJECT.json` names one that breaks it.

## 3. What is checked

| Run | Instance | States | Shows |
|---|---|---|---|
| `MCPrepareInto.cfg` | N = 4, primes 41 and 97, 7 kinds of keys, 2 buffers | 43,828 | `OkIsComplete`, `OutcomeIsTheKeys`, `HpubIsLast`, `UntouchedUntilAdmitted`, `Returns`, the inductive invariant |
| `MCPolyQnorm.cfg` | N = 4, primes 17 and 97, 7 keys, 32 pairs (w0, w1) | 4,640 | `SameAsPrepared`, `MeasuresNorm`, the inductive invariant |
| `MCProgram.cfg` | N = 4, primes 41 and 97, 7 keys, 9 signatures, 2 messages, 3 accounts | 4,350 | `AccountsAreWhole`, `VerifyingKeysRegister`, `ImplementsRegistry`, `AllOrNothing` |
| `MCPartialBlob.cfg` | the same keys, from a zeroed or a prepared buffer | 1,009 | `NeverPanics` |
| `MCWireCodec.cfg` | N = 4, 3-bit bytes, words of 2 bytes, 14,629 buffers: encodings, each with any one bit flipped, other lengths | 405,486 | `InBounds`, `Canonical`, `AcceptsEncodings`, `Returns` |
| `MCNttLevels.cfg` | N = 16, primes 193 and 97, 9-bit lanes, both transforms | 14,352 | `AssertedInBounds`, `NothingWraps`, `Evaluates`, `ImplementsLevels` |
| `MCRebuildLoops.cfg` | N = 8, 12-bit lanes in 24-bit words, 7 x 25 x 13 inputs | 37,327 | `SameAsFunction`, `AssertedInBounds`, `ForwardFits`, `RoundsTheQuotient`, `RefusesOnlyBeyond`, `Returns` |
| `MCAccountBytes.cfg` | 18 data lengths, payloads around the real lengths, 4 modes; N = 4, 2-bit bytes, 7 blobs | 32,032 | `FindsInstruction`, `WritesInsideAccount`, `CutsThePayload`, `ReadsInBlob`, `ReadsBack` |
| `MCGolombRice.cfg` | 2 integers, 3-bit bytes, LOW = 2, HIGH = 4, all buffers of 1 to 4 bytes | 52,828 | `InBounds`, `DecodesTheCode`, `GivesUpRightly`, `Returns` |

Bounds. Four coefficients give a transform with a lazy and a full level, two FFT
slots and a batch inversion with a first, an inner and a last slot, and every array
has an entry that a wrong index would hit. The primes are the smallest that are 1
modulo 8 and above every coefficient of the sources (as the code's are, so that one
conditional addition reduces one) and keep the cases apart: a key that fails only modulo the first prime
and one that fails only modulo the second, and, in `MCPolyQnorm`, every `N * norm`
is below the product of the primes (`NormsDistinct`), so that `MeasuresNorm` speaks of each pair. The words of the
FFT have 12 and 24 bits in every run (`WordSize`, `WideSize`; `DeltaOne` is 2^11) for
32 and 64, so that TLC's integers hold every product, and the scales shrink with them;
the code's relation between those, `C_S0 = 2 C_W1 C_Q01 / (N C_Q00)`, is
`4 = 2*16*4 / (4*8)`. The keys
of `MCKeys` cover each outcome: two Gram matrices under which signatures verify,
one that is not invertible for each prime, one with `q00[0] < 0`, one whose
divisors are out of range although a short vector of its lattice would pass the
norm test, and one that does not decode. The accounts are one byte short, exact
and one byte long. Three-bit bytes reach every alignment of a two-byte window in
15 bits.

In `MCWireCodec` the coded q00 ends at every offset modulo a byte, so q01 starts
after zero, one or two padding bits; q01 and s1 leave tails of words, of bytes and of
single bits, and some codes do not fit at all. Every bit of every sampled encoding is
flipped once. `MCNttLevels` has sixteen coefficients, two lazy and two full levels,
and nine-bit lanes that hold 2 * 193 but not 3 * 193, as 32 bits hold twice the larger
prime and not three times; the sources are made of the extremes. In `MCRebuildLoops`
words have 12 and 24 bits for 32 and 64, and coefficients of 3 bits: the scales
(`C_W1` = 2^7, `C_Q00` = `C_Q01` = 2^6, `C_S0` = 2^5, DELTA in 2^11) keep the distance
of each value from the end of its word, and `C_S0 = 2 C_W1 C_Q01 / (N C_Q00)`. The
inputs reach both ends of s0, magnitudes beyond the bound, quotients that lose a bit,
and each cause of refusal. The data lengths of `MCAccountBytes`
are all residues modulo eight, none, and those around the blob's length; the payloads lie
around each length that the entrypoint splits at, and its blobs have values at both
ends of each type.

The loops of the transforms take the sizes of their levels from formulas (`T`, `Half`,
`IsLazy`), whereas the code lists them by hand for 512 coefficients. Those lists are in
`MCRebuildLoops` and `MCNttLevels`, and `LevelsAsWritten` evaluates that they are what the
formulas give, so the indexes proved in range for every N are those of the code.

`CHECK_DEADLOCK FALSE` appears where a call returns and nothing follows.

Fairness. Where a run checks `Returns`, the specification has weak fairness of the step of
a call that has started (`Step` of `PrepareInto`, `Next` of the decoders and of
`RebuildLoops`), and so has `NttLevels` for the fairness of the levels it implements:
the code is sequential and its loops are bounded. No fairness is assumed of callers, and none of the
runtime: `ProgSpec` is about safety only, since the runtime ends any transaction, with
`exhausted` if it must. `PolyQnorm` has none either: its two passes are those of
`PrepareInto`.

Findings, each a run that must fail because the code does not do what a text says:

- `MCErrCauses.cfg`: `prepare_into` also refuses keys for a reason that neither its
  comment (`src/lib.rs` 435) nor `README.md` (104) names: a negative `q00[0]`, or a
  divisor outside (0, 2^30).
- `MCCorruptBlob.cfg`: "a corrupt blob simply fails to verify" (`src/lib.rs` 290)
  does not hold when a stored bound is between 1 and 2^32 - 1, so not zero but below the
  scale, and the slot is within it: the shifted divisor is zero and `udiv` panics. (A
  bound of zero, which is what is left of a good one without its high word, is refused.)
- `MCReadBack.cfg`: the two snippets of `README.md` (94, 99) disagree on accounts
  longer than the blob: registration succeeds and reading back never does.

Two smaller disagreements that need no run of their own: modes 0 and 1 are verified
with one account, too, where the entrypoint's comment
(`program/src/lib.rs` 71) has them come with none; and "an all-zero signature decodes
s1 = 0" (`src/lib.rs` 752), which it does not: its first unary run has no end
(`GivesUpRightly`).

## 4. What is proved

For every N, every pair of primes, every set of keys, buffers, messages, signatures,
accounts and inputs, and all widths and scales that the assumptions below admit:

| Theorem | Says |
|---|---|
| `ProgramProofs!TypeCorrect` | the fields of `prepare_into` keep their types and every asserted index is in range |
| `ProgramProofs!OkMeansComplete` | Ok means that every field is this key's |
| `ProgramProofs!OutcomeDependsOnKey` | Ok and Err depend on the key and the alignment only |
| `ProgramProofs!HpubWrittenLast` | `hpub` changes only in the step that completes the buffer |
| `ProgramProofs!UntouchedBeforeAdmission` | nothing is written before alignment, encoding and the sign of `q00[0]` have been tested |
| `ProgramProofs!UsedAtAnyTime` | a verification panics on no buffer that `prepare_into` has left, complete, refused or stopped |
| `ProgramProofs!SameVerdict` | `verify_with_prepared` on a prepared key is `verify` |
| `ProgramProofs!AcceptingKeysAreUsable` | a key that verifies anything passes `prepare_into` |
| `ProgramProofs!AccountsStayWhole` | an account is untouched or holds one whole key |
| `ProgramProofs!RegistersOrKeeps` | a registration writes its whole key and answers ok, or leaves every account as it was |
| `ProgramProofs!StoredKeysVerify` | a stored key verifies as its wire key does |
| `ProgramProofs!VerifyingKeysCanRegister` | a key with an accepted signature can be registered |
| `ProgramProofs!ProgramIsRegistry` | the program implements `KeyRegistry` |
| `PolyQnormProofs!InvariantHolds` | the inductive invariant of the fused pass |
| `PolyQnormProofs!TypeCorrect` | unreduced sums fit their lanes |
| `PolyQnormProofs!FusedIsPrepared` | the fused pass decides as the prepared path |
| `PolyQnormProofs!AcceptsShortVectors` | on the Gram polynomials of a basis the verdict is whether the lattice vector is short enough |
| `NttLevelsProofs!IndexesInBounds` | the twiddle counter and the block slices are in range |
| `NttLevelsProofs!LazyIsExact` | deferring every other reduction overflows no lane and no word |
| `NttLevelsProofs!TransformEvaluates` | both transforms evaluate their source at the odd powers of the root, in bit-reversed order |
| `NttLevelsProofs!LoopsAreLevels` | the in-place loops implement whole exact levels |
| `RebuildLoopsProofs!IndexesStayInBounds` | the asserted indexes of `fft.rs` are in range |
| `RebuildLoopsProofs!WordsHoldTheForward` | the forward transforms lose no bit, nor do the products of the divide loop |
| `RebuildLoopsProofs!LoopsAreTheFunction` | the in-place loops of `rebuild_s0` give w0 or a refusal as the functions over whole transforms do |
| `GolombRiceProofs!IndexesInBounds` | no index of `decompress_gr` leaves its array |
| `GolombRiceProofs!DecodesOnlyCode` | what it accepts is, bit for bit, the encoding of what it returns |
| `GolombRiceProofs!RefusesOnlyNonCode` | it refuses no buffer that starts with an encoding |
| `WireCodecProofs!ReadsInBounds` | no read of the framing functions leaves the buffer, with the decoder inside |
| `WireCodecProofs!OneEncoding` | what they accept is, bit for bit, the encoding of what they return |
| `WireCodecProofs!RefusesNoEncoding` | no encoding of a key or of a signature is refused |
| `AccountBytesProofs!WalkFindsInstruction` | the entrypoint ends its walk on the instruction, for every data length |
| `AccountBytesProofs!WritesStayInAccount` | what a registration writes is inside the account's data, and aligned |
| `AccountBytesProofs!PayloadIsCut` | key, signature and message have no gap between them and no overlap |
| `AccountBytesProofs!ReadsStayInBlob` | no read of `from_bytes` leaves the blob |
| `AccountBytesProofs!BlobReadsBack` | what `from_bytes` decodes from a registered account has the memory that was written, byte for byte |

Lemmas that several of these need are in `ArithTheorems`, which knows no component.

### Assumptions

All are named, and TLC evaluates them on each instance.

- N is a power of two above 3 (`ParamsAssumption`).
- The moduli have no zero divisors and Fermat's inverse inverts (`PrimesAssumption`, which
  is what the code means by primes), and a base passes the test of `find_root`, so that
  it returns (`RootAssumption`): it runs when the tables are compiled. That the tables
  then hold residues is proved (`TwiddleType`). A polynomial that is transformed has coefficients below both
  primes (`Reducible`), as one conditional addition reduces them. That its transform
  then has residues is proved (`NttType`). What the norm test transforms is such a
  polynomial (`InputsAssumption` of `PolyQnorm`).
- The primes differ, and N times the largest norm within the limit is below either
  (`LimitAssumption`; in the code 512 * 8317 against 2^31).
- What `MeasuresNorm` calls a basis has four integer polynomials and the determinant
  one (`BasesAssumption`). That is what the signer of a key keeps secret; the code
  never sees it.
- Twice a prime fits a lane, 3p and 2p^2 a word (`WidthAssumption`).
- `FftAssumption`: a word has twice `DeltaOne` values and a wide one that squared; the
  divisor's limit is a wide word; the twiddles that the levels read are points of
  the circle with each coordinate rounded up, so at most `DeltaOne` + 2 long.
- The scaled coefficients that enter an FFT are `Short`: twice one is at most `DeltaOne` - 4 LOGN
  (`InputsAssumption`, `DecodesTo`). The limits of the decoders give that: the largest
  is w1 = h1 - 2 s1 with |s1| up to 2^9, and 2 * 2^19 * 1025 is below 2^31 - 36. `q00[0]`
  is not among them, since that transform sets it to zero.
- A low part is at most one bit longer than a byte, as a window of two bytes must hold
  it from any bit (`SizesAssumption`), and buffers have the bits of their bytes.
- `RefusesNoEncoding` is about a set of polynomials that the format has room for, each
  with an encoding that fits (`SampleAssumption`); a signer draws another key or
  signature when it does not.
- A byte has a bit, `hpub` a byte, and the images are blobs of bytes
  (`BlobLenAssumption`); nothing else is known of an image, so `BlobReadsBack` holds of
  every key.
- The room to grow of an account is a multiple of eight, and lengths are naturals
  (`InputAssumption`).
- The blobs that a buffer starts with are typed; in the program they are zeroed
  accounts (`BlobsAssumption`) and the baked blob was made by `prepare_into`
  (`BakedAssumption`). `UsedAtAnyTime` supposes of a buffer what a zeroed one has: its lanes are words and
  no bound is below the scale unless it is zero. For any bytes it does not hold: see
  the finding of `MCCorruptBlob.cfg`.
- `hpub` names its key, that is, SHAKE256 is taken to be free of collisions and of a key
  that hashes to zeroes (`NamesAssumption`, without which an account does not determine
  its key).

### Registration and the program

`OkIsComplete` is not inductive: that a field is right at the end
says nothing of the stages. `IndInv` adds what each stage has established: for the
divisor loop, that the slots below `i` are in range and stored; for the batch
inversion, `ForwardInv` (the slots below `i` are running products of the factors,
the accumulator is the last one, and it vanishes exactly when a factor has) and
`BackwardInv` (the slots below `i` are still products, the accumulator inverts
the product that ends below `i`, and the slots from `i` on are inverses). The step
lemmas of these two relations, `ForwardStep`, `TurnStep` and `BackwardStep`, are
proved once from the laws of the ring.
`PolyQnorm` reuses them: there the slot that is passed gets a quotient and not an
inverse, which is why `BackwardStep` allows any value in it. Uniqueness of inverses
(`InverseUnique`) then makes both paths' factors the same. For the program,
`CompleteIsPrepared` turns a complete buffer into the value `PreparedBlob(k)`,
which is what `SameVerdict` speaks of; `ProgInv` adds that a transaction in
progress is a registration of a known key into a known account.

`UsedAtAnyTime` needs little of that: in every state each bound is zero or at least
the scale, and the lanes are words. Under a zero bound no magnitude passes, provided
that a magnitude is not negative. The least `i64` is its own magnitude, so the proof has
to show that the sum of two products never reaches it: a lane of the signature's
transform is shorter than a word (`FftShort`), so the product is
(`MagnitudeOfProduct`). These are lemmas of the loops' module, instantiated here.

`ProgramIsRegistry` maps an account to the key that its `hpub` names (`KeyIn`). By
`AccountsAreWhole` that key's prepared form is all the account holds
(`KeyOfAccount`), so a verification of a stored key is `SameVerdict` away from `Verify`
of the wire key; a zeroed account rejects everything because its bounds are zero
(`ZeroRejects`); no verification panics (`DividesWithoutPanic`, `VerdictOfVerify`).
`RegInv` adds that a registration in progress is well-formed, works on its own key and
owes the only answer; `RegistersOrKeeps` follows, and every step is a step of the registry or a stutter:
`Run` writes only the transaction's view, `Return` is the registry's atomic
registration, `Exhaust` its `GiveUp`.

### The transforms

For the NTT, `IndInv` of `NttLevelsProofs` says where the loops stand (`Placed`:
at level m the counter is m plus the number of finished blocks, which is all that the
asserted bounds need) and what the lanes are (`InPlace`: those that the butterflies
have left hold the level's result and are below p, or 2p on a lazy level; the others
still hold the entry). That lanes enter a level below 2p only after a lazy one
(`Entered`) bounds every product and sum. At the end of a level `InPlace` says that
the lanes are the level of the entry: a step of `NttByLevels`.

`TransformEvaluates` is about what the levels compute. Its invariant `Transformed` follows
`entry`: after n levels the lanes are 2^n blocks of s = N / 2^n, and block b is the source
modulo X^s - z, where z is the root to the power s (2 rev(b) + 1), rev reversing n bits
(`BlockReduced`). A butterfly takes such a block to the two of X^(s/2) - y and
X^(s/2) + y with y y = z: lane by lane that is a sum split into its even and odd terms
(`EvenAndOdd`), and one exact level keeps it (`LevelReduced`). That the twiddle of the
block, found at 2^n + b in a table in bit-reversed order, is that y is arithmetic of
reversed bits (`BitRevTwiddle`, `BitRevDouble`); the minus of the other half is the
half turn that the test of `find_root` establishes (`RootFacts`). `powmod` squares and
multiplies, and the code's tables are its results: that it computes the power is
`PowModPower`, by one turn of its loop (`SquareTurn`). The lanes are related by congruence (`Cong`), so deferring reductions changes
nothing here, and the last level, which reduces, turns the congruence into equality.

`AcceptsShortVectors` says what the norm test is for. The reference (`RingNorm`) is plain
arithmetic in Z[X]/(X^N + 1). A lane of a transform is the value of a polynomial at a root
(`NttEvaluates`), and a value is linear (`AtLinear`), turns products of the ring into
products (`AtProduct`, by turning one factor n times) and adjoints into values at the
inverse root (`AtAdjoint`). The lane that the code pairs with lane n by reading backwards
is the one at the inverse root (`RootsPaired`, from the complement of reversed bits,
`BitRevComplement`). With that, what a lane adds to the sum is the value of the sum of
u * adj(u) over both rows u of the basis times w (`LaneNorm`): the quotient by
q00 is undone (`LaneDivision`), because the determinant makes q01 adj(q01) + 1 a
multiple of q00 (`LaneGram`). The first lanes of the two halves that a butterfly makes of a
block add up to twice the first lane of the block (`HalvesAddUp`), so all lanes together are
N times the constant coefficient (`NttSum`), which is the squared length (`AdjointSquare`):
each residue is N times the norm modulo its prime (`LaneResidue`). Two residues that are
equal are that number itself, as long as it is below the product of the primes
(`PrimesCoprime`, `BoundIsNorm`), and then N divides it.

For `rebuild_s0` the first part of `RebuildLoopsProofs` is about the functions alone. A
butterfly halves what it adds, so the length of a lane, as a complex number, grows by no
more than what the rounding of the twiddle and of the shift adds, less than four a level
(`ShortButterfly`, `FftLevelShort`): over LOGN levels a `Short` source stays inside a
word. The second part is `LoopInv`. A butterfly writes the two slots that it reads;
`Visited` orders the slots by block and by their place in the half block, and `InPlace`
says that the visited ones hold the level's lanes and the others those of the level
before (`Levels`, `Down`). When a level ends, every slot is visited. For the divide
loop, columns below `u` hold quotients and have passed both tests; for the last
inverse level, which skips the array, columns below `j` of w0 hold the results. The
end of each phase is the start of the next, and `Outcome` says of each end what
`SameAsFunction` compares.

### The decoder

For its indexes the invariant is the length test, carried through the phases; the
products of two parameters that it implies are lemmas of their own. For the code,
`Decoded` describes each integer by the bits that encode what of it is known: its low
bits once the first phase is past it, its run once the second is, its sign after the
third. `End`, a running sum of runs, is where the next run starts. The other direction,
`Faithful`, follows any tuple that the buffer starts with: the unary phase is inside
the run of the integer at work, so neither limit can be met. Digits of a number below
a power of two are unique (`DigitsOfSum`).

`WireCodecProofs` uses these for each of the three instances. For the indexes it adds that
the bits consumed so far, those of the decoder included, are inside the buffer (`IndInv`). For
the code it has to join two descriptions: the decoder's has each run counted back from where
it ends, the encoding is a concatenation. `Shows(b, n, s)` says that the bits from n on
are the sequence s; what a concatenation shows is what its parts show (`ShowsJoined`,
`ShowsPieces`), so `CodeBits` can show the two to be the same. `CanonInv` then
has at each stage what the bits before `at` spell: the code of q00, that with the extra bits of its
first entry (`WithExtra` undoes what `Half` splits, again by `DigitsOfSum`), the zeros up to
the byte, q01 behind them, and zeros to the end. Mirroring q00 changes nothing of what is coded of it
(`MirrorFirstPart`). `AcceptInv` is the other direction: on an encoding each decoder
stops where its part ends, so the padding loops meet zeros only. A loop that stops at
a byte boundary within the padding has reached its end (`AtTop`).

### The program's input

`WalkInv` has the offset of the walk in each state. The region is a sequence of parts,
so where a part starts is a sum over the parts before it; `WithAccount` and
`NoAccount` compute it. Behind the account both orders of padding and rent epoch give the
same offset, since the header and the room to grow are multiples of eight. A read at the
start of its part returns its content and no `Junk`, so the walk stays on its way.

The reader of the blob has `ReadInv`: it is at element i of field f, its offset is the
`Place` of that element, and every element before it is the number that the bytes at its own
place make. `BaseFacts` has where each field starts, in N, and `Offsets` that the alignment of
`repr(C)` gives the same, with no gap: that is what lets two programs share an account when one
casts and the other decodes. A number put together from bytes has those bytes
(`BytesOfNumber`), in two's complement too (`LittleEndian`), and each byte of the blob is in one
place only. `WrittenInv` keeps the blob as it was registered while it is read.

### Induction

The library's induction theorems take an operator, which the provers at hand
cannot instantiate. `ArithTheorems` has induction on sets of naturals instead (`SetInduction`,
from the well-foundedness of <), and from it that recursive functions exist and are unique
(`Recursion`, `RecursionUnique`). Sums, powers, reversed bits, levels of
transforms, concatenations and running products are all recursive functions, so what
they compute is proved in this way.

### Only model-checked

- The liveness properties, each named `Returns`, and the fairness part of
  `ImplementsLevels`: the provers have no rule for fairness.
- `RoundsTheQuotient` and `RefusesOnlyBeyond`, which bound the accumulated error of
  the three transforms against the exact quotient. The table approximates irrational
  roots, so the argument needs real numbers, and its margin is one of the code's own
  scales: for arbitrary values of the constants the two need not hold.

## 5. What is not modelled

SHAKE256 (an external crate: a function; the expansion of its output into h0 and w1 is
modelled); the generated twiddle table (the constant `DELTA`, whose values for N = 512
no instance here uses); the wrapper types `Hawk512Pubkey` and `Hawk512Signature`, which
check a length; `from_ref`'s cast, which has no effect to model; the loops of the
prepared variants `rebuild_s0_prepared` and `qnorm_prepared`, which share every
stage with the direct ones and are functions here; rent, ownership and signer checks of
the runtime. The repository's Lean development and its tests are not code of the
program.

## 6. Plan

Done, in this order: `PrepareInto` and its proofs; `PolyQnorm` and its proofs, that of the
norm included;
`HawkVerify`; `KeyRegistry` and `Program` with its proofs; `GolombRice` and its
proofs; `WireCodec` with its proofs, the encoding's included; `NttLevels` with its
refinement proof and the proof that it evaluates;
`RebuildLoops` with its proofs; `ProgramInput`, `BlobLayout` and
`AccountBytes` with their proofs; the refinement proof of the program; `NeverPanics`.

To do:

1. Proofs: a bound on the rounding errors of the three transforms, which would start
   from an assumption on the scales and on the distance of the table from the circle.
2. The loops of `rebuild_s0_prepared` and `qnorm_prepared` as machines of their own.
3. A larger `MCProgram`: two accounts of exact length, to see registrations of
   different accounts follow each other.
