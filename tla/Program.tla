------------------------------ MODULE Program ------------------------------
(***************************************************************************)
(* The example program (src/program/src/lib.rs) on a chain with accounts:  *)
(* its instructions, the registration that prepares a key in place, and    *)
(* the read-back of a stored key with try_from_slice.  A registration runs *)
(* prepare_into on the transaction's view of the account; the runtime      *)
(* keeps that view when the program returns 0 and drops it otherwise.      *)
(* Each transaction locks the account it writes, so one at a time is run.  *)
(***************************************************************************)
EXTENDS PrepareInto, HawkVerify

CONSTANTS Accounts, LenOf(_), BlobLen, NoAccount, OddAccounts, BakedKey,
          Instructions, NoKey, NoAnswer, NoTx, ZeroBlob

VARIABLES accounts,  \* committed account data: the fields of a prepared key
          tx,        \* the registration under way
          answer     \* the last answer, until the client collects it

chain == <<accounts, tx, answer>>
allVars == <<vars, chain>>

ASSUME BlobsAssumption ==
  /\ ZeroBlob \in Blob /\ InitBlobs = {ZeroBlob}
  /\ \A u \in Slots : /\ ZeroBlob.pvbound[u] = 0
                      /\ ZeroBlob.fq01.re[u] = 0 /\ ZeroBlob.fq01.im[u] = 0

\* hpub names its key: SHAKE256 is taken to be free of collisions, and of a key
\* that hashes to zeroes.
ASSUME NamesAssumption ==
  /\ NoKey \notin Wire
  /\ \A k, l \in Wire : Hpub(k) = Hpub(l) => k = l
  /\ \A k \in Wire : Hpub(k) # ZeroBlob.hpub

ASSUME LengthsAssumption == BlobLen \in Nat /\ \A a \in Accounts : LenOf(a) \in Nat

\* The blob of the fixed signer was made by prepare_into.
ASSUME BakedAssumption == BakedKey \in Wire /\ Usable(BakedKey)

ASSUME SignaturesAssumption == \A ix \in Instructions : DecodesTo(ix.msg, ix.sig, Hashes)

ASSUME InstructionsAssumption ==
  /\ NoAccount \notin Accounts /\ OddAccounts \cap (Accounts \cup {NoAccount}) = {}
  /\ \A ix \in Instructions :
       ix.key \in Wire /\ ix.acct \in Accounts \cup OddAccounts \cup {NoAccount}

LoadBlob(b) ==
  /\ pvbound' = b.pvbound /\ fq01' = b.fq01 /\ hpub' = b.hpub
  /\ q00n' = b.q00n /\ q00inv' = b.q00inv /\ q01n' = b.q01n

-----------------------------------------------------------------------------

\* Accounts are created zeroed.
ProgInit ==
  /\ accounts = [a \in Accounts |-> ZeroBlob]
  /\ tx = NoTx /\ answer = NoAnswer
  /\ Init /\ aligned = TRUE /\ pub = BakedKey

\* The entrypoint's checks, in its order; "run" when it goes on.
Parse(ix) ==
  CASE ix.acct \in OddAccounts -> "invalid"
    [] ix.mode \notin {"raw", "baked", "register", "stored"} -> "invalid"
    [] ix.mode \in {"register", "stored"} /\ ix.acct = NoAccount -> "invalid"
    [] ix.mode = "register" /\ LenOf(ix.acct) < BlobLen -> "too_small"
    [] ix.mode = "stored" /\ LenOf(ix.acct) # BlobLen -> "invalid"
    [] OTHER -> IF ix.full THEN "run" ELSE "invalid"

VerdictOf(ix) ==
  CASE ix.mode = "raw" -> Verify(ix.key, ix.msg, ix.sig)
    [] ix.mode = "baked" -> VerifyPrepared(PreparedBlob(BakedKey), ix.msg, ix.sig)
    [] OTHER -> VerifyPrepared(accounts[ix.acct], ix.msg, ix.sig)

ReturnCode(verdict) == CASE verdict = "accept" -> "ok"
                         [] verdict = "reject" -> "verify_failed"
                         [] OTHER -> "panic"

Reply(ix, code) == answer' = [ix |-> ix, code |-> code]

Ready == tx = NoTx /\ answer = NoAnswer

\* Instructions that touch no account data are answered at once.
Entrypoint(ix) ==
  /\ Ready
  /\ IF Parse(ix) # "run" THEN Reply(ix, Parse(ix))
     ELSE ix.mode # "register" /\ Reply(ix, ReturnCode(VerdictOf(ix)))
  /\ UNCHANGED <<accounts, tx, vars>>

\* A registration starts on a view of the account's data.
Register(ix) ==
  /\ Ready
  /\ ix.mode = "register" /\ Parse(ix) = "run"
  /\ tx' = ix
  /\ LoadBlob(accounts[ix.acct])
  /\ pc' = "idle"
  /\ UNCHANGED <<aligned, pub, lane, i, acc, accounts, answer>>

Run ==
  /\ tx # NoTx
  /\ IF pc = "idle" THEN Call(tx.key) ELSE Step
  /\ UNCHANGED chain

\* The working memory of a transaction ends with it.
Forget ==
  /\ LoadBlob(ZeroBlob)
  /\ pc' = "idle" /\ pub' = BakedKey /\ lane' = 1 /\ i' = 0 /\ acc' = 1
  /\ UNCHANGED aligned

\* What the entrypoint returns for a finished prepare_into.  The mutants ignore
\* its result, or look only whether the key decodes.
RegisterCodeIgnored == "ok"

RegisterCodeIfDecodes == IF DecodePublic(tx.key).ok THEN "ok" ELSE "prepare_failed"

RegisterCode == IF pc = "ok" THEN "ok" ELSE "prepare_failed"

Return ==
  /\ tx # NoTx /\ pc \in {"ok", "err"}
  /\ accounts' = IF RegisterCode = "ok" THEN [accounts EXCEPT ![tx.acct] = BlobNow]
                                        ELSE accounts
  /\ Reply(tx, RegisterCode)
  /\ tx' = NoTx
  /\ Forget

\* The compute budget can end anywhere inside prepare_into.
Exhaust ==
  /\ tx # NoTx /\ pc \in Running
  /\ Reply(tx, "exhausted")
  /\ tx' = NoTx
  /\ Forget
  /\ UNCHANGED accounts

Collect ==
  /\ answer # NoAnswer
  /\ answer' = NoAnswer
  /\ UNCHANGED <<accounts, tx, vars>>

ProgNext ==
  \/ \E ix \in Instructions : Entrypoint(ix) \/ Register(ix)
  \/ Run \/ Return \/ Exhaust \/ Collect

ProgSpec == ProgInit /\ [][ProgNext]_allVars

-----------------------------------------------------------------------------
(***************************************************************************)
(* Properties.                                                             *)
(***************************************************************************)

HoldsKey(b, k) == Usable(k) /\ b = PreparedBlob(k)

\* However registrations failed, ran out of budget or followed each other,
\* an account is untouched or holds the whole prepared form of one usable key.
AccountsAreWhole ==
  \A a \in Accounts : accounts[a] = ZeroBlob \/ \E k \in Wire : HoldsKey(accounts[a], k)

\* A key under which some signature verifies is one that can be registered:
\* what verify tests per signature, prepare_into tests once.
VerifyingKeysRegister ==
  answer # NoAnswer => (answer.ix.mode = "raw" /\ answer.code = "ok" => Usable(answer.ix.key))

\* The registry: the key of an account is the one its hpub names.
KeyIn(b) == IF b.hpub = ZeroBlob.hpub THEN NoKey ELSE CHOOSE k \in Wire : Hpub(k) = b.hpub

Registry == INSTANCE KeyRegistry WITH key <- [a \in Accounts |-> KeyIn(accounts[a])]

\* Every answer, from raw, baked or stored keys, is the one verify gives for
\* the wire key, and a registration is atomic.
ImplementsRegistry == Registry!RegSpec

\* How a registration may end: with its account rewritten and no other,
Registered ==
  /\ answer'.code = "ok"
  /\ HoldsKey(accounts'[tx.acct], tx.key)
  /\ \A a \in Accounts \ {tx.acct} : accounts'[a] = accounts[a]

\* or with every account, the keys registered earlier included, as it was.
Kept ==
  /\ answer'.code \in {"prepare_failed", "exhausted"}
  /\ answer'.code = "prepare_failed" => ~Usable(tx.key)
  /\ accounts' = accounts

\* A registration is all or nothing, and its answer tells which: "ok" comes with
\* the whole key of this instruction in its account, any other answer with no
\* byte of any account changed, although prepare_into may have been stopped or
\* have failed after most of its writes.  Only an unusable key is refused, so
\* one that was exhausted or followed failures can be tried again.
AllOrNothing ==
  [][IF tx # NoTx /\ tx' = NoTx THEN Registered \/ Kept
                                ELSE accounts' = accounts]_allVars

\* What the README's two snippets promise together: an account that was
\* registered can be read back by every later verification.
RegisteredReadsBack ==
  answer # NoAnswer /\ answer.ix.mode = "stored" /\ answer.ix.full =>
    (answer.ix.acct \in Accounts /\ accounts[answer.ix.acct] # ZeroBlob
       => answer.code # "invalid")
=============================================================================
