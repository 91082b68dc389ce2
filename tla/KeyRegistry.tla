---------------------------- MODULE KeyRegistry ----------------------------
(***************************************************************************)
(* What the on-chain program promises: each account holds at most one      *)
(* registered key, and every signature is judged as verify would judge it  *)
(* under the wire key, however the key was prepared and stored.            *)
(***************************************************************************)
EXTENDS Integers

CONSTANTS Verify(_, _, _),  \* key, message, signature -> "accept" or not
          Usable(_),     \* whether a key can be prepared
          Accounts,      \* the accounts
          LenOf(_),      \* size of an account's data
          BlobLen,       \* HAWK_512_PREPARED_PUBKEY_LEN
          NoAccount,     \* an instruction without an account,
          OddAccounts,   \* or with accounts the program cannot take
          BakedKey,      \* the key compiled into the program
          Instructions,  \* [mode, acct, full, key, msg, sig]
          NoKey, NoAnswer

VARIABLES key,     \* the key registered in each account
          answer   \* the answer the client has not collected yet

regVars == <<key, answer>>

WellFormed(ix) ==
  /\ ix.full
  /\ CASE ix.mode \in {"raw", "baked"} -> ix.acct \in Accounts \cup {NoAccount}
       [] ix.mode = "register" -> ix.acct \in Accounts /\ LenOf(ix.acct) >= BlobLen
       [] ix.mode = "stored" -> ix.acct \in Accounts /\ LenOf(ix.acct) = BlobLen
       [] OTHER -> FALSE

\* The key an instruction asks to verify under.
KeyFor(ix) == CASE ix.mode = "raw" -> ix.key
                [] ix.mode = "baked" -> BakedKey
                [] OTHER -> key[ix.acct]

Answer(ix, code) == answer' = [ix |-> ix, code |-> code]

RegInit == key = [a \in Accounts |-> NoKey] /\ answer = NoAnswer

Judge(ix) ==
  /\ WellFormed(ix) /\ ix.mode # "register"
  /\ \E code \in {"ok", "verify_failed"} :
       /\ Answer(ix, code)
       /\ code = "ok" <=> /\ KeyFor(ix) # NoKey
                          /\ Verify(KeyFor(ix), ix.msg, ix.sig) = "accept"
  /\ UNCHANGED key

\* Registration replaces the key at once, and only by a usable one.
Register(ix) ==
  /\ WellFormed(ix) /\ ix.mode = "register"
  /\ IF Usable(ix.key)
     THEN key' = [key EXCEPT ![ix.acct] = ix.key] /\ Answer(ix, "ok")
     ELSE Answer(ix, "prepare_failed") /\ UNCHANGED key

\* A transaction may run out of compute units.
GiveUp(ix) == ix.mode = "register" /\ Answer(ix, "exhausted") /\ UNCHANGED key

Refuse(ix) ==
  /\ ~WellFormed(ix)
  /\ \E code \in {"invalid", "too_small"} : Answer(ix, code)
  /\ UNCHANGED key

Collect == answer # NoAnswer /\ answer' = NoAnswer /\ UNCHANGED key

RegNext ==
  \/ /\ answer = NoAnswer
     /\ \E ix \in Instructions : Judge(ix) \/ Register(ix) \/ GiveUp(ix) \/ Refuse(ix)
  \/ Collect

RegSpec == RegInit /\ [][RegNext]_regVars
=============================================================================
