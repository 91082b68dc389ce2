----------------------------- MODULE MCProgram -----------------------------
(***************************************************************************)
(* Program with the keys of MCKeys and accounts of three sizes.            *)
(***************************************************************************)
EXTENDS Program, MCKeys

MCInitBlobs == {MCZeroBlob}

\* Accounts that are one byte short, exact and one byte long.
MCAccounts == {"short", "exact", "long"}
MCLenOf(a) == CASE a = "short" -> 9 [] a = "exact" -> 10 [] OTHER -> 11
MCOddAccounts == {"duplicate", "many"}
MCNoTx == [mode |-> "none"]
MCNoAnswer == [code |-> "none"]

Ix(mode, acct, full, k, msg, sig) ==
  [mode |-> mode, acct |-> acct, full |-> full, key |-> k, msg |-> msg, sig |-> sig]

AnySig == CHOOSE s \in MCSignatures : s.ok

MCInstructions ==
  {Ix("raw", "none", TRUE, k, m, s) : k \in MCWire, m \in MCMessages, s \in MCSignatures}
  \cup {Ix("baked", "none", TRUE, "unit", m, s) : m \in MCMessages, s \in MCSignatures}
  \cup {Ix("stored", a, TRUE, "unit", m, s) : a \in MCAccounts, m \in MCMessages, s \in MCSignatures}
  \cup {Ix("register", a, TRUE, k, 1, AnySig) : a \in MCAccounts, k \in MCWire}
  \cup {Ix(mode, a, f, "unit", 1, AnySig) :
          mode \in {"raw", "baked", "register", "stored", "unknown"},
          a \in MCAccounts \cup MCOddAccounts \cup {"none"}, f \in BOOLEAN}
=============================================================================
