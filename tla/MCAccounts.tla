----------------------------- MODULE MCAccounts -----------------------------
(* Finite instances of Accounts: requests that overlap a deletion, and a      *)
(* clock that outruns a token.                                                *)
EXTENDS Accounts, TLC

CONSTANTS g1, g2

MCRequests  == {g1, g2}
MCEmails    == {"a@x", "b@x"}
MCPasswords == {"p"}
MCHashes    == {"hash of p", "hash of nothing"}
MCSha1      == [p \in {"p", ""} |-> IF p = "p" THEN "hash of p" ELSE "hash of nothing"]
Clones      == Permutations(Requests)
=============================================================================
