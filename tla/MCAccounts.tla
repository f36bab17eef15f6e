----------------------------- MODULE MCAccounts -----------------------------
(***************************************************************************)
(* Small instances of Accounts for TLC.                                    *)
(***************************************************************************)
EXTENDS Accounts, TLC

Symmetry ==
  Permutations(Requests) \cup Permutations(Emails)
    \cup Permutations(UserIds) \cup Permutations(Tokens)
=============================================================================
