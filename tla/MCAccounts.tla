----------------------------- MODULE MCAccounts -----------------------------
(* Small instances of Accounts.                                            *)
EXTENDS Accounts, TLC

CONSTANTS alice, bob, carol

MCSymmetry == Permutations(Usernames)

=============================================================================
