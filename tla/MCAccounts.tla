----------------------------- MODULE MCAccounts -----------------------------
(* TLC instance of Accounts: a digest is told from its password. *)
EXTENDS Accounts, TLC

MCSha256 == [p \in Passwords |-> <<"sha256", p>>]

(* Threads and addresses are interchangeable. *)
Symmetry == Permutations(Threads) \cup Permutations(Emails)
=============================================================================
