------------------------------ MODULE MCAccounts ------------------------------
(***************************************************************************)
(* Accounts for TLC: sign-ins are interchangeable, and so are              *)
(* confirmations.                                                          *)
(***************************************************************************)
EXTENDS Accounts, TLC

Interchangeable == Permutations(Logins) \cup Permutations(Confirms)
=============================================================================
