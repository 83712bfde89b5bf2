------------------------------ MODULE MCAdmission ------------------------------
(***************************************************************************)
(* Admission on a small instance; connections are interchangeable.         *)
(***************************************************************************)
EXTENDS Admission, TLC

Interchangeable == Permutations(Requests)
=============================================================================
