------------------------------ MODULE MCSessions ------------------------------
(***************************************************************************)
(* Sessions on a small instance.  Users, devices and requests are model    *)
(* values that no definition tells apart.                                  *)
(***************************************************************************)
EXTENDS Sessions, TLC

Interchangeable == Permutations(Users) \cup Permutations(Devices)
                   \cup Permutations(Requests)
=============================================================================
