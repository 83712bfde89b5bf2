-------------------------------- MODULE MCOtp --------------------------------
(* Instance of Otp: the sends, the verifications and the processes are      *)
(* interchangeable.                                                         *)
EXTENDS Otp, TLC

Symmetry == Permutations(Sends) \cup Permutations(Verifies) \cup Permutations(Processes)
=============================================================================
