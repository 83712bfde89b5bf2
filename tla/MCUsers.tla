---------------------------------- MODULE MCUsers ----------------------------------
(* Three names, two of them one name in two spellings, and three addresses *)
(* likewise; the founder has the third of each.  Every two names share some *)
(* bits at most.                                                           *)
EXTENDS Users, TLC

CONSTANTS r1, r2, p1, p2

MCNames == {"ann", "Ann", "bob"}
MCAddresses == {"a@x", "A@x", "b@x"}
MCLower == [s \in MCNames \cup MCAddresses |->
              CASE s = "Ann" -> "ann" [] s = "A@x" -> "a@x" [] OTHER -> s]
MCDoes == [r \in Requests |-> Ops]
MCfnv1a == [n \in MCNames |-> CASE n = "ann" -> 0 [] n = "Ann" -> 2 [] OTHER -> 4]
MCdjb2 == [n \in MCNames |-> IF n = "bob" THEN 3 ELSE 1]

Alike == Permutations({r1, r2}) \cup Permutations({p1, p2})
=============================================================================
