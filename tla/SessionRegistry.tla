--------------------------- MODULE SessionRegistry ---------------------------
(***************************************************************************)
(* What the session subsystem promises a user: a registry of sessions,     *)
(* each opened once for one user and one device.  A login that sees all of *)
(* a user's open sessions opens one only when there is none, and a closed  *)
(* session stays closed; where a decision was taken on an old reading the  *)
(* registry says so (crowded, forked).  Tokens, rotation, the cache and    *)
(* its index do not appear: renewing a session is a stuttering step.       *)
(***************************************************************************)
CONSTANTS Users, Devices, Ids

VARIABLES
  open,     \* the open sessions
  known,    \* every session ever opened
  crowded,  \* ids of sessions opened beside one that their login had not seen
  forked    \* ids of sessions renewed by a token that had ended already

vars == <<open, known, crowded, forked>>

Session == [id : Ids, user : Users, dev : Devices]

OpenOf(u) == {s \in open : s.user = u}

Init == open = {} /\ known = {} /\ crowded = {} /\ forked = {}

\* A login enters a new session.
Enter(s) ==
  /\ \A k \in known : k.id # s.id
  /\ open' = open \cup {s}
  /\ known' = known \cup {s}
  /\ forked' = forked

\* The login of a user who has no session.
Open(s) == Enter(s) /\ OpenOf(s.user) = {} /\ crowded' = crowded

\* A login that overlooked a session of the user.
OpenBeside(s) == Enter(s) /\ OpenOf(s.user) # {} /\ crowded' = crowded \cup {s.id}

\* Logout, a forced login, a password change, a detected theft or hijack.
Close(u) ==
  /\ OpenOf(u) # {}
  /\ \E S \in SUBSET OpenOf(u) : S # {} /\ open' = open \ S
  /\ UNCHANGED <<known, crowded, forked>>

\* A renewal that was decided before its token ended.
Revive(s) ==
  /\ s \in known
  /\ open' = open \cup {s}
  /\ forked' = forked \cup {s.id}
  /\ UNCHANGED <<known, crowded>>

Next ==
  \/ \E s \in Session : Open(s) \/ OpenBeside(s) \/ Revive(s)
  \/ \E u \in Users : Close(u)

Spec == Init /\ [][Next]_vars
=============================================================================
