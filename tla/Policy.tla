---------------------------------- MODULE Policy ----------------------------------
(* Who may do what: the policy engine that the session list and the audit   *)
(* log ask.                                                                 *)
CONSTANT NoId  \* undefined

Roles == {"ADMIN", "MANAGER", "USER"}

OwnActions == {"view_profile", "update_profile", "delete_profile",
               "view_sessions", "manage_sessions", "revoke_session"}

\* can, of a user with an id and a role; the owner of the resource may be left out.
Can(user, action, owner) ==
  \/ user.role = "ADMIN"
  \/ action \in OwnActions /\ owner # NoId /\ user.id = owner
  \/ action = "view_audit_logs" /\ user.role = "MANAGER"

\* What authMiddleware leaves in req.user is the payload of the access token:
\* it has a userId, and no id.
Payload(account, role) == [userId |-> account, role |-> role, id |-> NoId]
=============================================================================
