------------------------------- MODULE Sessions -------------------------------
(***************************************************************************)
(* The session subsystem of the NexVault API: the refresh_tokens table in  *)
(* Postgres, the write-through session cache and the per-user token index  *)
(* in Redis, the access-token blocklist, and the HTTP requests that read   *)
(* and change all four.                                                    *)
(*                                                                         *)
(* A request is a process.  Every statement the code awaits is one step,   *)
(* so any two requests interleave at any await.  A Redis pipeline and a    *)
(* Postgres transaction are one step each.  readQuery reads a replica that *)
(* may lag behind the primary; query and transactions use the primary.     *)
(*                                                                         *)
(* A request inserts at most one row of refresh_tokens and signs at most   *)
(* one access token, so the request that made them names the row and the   *)
(* access token; the session a login opens carries that login's name too.  *)
(***************************************************************************)
EXTENDS Naturals, FiniteSets

CONSTANTS
  Users,        \* accounts, all verified, with their right password at hand
  Devices,      \* device fingerprint hashes
  Requests,     \* HTTP requests; each is served once
  None,         \* no user, device, token or request
  Ops,          \* the operations the clients of this instance use
  MaxInFlight,  \* bound on the requests served at the same time
  Faults        \* what may go wrong: "abort", "redis", and "lag": reads go to
                \* a replica (DATABASE_READ_URL is set)

AllOps == {"login", "refresh", "logout", "status", "password", "others"}

ASSUME NoneAssumption == None \notin Users \cup Devices \cup Requests
ASSUME OpsAssumption == Ops \subseteq AllOps
ASSUME BoundAssumption == MaxInFlight \in Nat
ASSUME FaultsAssumption == Faults \subseteq {"abort", "redis", "lag"}

VARIABLES
  rows,      \* refresh_tokens: one row per token id
  replica,   \* what of refresh_tokens has reached the replica
  cache,     \* Redis session:<token id>: a cached session, "revoked" or nothing
  userSet,   \* Redis user:sessions:<user>: the token ids cached for the user
  blocked,   \* Redis blocklist:<signature>: access tokens blocklisted
  req,       \* what each request is doing, and what it answered
  past       \* history: what was decided on an old reading, or cut off

vars == <<rows, replica, cache, userSet, blocked, req, past>>
redisVars == <<cache, userSet, blocked>>

(***************************************************************************)
(* Rows and request records.                                               *)
(***************************************************************************)
Reasons == {"none", "CONCURRENT_LOGIN", "REVOKED_BY_USER"}

\* next is replaced_by; grace says that revoked_at of a replaced row lies
\* less than 30 seconds back.
Row == [status : {"absent", "live", "revoked"}, user : Users \cup {None},
        dev : Devices \cup {None}, sess : Requests \cup {None},
        reason : Reasons, next : Requests \cup {None}, grace : BOOLEAN]

NoRow == [status |-> "absent", user |-> None, dev |-> None, sess |-> None,
          reason |-> "none", next |-> None, grace |-> FALSE]

Steps == {"idle", "revokeSame", "insert", "rotate", "cache", "grace",
          "revokeAll", "members", "purge", "blocklist", "revokeOthers",
          "revokeOne", "owner", "purgeOne", "lookup", "fallback",
          "recache", "negative", "verdict", "done"}

Outcomes == {"none", "granted", "sessionExists", "sessionsRevoked",
             "concurrent", "security", "hijack", "refused", "served", "error"}

\* tok is the token a request works on, jwt the access token it presented,
\* arg a second token id (the replacement it read, or its refresh cookie's),
\* todo the ids it has still to work through, seen the live tokens a login read,
\* why the reason it revokes with, out its answer.
Request == [pc : Steps, op : Ops \cup {"none"}, user : Users \cup {None},
            dev : Devices \cup {None}, tok : Requests \cup {None},
            jwt : Requests \cup {None}, arg : Requests \cup {None},
            todo : SUBSET Requests, seen : SUBSET Requests, why : Reasons,
            out : Outcomes]

Idle == [pc |-> "idle", op |-> "none", user |-> None, dev |-> None,
         tok |-> None, jwt |-> None, arg |-> None, todo |-> {}, seen |-> {},
         why |-> "none", out |-> "none"]

\* missed: tokens a look-up did not find; forked: sessions of which a token was
\* rotated that was no longer live; crowded: sessions opened beside a live token
\* that their login had not seen; lost: tokens whose key the invalidations under
\* way pass by.
Past == [missed : SUBSET Requests, forked : SUBSET Requests,
         crowded : SUBSET Requests, lost : SUBSET Requests]

Nothing == [missed |-> {}, forked |-> {}, crowded |-> {}, lost |-> {}]

(* One type invariant for the seven variables. *)
TypeOK ==
  /\ rows \in [Requests -> Row]
  /\ replica \in [Requests -> Row]
  /\ cache \in [Requests -> {"none", "active", "revoked"}]
  /\ userSet \in [Users -> SUBSET Requests]
  /\ blocked \in SUBSET Requests
  /\ req \in [Requests -> Request]
  /\ past \in Past

Init ==
  /\ rows = [t \in Requests |-> NoRow]
  /\ replica = [t \in Requests |-> NoRow]
  /\ cache = [t \in Requests |-> "none"]
  /\ userSet = [u \in Users |-> {}]
  /\ blocked = {}
  /\ req = [r \in Requests |-> Idle]
  /\ past = Nothing

(***************************************************************************)
(* History.                                                                *)
(***************************************************************************)
Stored == {t \in Requests : rows[t].status # "absent"}

\* A login on the same device ended t's session and opened another.
Superseded(t) ==
  /\ rows[t].reason = "REVOKED_BY_USER"
  /\ \E s \in Stored : /\ rows[s].sess = s /\ s # rows[t].sess
                       /\ rows[s].user = rows[t].user
                       /\ rows[s].dev = rows[t].dev

\* Revoked tokens that the cache still calls active and that were neither
\* rotated nor superseded.
Lingering ==
  {t \in Requests : /\ cache[t] = "active" /\ rows[t].status = "revoked"
                    /\ rows[t].next = None /\ ~Superseded(t)}

\* Those that the steps ahead of a request remove or supersede.
Clears(q) ==
  {t \in Requests :
     \/ /\ q.pc \in {"revokeSame", "insert"}
        /\ rows[t].user = q.user /\ rows[t].dev = q.dev
        /\ rows[t].reason = "REVOKED_BY_USER"
     \/ /\ q.pc = "members"
        /\ rows[t].user = q.user /\ (q.op = "others" => t # q.arg)
     \/ q.pc = "purge" /\ t \in q.todo
     \/ q.pc \in {"owner", "purgeOne"} /\ t = q.tok}

Loses(S) == past' = [past EXCEPT !.lost = @ \cup S]

(***************************************************************************)
(* Shared parts of the handlers.                                           *)
(***************************************************************************)
InFlight == {r \in Requests : req[r].pc \notin {"idle", "done"}}

\* A client may send request r now.
Arrives(r, op) ==
  /\ op \in Ops
  /\ req[r].pc = "idle"
  /\ Cardinality(InFlight) < MaxInFlight

Enter(r, record) == req' = [req EXCEPT ![r] = record]

\* How a request record changes: where it is, what it revokes with and answers
\* then, what it has to work through, which token it works on.
Started(op, u, d, t) == [Idle EXCEPT !.op = op, !.user = u, !.dev = d, !.tok = t]
At(q, p) == [q EXCEPT !.pc = p]
RevokingAll(q, why, out) == [q EXCEPT !.pc = "revokeAll", !.why = why, !.out = out]
Answering(q, p, out) == [q EXCEPT !.pc = p, !.out = out]
Through(q, p, S) == [q EXCEPT !.pc = p, !.todo = S]
Holding(q, p, t) == [q EXCEPT !.pc = p, !.tok = t]
Second(q, p, t) == [q EXCEPT !.pc = p, !.arg = t]
Presenting(q, g) == [q EXCEPT !.jwt = g]
Knowing(q, S) == [q EXCEPT !.seen = S]

Goto(r, p) == Enter(r, At(req[r], p))

\* A finished request keeps its answer, and the token if one was granted.
Answered(out) == Answering(Idle, "done", out)
Answer(r, out) == Enter(r, Answered(out))

Grant(r, t) == Enter(r, Holding(Answered("granted"), "done", t))

Granted == {g \in Requests : req[g].pc = "done" /\ req[g].out = "granted"}

\* The refresh tokens that clients hold: those of the answers they got.
Held == {req[g].tok : g \in Granted}

Live(u) == {t \in Requests : rows[t].status = "live" /\ rows[t].user = u}

\* The row as readQuery returns it.
Read(t) == IF "lag" \in Faults THEN replica[t] ELSE rows[t]

\* The live tokens of u that readQuery shows, and those of and not of device d.
Known(u) == {t \in Requests : Read(t).status = "live" /\ Read(t).user = u}

OnOtherDevices_Ignored(u, d) == {}
OnOtherDevices(u, d) == {t \in Known(u) : Read(t).dev # d}

OnDevice(u, d) == {t \in Known(u) : Read(t).dev = d}

OtherSessions_AnyUser(u, t) == {x \in Requests : rows[x].sess # rows[t].sess}
\* The rows of u that belong to another session than token t.
OtherSessions(u, t) ==
  {x \in Requests : rows[x].user = u /\ rows[x].sess # rows[t].sess}

SameDevice_Unchecked(row, d) == TRUE
SameDevice(row, d) == row.dev = d

NewRow(u, d, s) == [NoRow EXCEPT !.status = "live", !.user = u, !.dev = d,
                                 !.sess = s]

Replaced_StillLive(row, n) == [row EXCEPT !.next = n, !.grace = TRUE]
\* UPDATE refresh_tokens SET is_revoked = TRUE, replaced_by = n, revoked_at = now
Replaced(row, n) ==
  [row EXCEPT !.status = "revoked", !.next = n, !.grace = TRUE]

\* 30 seconds after revoked_at
GraceOver(row) == [row EXCEPT !.grace = FALSE]

\* UPDATE refresh_tokens SET is_revoked = TRUE, revoked_at = now, reason = why
Revoked(row, why) ==
  [row EXCEPT !.status = "revoked", !.reason = why,
              !.grace = row.next # None]

RevokeWhere(S, why) ==
  rows' = [t \in Requests |->
             IF t \in S /\ rows[t].status # "absent"
             THEN Revoked(rows[t], why) ELSE rows[t]]

Forget_Nothing(S) == cache' = cache
Forget_Tombstone(S) ==
  cache' = [t \in Requests |-> IF t \in S THEN "revoked" ELSE cache[t]]
\* DEL session:<t> for the tokens t of S
Forget(S) ==
  cache' = [t \in Requests |-> IF t \in S THEN "none" ELSE cache[t]]

\* cacheSession: SET session:<t>, SADD user:sessions:<u>, EXPIRE, one pipeline
CacheSession(t) ==
  /\ cache' = [cache EXCEPT ![t] = "active"]
  /\ userSet' = [userSet EXCEPT ![rows[t].user] = @ \cup {t}]
  /\ Loses(IF rows[t].status = "live" THEN {} ELSE {t})

(***************************************************************************)
(* POST /login, after the password check.                                  *)
(***************************************************************************)
Login(r) ==
  /\ Arrives(r, "login")
  /\ \E u \in Users, d \in Devices, force \in BOOLEAN :
       LET others == OnOtherDevices(u, d)
           same   == {s \in Requests :
                        \E t \in OnDevice(u, d) : Read(t).sess = s}
           login  == Knowing(Started("login", u, d, None), Known(u))
       IN \/ /\ others # {} /\ ~force
             /\ Answer(r, "sessionExists")
          \/ /\ others # {} /\ force
             /\ Enter(r, RevokingAll(Started("login", u, d, None),
                                     "CONCURRENT_LOGIN", "sessionsRevoked"))
          \/ /\ others = {}
             /\ Enter(r, Through(login,
                                 IF same = {} THEN "insert" ELSE "revokeSame",
                                 same))
  /\ UNCHANGED <<rows, replica, redisVars, past>>

\* One UPDATE per session the user already has on this device, Postgres only.
RevokeSame(r) ==
  /\ req[r].pc = "revokeSame"
  /\ \E s \in req[r].todo :
       /\ RevokeWhere({t \in Requests : /\ rows[t].sess = s
                                        /\ rows[t].user = req[r].user},
                      "REVOKED_BY_USER")
       /\ Enter(r, Through(req[r],
                           IF req[r].todo = {s} THEN "insert" ELSE "revokeSame",
                           req[r].todo \ {s}))
  /\ UNCHANGED <<replica, redisVars, past>>

\* createRefreshToken, for a session of its own.
Insert(r) ==
  /\ req[r].pc = "insert"
  /\ rows' = [rows EXCEPT ![r] = NewRow(req[r].user, req[r].dev, r)]
  /\ past' = IF Live(req[r].user) \subseteq req[r].seen THEN past
             ELSE [past EXCEPT !.crowded = @ \cup {r}]
  /\ Enter(r, Knowing(Holding(req[r], "cache", r), {}))
  /\ UNCHANGED <<replica, redisVars>>

\* Write-through of the new row; the tokens are signed and sent right after.
Cache(r) ==
  /\ req[r].pc = "cache"
  /\ CacheSession(req[r].tok)
  /\ Grant(r, req[r].tok)
  /\ UNCHANGED <<rows, replica, blocked>>

(***************************************************************************)
(* POST /refresh with a held refresh token t, from device d.               *)
(***************************************************************************)
Refresh(r) ==
  /\ Arrives(r, "refresh")
  /\ \E t \in Held, d \in Devices :
       LET row     == Read(t)
           absent  == row.status = "absent"
           ended   == row.status = "revoked" /\ row.reason = "CONCURRENT_LOGIN"
           used    == row.status = "revoked" \/ row.next # None
           refresh == Started("refresh", row.user, d, t)
       IN \/ /\ absent
             /\ Answer(r, "refused")
          \/ /\ ended
             /\ Answer(r, "concurrent")
          \/ /\ ~ended /\ used /\ row.grace
             /\ Enter(r, Second(refresh, "grace", row.next))
          \/ /\ ~ended /\ used /\ ~row.grace
             /\ Enter(r, RevokingAll(refresh, "none", "security"))
          \/ /\ ~absent /\ ~used /\ ~SameDevice(row, d)
             /\ Enter(r, RevokingAll(refresh, "none", "hijack"))
          \/ /\ ~absent /\ ~used /\ SameDevice(row, d)
             /\ Enter(r, At(refresh, "rotate"))
  /\ UNCHANGED <<rows, replica, redisVars, past>>

\* Within the grace period: hand out the replacement if it is still live.
Grace(r) ==
  /\ req[r].pc = "grace"
  /\ \/ /\ Read(req[r].arg).status = "live"
        /\ Grant(r, req[r].arg)
     \/ /\ Read(req[r].arg).status # "live"
        /\ Enter(r, RevokingAll(req[r], "none", "security"))
  /\ UNCHANGED <<rows, replica, redisVars, past>>

\* replaceRefreshToken: one transaction, which does not look again whether the
\* old row is still live.
Rotate(r) ==
  LET old == req[r].tok
  IN /\ req[r].pc = "rotate"
     /\ rows' = [rows EXCEPT
                   ![r] = NewRow(req[r].user, req[r].dev, rows[old].sess),
                   ![old] = Replaced(@, r)]
     /\ past' = IF rows[old].status = "live" THEN past
                ELSE [past EXCEPT !.forked = @ \cup {rows[old].sess}]
     /\ Enter(r, Holding(req[r], "cache", r))
     /\ UNCHANGED <<replica, redisVars>>

(***************************************************************************)
(* invalidateAllUserSessions and invalidateOtherSessions.                  *)
(***************************************************************************)
\* What follows the invalidation: only changePassword has one step more.
Finish(r) ==
  \/ req[r].op = "password" /\ Goto(r, "blocklist")
  \/ req[r].op # "password" /\ Answer(r, req[r].out)

RevokeAll(r) ==
  /\ req[r].pc = "revokeAll"
  /\ RevokeWhere({t \in Requests : rows[t].user = req[r].user}, req[r].why)
  /\ Goto(r, "members")
  /\ UNCHANGED <<replica, redisVars, past>>

\* One transaction; the session to keep is that of the refresh cookie.  The policy
\* (see Policy) lets the requests of an ADMIN through, and no others.
RevokeOthers(r) ==
  /\ req[r].pc = "revokeOthers"
  /\ RevokeWhere(OtherSessions(req[r].user, req[r].arg), "REVOKED_BY_USER")
  /\ Goto(r, "members")
  /\ UNCHANGED <<replica, redisVars, past>>

\* SMEMBERS user:sessions:<user>
Members(r) ==
  LET ids == userSet[req[r].user]
  IN /\ req[r].pc = "members"
     /\ \/ ids = {} /\ Finish(r)
        \/ /\ ids # {}
           /\ Enter(r, Through(req[r], "purge",
                               IF req[r].op = "others"
                               THEN ids \ {req[r].arg} ELSE ids))
     /\ UNCHANGED <<rows, replica, redisVars, past>>

\* DEL of the keys read by SMEMBERS, then of the whole index (or SREM of each).
Purge(r) ==
  /\ req[r].pc = "purge"
  /\ Forget(req[r].todo)
  /\ userSet' = [userSet EXCEPT ![req[r].user] =
                   IF req[r].op = "others" THEN @ \ req[r].todo ELSE {}]
  /\ Loses(IF req[r].op = "others" THEN {} ELSE userSet[req[r].user] \ req[r].todo)
  /\ Finish(r)
  /\ UNCHANGED <<rows, replica, blocked>>

\* The access token the request came with, if any.
Blocklist(r) ==
  /\ req[r].pc = "blocklist"
  /\ blocked' = blocked \cup ({req[r].jwt} \ {None})
  /\ Answer(r, req[r].out)
  /\ UNCHANGED <<rows, replica, cache, userSet, past>>

(***************************************************************************)
(* invalidateSession: POST /logout, and the middleware's two defences.     *)
(***************************************************************************)
Logout(r) ==
  /\ Arrives(r, "logout")
  /\ \E t \in Held :
       /\ RevokeWhere({t}, "none")
       /\ Enter(r, Answering(Started("logout", rows[t].user, None, t),
                             "owner", "served"))
  /\ UNCHANGED <<replica, redisVars, past>>

RevokeOne(r) ==
  /\ req[r].pc = "revokeOne"
  /\ RevokeWhere({req[r].tok}, "none")
  /\ Goto(r, "owner")
  /\ UNCHANGED <<replica, redisVars, past>>

\* findRefreshTokenById: the index to clean is that of the row, if it is found.
Owner(r) ==
  /\ req[r].pc = "owner"
  /\ Enter(r, Through(req[r], "purgeOne",
                      IF Read(req[r].tok).status = "absent" THEN {}
                      ELSE {req[r].tok}))
  /\ UNCHANGED <<rows, replica, redisVars, past>>

PurgeOne(r) ==
  /\ req[r].pc = "purgeOne"
  /\ Forget({req[r].tok})
  /\ userSet' = [userSet EXCEPT ![req[r].user] = @ \ req[r].todo]
  /\ Answer(r, req[r].out)
  /\ UNCHANGED <<rows, replica, blocked, past>>

(***************************************************************************)
(* A request with an access token: the blocklist check, getSessionData,    *)
(* the fingerprint and travel checks, then the handler.                    *)
(***************************************************************************)
Authenticate(r) ==
  \E op \in {"status", "password", "others"}, g \in Granted, d \in Devices :
    /\ Arrives(r, op)
    /\ \/ /\ g \in blocked
          /\ Answer(r, "refused")
       \/ /\ g \notin blocked
          /\ \E c \in IF op = "others" THEN Held ELSE {None} :
               LET started == Started(op, rows[req[g].tok].user, d, req[g].tok)
               IN Enter(r, Second(Presenting(started, g), "lookup", c))
    /\ UNCHANGED <<rows, replica, redisVars, past>>

\* GET session:<tok>
Lookup(r) ==
  LET hit == cache[req[r].tok]
  IN /\ req[r].pc = "lookup"
     /\ \/ hit = "active"  /\ Goto(r, "verdict")
        \/ hit = "revoked" /\ Answer(r, "refused")
        \/ hit = "none"    /\ Goto(r, "fallback")
     /\ UNCHANGED <<rows, replica, redisVars, past>>

\* On a miss the row, as the replica has it, decides what is cached next.
Fallback(r) ==
  LET row == Read(req[r].tok)
  IN /\ req[r].pc = "fallback"
     /\ \/ row.status = "live" /\ Goto(r, "recache")
        \/ row.status # "live" /\ Goto(r, "negative")
     /\ past' = IF row.status = "absent"
                THEN [past EXCEPT !.missed = @ \cup {req[r].tok}] ELSE past
     /\ UNCHANGED <<rows, replica, redisVars>>

Recache(r) ==
  /\ req[r].pc = "recache"
  /\ CacheSession(req[r].tok)
  /\ Goto(r, "verdict")
  /\ UNCHANGED <<rows, replica, blocked>>

\* SET session:<tok> revoked EX 300
Negative(r) ==
  /\ req[r].pc = "negative"
  /\ cache' = [cache EXCEPT ![req[r].tok] = "revoked"]
  /\ Answer(r, "refused")
  /\ UNCHANGED <<rows, replica, userSet, blocked, past>>

\* Another fingerprint, or an impossible journey, ends the session; otherwise
\* the handler runs.
Verdict(r) ==
  LET accepted == SameDevice(rows[req[r].tok], req[r].dev)
  IN /\ req[r].pc = "verdict"
     /\ \/ Enter(r, Answering(req[r], "revokeOne", "refused"))
        \/ /\ accepted /\ req[r].op = "status"
           /\ Answer(r, "served")
        \/ /\ accepted /\ req[r].op = "password"
           /\ Enter(r, RevokingAll(req[r], "none", "served"))
        \/ /\ accepted /\ req[r].op = "others"
           /\ Enter(r, Answering(req[r], "revokeOthers", "served"))
     /\ UNCHANGED <<rows, replica, redisVars, past>>

(***************************************************************************)
(* Time and faults.                                                        *)
(***************************************************************************)
\* The revoked_at that the replica has is the row's or an earlier one.
GraceEnds ==
  /\ \E t \in Requests :
       /\ replica' = [replica EXCEPT ![t] = GraceOver(@)]
       /\ \/ /\ rows[t].grace
             /\ rows' = [rows EXCEPT ![t] = GraceOver(@)]
          \/ /\ replica[t].grace /\ replica[t] # rows[t]
             /\ UNCHANGED rows
  /\ UNCHANGED <<redisVars, req, past>>

\* The replica catches up.
Replicate ==
  /\ "lag" \in Faults
  /\ replica' = rows
  /\ UNCHANGED <<rows, redisVars, req, past>>

NegativeExpires ==
  /\ \E t \in Requests : /\ cache[t] = "revoked"
                         /\ cache' = [cache EXCEPT ![t] = "none"]
  /\ UNCHANGED <<rows, replica, userSet, blocked, req, past>>

\* A statement throws, or the process stops, between two steps of a request.
\* A logout swallows the error.
Abort(r) ==
  /\ "abort" \in Faults
  /\ r \in InFlight
  /\ Answer(r, IF req[r].op = "logout" THEN "served" ELSE "error")
  /\ Loses(Lingering \cap Clears(req[r]))
  /\ UNCHANGED <<rows, replica, redisVars>>

\* Redis comes back empty.
RedisRestart ==
  /\ "redis" \in Faults
  /\ cache' = [t \in Requests |-> "none"]
  /\ userSet' = [u \in Users |-> {}]
  /\ blocked' = {}
  /\ UNCHANGED <<rows, replica, req, past>>

Serve(r) ==
  \/ Login(r) \/ RevokeSame(r) \/ Insert(r) \/ Cache(r)
  \/ Refresh(r) \/ Grace(r) \/ Rotate(r)
  \/ RevokeAll(r) \/ RevokeOthers(r) \/ Members(r) \/ Purge(r) \/ Blocklist(r)
  \/ Logout(r) \/ RevokeOne(r) \/ Owner(r) \/ PurgeOne(r)
  \/ Authenticate(r) \/ Lookup(r) \/ Fallback(r) \/ Recache(r) \/ Negative(r)
  \/ Verdict(r) \/ Abort(r)

Next == (\E r \in Requests : Serve(r)) \/ GraceEnds \/ NegativeExpires
        \/ Replicate \/ RedisRestart

Spec == Init /\ [][Next]_vars

(***************************************************************************)
(* The inductive invariant: what holds of every row, of every request in   *)
(* the step it is at, of the keys in Redis and of the replica.             *)
(***************************************************************************)
RowsOK ==
  \A t \in Requests :
    IF t \in Stored
    THEN /\ rows[t].user \in Users
         /\ rows[t].dev \in Devices
         /\ rows[t].sess \in Stored
         /\ rows[t].grace => rows[t].next # None
         /\ rows[t].next # None =>
              /\ rows[t].status = "revoked"
              /\ rows[t].next \in Stored \ {t}
              /\ rows[rows[t].next].sess = rows[t].sess
    ELSE rows[t] = NoRow

\* The replica has no row, or an earlier version of it.
ReplicaOK ==
  \A t \in Requests :
    \/ replica[t] = NoRow
    \/ /\ t \in Stored /\ replica[t].status # "absent"
       /\ replica[t].user = rows[t].user
       /\ replica[t].dev = rows[t].dev
       /\ replica[t].sess = rows[t].sess
       /\ replica[t].status = "revoked" => rows[t].status = "revoked"
       /\ replica[t].grace => replica[t].next # None
       /\ replica[t].next # None =>
            /\ replica[t].status = "revoked"
            /\ replica[t].next \in Stored
            /\ rows[replica[t].next].sess = rows[t].sess

\* The steps at which tok names the token worked on.
TokenSteps == {"rotate", "cache", "grace", "revokeOne", "owner", "purgeOne",
               "lookup", "fallback", "recache", "negative", "verdict"}

OwnedBy(u) == {t \in Stored : rows[t].user = u}

RequestOK(r, q) ==
  /\ r \in Stored => q.pc \in {"cache", "done"}
  /\ q.pc \notin {"idle", "done"} => q.user \in Users /\ q.out # "granted"
  /\ q.pc \in {"revokeSame", "insert"} => q.dev \in Devices
  /\ q.pc \in TokenSteps => q.tok \in OwnedBy(q.user)
  /\ q.pc = "rotate" => rows[q.tok].dev = q.dev
  /\ q.pc = "grace" => q.arg \in OwnedBy(q.user)
  /\ q.pc = "purge" => q.todo \subseteq OwnedBy(q.user)
  /\ q.pc = "negative" => rows[q.tok].status = "revoked" \/ q.tok \in past.missed
  /\ q.out = "granted" => q.tok \in Stored

CacheOK ==
  /\ \A t \in Requests : cache[t] = "revoked" =>
       rows[t].status = "revoked" \/ t \in past.missed
  /\ \A u \in Users : userSet[u] \subseteq OwnedBy(u)

(***************************************************************************)
(* What revoking steps rely on, and what the cache holds meanwhile.         *)
(***************************************************************************)
\* A login has revoked, or has still to revoke, every live token it saw, and the
\* sessions it revokes are on its device; the index loses the token it works on.
PlanOK(q) ==
  /\ q.pc \in {"revokeSame", "insert"} =>
       /\ q.seen \subseteq OwnedBy(q.user)
       /\ \A t \in q.seen : rows[t].status = "live" =>
            q.pc = "revokeSame" /\ rows[t].sess \in q.todo
  /\ q.pc = "revokeSame" =>
       /\ q.todo \subseteq Stored
       /\ \A t \in OwnedBy(q.user) : rows[t].sess \in q.todo => rows[t].dev = q.dev
  /\ q.pc \in {"grace", "revokeAll"} => q.op # "others"
  /\ q.pc = "purgeOne" => q.todo \subseteq {q.tok}

\* The index lists every cached token but the lost ones.
IndexOK ==
  \A t \in Requests :
    cache[t] = "active" =>
      t \in Stored /\ (t \in userSet[rows[t].user] \/ t \in past.lost)

\* A token revoked but still called active is lost, or about to be cleared.
LingeringCleared ==
  \A t \in Lingering \ past.lost : \E r \in Requests : t \in Clears(req[r])

(***************************************************************************)
(* Properties.                                                             *)
(***************************************************************************)
(* Every token of a session belongs to the user and the device the session *)
(* was opened for, however refreshes, logins and revocations interleave:   *)
(* rotation copies the session id and refuses another fingerprint.         *)
SessionBoundToDevice ==
  \A s, t \in Stored :
    rows[s].sess = rows[t].sess =>
      rows[s].user = rows[t].user /\ rows[s].dev = rows[t].dev

(* replaced_by links a revoked token to a stored token of the same session, *)
(* no two tokens share a replacement and none replaces itself: the chain    *)
(* that reuse detection and the grace period walk.                          *)
ReplacementChain ==
  \A t \in Stored :
    rows[t].next # None =>
      /\ rows[t].status = "revoked"
      /\ rows[t].next \in Stored \ {t}
      /\ rows[rows[t].next].sess = rows[t].sess
      /\ \A s \in Stored \ {t} : rows[s].next # rows[t].next

(* A key negatively cached names a token that is revoked, although the row  *)
(* was read one step and any number of other steps before the key was set,  *)
(* and although the replica lags: only a token that a look-up did not find  *)
(* on the replica at all may be shut out while it lives (session.store.ts   *)
(* writes the same placeholder for a missing row).                          *)
NegativeCacheSound ==
  \A t \in Requests :
    cache[t] = "revoked" => rows[t].status = "revoked" \/ t \in past.missed

(* A session has one live token, however refreshes, logins, revocations and *)
(* readings of the replica interleave, unless one of its tokens was rotated *)
(* when it was no longer live: replaceRefreshToken does not look again, so  *)
(* two refreshes of one token, or one that read an old row, fork a session. *)
OneTokenPerSession ==
  \A s, t \in Stored :
    (rows[s].status = "live" /\ rows[t].status = "live"
       /\ rows[s].sess = rows[t].sess) => s = t \/ rows[s].sess \in past.forked

(* While no request of a user is under way, the only revoked tokens of the   *)
(* user that the cache still calls active are those rotation replaced, those *)
(* of a session that a login on the same device superseded, and the lost     *)
(* ones: a key written when its row was revoked already (between the reading *)
(* and the writing, or on the replica's word), one written between the       *)
(* SMEMBERS and the DEL of an invalidation, and one whose invalidation was   *)
(* cut off.  Every other revocation reaches the cache.                       *)
CacheCoherent ==
  \A t \in Lingering \ past.lost : \E r \in InFlight : req[r].user = rows[t].user

(* No step of a request made for one user changes a row, a cached session   *)
(* or the index of another user, whatever cookie came with the request.     *)
SessionIsolation ==
  [][\A u \in Users :
       (\E r \in Requests : req'[r] # req[r] /\ u \notin {req[r].user, req'[r].user})
       => /\ \A t \in Stored : rows[t].user = u =>
               rows'[t] = rows[t] /\ cache'[t] = cache[t]
          /\ userSet'[u] = userSet[u]]_vars

(* The live rows implement the registry of SessionRegistry: a session opens *)
(* once, and beside another of the user only if its login had not seen that *)
(* one; it is closed for good unless a token of it was rotated that was no  *)
(* longer live; renewal by rotation neither opens nor closes anything.      *)
SessionOf(t) == [id |-> rows[t].sess, user |-> rows[t].user, dev |-> rows[t].dev]

OpenSessions == {SessionOf(t) : t \in {x \in Requests : rows[x].status = "live"}}

Registry == INSTANCE SessionRegistry
  WITH Ids <- Requests, open <- OpenSessions, known <- {SessionOf(t) : t \in Stored},
       crowded <- past.crowded, forked <- past.forked

RegistrySpec == Registry!Spec

(***************************************************************************)
(* The conjunctions that are inductive; the properties follow from them.    *)
(***************************************************************************)
IInv ==
  /\ TypeOK
  /\ RowsOK
  /\ ReplicaOK
  /\ \A r \in Requests : RequestOK(r, req[r])
  /\ CacheOK
  /\ SessionBoundToDevice
  /\ ReplacementChain

CacheIInv ==
  /\ IInv
  /\ OneTokenPerSession
  /\ \A r \in Requests : PlanOK(req[r])
  /\ IndexOK
  /\ LingeringCleared
=============================================================================
