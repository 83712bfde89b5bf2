---------------------------- MODULE Sessions_proofs ----------------------------
(***************************************************************************)
(* Proofs about Sessions for any number of users, devices and requests.    *)
(***************************************************************************)
EXTENDS Sessions, FiniteSetTheorems, TLAPS

(***************************************************************************)
(* What the updates of request records and rows do.                        *)
(***************************************************************************)
LEMMA StartedRecord ==
  ASSUME NEW op \in Ops, NEW u \in Users \cup {None},
         NEW d \in Devices \cup {None}, NEW t \in Requests \cup {None}
  PROVE  LET new == Started(op, u, d, t)
         IN /\ new \in Request /\ new.out = "none"
            /\ new.user = u /\ new.dev = d /\ new.tok = t /\ new.op = op
BY DEF Started, Idle, Request, Steps, Reasons, Outcomes

LEMMA AnsweredRecord ==
  ASSUME NEW o \in Outcomes
  PROVE  LET new == Answered(o)
         IN new \in Request /\ new.pc = "done" /\ new.out = o
BY DEF Answered, Answering, Idle, Request, Steps, Reasons

LEMMA IdleRecord == Idle \in Request /\ Idle.pc = "idle" /\ Idle.out = "none"
BY DEF Idle, Request, Steps, Reasons, Outcomes

LEMMA AtRecord ==
  ASSUME NEW q \in Request, NEW p \in Steps
  PROVE  LET new == At(q, p)
         IN /\ new \in Request /\ new.pc = p /\ new.out = q.out
            /\ new.user = q.user /\ new.dev = q.dev /\ new.tok = q.tok
            /\ new.op = q.op /\ new.arg = q.arg /\ new.todo = q.todo
BY DEF Request, At

LEMMA RevokingAllRecord ==
  ASSUME NEW q \in Request, NEW w \in Reasons, NEW o \in Outcomes
  PROVE  LET new == RevokingAll(q, w, o)
         IN /\ new \in Request /\ new.pc = "revokeAll" /\ new.out = o
            /\ new.user = q.user /\ new.op = q.op
BY DEF Request, RevokingAll, Steps

LEMMA AnsweringRecord ==
  ASSUME NEW q \in Request, NEW p \in Steps, NEW o \in Outcomes
  PROVE  LET new == Answering(q, p, o)
         IN /\ new \in Request /\ new.pc = p /\ new.out = o
            /\ new.user = q.user /\ new.tok = q.tok /\ new.op = q.op
BY DEF Request, Answering

LEMMA ThroughRecord ==
  ASSUME NEW q \in Request, NEW p \in Steps, NEW S \in SUBSET Requests
  PROVE  LET new == Through(q, p, S)
         IN /\ new \in Request /\ new.pc = p /\ new.todo = S /\ new.out = q.out
            /\ new.user = q.user /\ new.dev = q.dev /\ new.op = q.op
            /\ new.arg = q.arg /\ new.tok = q.tok /\ new.seen = q.seen
BY DEF Request, Through

LEMMA HoldingRecord ==
  ASSUME NEW q \in Request, NEW p \in Steps, NEW t \in Requests \cup {None}
  PROVE  LET new == Holding(q, p, t)
         IN /\ new \in Request /\ new.pc = p /\ new.tok = t /\ new.out = q.out
            /\ new.user = q.user /\ new.dev = q.dev /\ new.op = q.op
BY DEF Request, Holding

LEMMA SecondRecord ==
  ASSUME NEW q \in Request, NEW p \in Steps, NEW a \in Requests \cup {None}
  PROVE  LET new == Second(q, p, a)
         IN /\ new \in Request /\ new.pc = p /\ new.arg = a /\ new.out = q.out
            /\ new.user = q.user /\ new.tok = q.tok /\ new.op = q.op
BY DEF Request, Second

LEMMA PresentingRecord ==
  ASSUME NEW q \in Request, NEW g \in Requests
  PROVE  LET new == Presenting(q, g)
         IN /\ new \in Request /\ new.out = q.out
            /\ new.user = q.user /\ new.tok = q.tok
BY DEF Request, Presenting

LEMMA KnowingRecord ==
  ASSUME NEW q \in Request, NEW S \in SUBSET Requests
  PROVE  LET new == Knowing(q, S)
         IN /\ new \in Request /\ new.seen = S /\ new.pc = q.pc /\ new.out = q.out
            /\ new.user = q.user /\ new.dev = q.dev /\ new.tok = q.tok
            /\ new.op = q.op /\ new.todo = q.todo
BY DEF Request, Knowing

LEMMA NewRowFields ==
  ASSUME NEW u \in Users, NEW d \in Devices, NEW s \in Requests
  PROVE  LET new == NewRow(u, d, s)
         IN /\ new \in Row /\ new.status = "live" /\ new.user = u /\ new.dev = d
            /\ new.sess = s /\ new.next = None /\ ~new.grace
BY DEF Row, NoRow, NewRow, Reasons

LEMMA NoRowFields ==
  NoRow \in Row /\ NoRow.status = "absent" /\ NoRow.next = None /\ ~NoRow.grace
BY DEF Row, NoRow, Reasons

LEMMA ReplacedFields ==
  ASSUME NEW row \in Row, NEW n \in Requests
  PROVE  LET new == Replaced(row, n)
         IN /\ new \in Row /\ new.status = "revoked" /\ new.user = row.user
            /\ new.dev = row.dev /\ new.sess = row.sess /\ new.next = n
BY DEF Row, Replaced

LEMMA GraceOverFields ==
  ASSUME NEW row \in Row
  PROVE  LET new == GraceOver(row)
         IN /\ new \in Row /\ new.status = row.status /\ new.user = row.user
            /\ new.dev = row.dev /\ new.sess = row.sess /\ new.next = row.next
            /\ new.reason = row.reason /\ ~new.grace
BY DEF Row, GraceOver

LEMMA GraceOverNoRow == GraceOver(NoRow) = NoRow
<1>1. \A a, b \in Row :
        /\ a.status = b.status /\ a.user = b.user /\ a.dev = b.dev /\ a.sess = b.sess
        /\ a.reason = b.reason /\ a.next = b.next /\ a.grace = b.grace
        => a = b
  BY DEF Row
<1>2. NoRow \in Row /\ NoRow.grace = FALSE
  BY DEF NoRow, Row, Reasons
<1>3. GraceOver(NoRow).grace = FALSE
  BY <1>2 DEF GraceOver, Row
<1> QED BY <1>1, <1>2, <1>3, GraceOverFields

LEMMA RevokedFields ==
  ASSUME NEW row \in Row, NEW why \in Reasons
  PROVE  LET new == Revoked(row, why)
         IN /\ new \in Row /\ new.status = "revoked" /\ new.user = row.user
            /\ new.dev = row.dev /\ new.sess = row.sess /\ new.next = row.next
            /\ new.grace = (row.next # None)
BY DEF Row, Revoked

(***************************************************************************)
(* Steps by what they write.  record is what the request that takes the    *)
(* step becomes; every other request stays as it is.                       *)
(***************************************************************************)
LEMMA EnterFrame ==
  ASSUME TypeOK, NEW r \in Requests, NEW record \in Request, Enter(r, record)
  PROVE  /\ req' \in [Requests -> Request]
         /\ \A x \in Requests : req'[x] = IF x = r THEN record ELSE req[x]
BY DEF TypeOK, Enter

\* Nothing that the history records is forgotten.
PastGrows ==
  /\ past' \in Past
  /\ past.missed \subseteq past'.missed /\ past.forked \subseteq past'.forked
  /\ past.crowded \subseteq past'.crowded /\ past.lost \subseteq past'.lost

LEMMA SamePast == ASSUME IInv, past' = past PROVE PastGrows
BY DEF IInv, TypeOK, PastGrows

LEMMA LosesGrows ==
  ASSUME IInv, NEW S \in SUBSET Requests, Loses(S)
  PROVE  PastGrows /\ past'.lost = past.lost \cup S
BY DEF IInv, TypeOK, Past, PastGrows, Loses

\* Nothing but the request, the blocklist and the history changes; the request
\* may be about to cache a token as revoked that it has just not found.
LEMMA RequestStep ==
  ASSUME IInv, NEW r \in Requests, NEW record \in Request,
         Enter(r, record), UNCHANGED <<rows, replica, cache, userSet>>,
         blocked' \subseteq Requests, PastGrows,
         \/ RequestOK(r, record)
         \/ /\ record.pc = "negative" /\ record.tok \in past'.missed
            /\ r \notin Stored /\ record.user \in Users /\ record.out # "granted"
            /\ record.tok \in OwnedBy(record.user)
  PROVE  IInv'
<1>1. Stored' = Stored /\ \A u : OwnedBy(u)' = OwnedBy(u)
  BY DEF Stored, OwnedBy
<1>2. TypeOK'
  BY EnterFrame DEF IInv, TypeOK, PastGrows
<1>3. \A x \in Requests : req'[x] = IF x = r THEN record ELSE req[x]
  BY EnterFrame DEF IInv
<1>4. ASSUME NEW x \in Requests PROVE RequestOK(x, req[x])'
  <2>1. PICK q : q = req'[x] /\ (x # r => RequestOK(x, q)) /\ (x = r => q = record)
    BY <1>3 DEF IInv
  <2>2. CASE RequestOK(x, q)
    BY <1>1, <2>1, <2>2 DEF RequestOK, PastGrows
  <2>3. CASE ~RequestOK(x, q)
    BY <1>1, <2>1, <2>3 DEF RequestOK
  <2> QED BY <2>2, <2>3
<1>5. RowsOK' /\ ReplicaOK' /\ SessionBoundToDevice' /\ ReplacementChain'
  BY <1>1 DEF IInv, RowsOK, ReplicaOK, SessionBoundToDevice, ReplacementChain
<1>6. CacheOK'
  BY <1>1 DEF IInv, CacheOK, PastGrows
<1> QED BY <1>2, <1>4, <1>5, <1>6 DEF IInv

\* Nothing but the request changes.
LEMMA QuietStep ==
  ASSUME IInv, NEW r \in Requests, NEW record \in Request, Enter(r, record),
         RequestOK(r, record), UNCHANGED <<rows, replica, redisVars, past>>
  PROVE  IInv'
<1>1. UNCHANGED <<rows, replica, cache, userSet>> /\ blocked' \subseteq Requests
  BY DEF redisVars, IInv, TypeOK
<1> QED BY <1>1, SamePast, RequestStep

\* Keys in Redis change.
LEMMA RedisStep ==
  ASSUME IInv, NEW r \in Requests, NEW record \in Request,
         Enter(r, record), RequestOK(r, record), UNCHANGED <<rows, replica, blocked>>,
         cache' \in [Requests -> {"none", "active", "revoked"}],
         userSet' \in [Users -> SUBSET Requests], PastGrows, CacheOK'
  PROVE  IInv'
<1>1. Stored' = Stored /\ \A u : OwnedBy(u)' = OwnedBy(u)
  BY DEF Stored, OwnedBy
<1>2. TypeOK'
  BY EnterFrame DEF IInv, TypeOK, PastGrows
<1>3. \A x \in Requests : req'[x] = IF x = r THEN record ELSE req[x]
  BY EnterFrame DEF IInv
<1>4. \A x \in Requests : RequestOK(x, req[x])'
  BY <1>1, <1>3 DEF IInv, RequestOK, PastGrows
<1>5. RowsOK' /\ ReplicaOK' /\ SessionBoundToDevice' /\ ReplacementChain'
  BY <1>1 DEF IInv, RowsOK, ReplicaOK, SessionBoundToDevice, ReplacementChain
<1> QED BY <1>2, <1>4, <1>5 DEF IInv

\* A revocation changes no row's user, device, session or replacement.
LEMMA RevokeWhereRows ==
  ASSUME IInv, NEW S, NEW why \in Reasons, RevokeWhere(S, why)
  PROVE  /\ rows' \in [Requests -> Row]
         /\ Stored' = Stored
         /\ \A t \in Requests :
              /\ rows'[t].user = rows[t].user
              /\ rows'[t].dev = rows[t].dev
              /\ rows'[t].sess = rows[t].sess
              /\ rows'[t].next = rows[t].next
              /\ rows[t].status = "revoked" => rows'[t].status = "revoked"
              /\ rows'[t].grace => rows[t].grace \/ rows[t].next # None
              /\ t \notin Stored => rows'[t] = rows[t]
              /\ t \notin S => rows'[t] = rows[t]
<1>1. \A t \in Requests :
        rows'[t] = IF t \in S /\ t \in Stored THEN Revoked(rows[t], why) ELSE rows[t]
  BY DEF RevokeWhere, Stored
<1>2. \A t \in Requests : rows[t] \in Row
  BY DEF IInv, TypeOK
<1>3. rows' \in [Requests -> Row]
  <2>1. \A t \in Requests : rows'[t] \in Row
    BY <1>1, <1>2, RevokedFields
  <2> QED BY <2>1 DEF RevokeWhere
<1>4. Stored' = Stored
  <2>1. \A t \in Requests : t \in Stored' <=> t \in Stored
    BY <1>1, <1>2, RevokedFields DEF Stored
  <2> QED BY <2>1 DEF Stored
<1>5. ASSUME NEW t \in Requests
      PROVE  rows'[t].grace => rows[t].grace \/ rows[t].next # None
  <2>1. CASE t \in S /\ t \in Stored
    BY <1>1, <1>2, <2>1, RevokedFields
  <2>2. CASE ~(t \in S /\ t \in Stored)
    BY <1>1, <2>2
  <2> QED BY <2>1, <2>2
<1>6. \A t \in Requests :
        /\ rows'[t].user = rows[t].user
        /\ rows'[t].dev = rows[t].dev
        /\ rows'[t].sess = rows[t].sess
        /\ rows'[t].next = rows[t].next
        /\ rows[t].status = "revoked" => rows'[t].status = "revoked"
        /\ t \notin Stored => rows'[t] = rows[t]
        /\ t \notin S => rows'[t] = rows[t]
  BY <1>1, <1>2, RevokedFields
<1> QED BY <1>3, <1>4, <1>5, <1>6

LEMMA RevokeStep ==
  ASSUME IInv, NEW r \in Requests, NEW record \in Request,
         Enter(r, record), RequestOK(r, record), NEW S, NEW why \in Reasons,
         RevokeWhere(S, why), UNCHANGED <<replica, redisVars, past>>
  PROVE  IInv'
<1>0. UNCHANGED <<cache, userSet, blocked>>
  BY DEF redisVars
<1>1. \A u : OwnedBy(u)' = OwnedBy(u)
  BY RevokeWhereRows DEF OwnedBy, Stored
<1>2. TypeOK'
  BY <1>0, EnterFrame, RevokeWhereRows DEF IInv, TypeOK
<1>3. \A x \in Requests : req'[x] = IF x = r THEN record ELSE req[x]
  BY EnterFrame DEF IInv
<1>4. \A x \in Requests : RequestOK(x, req[x])'
  <2>1. SUFFICES ASSUME NEW x \in Requests, NEW q, q = req'[x], RequestOK(x, q)
                 PROVE  RequestOK(x, req[x])'
    BY <1>3 DEF IInv
  <2>2. q.pc \in TokenSteps => q.tok \in Requests
    BY <2>1 DEF RequestOK, OwnedBy, Stored
  <2> QED BY <1>1, <2>1, <2>2, RevokeWhereRows DEF RequestOK, TokenSteps
<1>5. RowsOK'
  BY RevokeWhereRows DEF IInv, RowsOK, Stored
<1>6. CacheOK'
  BY <1>0, <1>1, RevokeWhereRows DEF IInv, CacheOK
<1>8. ReplicaOK'
  BY RevokeWhereRows DEF IInv, ReplicaOK, Stored
<1>7. SessionBoundToDevice' /\ ReplacementChain'
  BY RevokeWhereRows DEF IInv, SessionBoundToDevice, ReplacementChain, Stored
<1> QED BY <1>2, <1>4, <1>5, <1>6, <1>7, <1>8 DEF IInv

(***************************************************************************)
(* What readQuery shows of a row.                                          *)
(***************************************************************************)
LEMMA ReadRow ==
  ASSUME IInv, NEW t \in Requests
  PROVE  LET row == Read(t)
         IN /\ row \in Row
            /\ row.status = "absent" => row = NoRow
            /\ row.status # "absent" =>
                 /\ t \in Stored /\ row.user = rows[t].user
                 /\ row.dev = rows[t].dev /\ row.sess = rows[t].sess
            /\ row.status = "revoked" => rows[t].status = "revoked"
            /\ row.grace => row.next # None
            /\ row.next # None => row.next \in Stored /\ rows[row.next].sess = rows[t].sess
<1>1. CASE Read(t) = rows[t]
  BY <1>1, NoRowFields DEF IInv, TypeOK, RowsOK, Stored
<1>2. CASE Read(t) = replica[t]
  BY <1>2, NoRowFields DEF IInv, TypeOK, ReplicaOK, Stored
<1> QED BY <1>1, <1>2 DEF Read

LEMMA KnownRows ==
  ASSUME IInv, NEW u \in Users, NEW t \in Known(u)
  PROVE  /\ t \in OwnedBy(u) /\ Read(t).dev = rows[t].dev /\ Read(t).sess = rows[t].sess
BY ReadRow DEF Known, OwnedBy

(***************************************************************************)
(* Records a request may become.                                           *)
(***************************************************************************)
LEMMA AnsweredOK ==
  ASSUME NEW r \in Requests, NEW o \in Outcomes \ {"granted"}
  PROVE  Answered(o) \in Request /\ RequestOK(r, Answered(o))
BY AnsweredRecord DEF RequestOK, TokenSteps

LEMMA GrantedOK ==
  ASSUME NEW r \in Requests, NEW t \in Stored
  PROVE  LET new == Holding(Answered("granted"), "done", t)
         IN new \in Request /\ RequestOK(r, new)
<1>1. "granted" \in Outcomes /\ "done" \in Steps /\ t \in Requests
  BY DEF Outcomes, Steps, Stored
<1> QED BY <1>1, AnsweredRecord, HoldingRecord DEF RequestOK, TokenSteps

\* A request that has not finished: it answers with what is pending.
LEMMA Working ==
  ASSUME IInv, NEW r \in Requests, req[r].pc \notin {"idle", "done"}
  PROVE  /\ req[r].out \in Outcomes \ {"granted"}
         /\ req[r].pc # "cache" => r \notin Stored
         /\ req[r].user \in Users
         /\ req[r] \in Request
         /\ RequestOK(r, req[r])
         /\ req[r].pc \in TokenSteps => req[r].tok \in OwnedBy(req[r].user)
BY DEF IInv, TypeOK, Request, RequestOK

PlainSteps == {"revokeAll", "members", "blocklist", "revokeOthers", "revokeOne",
               "owner", "lookup", "fallback", "recache", "verdict"}

LEMMA AtOK ==
  ASSUME IInv, NEW r \in Requests, req[r].pc \notin {"idle", "done", "cache"},
         NEW p \in PlainSteps,
         p \in TokenSteps => req[r].tok \in OwnedBy(req[r].user)
  PROVE  At(req[r], p) \in Request /\ RequestOK(r, At(req[r], p))
<1>1. p \in Steps
  BY DEF PlainSteps, Steps
<1> QED BY <1>1, Working, AtRecord DEF RequestOK, PlainSteps

LEMMA FinishOK ==
  ASSUME IInv, NEW r \in Requests, req[r].pc \notin {"idle", "done", "cache"}, Finish(r)
  PROVE  \E record \in Request : Enter(r, record) /\ RequestOK(r, record)
<1>1. CASE Goto(r, "blocklist")
  BY <1>1, AtOK DEF Goto, PlainSteps, TokenSteps
<1>2. CASE Answer(r, req[r].out)
  BY <1>2, AnsweredOK, Working DEF Answer
<1> QED BY <1>1, <1>2 DEF Finish

(***************************************************************************)
(* One lemma per action.                                                   *)
(***************************************************************************)
LEMMA LoginStep ==
  ASSUME IInv, NEW r \in Requests, Login(r)
  PROVE  IInv'
<1>1. r \notin Stored
  BY DEF Login, Arrives, IInv, RequestOK
<1>2. "login" \in Ops /\ UNCHANGED <<rows, replica, redisVars, past>>
  BY DEF Login, Arrives
<1>3. PICK u \in Users, d \in Devices, same \in SUBSET Requests :
        LET login == Started("login", u, d, None)
        IN \/ Answer(r, "sessionExists")
           \/ Enter(r, RevokingAll(login, "CONCURRENT_LOGIN", "sessionsRevoked"))
           \/ Enter(r, Through(Knowing(login, Known(u)),
                               IF same = {} THEN "insert" ELSE "revokeSame", same))
  BY DEF Login
<1> DEFINE login == Started("login", u, d, None)
           knowing == Knowing(login, Known(u))
           p == IF same = {} THEN "insert" ELSE "revokeSame"
<1>4. login \in Request /\ login.user = u /\ login.dev = d /\ login.out = "none"
  BY <1>2, StartedRecord
<1>5. CASE Answer(r, "sessionExists")
  BY <1>2, <1>5, AnsweredOK, QuietStep DEF Answer, Outcomes
<1>6. CASE Enter(r, RevokingAll(login, "CONCURRENT_LOGIN", "sessionsRevoked"))
  <2> DEFINE ending == RevokingAll(login, "CONCURRENT_LOGIN", "sessionsRevoked")
  <2>1. ending \in Request /\ ending.pc = "revokeAll"
        /\ ending.user = u /\ ending.out = "sessionsRevoked"
    BY <1>4, RevokingAllRecord DEF Reasons, Outcomes
  <2>2. RequestOK(r, ending)
    BY <1>1, <2>1 DEF RequestOK, TokenSteps
  <2> QED BY <1>2, <1>6, <2>1, <2>2, QuietStep
<1>7. CASE Enter(r, Through(knowing, p, same))
  <2>0. knowing \in Request /\ knowing.user = u /\ knowing.dev = d /\ knowing.out = "none"
    BY <1>4, KnowingRecord DEF Known
  <2>1. p \in {"insert", "revokeSame"} /\ p \in Steps
    BY DEF Steps
  <2> HIDE DEF p, knowing
  <2>2. LET opening == Through(knowing, p, same)
        IN /\ opening \in Request /\ opening.pc = p /\ opening.user = u
           /\ opening.dev = d /\ opening.out = "none"
    BY <2>0, <2>1, ThroughRecord
  <2>3. RequestOK(r, Through(knowing, p, same))
    BY <1>1, <2>1, <2>2 DEF RequestOK, TokenSteps
  <2> QED BY <1>2, <1>7, <2>2, <2>3, QuietStep
<1> QED BY <1>3, <1>5, <1>6, <1>7

LEMMA RevokeSameStep ==
  ASSUME IInv, NEW r \in Requests, RevokeSame(r)
  PROVE  IInv'
<1>1. PICK s \in req[r].todo :
        /\ RevokeWhere({t \in Requests : /\ rows[t].sess = s
                                         /\ rows[t].user = req[r].user},
                       "REVOKED_BY_USER")
        /\ Enter(r, Through(req[r],
                            IF req[r].todo = {s} THEN "insert" ELSE "revokeSame",
                            req[r].todo \ {s}))
  BY DEF RevokeSame
<1> DEFINE p == IF req[r].todo = {s} THEN "insert" ELSE "revokeSame"
           rest == req[r].todo \ {s}
           new == Through(req[r], p, rest)
<1>2. req[r].pc = "revokeSame" /\ UNCHANGED <<replica, redisVars, past>>
  BY DEF RevokeSame
<1>3. p \in {"insert", "revokeSame"} /\ p \in Steps
  BY DEF Steps
<1>4. rest \in SUBSET Requests
  BY <1>2, Working DEF Request
<1> HIDE DEF p, rest
<1>5. /\ new \in Request /\ new.pc = p /\ new.user = req[r].user
      /\ new.dev = req[r].dev /\ new.out = req[r].out
  BY <1>2, <1>3, <1>4, Working, ThroughRecord
<1>6. RequestOK(r, new)
  BY <1>2, <1>3, <1>5, Working DEF RequestOK, TokenSteps
<1> QED BY <1>1, <1>2, <1>5, <1>6, RevokeStep DEF Reasons, p, rest

LEMMA CacheStep ==
  ASSUME IInv, NEW r \in Requests, req[r].pc \in {"cache", "recache"},
         CacheSession(req[r].tok), UNCHANGED <<rows, replica, blocked>>,
         NEW record \in Request, Enter(r, record), RequestOK(r, record)
  PROVE  IInv'
<1> DEFINE t == req[r].tok
<1>1. t \in Stored /\ t \in OwnedBy(req[r].user)
  BY Working DEF OwnedBy, TokenSteps
<1>2. t \in Requests /\ rows[t].user \in Users /\ t \in OwnedBy(rows[t].user)
  BY <1>1 DEF IInv, RowsOK, OwnedBy, Stored
<1>3. cache' \in [Requests -> {"none", "active", "revoked"}]
      /\ userSet' \in [Users -> SUBSET Requests]
  BY <1>2 DEF IInv, TypeOK, CacheSession
<1>4. PastGrows
  BY <1>2, LosesGrows DEF CacheSession
<1>5. CacheOK'
  <2>1. \A u : OwnedBy(u)' = OwnedBy(u)
    BY DEF OwnedBy, Stored
  <2> QED BY <1>2, <1>4, <2>1 DEF IInv, TypeOK, CacheOK, CacheSession, PastGrows
<1> QED BY <1>3, <1>4, <1>5, RedisStep

LEMMA CacheActionStep ==
  ASSUME IInv, NEW r \in Requests, Cache(r)
  PROVE  IInv'
<1>1. req[r].pc = "cache" /\ CacheSession(req[r].tok) /\ Grant(r, req[r].tok)
      /\ UNCHANGED <<rows, replica, blocked>>
  BY DEF Cache
<1>2. req[r].tok \in Stored
  BY <1>1, Working DEF OwnedBy, TokenSteps
<1> QED BY <1>1, <1>2, GrantedOK, CacheStep DEF Grant

LEMMA RecacheStep ==
  ASSUME IInv, NEW r \in Requests, Recache(r)
  PROVE  IInv'
<1>1. req[r].pc = "recache" /\ CacheSession(req[r].tok) /\ Goto(r, "verdict")
      /\ UNCHANGED <<rows, replica, blocked>>
  BY DEF Recache
<1>2. req[r].tok \in OwnedBy(req[r].user)
  BY <1>1, Working DEF TokenSteps
<1>3. At(req[r], "verdict") \in Request /\ RequestOK(r, At(req[r], "verdict"))
  BY <1>1, <1>2, AtOK DEF PlainSteps
<1> QED BY <1>1, <1>3, CacheStep DEF Goto

\* A new row leaves the older ones in place, except that rotation replaces one.
LEMMA NewRowStep ==
  ASSUME IInv, NEW r \in Requests, r \notin Stored, req[r].pc \in {"insert", "rotate"},
         NEW record \in Request, Enter(r, record), record.pc = "cache", record.tok = r,
         record.user = req[r].user, record.out = req[r].out,
         UNCHANGED <<replica, redisVars>>, PastGrows,
         rows' \in [Requests -> Row], Stored' = Stored \cup {r},
         rows'[r].status = "live", rows'[r].user = req[r].user,
         \A t \in Stored : /\ rows'[t].user = rows[t].user
                           /\ rows'[t].dev = rows[t].dev
                           /\ rows'[t].sess = rows[t].sess
                           /\ (rows[t].status = "revoked" => rows'[t].status = "revoked"),
         RowsOK', SessionBoundToDevice', ReplacementChain'
  PROVE  IInv'
<1>1. UNCHANGED <<cache, userSet, blocked>>
  BY DEF redisVars
<1>2. TypeOK'
  BY <1>1, EnterFrame DEF IInv, TypeOK, PastGrows
<1>3. \A u \in Users : OwnedBy(u) \subseteq OwnedBy(u)'
  BY DEF OwnedBy, Stored
<1>4. \A x \in Requests : req'[x] = IF x = r THEN record ELSE req[x]
  BY EnterFrame DEF IInv
<1>5. RequestOK(r, req[r])'
  <2>1. r \in OwnedBy(req[r].user)'
    BY <1>4 DEF OwnedBy, Stored
  <2> QED BY <1>4, <2>1, Working DEF RequestOK, TokenSteps
<1>6. ASSUME NEW x \in Requests, x # r PROVE RequestOK(x, req[x])'
  <2>1. PICK q \in Request : q = req[x] /\ q = req'[x] /\ RequestOK(x, q)
    BY <1>4, <1>6 DEF IInv, TypeOK
  <2>2. q.pc \in TokenSteps => q.tok \in Stored
    BY <2>1 DEF RequestOK, OwnedBy
  <2>3. q.pc \notin {"idle", "done"} => q.user \in Users
    BY <2>1 DEF RequestOK
  <2>4. x \in Stored' => x \in Stored
    BY <1>6
  <2> QED BY <1>3, <2>1, <2>2, <2>3, <2>4 DEF RequestOK, TokenSteps, PastGrows
<1>7. CacheOK'
  <2>1. \A t \in Requests : rows[t].status = "revoked" => rows'[t].status = "revoked"
    BY DEF Stored
  <2> QED BY <1>1, <1>3, <2>1 DEF IInv, CacheOK, PastGrows
<1>8. ReplicaOK'
  BY DEF IInv, ReplicaOK, Stored
<1> QED BY <1>2, <1>5, <1>6, <1>7, <1>8 DEF IInv

LEMMA CachingRecord ==
  ASSUME IInv, NEW r \in Requests
  PROVE  LET new == Holding(req[r], "cache", r)
         IN /\ new \in Request /\ new.pc = "cache" /\ new.tok = r
            /\ new.user = req[r].user /\ new.out = req[r].out
<1>1. req[r] \in Request /\ "cache" \in Steps
  BY DEF IInv, TypeOK, Steps
<1> QED BY <1>1, HoldingRecord

LEMMA InsertStep ==
  ASSUME IInv, NEW r \in Requests, Insert(r)
  PROVE  IInv'
<1>1. /\ req[r].pc = "insert" /\ UNCHANGED <<replica, redisVars>>
      /\ rows' = [rows EXCEPT ![r] = NewRow(req[r].user, req[r].dev, r)]
      /\ Enter(r, Knowing(Holding(req[r], "cache", r), {}))
  BY DEF Insert
<1>2. r \notin Stored /\ req[r].user \in Users /\ req[r].dev \in Devices
  BY <1>1, Working DEF RequestOK
<1> DEFINE new == NewRow(req[r].user, req[r].dev, r)
<1>3. /\ new \in Row /\ new.status = "live" /\ new.user = req[r].user
      /\ new.dev = req[r].dev /\ new.sess = r /\ new.next = None /\ ~new.grace
  BY <1>2, NewRowFields
<1> HIDE DEF new
<1>4. \A t \in Requests : rows'[t] = IF t = r THEN new ELSE rows[t]
  BY <1>1 DEF IInv, TypeOK, new
<1>5. rows' \in [Requests -> Row] /\ Stored' = Stored \cup {r}
  BY <1>1, <1>3, <1>4 DEF IInv, TypeOK, Stored, new
<1>6. RowsOK'
  BY <1>2, <1>3, <1>4, <1>5, NoneAssumption DEF IInv, RowsOK, Stored
<1>7. SessionBoundToDevice'
  BY <1>2, <1>3, <1>4, <1>5 DEF IInv, RowsOK, SessionBoundToDevice, Stored
<1>8. ReplacementChain'
  BY <1>2, <1>3, <1>4, <1>5 DEF IInv, RowsOK, ReplacementChain, Stored
<1>9. \A t \in Stored : rows'[t] = rows[t]
  BY <1>2, <1>4 DEF Stored
<1>10. PastGrows
  BY DEF Insert, IInv, TypeOK, Past, PastGrows
<1> DEFINE record == Knowing(Holding(req[r], "cache", r), {})
<1>11. /\ record \in Request /\ record.pc = "cache" /\ record.tok = r
       /\ record.user = req[r].user /\ record.out = req[r].out
  BY <1>1, CachingRecord, KnowingRecord
<1> HIDE DEF record
<1> QED BY <1>1, <1>2, <1>3, <1>4, <1>5, <1>6, <1>7, <1>8, <1>9, <1>10, <1>11, NewRowStep
        DEF record

LEMMA RotateStep ==
  ASSUME IInv, NEW r \in Requests, Rotate(r)
  PROVE  IInv'
<1> DEFINE old == req[r].tok
<1>1. /\ req[r].pc = "rotate" /\ UNCHANGED <<replica, redisVars>>
      /\ rows' = [rows EXCEPT ![r] = NewRow(req[r].user, req[r].dev, rows[old].sess),
                              ![old] = Replaced(@, r)]
      /\ Enter(r, Holding(req[r], "cache", r))
  BY DEF Rotate
<1>2. /\ r \notin Stored /\ old \in Stored /\ rows[old].user = req[r].user
      /\ rows[old].dev = req[r].dev
  BY <1>1, Working DEF RequestOK, TokenSteps, OwnedBy
<1>3. /\ rows[old].user \in Users /\ rows[old].dev \in Devices
      /\ rows[old].sess \in Stored /\ old # r /\ old \in Requests
  BY <1>2 DEF IInv, RowsOK, Stored
<1> DEFINE new == NewRow(req[r].user, req[r].dev, rows[old].sess)
           was == Replaced(rows[old], r)
<1>4. /\ new \in Row /\ new.status = "live" /\ new.user = req[r].user
      /\ new.dev = req[r].dev /\ new.sess = rows[old].sess /\ new.next = None
      /\ ~new.grace
  BY <1>2, <1>3, NewRowFields DEF Stored
<1>5. /\ was \in Row /\ was.status = "revoked" /\ was.user = rows[old].user
      /\ was.dev = rows[old].dev /\ was.sess = rows[old].sess /\ was.next = r
  BY <1>3, ReplacedFields DEF IInv, TypeOK
<1>6. rows' = [rows EXCEPT ![r] = new, ![old] = was]
  BY <1>1, <1>3 DEF IInv, TypeOK
<1> HIDE DEF new, was, old
<1>7. \A t \in Requests : rows'[t] = IF t = r THEN new ELSE IF t = old THEN was ELSE rows[t]
  BY <1>3, <1>6 DEF IInv, TypeOK
<1>8. rows' \in [Requests -> Row] /\ Stored' = Stored \cup {r}
  BY <1>2, <1>3, <1>4, <1>5, <1>6, <1>7 DEF IInv, TypeOK, Stored
<1>9. RowsOK'
  BY <1>2, <1>3, <1>4, <1>5, <1>7, <1>8, NoneAssumption DEF IInv, RowsOK, Stored
<1>10. SessionBoundToDevice'
  BY <1>2, <1>3, <1>4, <1>5, <1>7, <1>8 DEF IInv, SessionBoundToDevice, Stored
<1>11. ReplacementChain'
  BY <1>2, <1>3, <1>4, <1>5, <1>7, <1>8 DEF IInv, RowsOK, ReplacementChain, Stored
<1>12. \A t \in Stored : /\ rows'[t].user = rows[t].user
                         /\ rows'[t].dev = rows[t].dev
                         /\ rows'[t].sess = rows[t].sess
                         /\ (rows[t].status = "revoked" => rows'[t].status = "revoked")
  BY <1>2, <1>5, <1>7 DEF Stored
<1>13. PastGrows
  BY <1>3 DEF Rotate, IInv, TypeOK, Stored, Past, PastGrows, old
<1> DEFINE record == Holding(req[r], "cache", r)
<1>14. /\ record \in Request /\ record.pc = "cache" /\ record.tok = r
       /\ record.user = req[r].user /\ record.out = req[r].out
  BY CachingRecord
<1> HIDE DEF record
<1> QED BY <1>1, <1>2, <1>4, <1>7, <1>8, <1>9, <1>10, <1>11, <1>12, <1>13, <1>14, NewRowStep
        DEF record

LEMMA HeldStored ==
  ASSUME IInv
  PROVE  Held \subseteq Stored
BY DEF IInv, RequestOK, Held, Granted

LEMMA RefreshStep ==
  ASSUME IInv, NEW r \in Requests, Refresh(r)
  PROVE  IInv'
<1>1. r \notin Stored
  BY DEF Refresh, Arrives, IInv, RequestOK
<1>2. "refresh" \in Ops /\ UNCHANGED <<rows, replica, redisVars, past>>
  BY DEF Refresh, Arrives
<1>3. PICK t \in Held, d \in Devices :
        LET row == Read(t)
            refresh == Started("refresh", row.user, d, t)
        IN \/ \E o \in {"refused", "concurrent"} : Answer(r, o)
           \/ /\ row.status # "absent" \/ row.next # None
              /\ \/ row.grace /\ Enter(r, Second(refresh, "grace", row.next))
                 \/ \E o \in {"security", "hijack"} :
                      Enter(r, RevokingAll(refresh, "none", o))
                 \/ SameDevice(row, d) /\ Enter(r, At(refresh, "rotate"))
  BY DEF Refresh
<1>4. t \in Stored /\ t \in Requests /\ rows[t].user \in Users
      /\ t \in OwnedBy(rows[t].user)
  BY HeldStored DEF IInv, RowsOK, Stored, OwnedBy
<1> PICK row : row = Read(t)
  OBVIOUS
<1>5. ASSUME NEW o \in {"refused", "concurrent"}, Answer(r, o) PROVE IInv'
  BY <1>2, <1>5, AnsweredOK, QuietStep DEF Answer, Outcomes
<1>6. ASSUME row.status # "absent" \/ row.next # None,
             LET refresh == Started("refresh", row.user, d, t)
             IN \/ row.grace /\ Enter(r, Second(refresh, "grace", row.next))
                \/ \E o \in {"security", "hijack"} :
                     Enter(r, RevokingAll(refresh, "none", o))
                \/ SameDevice(row, d) /\ Enter(r, At(refresh, "rotate"))
      PROVE  IInv'
  <2>1. row.user = rows[t].user /\ row.dev = rows[t].dev
    BY <1>4, <1>6, ReadRow, NoRowFields
  <2> DEFINE refresh == Started("refresh", row.user, d, t)
  <2>2. refresh \in Request /\ refresh.user = rows[t].user /\ refresh.dev = d
        /\ refresh.tok = t /\ refresh.out = "none"
    BY <1>2, <1>4, <2>1, StartedRecord
  <2> HIDE DEF refresh
  <2>3. CASE row.grace /\ Enter(r, Second(refresh, "grace", row.next))
    <3> DEFINE n == row.next
    <3>1. n \in Stored /\ n \in Requests /\ rows[n].sess = rows[t].sess
      BY <1>4, <2>3, ReadRow DEF Stored
    <3>2. n \in OwnedBy(rows[t].user)
      BY <1>4, <3>1 DEF IInv, SessionBoundToDevice, OwnedBy
    <3> HIDE DEF n
    <3>3. LET new == Second(refresh, "grace", n)
          IN /\ new \in Request /\ new.pc = "grace" /\ new.arg = n /\ new.out = "none"
             /\ new.user = rows[t].user /\ new.tok = t
      <4>1. "grace" \in Steps
        BY DEF Steps
      <4> QED BY <2>2, <3>1, <4>1, SecondRecord
    <3>4. RequestOK(r, Second(refresh, "grace", n))
      BY <1>1, <1>4, <3>2, <3>3 DEF RequestOK
    <3> QED BY <1>2, <2>3, <3>3, <3>4, QuietStep DEF n
  <2>4. ASSUME NEW o \in {"security", "hijack"}, Enter(r, RevokingAll(refresh, "none", o))
        PROVE  IInv'
    <3>1. LET new == RevokingAll(refresh, "none", o)
          IN /\ new \in Request /\ new.pc = "revokeAll" /\ new.out = o
             /\ new.user = rows[t].user
      BY <2>2, RevokingAllRecord DEF Reasons, Outcomes
    <3>2. RequestOK(r, RevokingAll(refresh, "none", o))
      BY <1>1, <1>4, <3>1 DEF RequestOK, TokenSteps
    <3> QED BY <1>2, <2>4, <3>1, <3>2, QuietStep
  <2>5. CASE SameDevice(row, d) /\ Enter(r, At(refresh, "rotate"))
    <3>1. LET new == At(refresh, "rotate")
          IN /\ new \in Request /\ new.pc = "rotate" /\ new.out = "none"
             /\ new.user = rows[t].user /\ new.dev = d /\ new.tok = t
      BY <2>2, AtRecord DEF Steps
    <3>2. RequestOK(r, At(refresh, "rotate"))
      BY <1>1, <1>4, <2>1, <2>5, <3>1 DEF RequestOK, SameDevice
    <3> QED BY <1>2, <2>5, <3>1, <3>2, QuietStep
  <2> QED BY <1>6, <2>3, <2>4, <2>5 DEF refresh
<1> QED BY <1>3, <1>5, <1>6

LEMMA GraceStep ==
  ASSUME IInv, NEW r \in Requests, Grace(r)
  PROVE  IInv'
<1>1. req[r].pc = "grace" /\ UNCHANGED <<rows, replica, redisVars, past>>
  BY DEF Grace
<1>2. CASE Grant(r, req[r].arg)
  <2>1. req[r].arg \in Stored
    BY <1>1, Working DEF RequestOK, OwnedBy
  <2> QED BY <1>1, <1>2, <2>1, GrantedOK, QuietStep DEF Grant
<1>3. CASE Enter(r, RevokingAll(req[r], "none", "security"))
  <2> DEFINE new == RevokingAll(req[r], "none", "security")
  <2>1. /\ new \in Request /\ new.pc = "revokeAll" /\ new.out = "security"
        /\ new.user = req[r].user
    BY <1>1, Working, RevokingAllRecord DEF Reasons, Outcomes
  <2>2. RequestOK(r, new)
    BY <1>1, <2>1, Working DEF RequestOK, TokenSteps
  <2> QED BY <1>1, <1>3, <2>1, <2>2, QuietStep
<1> QED BY <1>2, <1>3 DEF Grace

LEMMA RevokeAllStep ==
  ASSUME IInv, NEW r \in Requests, RevokeAll(r)
  PROVE  IInv'
<1>1. /\ req[r].pc = "revokeAll" /\ UNCHANGED <<replica, redisVars, past>>
      /\ RevokeWhere({t \in Requests : rows[t].user = req[r].user}, req[r].why)
      /\ Goto(r, "members")
  BY DEF RevokeAll
<1>2. req[r].why \in Reasons
  BY <1>1, Working DEF Request
<1>3. At(req[r], "members") \in Request /\ RequestOK(r, At(req[r], "members"))
  BY <1>1, AtOK DEF PlainSteps, TokenSteps
<1> QED BY <1>1, <1>2, <1>3, RevokeStep DEF Goto

LEMMA RevokeOthersStep ==
  ASSUME IInv, NEW r \in Requests, RevokeOthers(r)
  PROVE  IInv'
<1>1. /\ req[r].pc = "revokeOthers" /\ UNCHANGED <<replica, redisVars, past>>
      /\ RevokeWhere(OtherSessions(req[r].user, req[r].arg), "REVOKED_BY_USER")
      /\ Goto(r, "members")
  BY DEF RevokeOthers
<1>2. At(req[r], "members") \in Request /\ RequestOK(r, At(req[r], "members"))
  BY <1>1, AtOK DEF PlainSteps, TokenSteps
<1> QED BY <1>1, <1>2, RevokeStep DEF Goto, Reasons

LEMMA RevokeOneStep ==
  ASSUME IInv, NEW r \in Requests, RevokeOne(r)
  PROVE  IInv'
<1>1. /\ req[r].pc = "revokeOne" /\ UNCHANGED <<replica, redisVars, past>>
      /\ RevokeWhere({req[r].tok}, "none") /\ Goto(r, "owner")
  BY DEF RevokeOne
<1>2. At(req[r], "owner") \in Request /\ RequestOK(r, At(req[r], "owner"))
  BY <1>1, Working, AtOK DEF PlainSteps, TokenSteps
<1> QED BY <1>1, <1>2, RevokeStep DEF Goto, Reasons

LEMMA OwnerStep ==
  ASSUME IInv, NEW r \in Requests, Owner(r)
  PROVE  IInv'
<1>1. req[r].pc = "owner" /\ UNCHANGED <<rows, replica, redisVars, past>>
  BY DEF Owner
<1>2. PICK S \in SUBSET {req[r].tok} : Enter(r, Through(req[r], "purgeOne", S))
  BY DEF Owner
<1>3. /\ req[r] \in Request /\ r \notin Stored /\ req[r].user \in Users
      /\ req[r].tok \in OwnedBy(req[r].user) /\ req[r].out # "granted"
  BY <1>1, Working DEF TokenSteps
<1>4. S \in SUBSET Requests /\ "purgeOne" \in Steps
  BY <1>3 DEF OwnedBy, Stored, Steps
<1> DEFINE new == Through(req[r], "purgeOne", S)
<1>5. /\ new \in Request /\ new.pc = "purgeOne" /\ new.out = req[r].out
      /\ new.user = req[r].user /\ new.tok = req[r].tok
  BY <1>3, <1>4, ThroughRecord
<1>6. RequestOK(r, new)
  BY <1>3, <1>5 DEF RequestOK, TokenSteps
<1> QED BY <1>1, <1>2, <1>5, <1>6, QuietStep

LEMMA MembersStep ==
  ASSUME IInv, NEW r \in Requests, Members(r)
  PROVE  IInv'
<1> DEFINE ids == userSet[req[r].user]
           S == IF req[r].op = "others" THEN ids \ {req[r].arg} ELSE ids
<1>1. /\ req[r].pc = "members" /\ UNCHANGED <<rows, replica, redisVars, past>>
      /\ Finish(r) \/ Enter(r, Through(req[r], "purge", S))
  BY DEF Members
<1>2. ids \subseteq OwnedBy(req[r].user)
  BY <1>1, Working DEF IInv, CacheOK
<1>3. S \subseteq OwnedBy(req[r].user) /\ S \in SUBSET Requests
  BY <1>2 DEF OwnedBy, Stored
<1> HIDE DEF S, ids
<1>4. CASE Finish(r)
  BY <1>1, <1>4, FinishOK, QuietStep
<1>5. CASE Enter(r, Through(req[r], "purge", S))
  <2>1. "purge" \in Steps /\ req[r] \in Request
    BY <1>1, Working DEF Steps
  <2>2. LET new == Through(req[r], "purge", S)
        IN /\ new \in Request /\ new.pc = "purge" /\ new.todo = S
           /\ new.out = req[r].out /\ new.user = req[r].user
    BY <1>3, <2>1, ThroughRecord
  <2>3. RequestOK(r, Through(req[r], "purge", S))
    BY <1>1, <1>3, <2>2, Working DEF RequestOK, TokenSteps
  <2> QED BY <1>1, <1>5, <2>2, <2>3, QuietStep
<1> QED BY <1>1, <1>4, <1>5

\* Deleting keys and index entries breaks nothing said of Redis.
LEMMA ForgetStep ==
  ASSUME IInv, NEW r \in Requests, NEW record \in Request, Enter(r, record),
         RequestOK(r, record), NEW S, Forget(S), UNCHANGED <<rows, replica, blocked>>,
         PastGrows, userSet' \in [Users -> SUBSET Requests],
         \A u \in Users : userSet'[u] \subseteq userSet[u]
  PROVE  IInv'
<1>1. cache' \in [Requests -> {"none", "active", "revoked"}]
  BY DEF IInv, TypeOK, Forget
<1>2. CacheOK'
  <2>1. \A u : OwnedBy(u)' = OwnedBy(u)
    BY DEF OwnedBy, Stored
  <2> QED BY <2>1 DEF IInv, CacheOK, Forget, PastGrows
<1> QED BY <1>1, <1>2, RedisStep

LEMMA PurgeStep ==
  ASSUME IInv, NEW r \in Requests, Purge(r)
  PROVE  IInv'
<1>1. /\ req[r].pc = "purge" /\ UNCHANGED <<rows, replica, blocked>> /\ Finish(r)
      /\ Forget(req[r].todo)
      /\ userSet' = [userSet EXCEPT ![req[r].user] =
                       IF req[r].op = "others" THEN @ \ req[r].todo ELSE {}]
  BY DEF Purge
<1>2. userSet' \in [Users -> SUBSET Requests]
      /\ \A u \in Users : userSet'[u] \subseteq userSet[u]
  BY <1>1 DEF IInv, TypeOK
<1>3. PICK record \in Request : Enter(r, record) /\ RequestOK(r, record)
  BY <1>1, FinishOK
<1>4. PastGrows
  <2>1. req[r].user \in Users
    BY <1>1, Working
  <2>2. userSet[req[r].user] \subseteq Requests
    BY <2>1 DEF IInv, TypeOK
  <2> QED BY <2>2, LosesGrows DEF Purge
<1> QED BY <1>1, <1>2, <1>3, <1>4, ForgetStep

LEMMA PurgeOneStep ==
  ASSUME IInv, NEW r \in Requests, PurgeOne(r)
  PROVE  IInv'
<1>1. /\ req[r].pc = "purgeOne" /\ UNCHANGED <<rows, replica, blocked, past>>
      /\ Answer(r, req[r].out) /\ Forget({req[r].tok})
      /\ userSet' = [userSet EXCEPT ![req[r].user] = @ \ req[r].todo]
  BY DEF PurgeOne
<1>2. userSet' \in [Users -> SUBSET Requests]
      /\ \A u \in Users : userSet'[u] \subseteq userSet[u]
  BY <1>1 DEF IInv, TypeOK
<1>3. Answered(req[r].out) \in Request /\ RequestOK(r, Answered(req[r].out))
  BY <1>1, Working, AnsweredOK
<1> QED BY <1>1, <1>2, <1>3, SamePast, ForgetStep DEF Answer

LEMMA BlocklistStep ==
  ASSUME IInv, NEW r \in Requests, Blocklist(r)
  PROVE  IInv'
<1>1. /\ req[r].pc = "blocklist" /\ UNCHANGED <<rows, replica, cache, userSet, past>>
      /\ Answer(r, req[r].out) /\ blocked' = blocked \cup ({req[r].jwt} \ {None})
  BY DEF Blocklist
<1>2. blocked' \subseteq Requests
  BY <1>1, Working DEF IInv, TypeOK, Request
<1>3. Answered(req[r].out) \in Request /\ RequestOK(r, Answered(req[r].out))
  BY <1>1, Working, AnsweredOK
<1> QED BY <1>1, <1>2, <1>3, SamePast, RequestStep DEF Answer

LEMMA LogoutStep ==
  ASSUME IInv, NEW r \in Requests, Logout(r)
  PROVE  IInv'
<1>1. PICK t \in Held :
        /\ RevokeWhere({t}, "none")
        /\ Enter(r, Answering(Started("logout", rows[t].user, None, t),
                              "owner", "served"))
  BY DEF Logout
<1>2. r \notin Stored /\ "logout" \in Ops /\ UNCHANGED <<replica, redisVars, past>>
  BY DEF Logout, Arrives, IInv, RequestOK
<1>3. t \in Stored /\ t \in Requests /\ rows[t].user \in Users
      /\ t \in OwnedBy(rows[t].user)
  BY HeldStored DEF IInv, RowsOK, Stored, OwnedBy
<1> DEFINE started == Started("logout", rows[t].user, None, t)
           new == Answering(started, "owner", "served")
<1>4. started \in Request /\ started.user = rows[t].user /\ started.tok = t
  BY <1>2, <1>3, StartedRecord
<1>5. "owner" \in Steps /\ "served" \in Outcomes
  BY DEF Steps, Outcomes
<1> HIDE DEF started
<1>6. new \in Request /\ new.pc = "owner" /\ new.out = "served"
      /\ new.user = rows[t].user /\ new.tok = t
  BY <1>4, <1>5, AnsweringRecord
<1>7. RequestOK(r, new)
  BY <1>2, <1>3, <1>6 DEF RequestOK
<1> QED BY <1>1, <1>2, <1>6, <1>7, RevokeStep DEF Reasons, started

LEMMA AuthenticateStep ==
  ASSUME IInv, NEW r \in Requests, Authenticate(r)
  PROVE  IInv'
<1>1. PICK op \in {"status", "password", "others"}, g \in Granted, d \in Devices,
           c \in Requests \cup {None} :
        LET started == Started(op, rows[req[g].tok].user, d, req[g].tok)
        IN /\ Arrives(r, op)
           /\ \/ Answer(r, "refused")
              \/ Enter(r, Second(Presenting(started, g), "lookup", c))
  <2>1. Held \subseteq Requests
    BY HeldStored DEF Stored
  <2> QED BY <2>1 DEF Authenticate
<1>2. op \in Ops /\ r \notin Stored /\ g \in Requests
  BY <1>1 DEF Arrives, IInv, RequestOK, Granted
<1>3. UNCHANGED <<rows, replica, redisVars, past>>
  BY DEF Authenticate
<1> DEFINE t == req[g].tok
<1>4. t \in Stored /\ t \in Requests /\ rows[t].user \in Users
      /\ t \in OwnedBy(rows[t].user)
  BY HeldStored DEF IInv, RowsOK, Stored, OwnedBy, Held
<1> DEFINE started == Started(op, rows[t].user, d, t)
           new == Second(Presenting(started, g), "lookup", c)
<1>5. started \in Request /\ started.user = rows[t].user /\ started.tok = t
      /\ started.out = "none"
  BY <1>2, <1>4, StartedRecord
<1>6. "lookup" \in Steps
  BY DEF Steps
<1> HIDE DEF started
<1>7. /\ Presenting(started, g) \in Request
      /\ Presenting(started, g).user = rows[t].user
      /\ Presenting(started, g).tok = t /\ Presenting(started, g).out = "none"
  BY <1>2, <1>5, PresentingRecord
<1>8. new \in Request /\ new.pc = "lookup" /\ new.out = "none"
      /\ new.user = rows[t].user /\ new.tok = t
  BY <1>6, <1>7, SecondRecord
<1>9. RequestOK(r, new)
  BY <1>2, <1>4, <1>8 DEF RequestOK
<1>10. CASE Answer(r, "refused")
  BY <1>3, <1>10, AnsweredOK, QuietStep DEF Answer, Outcomes
<1>11. CASE Enter(r, new)
  BY <1>3, <1>8, <1>9, <1>11, QuietStep
<1> QED BY <1>1, <1>10, <1>11 DEF started

LEMMA LookupStep ==
  ASSUME IInv, NEW r \in Requests, Lookup(r)
  PROVE  IInv'
<1>1. req[r].pc = "lookup" /\ UNCHANGED <<rows, replica, redisVars, past>>
  BY DEF Lookup
<1>2. CASE Answer(r, "refused")
  BY <1>1, <1>2, AnsweredOK, QuietStep DEF Answer, Outcomes
<1>3. ASSUME NEW p \in {"verdict", "fallback"}, Goto(r, p) PROVE IInv'
  <2>1. At(req[r], p) \in Request /\ RequestOK(r, At(req[r], p))
    BY <1>1, Working, AtOK DEF PlainSteps, TokenSteps
  <2> QED BY <1>1, <1>3, <2>1, QuietStep DEF Goto
<1> QED BY <1>2, <1>3 DEF Lookup

LEMMA FallbackStep ==
  ASSUME IInv, NEW r \in Requests, Fallback(r)
  PROVE  IInv'
<1> DEFINE t == req[r].tok
<1>1. /\ req[r].pc = "fallback" /\ UNCHANGED <<rows, replica, cache, userSet>>
      /\ blocked' \subseteq Requests
  BY DEF Fallback, redisVars, IInv, TypeOK
<1>2. t \in Stored /\ t \in Requests /\ t \in OwnedBy(req[r].user)
  BY <1>1, Working DEF OwnedBy, Stored, TokenSteps
<1>3. PastGrows /\ (Read(t).status = "absent" => t \in past'.missed)
  BY <1>2 DEF Fallback, IInv, TypeOK, Past, PastGrows
<1>4. CASE Goto(r, "recache")
  <2>1. At(req[r], "recache") \in Request /\ RequestOK(r, At(req[r], "recache"))
    BY <1>1, Working, AtOK DEF PlainSteps, TokenSteps
  <2> QED BY <1>1, <1>3, <1>4, <2>1, RequestStep DEF Goto
<1>5. CASE Read(t).status # "live" /\ Goto(r, "negative")
  <2> DEFINE new == At(req[r], "negative")
  <2>1. rows[t].status = "revoked" \/ t \in past'.missed
    BY <1>2, <1>3, <1>5, ReadRow DEF Row
  <2>2. "negative" \in Steps /\ req[r] \in Request
    BY <1>1, Working DEF Steps
  <2>3. /\ new \in Request /\ new.pc = "negative" /\ new.out = req[r].out
        /\ new.user = req[r].user /\ new.tok = t
    BY <2>2, AtRecord
  <2>4. /\ r \notin Stored /\ new.user \in Users /\ new.out # "granted"
        /\ new.tok \in OwnedBy(new.user)
    BY <1>1, <1>2, <2>3, Working
  <2>5. rows[t].status = "revoked" => RequestOK(r, new)
    BY <2>3, <2>4 DEF RequestOK
  <2> HIDE DEF new
  <2>6. Enter(r, new)
    BY <1>5 DEF Goto, new
  <2>7. RequestOK(r, new) \/ new.tok \in past'.missed
    BY <2>1, <2>3, <2>5
  <2> QED BY <1>1, <1>3, <2>3, <2>4, <2>6, <2>7, RequestStep
<1> QED BY <1>4, <1>5 DEF Fallback

LEMMA NegativeStep ==
  ASSUME IInv, NEW r \in Requests, Negative(r)
  PROVE  IInv'
<1>1. /\ req[r].pc = "negative" /\ UNCHANGED <<rows, replica, userSet, blocked, past>>
      /\ Answer(r, "refused") /\ cache' = [cache EXCEPT ![req[r].tok] = "revoked"]
  BY DEF Negative
<1>2. rows[req[r].tok].status = "revoked" \/ req[r].tok \in past.missed
  BY <1>1, Working DEF RequestOK
<1>3. cache' \in [Requests -> {"none", "active", "revoked"}]
      /\ userSet' \in [Users -> SUBSET Requests]
  BY <1>1 DEF IInv, TypeOK
<1>4. CacheOK'
  <2>1. \A u : OwnedBy(u)' = OwnedBy(u)
    BY <1>1 DEF OwnedBy, Stored
  <2> QED BY <1>1, <1>2, <2>1 DEF IInv, TypeOK, CacheOK
<1>5. Answered("refused") \in Request /\ RequestOK(r, Answered("refused"))
  BY AnsweredOK DEF Outcomes
<1> QED BY <1>1, <1>3, <1>4, <1>5, SamePast, RedisStep DEF Answer

LEMMA VerdictStep ==
  ASSUME IInv, NEW r \in Requests, Verdict(r)
  PROVE  IInv'
<1>1. /\ req[r].pc = "verdict" /\ UNCHANGED <<rows, replica, redisVars, past>>
      /\ \/ Enter(r, Answering(req[r], "revokeOne", "refused"))
         \/ Answer(r, "served")
         \/ Enter(r, RevokingAll(req[r], "none", "served"))
         \/ Enter(r, Answering(req[r], "revokeOthers", "served"))
  BY DEF Verdict
<1>2. req[r] \in Request /\ r \notin Stored /\ req[r].user \in Users
      /\ req[r].tok \in OwnedBy(req[r].user)
  BY <1>1, Working DEF TokenSteps
<1>3. {"refused", "served"} \subseteq Outcomes /\ {"revokeOne", "revokeOthers"} \subseteq Steps
      /\ "none" \in Reasons
  BY DEF Outcomes, Steps, Reasons
<1>4. CASE Answer(r, "served")
  BY <1>1, <1>3, <1>4, AnsweredOK, QuietStep DEF Answer
<1>5. CASE Enter(r, RevokingAll(req[r], "none", "served"))
  <2>1. LET new == RevokingAll(req[r], "none", "served")
        IN new \in Request /\ new.pc = "revokeAll" /\ new.out = "served"
           /\ new.user = req[r].user
    BY <1>2, <1>3, RevokingAllRecord
  <2>2. RequestOK(r, RevokingAll(req[r], "none", "served"))
    BY <1>2, <2>1 DEF RequestOK, TokenSteps
  <2> QED BY <1>1, <1>5, <2>1, <2>2, QuietStep
<1>6. ASSUME NEW p \in {"revokeOne", "revokeOthers"}, NEW o \in {"refused", "served"},
             Enter(r, Answering(req[r], p, o))
      PROVE  IInv'
  <2>1. LET new == Answering(req[r], p, o)
        IN new \in Request /\ new.pc = p /\ new.out = o
           /\ new.user = req[r].user /\ new.tok = req[r].tok
    BY <1>2, <1>3, AnsweringRecord
  <2>2. RequestOK(r, Answering(req[r], p, o))
    BY <1>2, <2>1 DEF RequestOK
  <2> QED BY <1>1, <1>6, <2>1, <2>2, QuietStep
<1> QED BY <1>1, <1>4, <1>5, <1>6

LEMMA AbortStep ==
  ASSUME IInv, NEW r \in Requests, Abort(r)
  PROVE  IInv'
<1>1. PICK o \in {"served", "error"} : Answer(r, o)
  BY DEF Abort
<1>2. UNCHANGED <<rows, replica, cache, userSet>> /\ blocked' \subseteq Requests
  BY DEF Abort, redisVars, IInv, TypeOK
<1>3. PastGrows
  BY LosesGrows DEF Abort, Lingering
<1>4. Answered(o) \in Request /\ RequestOK(r, Answered(o))
  BY AnsweredOK DEF Outcomes
<1> QED BY <1>1, <1>2, <1>3, <1>4, RequestStep DEF Answer

(***************************************************************************)
(* The steps of time, of the replica and of Redis.                         *)
(***************************************************************************)
\* The grace period of a row, or of its copy, is over.
LEMMA GraceEndsRows ==
  ASSUME IInv, GraceEnds
  PROVE  /\ rows' \in [Requests -> Row] /\ replica' \in [Requests -> Row]
         /\ \A x \in Requests :
              /\ rows'[x].status = rows[x].status
              /\ rows'[x].user = rows[x].user
              /\ rows'[x].dev = rows[x].dev
              /\ rows'[x].sess = rows[x].sess
              /\ rows'[x].next = rows[x].next
              /\ rows'[x].reason = rows[x].reason
              /\ rows'[x].grace => rows[x].grace
              /\ rows[x] = NoRow => rows'[x] = NoRow
              /\ \/ replica'[x] = replica[x]
                 \/ replica'[x] = GraceOver(replica[x])
<1>1. PICK t \in Requests : /\ replica' = [replica EXCEPT ![t] = GraceOver(@)]
                            /\ \/ rows' = rows
                               \/ /\ rows[t].grace
                                  /\ rows' = [rows EXCEPT ![t] = GraceOver(@)]
  BY DEF GraceEnds
<1>2. /\ rows \in [Requests -> Row] /\ replica \in [Requests -> Row]
      /\ \A x \in Requests : rows[x] \in Row /\ replica[x] \in Row
  BY DEF IInv, TypeOK
<1>3. rows' \in [Requests -> Row] /\ replica' \in [Requests -> Row]
  BY <1>1, <1>2, GraceOverFields
<1>4. \A x \in Requests : \/ rows'[x] = rows[x]
                          \/ rows[x].grace /\ rows'[x] = GraceOver(rows[x])
  BY <1>1, <1>2
<1>5. \A x \in Requests : replica'[x] = replica[x] \/ replica'[x] = GraceOver(replica[x])
  BY <1>1, <1>2
<1>6. ASSUME NEW x \in Requests
      PROVE  /\ rows'[x].status = rows[x].status
             /\ rows'[x].user = rows[x].user
             /\ rows'[x].dev = rows[x].dev
             /\ rows'[x].sess = rows[x].sess
             /\ rows'[x].next = rows[x].next
             /\ rows'[x].reason = rows[x].reason
             /\ rows'[x].grace => rows[x].grace
             /\ rows[x] = NoRow => rows'[x] = NoRow
  <2>1. CASE rows'[x] = rows[x]
    BY <2>1
  <2>2. CASE rows[x].grace /\ rows'[x] = GraceOver(rows[x])
    BY <1>2, <2>2, GraceOverFields, NoRowFields
  <2> QED BY <1>4, <2>1, <2>2
<1> QED BY <1>3, <1>5, <1>6

LEMMA GraceEndsStep ==
  ASSUME IInv, GraceEnds
  PROVE  IInv'
<1>1. UNCHANGED <<cache, userSet, blocked, req, past>>
  BY DEF GraceEnds, redisVars
<1>2. Stored' = Stored /\ \A u : OwnedBy(u)' = OwnedBy(u)
  BY GraceEndsRows DEF Stored, OwnedBy
<1>3. TypeOK'
  BY <1>1, GraceEndsRows DEF IInv, TypeOK
<1>4. RowsOK'
  BY <1>2, GraceEndsRows DEF IInv, RowsOK, Stored
<1>5. ReplicaOK'
  <2>1. SUFFICES ASSUME NEW t \in Requests, replica'[t] # NoRow
                 PROVE  /\ t \in Stored' /\ replica'[t].status # "absent"
                        /\ replica'[t].user = rows'[t].user
                        /\ replica'[t].dev = rows'[t].dev
                        /\ replica'[t].sess = rows'[t].sess
                        /\ replica'[t].status = "revoked" => rows'[t].status = "revoked"
                        /\ replica'[t].grace => replica'[t].next # None
                        /\ replica'[t].next # None =>
                             /\ replica'[t].status = "revoked"
                             /\ replica'[t].next \in Stored'
                             /\ rows'[replica'[t].next].sess = rows'[t].sess
    BY DEF ReplicaOK
  <2>2. replica[t] \in Row
    BY DEF IInv, TypeOK
  <2>3. replica[t] # NoRow
    BY <2>1, GraceOverNoRow, GraceEndsRows
  <2>4. /\ t \in Stored /\ replica[t].status # "absent"
        /\ replica[t].user = rows[t].user
        /\ replica[t].dev = rows[t].dev
        /\ replica[t].sess = rows[t].sess
        /\ replica[t].status = "revoked" => rows[t].status = "revoked"
        /\ replica[t].grace => replica[t].next # None
        /\ replica[t].next # None =>
             /\ replica[t].status = "revoked"
             /\ replica[t].next \in Stored
             /\ rows[replica[t].next].sess = rows[t].sess
    BY <2>3 DEF IInv, ReplicaOK
  <2>5. /\ replica'[t].status = replica[t].status /\ replica'[t].user = replica[t].user
        /\ replica'[t].dev = replica[t].dev /\ replica'[t].sess = replica[t].sess
        /\ replica'[t].next = replica[t].next
        /\ replica'[t].grace => replica[t].grace
    <3>1. replica'[t] = replica[t] \/ replica'[t] = GraceOver(replica[t])
      BY GraceEndsRows
    <3>2. CASE replica'[t] = replica[t]
      BY <3>2
    <3>3. CASE replica'[t] = GraceOver(replica[t])
      BY <2>2, <3>3, GraceOverFields
    <3> QED BY <3>1, <3>2, <3>3
  <2>6. Stored \subseteq Requests
    BY DEF Stored
  <2> QED BY <1>2, <2>4, <2>5, <2>6, GraceEndsRows
<1>6. \A x \in Requests : RequestOK(x, req[x])'
  <2>1. SUFFICES ASSUME NEW x \in Requests, NEW q, q = req[x], q = req'[x], RequestOK(x, q)
                 PROVE  RequestOK(x, req[x])'
    BY <1>1 DEF IInv
  <2>2. q.pc \in TokenSteps => q.tok \in Requests
    BY <2>1 DEF RequestOK, OwnedBy, Stored
  <2> QED BY <1>1, <1>2, <2>1, <2>2, GraceEndsRows DEF RequestOK, TokenSteps
<1>7. CacheOK' /\ SessionBoundToDevice' /\ ReplacementChain'
  BY <1>1, <1>2, GraceEndsRows
     DEF IInv, CacheOK, SessionBoundToDevice, ReplacementChain, Stored
<1> QED BY <1>3, <1>4, <1>5, <1>6, <1>7 DEF IInv

LEMMA ReplicateStep ==
  ASSUME IInv, Replicate
  PROVE  IInv'
<1>1. UNCHANGED <<rows, cache, userSet, blocked, req, past>> /\ replica' = rows
  BY DEF Replicate, redisVars
<1>2. Stored' = Stored /\ \A u : OwnedBy(u)' = OwnedBy(u)
  BY <1>1 DEF Stored, OwnedBy
<1>3. TypeOK'
  BY <1>1 DEF IInv, TypeOK
<1>4. ReplicaOK'
  BY <1>1, <1>2 DEF IInv, RowsOK, ReplicaOK, Stored
<1>5. \A x \in Requests : RequestOK(x, req[x])'
  BY <1>1, <1>2 DEF IInv, RequestOK
<1>6. RowsOK' /\ CacheOK' /\ SessionBoundToDevice' /\ ReplacementChain'
  BY <1>1, <1>2 DEF IInv, RowsOK, CacheOK, SessionBoundToDevice, ReplacementChain
<1> QED BY <1>3, <1>4, <1>5, <1>6 DEF IInv

\* Forgetting keys, all of them or negative ones, breaks nothing.
LEMMA RedisForgetsStep ==
  ASSUME IInv, NegativeExpires \/ RedisRestart
  PROVE  IInv'
<1>1. UNCHANGED <<rows, replica, req, past>>
  BY DEF NegativeExpires, RedisRestart
<1>2. TypeOK'
  BY <1>1 DEF IInv, TypeOK, NegativeExpires, RedisRestart
<1>3. Stored' = Stored /\ \A u : OwnedBy(u)' = OwnedBy(u)
  BY <1>1 DEF Stored, OwnedBy
<1>4. \A t \in Requests : cache'[t] = "revoked" => cache[t] = "revoked"
  BY DEF IInv, TypeOK, NegativeExpires, RedisRestart
<1>5. \A u \in Users : userSet'[u] \subseteq userSet[u]
  BY DEF NegativeExpires, RedisRestart
<1>6. CacheOK'
  BY <1>1, <1>3, <1>4, <1>5 DEF IInv, CacheOK
<1>7. \A x \in Requests : RequestOK(x, req[x])'
  BY <1>1, <1>3 DEF IInv, RequestOK
<1>8. RowsOK' /\ ReplicaOK' /\ SessionBoundToDevice' /\ ReplacementChain'
  BY <1>1, <1>3 DEF IInv, RowsOK, ReplicaOK, SessionBoundToDevice, ReplacementChain
<1> QED BY <1>2, <1>6, <1>7, <1>8 DEF IInv

LEMMA InitIInv == Init => IInv
<1> SUFFICES ASSUME Init PROVE IInv
  OBVIOUS
<1>1. \A t \in Requests : rows[t] = NoRow /\ replica[t] = NoRow
  BY DEF Init
<1>2. Stored = {}
  BY <1>1, NoRowFields DEF Stored
<1>3. TypeOK
  BY IdleRecord, NoRowFields DEF Init, TypeOK, Past, Nothing
<1>4. \A r \in Requests : RequestOK(r, req[r])
  BY <1>2, IdleRecord DEF Init, RequestOK, TokenSteps
<1>5. RowsOK /\ ReplicaOK /\ SessionBoundToDevice /\ ReplacementChain
  BY <1>1, <1>2 DEF RowsOK, ReplicaOK, SessionBoundToDevice, ReplacementChain
<1>6. CacheOK
  BY DEF Init, CacheOK
<1> QED BY <1>3, <1>4, <1>5, <1>6 DEF IInv

LEMMA StutterStep == ASSUME IInv, UNCHANGED vars PROVE IInv'
BY DEF vars, IInv, TypeOK, RowsOK, ReplicaOK, RequestOK, CacheOK,
       SessionBoundToDevice, ReplacementChain, Stored, OwnedBy

LEMMA NextStep == ASSUME IInv, [Next]_vars PROVE IInv'
<1>1. ASSUME NEW r \in Requests, Serve(r) PROVE IInv'
  BY <1>1, LoginStep, RevokeSameStep, InsertStep, CacheActionStep, RefreshStep,
     GraceStep, RotateStep, RevokeAllStep, RevokeOthersStep, MembersStep, PurgeStep,
     BlocklistStep, LogoutStep, RevokeOneStep, OwnerStep, PurgeOneStep, AuthenticateStep,
     LookupStep, FallbackStep, RecacheStep, NegativeStep, VerdictStep, AbortStep
  DEF Serve
<1> QED BY <1>1, GraceEndsStep, ReplicateStep, RedisForgetsStep, StutterStep DEF Next

(* The inductive invariant holds in every reachable state.                 *)
THEOREM InductiveInvariant == Spec => []IInv
<1>1. IInv /\ [Next]_vars => IInv'
  BY NextStep
<1> QED BY <1>1, InitIInv, PTL DEF Spec

(* Every variable keeps its type.                                          *)
THEOREM TypeInvariant == Spec => []TypeOK
<1>1. IInv => TypeOK
  BY DEF IInv
<1> QED BY <1>1, InductiveInvariant, PTL

(* Every token of a session belongs to one user and one device, however    *)
(* many logins, refreshes and revocations interleave.                      *)
THEOREM SessionsBoundToDevices == Spec => []SessionBoundToDevice
<1>1. IInv => SessionBoundToDevice
  BY DEF IInv
<1> QED BY <1>1, InductiveInvariant, PTL

(* replaced_by always links a revoked token to a stored one of its session, *)
(* and no token replaces two.                                              *)
THEOREM ReplacementChains == Spec => []ReplacementChain
<1>1. IInv => ReplacementChain
  BY DEF IInv
<1> QED BY <1>1, InductiveInvariant, PTL

(* A negatively cached token is revoked, although the row was read an       *)
(* arbitrary while before and on a replica that lags; the exception is a    *)
(* token that a look-up did not find on the replica.                        *)
THEOREM NegativeCacheIsSound == Spec => []NegativeCacheSound
<1>1. IInv => NegativeCacheSound
  BY DEF IInv, CacheOK, NegativeCacheSound
<1> QED BY <1>1, InductiveInvariant, PTL

(***************************************************************************)
(* Isolation: what a step leaves alone of user u.                          *)
(***************************************************************************)
Untouched(u) ==
  /\ \A t \in Stored : rows[t].user = u => rows'[t] = rows[t] /\ cache'[t] = cache[t]
  /\ userSet'[u] = userSet[u]

LEMMA RevocationIsolation ==
  ASSUME IInv, NEW S, NEW why \in Reasons, RevokeWhere(S, why), NEW u \in Users,
         \A t \in S \cap Stored : rows[t].user # u, UNCHANGED redisVars
  PROVE  Untouched(u)
<1>0. UNCHANGED <<cache, userSet>>
  BY DEF redisVars
<1>1. \A t \in Stored : rows[t].user = u => t \notin S /\ t \in Requests
  BY DEF Stored
<1> QED BY <1>0, <1>1, RevokeWhereRows DEF Untouched

\* A request past its arrival reaches only what belongs to its user.
LEMMA WorkIsolation ==
  ASSUME IInv, NEW r \in Requests, NEW u \in Users, u # req[r].user,
         \/ RevokeSame(r) \/ Insert(r) \/ Cache(r) \/ Rotate(r)
         \/ RevokeAll(r) \/ RevokeOthers(r) \/ Members(r) \/ Purge(r) \/ Blocklist(r)
         \/ RevokeOne(r) \/ Owner(r) \/ PurgeOne(r) \/ Recache(r) \/ Negative(r)
  PROVE  Untouched(u)
<1>1. /\ req[r].user \in Users
      /\ req[r].pc \in TokenSteps => req[r].tok \in OwnedBy(req[r].user)
      /\ req[r].pc = "purge" => req[r].todo \subseteq OwnedBy(req[r].user)
      /\ req[r].pc # "cache" => r \notin Stored
      /\ req[r] \in Request
  BY Working DEF RequestOK, RevokeSame, Insert, Cache, Rotate, RevokeAll, RevokeOthers, Members,
     Purge, Blocklist, RevokeOne, Owner, PurgeOne, Recache, Negative
<1>2. CASE UNCHANGED <<rows, cache, userSet>>
  BY <1>2 DEF Untouched
<1>3. CASE RevokeSame(r)
  BY <1>3, RevocationIsolation DEF RevokeSame, Reasons
<1>4. CASE Insert(r) \/ Rotate(r)
  <2>1. UNCHANGED <<cache, userSet>>
    BY <1>4 DEF Insert, Rotate, redisVars
  <2>2. ASSUME NEW t \in Stored, rows[t].user = u
        PROVE  rows'[t] = rows[t]
    <3>1. t # r /\ t \in Requests /\ (req[r].pc = "rotate" => t # req[r].tok)
      BY <1>1, <1>4, <2>2 DEF Stored, OwnedBy, TokenSteps, Insert, Rotate
    <3> QED BY <1>4, <3>1 DEF Insert, Rotate, IInv, TypeOK
  <2> QED BY <2>1, <2>2 DEF Untouched
<1>5. CASE Cache(r) \/ Recache(r)
  <2>1. /\ CacheSession(req[r].tok) /\ rows' = rows
        /\ req[r].tok \in OwnedBy(req[r].user)
    BY <1>1, <1>5 DEF Cache, Recache, TokenSteps
  <2> QED BY <2>1 DEF CacheSession, Untouched, OwnedBy, Stored, IInv, TypeOK
<1>6. CASE RevokeAll(r)
  BY <1>1, <1>6, RevocationIsolation DEF RevokeAll, Request
<1>7. CASE RevokeOthers(r)
  BY <1>7, RevocationIsolation DEF RevokeOthers, OtherSessions, Reasons
<1>8. CASE Purge(r)
  BY <1>1, <1>8 DEF Purge, Forget, Untouched, OwnedBy, Stored, IInv, TypeOK
<1>9. CASE RevokeOne(r)
  BY <1>1, <1>9, RevocationIsolation DEF RevokeOne, Reasons, TokenSteps, OwnedBy
<1>10. CASE PurgeOne(r)
  BY <1>1, <1>10 DEF PurgeOne, Forget, Untouched, OwnedBy, Stored, TokenSteps, IInv, TypeOK
<1>11. CASE Negative(r)
  BY <1>1, <1>11 DEF Negative, Untouched, OwnedBy, Stored, TokenSteps, IInv, TypeOK
<1> QED BY <1>2, <1>3, <1>4, <1>5, <1>6, <1>7, <1>8, <1>9, <1>10, <1>11
        DEF Members, Blocklist, Owner, redisVars

LEMMA LogoutIsolation ==
  ASSUME IInv, NEW r \in Requests, Logout(r), NEW u \in Users, u # req'[r].user
  PROVE  Untouched(u)
<1>1. PICK t \in Held :
        /\ RevokeWhere({t}, "none")
        /\ Enter(r, Answering(Started("logout", rows[t].user, None, t),
                              "owner", "served"))
  BY DEF Logout
<1> DEFINE new == Answering(Started("logout", rows[t].user, None, t), "owner", "served")
<1>2. new.user = rows[t].user
  BY DEF Answering, Started, Idle
<1>3. req'[r] = new
  BY <1>1 DEF Enter, IInv, TypeOK
<1> QED BY <1>1, <1>2, <1>3, RevocationIsolation DEF Logout, Reasons

LEMMA StepIsolation ==
  ASSUME IInv, [Next]_vars, NEW u \in Users, NEW r \in Requests,
         req'[r] # req[r], u \notin {req[r].user, req'[r].user}
  PROVE  Untouched(u)
<1>1. Serve(r)
  <2>1. PICK x \in Requests : Serve(x)
    BY DEF Next, vars, GraceEnds, NegativeExpires, Replicate, RedisRestart
  <2>2. \A y \in Requests : y # x => req'[y] = req[y]
    BY <2>1 DEF IInv, TypeOK, Serve, Login, RevokeSame, Insert, Cache, Refresh, Grace,
       Rotate, RevokeAll, RevokeOthers, Members, Purge, Blocklist, Logout, RevokeOne,
       Owner, PurgeOne, Authenticate, Lookup, Fallback, Recache, Negative, Verdict, Abort,
       Answer, Grant, Goto, Finish, Enter
  <2> QED BY <2>1, <2>2
<1>2. CASE UNCHANGED <<rows, cache, userSet>>
  BY <1>2 DEF Untouched
<1>3. CASE Logout(r)
  BY <1>3, LogoutIsolation
<1> QED BY <1>1, <1>2, <1>3, WorkIsolation
        DEF Serve, Login, Refresh, Grace, Authenticate, Lookup, Fallback, Verdict, Abort,
            redisVars

(* No step of a request made for one user changes a row, a cached session   *)
(* or the index of another user, whatever cookie or token came with it.     *)
THEOREM SessionsAreIsolated == Spec => SessionIsolation
<1>1. IInv /\ [Next]_vars =>
        [\A u \in Users :
           (\E r \in Requests : req'[r] # req[r] /\ u \notin {req[r].user, req'[r].user})
           => /\ \A t \in Stored : rows[t].user = u =>
                   rows'[t] = rows[t] /\ cache'[t] = cache[t]
              /\ userSet'[u] = userSet[u]]_vars
  BY StepIsolation DEF Untouched
<1> QED BY <1>1, InductiveInvariant, PTL DEF Spec, SessionIsolation

(***************************************************************************)
(* What every step of a request does to the rows.                          *)
(***************************************************************************)
\* What the two steps that store a token write.
LEMMA InsertWrites ==
  ASSUME IInv, NEW r \in Requests, Insert(r)
  PROVE  /\ r \notin Stored /\ req[r].user \in Users /\ req[r].dev \in Devices
         /\ req'[r].pc = "cache" /\ req'[r].tok = r
         /\ rows'[r].status = "live" /\ rows'[r].user = req[r].user
         /\ rows'[r].dev = req[r].dev /\ rows'[r].sess = r /\ rows'[r].next = None
         /\ \A t \in Requests \ {r} : rows'[t] = rows[t]
<1>1. req[r].pc = "insert" /\ req[r] \in Request
  BY DEF Insert, IInv, TypeOK
<1>2. r \notin Stored /\ req[r].user \in Users /\ req[r].dev \in Devices
  BY <1>1, Working DEF RequestOK
<1>3. req'[r].pc = "cache" /\ req'[r].tok = r
  BY <1>1 DEF Insert, IInv, TypeOK, Enter, Holding, Knowing, Request
<1> QED BY <1>2, <1>3, NewRowFields DEF Insert, IInv, TypeOK

\* The token a rotation replaces is stored and fits the request.
LEMMA RotateWrites ==
  ASSUME IInv, NEW r \in Requests, Rotate(r), NEW old, old = req[r].tok
  PROVE  /\ r \notin Stored /\ old \in Stored \ {r} /\ old \in Requests
         /\ req'[r].pc = "cache" /\ req'[r].tok = r
         /\ rows'[r].status = "live" /\ rows'[r].user = rows[old].user
         /\ rows'[r].dev = rows[old].dev /\ rows'[r].sess = rows[old].sess
         /\ rows'[r].next = None
         /\ rows'[old].status = "revoked" /\ rows'[old].user = rows[old].user
         /\ rows'[old].dev = rows[old].dev /\ rows'[old].sess = rows[old].sess
         /\ rows'[old].next = r
         /\ \A t \in Requests \ {r, old} : rows'[t] = rows[t]
<1>1. req[r].pc = "rotate" /\ req[r] \in Request
  BY DEF Rotate, IInv, TypeOK
<1>2. /\ r \notin Stored /\ old \in Stored /\ rows[old].user = req[r].user
      /\ rows[old].dev = req[r].dev
  BY <1>1, Working DEF RequestOK, TokenSteps, OwnedBy
<1>3. /\ rows[old].user \in Users /\ rows[old].dev \in Devices
      /\ rows[old].sess \in Requests /\ old # r /\ old \in Requests
  BY <1>2 DEF IInv, RowsOK, Stored
<1>4. req'[r].pc = "cache" /\ req'[r].tok = r
  BY <1>1 DEF Rotate, IInv, TypeOK, Enter, Holding, Request
<1> DEFINE new == NewRow(req[r].user, req[r].dev, rows[old].sess)
           was == Replaced(rows[old], r)
<1>5. /\ new.status = "live" /\ new.user = req[r].user
      /\ new.dev = req[r].dev /\ new.sess = rows[old].sess /\ new.next = None
  BY <1>2, <1>3, NewRowFields
<1>6. /\ was.status = "revoked" /\ was.user = rows[old].user
      /\ was.dev = rows[old].dev /\ was.sess = rows[old].sess /\ was.next = r
  BY <1>3, ReplacedFields DEF IInv, TypeOK
<1>7. rows' = [rows EXCEPT ![r] = new, ![old] = was]
  BY <1>3 DEF IInv, TypeOK, Rotate
<1> HIDE DEF new, was
<1>8. \A t \in Requests : rows'[t] = IF t = old THEN was ELSE IF t = r THEN new ELSE rows[t]
  BY <1>3, <1>7 DEF IInv, TypeOK
<1> QED BY <1>2, <1>3, <1>4, <1>5, <1>6, <1>8

LEMMA OthersWait ==
  ASSUME TypeOK, NEW r \in Requests, Serve(r)
  PROVE  \A x \in Requests \ {r} : req'[x] = req[x]
BY DEF TypeOK, Serve, Login, RevokeSame, Insert, Cache, Refresh, Grace,
   Rotate, RevokeAll, RevokeOthers, Members, Purge, Blocklist, Logout, RevokeOne,
   Owner, PurgeOne, Authenticate, Lookup, Fallback, Recache, Negative, Verdict, Abort,
   Answer, Grant, Goto, Finish, Enter

\* The steps that write no row, revoke rows, or add one.
LEMMA RowSteps ==
  ASSUME IInv, NEW r \in Requests, Serve(r)
  PROVE  \/ rows' = rows
         \/ \E S : \E why \in Reasons : RevokeWhere(S, why)
         \/ Insert(r) \/ Rotate(r)
<1>1. "none" \in Reasons /\ "REVOKED_BY_USER" \in Reasons /\ req[r].why \in Reasons
  BY DEF Reasons, IInv, TypeOK, Request
<1>2. RevokeSame(r) => \E S : RevokeWhere(S, "REVOKED_BY_USER")
  BY DEF RevokeSame
<1>3. RevokeAll(r) => \E S : RevokeWhere(S, req[r].why)
  BY DEF RevokeAll
<1>4. RevokeOthers(r) => \E S : RevokeWhere(S, "REVOKED_BY_USER")
  BY DEF RevokeOthers
<1>5. Logout(r) \/ RevokeOne(r) => \E S : RevokeWhere(S, "none")
  BY DEF Logout, RevokeOne
<1> QED BY <1>1, <1>2, <1>3, <1>4, <1>5
        DEF Serve, Login, Cache, Refresh, Grace, Members, Purge, Blocklist, Owner, PurgeOne,
            Authenticate, Lookup, Fallback, Recache, Negative, Verdict, Abort

\* A revocation ends rows, and brings none to life.
LEMMA RevokedRows ==
  ASSUME IInv, NEW S, NEW why \in Reasons, RevokeWhere(S, why)
  PROVE  /\ \A t \in Requests : rows'[t].status = "live" <=> rows[t].status = "live" /\ t \notin S
         /\ \A t \in S \cap Stored : rows'[t].reason = why
<1>1. \A t \in Requests : Revoked(rows[t], why).reason = why
  BY DEF Revoked, IInv, TypeOK, Row
<1> QED BY <1>1, RevokedFields DEF RevokeWhere, IInv, TypeOK, Stored

\* A stored row keeps its user, device and session, and does not come to life.
LEMMA StoredStays ==
  ASSUME IInv, NEW r \in Requests, Serve(r), NEW t \in Stored
  PROVE  /\ t \in Stored' /\ rows'[t].user = rows[t].user
         /\ rows'[t].dev = rows[t].dev /\ rows'[t].sess = rows[t].sess
         /\ rows'[t].status = "live" => rows[t].status = "live"
<1>1. t \in Requests
  BY DEF Stored
<1>2. CASE rows' = rows
  BY <1>2 DEF Stored
<1>3. CASE Insert(r)
  BY <1>1, <1>3, InsertWrites DEF Stored
<1>4. CASE Rotate(r)
  BY <1>1, <1>4, RotateWrites DEF Stored
<1>5. ASSUME NEW S, NEW why \in Reasons, RevokeWhere(S, why)
      PROVE  /\ Stored' = Stored /\ rows'[t].user = rows[t].user
             /\ rows'[t].dev = rows[t].dev /\ rows'[t].sess = rows[t].sess
             /\ rows'[t].status = "live" => rows[t].status = "live"
  BY <1>1, <1>5, RevokeWhereRows, RevokedRows
<1> QED BY <1>2, <1>3, <1>4, <1>5, RowSteps

\* A new row opens a session of its own or continues one.
LEMMA NewRows ==
  ASSUME IInv, NEW r \in Requests, Serve(r), NEW t \in Stored', t \notin Stored
  PROVE  \/ rows'[t].sess \notin Stored
         \/ \E s \in Stored : /\ rows'[t].sess = rows[s].sess
                              /\ rows'[t].user = rows[s].user
                              /\ rows'[t].dev = rows[s].dev
<1>1. t \in Requests
  BY DEF Stored
<1>2. ~\E S : \E why \in Reasons : RevokeWhere(S, why)
  BY RevokeWhereRows
<1>3. rows' # rows
  BY DEF Stored
<1>4. CASE Insert(r)
  BY <1>1, <1>4, InsertWrites DEF Stored
<1>5. CASE Rotate(r)
  BY <1>1, <1>5, RotateWrites DEF Stored
<1> QED BY <1>2, <1>3, <1>4, <1>5, RowSteps

LEMMA HistoryGrows ==
  ASSUME IInv, NEW r \in Requests, Serve(r)
  PROVE  PastGrows
<1>1. past \in Past /\ past' \in Past
  BY NextStep DEF IInv, TypeOK, Next
<1>2. CASE Insert(r)
  BY <1>1, <1>2 DEF Insert, Past, PastGrows
<1>3. CASE Fallback(r)
  BY <1>1, <1>3 DEF Fallback, Past, PastGrows
<1>4. CASE Rotate(r)
  BY <1>1, <1>4 DEF Rotate, Past, PastGrows
<1>5. \A S : Loses(S) => PastGrows
  BY <1>1 DEF Past, PastGrows, Loses
<1>6. past' = past => PastGrows
  BY SamePast
<1> QED BY <1>2, <1>3, <1>4, <1>5, <1>6
        DEF Serve, Login, RevokeSame, Cache, CacheSession, Refresh, Grace, RevokeAll,
            RevokeOthers, Members, Purge, Blocklist, Logout, RevokeOne, Owner, PurgeOne,
            Authenticate, Lookup, Recache, Negative, Verdict, Abort

\* The steps that no request takes.
Outside == GraceEnds \/ NegativeExpires \/ Replicate \/ RedisRestart \/ UNCHANGED vars

LEMMA NextCases == [Next]_vars => (\E r \in Requests : Serve(r)) \/ Outside
BY DEF Next, Outside

LEMMA OutsideFrame ==
  ASSUME IInv, Outside
  PROVE  /\ req' = req /\ past' = past /\ Stored' = Stored
         /\ \A u : OwnedBy(u)' = OwnedBy(u)
         /\ \A t \in Requests :
              /\ rows'[t].status = rows[t].status /\ rows'[t].user = rows[t].user
              /\ rows'[t].dev = rows[t].dev /\ rows'[t].sess = rows[t].sess
              /\ rows'[t].next = rows[t].next /\ rows'[t].reason = rows[t].reason
              /\ cache'[t] = "active" => cache[t] = "active" /\ userSet' = userSet
<1>1. /\ req' = req /\ past' = past
      /\ \A t \in Requests : cache'[t] = "active" => cache[t] = "active" /\ userSet' = userSet
  BY DEF Outside, GraceEnds, NegativeExpires, Replicate, RedisRestart, vars, redisVars,
     IInv, TypeOK
<1>2. \A t \in Requests :
        /\ rows'[t].status = rows[t].status /\ rows'[t].user = rows[t].user
        /\ rows'[t].dev = rows[t].dev /\ rows'[t].sess = rows[t].sess
        /\ rows'[t].next = rows[t].next /\ rows'[t].reason = rows[t].reason
  BY GraceEndsRows DEF Outside, NegativeExpires, Replicate, RedisRestart, vars
<1>3. Stored' = Stored
  BY <1>2 DEF Stored
<1>4. \A u : OwnedBy(u)' = OwnedBy(u)
  BY <1>2, <1>3 DEF OwnedBy, Stored
<1> QED BY <1>1, <1>2, <1>3, <1>4

(***************************************************************************)
(* One live token per session.                                             *)
(***************************************************************************)
LEMMA OneTokenServe ==
  ASSUME IInv, OneTokenPerSession, NEW r \in Requests, Serve(r)
  PROVE  OneTokenPerSession'
<1>1. SUFFICES ASSUME NEW s \in Stored', NEW t \in Stored',
                      rows'[s].status = "live", rows'[t].status = "live",
                      rows'[s].sess = rows'[t].sess, s # t,
                      s \in Stored, s \in Requests, t \in Requests
               PROVE  rows'[s].sess \in past'.forked
  <2>1. Stored' \ Stored \subseteq {r}
    BY RowSteps, RevokeWhereRows, InsertWrites, RotateWrites DEF Stored
  <2> QED BY <2>1 DEF OneTokenPerSession, Stored
<1>2. past.forked \subseteq past'.forked
  BY HistoryGrows DEF PastGrows
<1>3. rows'[s].sess = rows[s].sess /\ rows[s].status = "live"
  BY <1>1, StoredStays
<1>4. CASE t \in Stored
  BY <1>1, <1>2, <1>3, <1>4, StoredStays DEF OneTokenPerSession
<1>5. CASE t \notin Stored
  <2>1. ASSUME Insert(r) PROVE FALSE
    <3>1. rows[s].sess \in Stored
      BY <1>1 DEF IInv, RowsOK
    <3>2. t = r
      BY <1>1, <1>5, <2>1, InsertWrites DEF Stored
    <3>3. r \notin Stored /\ rows'[r].sess = r
      BY <2>1, InsertWrites
    <3> QED BY <1>1, <1>3, <3>1, <3>2, <3>3
  <2>2. Rotate(r)
    BY <1>5, <2>1, RowSteps, RevokeWhereRows DEF Stored
  <2> DEFINE old == req[r].tok
  <2>3. t = r /\ rows'[r].sess = rows[old].sess /\ old \in Stored /\ s # old
    BY <1>1, <1>5, <2>2, RotateWrites DEF Stored
  <2>4. CASE rows[old].status = "live"
    BY <1>1, <1>2, <1>3, <2>3, <2>4 DEF OneTokenPerSession
  <2>5. CASE rows[old].status # "live"
    BY <1>1, <2>2, <2>3, <2>5 DEF Rotate, IInv, TypeOK, Past
  <2> QED BY <2>4, <2>5
<1> QED BY <1>4, <1>5

LEMMA OneTokenNext == ASSUME IInv, OneTokenPerSession, [Next]_vars PROVE OneTokenPerSession'
<1>1. Outside => OneTokenPerSession'
  BY OutsideFrame DEF OneTokenPerSession, Stored
<1> QED BY <1>1, NextCases, OneTokenServe

(* A session has one live token, unless one of its tokens was rotated when  *)
(* it had ended already: for any number of overlapping refreshes, logins    *)
(* and revocations, on readings of a replica however late.                  *)
THEOREM SessionsHaveOneToken == Spec => []OneTokenPerSession
<1>1. Init => IInv /\ OneTokenPerSession
  BY InitIInv, NoRowFields DEF Init, OneTokenPerSession, Stored
<1>2. IInv /\ OneTokenPerSession /\ [Next]_vars => IInv' /\ OneTokenPerSession'
  BY NextStep, OneTokenNext
<1> QED BY <1>1, <1>2, PTL DEF Spec

(***************************************************************************)
(* The plans of the requests.                                              *)
(***************************************************************************)
\* Another request's step keeps a plan.
LEMMA PlanStays ==
  ASSUME IInv, NEW r \in Requests, Serve(r), NEW q, PlanOK(q)
  PROVE  PlanOK(q)'
<1>1. OwnedBy(q.user) \subseteq OwnedBy(q.user)' /\ Stored \subseteq Stored'
  BY StoredStays DEF OwnedBy
<1>2. CASE q.pc \in {"revokeSame", "insert"}
  <2>1. /\ q.seen \subseteq OwnedBy(q.user)
        /\ \A t \in q.seen : rows[t].status = "live" =>
             q.pc = "revokeSame" /\ rows[t].sess \in q.todo
    BY <1>2 DEF PlanOK
  <2>2. \A t \in q.seen : rows'[t].status = "live" =>
          q.pc = "revokeSame" /\ rows'[t].sess \in q.todo
    BY <2>1, StoredStays DEF OwnedBy
  <2>3. ASSUME q.pc = "revokeSame", NEW t \in OwnedBy(q.user)', rows'[t].sess \in q.todo
        PROVE  rows'[t].dev = q.dev
    <3>1. /\ q.todo \subseteq Stored
          /\ \A x \in OwnedBy(q.user) : rows[x].sess \in q.todo => rows[x].dev = q.dev
      BY <2>3 DEF PlanOK
    <3>2. CASE t \in Stored
      BY <2>3, <3>1, <3>2, StoredStays DEF OwnedBy
    <3>3. CASE t \notin Stored
      BY <2>3, <3>1, <3>3, NewRows DEF OwnedBy
    <3> QED BY <3>2, <3>3
  <2> QED BY <1>1, <1>2, <2>1, <2>2, <2>3 DEF PlanOK
<1>3. CASE q.pc \notin {"revokeSame", "insert"}
  BY <1>3 DEF PlanOK
<1> QED BY <1>2, <1>3

\* The steps of a request that has a plan.
Planned == {"revokeSame", "insert", "grace", "revokeAll", "purgeOne"}

\* How a request goes on.
LEMMA Becomes ==
  ASSUME IInv, NEW r \in Requests
  PROVE  /\ req[r] \in Request
         /\ \A o : Answer(r, o) => req'[r].pc = "done"
         /\ \A t : Grant(r, t) => req'[r].pc = "done"
         /\ \A p : Goto(r, p) =>
              /\ req'[r].pc = p /\ req'[r].user = req[r].user /\ req'[r].tok = req[r].tok
              /\ req'[r].op = req[r].op /\ req'[r].arg = req[r].arg
         /\ \A w, o : Enter(r, RevokingAll(req[r], w, o)) =>
              req'[r].pc = "revokeAll" /\ req'[r].op = req[r].op
         /\ \A p, o : Enter(r, Answering(req[r], p, o)) =>
              req'[r].pc = p /\ req'[r].tok = req[r].tok
<1>1. req[r] \in Request
  BY DEF IInv, TypeOK
<1>2. \A record : Enter(r, record) => req'[r] = record
  BY DEF IInv, TypeOK, Enter
<1>3. \A o : Answered(o).pc = "done"
  BY DEF Answered, Answering, Idle
<1>4. \A t : Holding(Answered("granted"), "done", t).pc = "done"
  BY DEF Holding, Answered, Answering, Idle
<1>5. \A p : /\ At(req[r], p).pc = p /\ At(req[r], p).user = req[r].user
             /\ At(req[r], p).tok = req[r].tok /\ At(req[r], p).op = req[r].op
             /\ At(req[r], p).arg = req[r].arg
  BY <1>1 DEF At, Request
<1>6. \A w, o : /\ RevokingAll(req[r], w, o).pc = "revokeAll"
                /\ RevokingAll(req[r], w, o).op = req[r].op
  BY <1>1 DEF RevokingAll, Request
<1>7. \A p, o : /\ Answering(req[r], p, o).pc = p
                /\ Answering(req[r], p, o).tok = req[r].tok
  BY <1>1 DEF Answering, Request
<1> QED BY <1>1, <1>2, <1>3, <1>4, <1>5, <1>6, <1>7 DEF Answer, Grant, Goto

LEMMA WorksThrough ==
  ASSUME IInv, NEW r \in Requests, NEW p, NEW S, Enter(r, Through(req[r], p, S))
  PROVE  /\ req'[r].pc = p /\ req'[r].todo = S /\ req'[r].user = req[r].user
         /\ req'[r].tok = req[r].tok /\ req'[r].op = req[r].op
         /\ req'[r].seen = req[r].seen /\ req'[r].dev = req[r].dev
<1> DEFINE new == Through(req[r], p, S)
<1>1. req'[r] = new /\ req[r] \in Request
  BY DEF IInv, TypeOK, Enter
<1>2. /\ new.pc = p /\ new.todo = S /\ new.user = req[r].user
      /\ new.tok = req[r].tok /\ new.op = req[r].op
      /\ new.seen = req[r].seen /\ new.dev = req[r].dev
  BY <1>1 DEF Through, Request
<1> QED BY <1>1, <1>2

LEMMA Unplanned ==
  ASSUME IInv, NEW r \in Requests,
         \/ Insert(r) \/ Rotate(r) \/ Cache(r) \/ RevokeAll(r) \/ RevokeOthers(r)
         \/ Members(r) \/ Purge(r) \/ Blocklist(r) \/ Logout(r) \/ RevokeOne(r)
         \/ PurgeOne(r) \/ Authenticate(r) \/ Lookup(r) \/ Fallback(r) \/ Recache(r)
         \/ Negative(r) \/ Abort(r)
  PROVE  req'[r].pc \notin Planned
<1>1. CASE Logout(r)
  <2>1. req'[r].pc = "owner"
    BY <1>1 DEF IInv, TypeOK, Enter, Answering, Started, Idle, Logout
  <2> QED BY <2>1 DEF Planned
<1>2. CASE Authenticate(r)
  <2>1. \A op, u, d, t, g, c :
          Enter(r, Second(Presenting(Started(op, u, d, t), g), "lookup", c))
            => req'[r].pc = "lookup"
    BY DEF IInv, TypeOK, Enter, Second, Presenting, Started, Idle
  <2> QED BY <1>2, <2>1, Becomes DEF Authenticate, Planned
<1>3. CASE Insert(r) \/ Rotate(r)
  BY <1>3, InsertWrites, RotateWrites DEF Planned
<1>4. CASE Members(r) \/ Purge(r)
  <2>1. req'[r].pc \in {"done", "blocklist", "purge"}
    BY <1>4, Becomes, WorksThrough DEF Members, Purge, Finish
  <2> QED BY <2>1 DEF Planned
<1>5. CASE RevokeAll(r) \/ RevokeOthers(r) \/ RevokeOne(r)
  <2>1. req'[r].pc \in {"members", "owner"}
    BY <1>5, Becomes DEF RevokeAll, RevokeOthers, RevokeOne
  <2> QED BY <2>1 DEF Planned
<1>6. CASE Lookup(r) \/ Fallback(r) \/ Recache(r)
  <2>1. req'[r].pc \in {"verdict", "done", "fallback", "recache", "negative"}
    BY <1>6, Becomes DEF Lookup, Fallback, Recache
  <2> QED BY <2>1 DEF Planned
<1>7. CASE Cache(r) \/ Blocklist(r) \/ PurgeOne(r) \/ Negative(r) \/ Abort(r)
  <2>1. req'[r].pc = "done"
    BY <1>7, Becomes DEF Cache, Blocklist, PurgeOne, Negative, Abort
  <2> QED BY <2>1 DEF Planned
<1> QED BY <1>1, <1>2, <1>3, <1>4, <1>5, <1>6, <1>7

\* Revoking the user's sessions on the device, one by one, reaches what was seen.
LEMMA RevokeSamePlan ==
  ASSUME IInv, NEW r \in Requests, PlanOK(req[r]), RevokeSame(r)
  PROVE  PlanOK(req[r])'
<1> DEFINE q == req[r]
<1>1. PICK s \in q.todo :
        /\ RevokeWhere({t \in Requests : rows[t].sess = s /\ rows[t].user = q.user},
                       "REVOKED_BY_USER")
        /\ Enter(r, Through(q, IF q.todo = {s} THEN "insert" ELSE "revokeSame",
                            q.todo \ {s}))
  BY DEF RevokeSame
<1> DEFINE S == {t \in Requests : rows[t].sess = s /\ rows[t].user = q.user}
           p == IF q.todo = {s} THEN "insert" ELSE "revokeSame"
<1>2. /\ q.pc = "revokeSame" /\ q.seen \subseteq OwnedBy(q.user) /\ q.todo \subseteq Stored
      /\ \A t \in q.seen : rows[t].status = "live" => rows[t].sess \in q.todo
      /\ \A t \in OwnedBy(q.user) : rows[t].sess \in q.todo => rows[t].dev = q.dev
  BY DEF RevokeSame, PlanOK
<1>3. /\ req'[r].pc = p /\ req'[r].todo = q.todo \ {s} /\ req'[r].user = q.user
      /\ req'[r].seen = q.seen /\ req'[r].dev = q.dev
  <2>1. PICK pp, rest : pp = p /\ rest = q.todo \ {s} /\ Enter(r, Through(req[r], pp, rest))
    BY <1>1
  <2>2. Enter(r, Through(req[r], pp, rest))
    BY <2>1
  <2>3. /\ req'[r].pc = pp /\ req'[r].todo = rest
        /\ req'[r].user = req[r].user /\ req'[r].seen = req[r].seen
        /\ req'[r].dev = req[r].dev
    BY <2>2, WorksThrough
  <2> QED BY <2>1, <2>3
<1>4. /\ Stored' = Stored
      /\ \A t \in Requests : /\ rows'[t].user = rows[t].user /\ rows'[t].dev = rows[t].dev
                             /\ rows'[t].sess = rows[t].sess
                             /\ rows'[t].status = "live"
                                  => rows[t].status = "live" /\ t \notin S
  <2>1. RevokeWhere(S, "REVOKED_BY_USER") /\ "REVOKED_BY_USER" \in Reasons
    BY <1>1 DEF Reasons
  <2> HIDE DEF S
  <2> QED BY <2>1, RevokeWhereRows, RevokedRows
<1>5. \A u : OwnedBy(u)' = OwnedBy(u)
  BY <1>4 DEF OwnedBy, Stored
<1>6. \A t \in q.seen : rows'[t].status = "live" => rows[t].sess \in q.todo \ {s}
  BY <1>2, <1>4 DEF OwnedBy, Stored
<1>7. \A t \in OwnedBy(q.user) : t \in Requests
  BY DEF OwnedBy, Stored
<1>8. CASE q.todo = {s}
  BY <1>2, <1>3, <1>4, <1>5, <1>6, <1>7, <1>8 DEF PlanOK
<1>9. CASE q.todo # {s}
  <2>1. req'[r].pc = "revokeSame"
    BY <1>3, <1>9
  <2> QED BY <1>2, <1>3, <1>4, <1>5, <1>6, <1>7, <2>1 DEF PlanOK
<1> QED BY <1>8, <1>9

\* The login's plan: every live token it saw is on its device.
LEMMA LoginPlan ==
  ASSUME IInv, NEW r \in Requests, Login(r)
  PROVE  PlanOK(req[r])'
<1>1. PICK u \in Users, d \in Devices :
        LET login == Started("login", u, d, None)
            same  == {s \in Requests : \E t \in OnDevice(u, d) : Read(t).sess = s}
        IN \/ Answer(r, "sessionExists")
           \/ Enter(r, RevokingAll(login, "CONCURRENT_LOGIN", "sessionsRevoked"))
           \/ /\ OnOtherDevices(u, d) = {}
              /\ Enter(r, Through(Knowing(login, Known(u)),
                                  IF same = {} THEN "insert" ELSE "revokeSame", same))
  BY DEF Login
<1> DEFINE login == Started("login", u, d, None)
           same  == {s \in Requests : \E t \in OnDevice(u, d) : Read(t).sess = s}
           p == IF same = {} THEN "insert" ELSE "revokeSame"
           new == Through(Knowing(login, Known(u)), p, same)
<1>2. \A record : Enter(r, record) => req'[r] = record
  BY DEF IInv, TypeOK, Enter
<1>3. CASE Answer(r, "sessionExists")
  BY <1>3, Becomes DEF PlanOK
<1>4. CASE Enter(r, RevokingAll(login, "CONCURRENT_LOGIN", "sessionsRevoked"))
  <2> DEFINE ending == RevokingAll(login, "CONCURRENT_LOGIN", "sessionsRevoked")
  <2>1. ending.pc = "revokeAll" /\ ending.op = "login"
    BY DEF RevokingAll, Started, Idle
  <2>2. req'[r] = ending
    BY <1>2, <1>4
  <2> QED BY <2>1, <2>2 DEF PlanOK
<1>5. CASE OnOtherDevices(u, d) = {} /\ Enter(r, new)
  <2>1. /\ new.pc = p /\ new.user = u /\ new.dev = d /\ new.todo = same
        /\ new.seen = Known(u)
    BY DEF Through, Knowing, Started, Idle
  <2>2. rows' = rows /\ Stored' = Stored /\ OwnedBy(u)' = OwnedBy(u)
    BY DEF Login, Stored, OwnedBy
  <2>3. Known(u) \subseteq OwnedBy(u) /\ \A t \in Known(u) : rows[t].dev = d
    BY <1>5, KnownRows DEF OnOtherDevices
  <2>4. \A t \in Known(u) : rows[t].sess \in same
    <3>1. \A t \in Known(u) : /\ t \in OnDevice(u, d) /\ Read(t).sess = rows[t].sess
                              /\ rows[t].sess \in Requests
      BY <2>3, KnownRows DEF OnDevice, OwnedBy, IInv, RowsOK, Stored
    <3> QED BY <3>1
  <2>5. \A s \in same : \E t \in OwnedBy(u) : rows[t].sess = s /\ rows[t].dev = d
    BY <2>3, KnownRows DEF OnDevice
  <2>6. same \subseteq Stored
    BY <2>5 DEF OwnedBy, IInv, RowsOK, Stored
  <2>7. \A t \in OwnedBy(u) : rows[t].sess \in same => rows[t].dev = d
    BY <2>5 DEF OwnedBy, IInv, SessionBoundToDevice
  <2>8. req'[r] = new /\ p \in {"insert", "revokeSame"} /\ (p = "insert" => same = {})
    BY <1>2, <1>5
  <2> HIDE DEF new, same, p
  <2>9. /\ req'[r].pc = p /\ req'[r].user = u /\ req'[r].dev = d
        /\ req'[r].todo = same /\ req'[r].seen = Known(u)
    BY <2>1, <2>8
  <2>10. CASE p = "insert"
    <3>1. \A t \in Known(u) : FALSE
      BY <2>4, <2>8, <2>10
    <3> QED BY <2>2, <2>3, <2>9, <2>10, <3>1 DEF PlanOK
  <2>11. CASE p = "revokeSame"
    BY <2>2, <2>3, <2>4, <2>6, <2>7, <2>9, <2>11 DEF PlanOK
  <2> QED BY <2>8, <2>10, <2>11
<1> QED BY <1>1, <1>3, <1>4, <1>5

LEMMA RefreshPlan ==
  ASSUME IInv, NEW r \in Requests, Refresh(r)
  PROVE  PlanOK(req[r])'
<1>1. PICK t, d, n, u :
        LET refresh == Started("refresh", u, d, t)
        IN \/ \E o : Answer(r, o)
           \/ Enter(r, Second(refresh, "grace", n))
           \/ \E o : Enter(r, RevokingAll(refresh, "none", o))
           \/ Enter(r, At(refresh, "rotate"))
  BY DEF Refresh
<1>2. \A record : Enter(r, record) => req'[r] = record
  BY DEF IInv, TypeOK, Enter
<1> DEFINE refresh == Started("refresh", u, d, t)
<1>3. /\ Second(refresh, "grace", n).pc = "grace"
      /\ Second(refresh, "grace", n).op = "refresh"
  BY DEF Second, Started, Idle
<1>4. \A o : /\ RevokingAll(refresh, "none", o).pc = "revokeAll"
             /\ RevokingAll(refresh, "none", o).op = "refresh"
  BY DEF RevokingAll, Started, Idle
<1>5. At(refresh, "rotate").pc = "rotate"
  BY DEF At, Started, Idle
<1> HIDE DEF refresh
<1>6. CASE \E o : Answer(r, o)
  BY <1>6, Becomes DEF PlanOK
<1>7. CASE Enter(r, Second(refresh, "grace", n))
  <2>1. req'[r].pc = "grace" /\ req'[r].op = "refresh"
    BY <1>2, <1>3, <1>7
  <2> QED BY <2>1 DEF PlanOK
<1>8. CASE \E o : Enter(r, RevokingAll(refresh, "none", o))
  <2>1. req'[r].pc = "revokeAll" /\ req'[r].op = "refresh"
    BY <1>2, <1>4, <1>8
  <2> QED BY <2>1 DEF PlanOK
<1>9. CASE Enter(r, At(refresh, "rotate"))
  <2>1. req'[r].pc = "rotate"
    BY <1>2, <1>5, <1>9
  <2> QED BY <2>1 DEF PlanOK
<1> QED BY <1>1, <1>6, <1>7, <1>8, <1>9 DEF refresh

LEMMA PlanServe ==
  ASSUME IInv, NEW r \in Requests, Serve(r), PlanOK(req[r])
  PROVE  PlanOK(req[r])'
<1>1. CASE req'[r].pc \notin Planned
  BY <1>1 DEF PlanOK, Planned
<1>2. CASE Grace(r) \/ Verdict(r)
  <2>1. \/ req'[r].pc \in {"done", "revokeOne", "revokeOthers"}
        \/ req'[r].pc = "revokeAll" /\ req'[r].op = req[r].op /\ req[r].op # "others"
    BY <1>2, Becomes DEF Grace, Verdict, PlanOK
  <2> QED BY <2>1 DEF PlanOK
<1>3. CASE Owner(r)
  <2>1. PICK S \in SUBSET {req[r].tok} : Enter(r, Through(req[r], "purgeOne", S))
    BY <1>3 DEF Owner
  <2>2. req'[r].pc = "purgeOne" /\ req'[r].todo \subseteq {req'[r].tok}
    BY <2>1, WorksThrough
  <2> QED BY <2>2 DEF PlanOK
<1> QED BY <1>1, <1>2, <1>3, Unplanned, LoginPlan, RevokeSamePlan, RefreshPlan DEF Serve

Plans == \A x \in Requests : PlanOK(req[x])

LEMMA PlansNext == ASSUME IInv, Plans, [Next]_vars PROVE Plans'
<1>1. CASE Outside
  <2>1. ASSUME NEW x \in Requests PROVE PlanOK(req[x])'
    <3>1. PICK q : q = req[x] /\ q = req'[x] /\ PlanOK(q)
      BY <1>1, OutsideFrame DEF Plans
    <3>2. \A t \in OwnedBy(q.user) : t \in Requests
      BY DEF OwnedBy, Stored
    <3>3. PlanOK(q)'
      BY <1>1, <3>1, <3>2, OutsideFrame DEF PlanOK
    <3> QED BY <3>1, <3>3
  <2> QED BY <2>1 DEF Plans
<1>2. ASSUME NEW r \in Requests, Serve(r) PROVE Plans'
  <2>1. ASSUME NEW x \in Requests \ {r} PROVE PlanOK(req[x])'
    <3>1. PICK q : q = req[x] /\ q = req'[x] /\ PlanOK(q)
      BY <1>2, OthersWait DEF Plans, IInv
    <3>2. PlanOK(q)'
      BY <1>2, <3>1, PlanStays
    <3> QED BY <3>1, <3>2
  <2>2. PlanOK(req[r])'
    BY <1>2, PlanServe DEF Plans
  <2> QED BY <2>1, <2>2 DEF Plans
<1> QED BY <1>1, <1>2, NextCases

LEMMA InitPlans == Init => Plans
BY IdleRecord DEF Init, Plans, PlanOK

(***************************************************************************)
(* The live rows implement the registry.                                   *)
(***************************************************************************)
KnownSessions == {SessionOf(t) : t \in Stored}

LEMMA OpenMembers ==
  \A x : x \in OpenSessions <=> \E t \in Requests : rows[t].status = "live" /\ x = SessionOf(t)
BY DEF OpenSessions

LEMMA OpenMembersNext ==
  \A x : x \in OpenSessions' <=>
           \E t \in Requests : rows'[t].status = "live" /\ x = SessionOf(t)'
BY DEF OpenSessions

\* Nothing opens or closes while no row changes what it says of its session.
LEMMA RegistryStutter ==
  ASSUME UNCHANGED <<past.crowded, past.forked>>,
         \A t \in Requests : /\ rows'[t].status = rows[t].status
                             /\ rows'[t].user = rows[t].user
                             /\ rows'[t].dev = rows[t].dev
                             /\ rows'[t].sess = rows[t].sess
  PROVE  UNCHANGED Registry!vars
<1>1. \A t \in Requests : SessionOf(t)' = SessionOf(t)
  BY DEF SessionOf
<1>2. OpenSessions' = OpenSessions
  <2>1. \A x : x \in OpenSessions' <=> x \in OpenSessions
    BY <1>1, OpenMembers, OpenMembersNext
  <2> QED BY <2>1 DEF OpenSessions
<1>3. KnownSessions' = KnownSessions
  <2>1. Stored' = Stored
    BY DEF Stored
  <2> QED BY <1>1, <2>1 DEF KnownSessions, Stored
<1> QED BY <1>2, <1>3 DEF Registry!vars, KnownSessions

\* A login that saw all the live tokens of its user finds none left.
LEMMA RegistryOpens ==
  ASSUME IInv, Plans, NEW r \in Requests, Insert(r)
  PROVE  Registry!Next
<1>0. PICK u, d : u = req[r].user /\ d = req[r].dev
  OBVIOUS
<1>1. u \in Users /\ d \in Devices /\ r \notin Stored
  BY <1>0, InsertWrites
<1> DEFINE new == [id |-> r, user |-> u, dev |-> d]
<1>2. \A t \in Stored : SessionOf(t).id # r
  BY <1>1 DEF IInv, RowsOK, SessionOf, Stored
<1>3. \A t \in Requests \ {r} : rows'[t] = rows[t] /\ SessionOf(t)' = SessionOf(t)
  BY <1>1, InsertWrites DEF SessionOf
<1>4. rows'[r].status = "live" /\ SessionOf(r)' = new
  BY <1>0, <1>1, InsertWrites DEF SessionOf
<1>5. OpenSessions' = OpenSessions \cup {new}
  <2>1. rows[r].status # "live"
    BY <1>1 DEF Stored
  <2> HIDE DEF new
  <2>2. \A x : x \in OpenSessions' <=> x \in OpenSessions \/ x = new
    BY <1>3, <1>4, <2>1, OpenMembers, OpenMembersNext
  <2> QED BY <2>2 DEF OpenSessions
<1>6. KnownSessions' = KnownSessions \cup {new}
  <2>1. Stored' = Stored \cup {r} /\ \A t \in Stored : t \in Requests \ {r}
    BY <1>1, <1>3, <1>4 DEF Stored
  <2> HIDE DEF new
  <2>2. \A x : x \in KnownSessions' <=> x \in KnownSessions \/ x = new
    BY <1>3, <1>4, <2>1 DEF KnownSessions
  <2> QED BY <2>2 DEF KnownSessions
<1>7. new \in Registry!Session
  BY <1>1 DEF Registry!Session
<1>8. new.id = r /\ new.user = u
  OBVIOUS
<1>9. past'.forked = past.forked
  BY DEF Insert, IInv, TypeOK, Past
<1> HIDE DEF new
<1>10. Registry!Enter(new)
  BY <1>2, <1>5, <1>6, <1>8, <1>9 DEF Registry!Enter, KnownSessions
<1>11. CASE Registry!OpenOf(u) = {}
  <2>1. Live(u) = {}
    <3>1. \A t \in Live(u) : SessionOf(t) \in OpenSessions /\ SessionOf(t).user = u
      BY OpenMembers DEF SessionOf, Live
    <3>2. \A t \in Live(u) : SessionOf(t) \in Registry!OpenOf(u)
      BY <3>1 DEF Registry!OpenOf
    <3> QED BY <1>11, <3>2
  <2>2. past' = past
    BY <1>0, <2>1 DEF Insert
  <2>3. Registry!Open(new)
    BY <1>8, <1>10, <1>11, <2>2 DEF Registry!Open
  <2> QED BY <1>7, <2>3 DEF Registry!Next
<1>12. CASE Registry!OpenOf(u) # {}
  <2>1. PICK t \in Requests : rows[t].status = "live" /\ rows[t].user = u
    BY <1>12, OpenMembers DEF Registry!OpenOf, SessionOf
  <2>2. t \in Live(u) /\ t \notin req[r].seen
    BY <1>0, <2>1 DEF Live, Insert, Plans, PlanOK
  <2>3. past' = [past EXCEPT !.crowded = @ \cup {r}]
    BY <1>0, <2>2 DEF Insert
  <2>4. past'.crowded = past.crowded \cup {r}
    BY <2>3 DEF IInv, TypeOK, Past
  <2>5. Registry!OpenBeside(new)
    BY <1>8, <1>10, <1>12, <2>4 DEF Registry!OpenBeside
  <2> QED BY <1>7, <2>5 DEF Registry!Next
<1> QED BY <1>11, <1>12

\* A rotation of a live token is a stutter, that of an ended one a revival.
LEMMA RegistryRenews ==
  ASSUME IInv, NEW r \in Requests, Rotate(r)
  PROVE  Registry!Next \/ UNCHANGED Registry!vars
<1>1. PICK old : old = req[r].tok
  OBVIOUS
<1>2. old \in Requests /\ old # r /\ r \notin Stored /\ old \in Stored
  BY <1>1, RotateWrites
<1>3. \A t \in Requests \ {r, old} : rows'[t] = rows[t] /\ SessionOf(t)' = SessionOf(t)
  BY <1>1, <1>2, RotateWrites DEF SessionOf
<1>4. /\ rows'[r].status = "live" /\ SessionOf(r)' = SessionOf(old)
      /\ rows'[old].status = "revoked" /\ SessionOf(old)' = SessionOf(old)
  BY <1>1, <1>2, RotateWrites DEF SessionOf
<1>5. rows[r].status # "live"
  BY <1>2 DEF Stored
<1>6. KnownSessions' = KnownSessions
  <2>1. Stored' = Stored \cup {r} /\ \A t \in Stored : t \in Requests \ {r}
    BY <1>1, <1>2, RotateWrites DEF Stored
  <2>2. \A t \in Stored : SessionOf(t)' = SessionOf(t)
    BY <1>3, <1>4, <2>1
  <2>3. \A x : x \in KnownSessions' <=> x \in KnownSessions
    BY <1>2, <1>4, <2>1, <2>2 DEF KnownSessions
  <2> QED BY <2>3 DEF KnownSessions
<1>7. CASE rows[old].status = "live"
  <2>1. past' = past
    BY <1>1, <1>7 DEF Rotate
  <2>2. \A x : x \in OpenSessions' <=> x \in OpenSessions
    BY <1>2, <1>3, <1>4, <1>5, <1>7, OpenMembers, OpenMembersNext
  <2>3. OpenSessions' = OpenSessions
    BY <2>2 DEF OpenSessions
  <2> QED BY <1>6, <2>1, <2>3 DEF Registry!vars, KnownSessions
<1>8. CASE rows[old].status # "live"
  <2> DEFINE s == SessionOf(old)
  <2>1. s.id = rows[old].sess
    BY DEF SessionOf
  <2>2. past'.crowded = past.crowded /\ past'.forked = past.forked \cup {s.id}
    BY <1>1, <1>8, <2>1 DEF Rotate, IInv, TypeOK, Past
  <2>3. s \in Registry!Session
    <3>1. rows[old].user \in Users /\ rows[old].dev \in Devices /\ rows[old].sess \in Requests
      BY <1>2 DEF IInv, RowsOK, Stored
    <3> QED BY <3>1 DEF Registry!Session, SessionOf
  <2>4. s \in KnownSessions
    BY <1>2 DEF KnownSessions
  <2> HIDE DEF s
  <2>5. \A x : x \in OpenSessions' <=> x \in OpenSessions \/ x = s
    BY <1>2, <1>3, <1>4, <1>5, <1>8, OpenMembers, OpenMembersNext DEF s
  <2>6. OpenSessions' = OpenSessions \cup {s}
    BY <2>5 DEF OpenSessions
  <2>7. Registry!Revive(s)
    BY <1>6, <2>2, <2>4, <2>6 DEF Registry!Revive, KnownSessions
  <2> QED BY <2>3, <2>7 DEF Registry!Next
<1> QED BY <1>7, <1>8

\* A revocation of tokens of one user closes sessions of that user, or none.
LEMMA RegistryCloses ==
  ASSUME IInv, NEW S, NEW why \in Reasons, RevokeWhere(S, why), past' = past,
         NEW u \in Users, \A t \in S \cap Stored : rows[t].user = u
  PROVE  Registry!Next \/ UNCHANGED Registry!vars
<1>1. \A t \in Requests : SessionOf(t)' = SessionOf(t)
  BY RevokeWhereRows DEF SessionOf
<1>2. KnownSessions' = KnownSessions
  <2>1. Stored' = Stored
    BY RevokeWhereRows
  <2> QED BY <1>1, <2>1 DEF KnownSessions, Stored
<1> DEFINE closed == OpenSessions \ OpenSessions'
<1>3. \A x : x \in OpenSessions' => x \in OpenSessions
  BY <1>1, RevokedRows, OpenMembers, OpenMembersNext
<1>4. \A x \in closed : x \in Registry!OpenOf(u)
  <2>1. SUFFICES ASSUME NEW x \in closed PROVE x \in OpenSessions /\ x.user = u
    BY DEF Registry!OpenOf
  <2>2. PICK t \in Requests : rows[t].status = "live" /\ x = SessionOf(t)
    BY OpenMembers
  <2>3. rows'[t].status # "live"
    BY <1>1, <2>2, OpenMembersNext
  <2>4. t \in S \cap Stored
    BY <2>2, <2>3, RevokedRows DEF Stored
  <2> QED BY <2>2, <2>4 DEF SessionOf
<1>5. OpenSessions' = OpenSessions \ closed
  BY <1>3
<1> HIDE DEF closed
<1>6. CASE closed = {}
  <2>1. OpenSessions' = OpenSessions
    BY <1>5, <1>6
  <2> QED BY <1>2, <2>1 DEF Registry!vars, KnownSessions
<1>7. CASE closed # {}
  <2>1. closed \in SUBSET Registry!OpenOf(u) /\ Registry!OpenOf(u) # {}
    BY <1>4, <1>7
  <2>2. Registry!Close(u)
    BY <1>2, <1>5, <1>7, <2>1 DEF Registry!Close, KnownSessions
  <2> QED BY <2>2 DEF Registry!Next
<1> QED BY <1>6, <1>7

LEMMA RegistryRevocations ==
  ASSUME IInv, NEW r \in Requests,
         RevokeSame(r) \/ RevokeAll(r) \/ RevokeOthers(r) \/ Logout(r) \/ RevokeOne(r)
  PROVE  Registry!Next \/ UNCHANGED Registry!vars
<1>1. "none" \in Reasons /\ "REVOKED_BY_USER" \in Reasons /\ req[r].why \in Reasons
  BY DEF Reasons, IInv, TypeOK, Request
<1>2. CASE Logout(r)
  <2>1. PICK t \in Held : RevokeWhere({t}, "none")
    BY <1>2 DEF Logout
  <2>2. rows[t].user \in Users
    BY HeldStored DEF IInv, RowsOK, Stored
  <2> QED BY <1>1, <1>2, <2>1, <2>2, RegistryCloses DEF Logout
<1>3. req[r].pc \notin {"idle", "done"} => req[r].user \in Users
  BY Working
<1>4. CASE RevokeSame(r)
  <2>1. PICK s : RevokeWhere({t \in Requests : /\ rows[t].sess = s
                                               /\ rows[t].user = req[r].user},
                             "REVOKED_BY_USER")
    BY <1>4 DEF RevokeSame
  <2> QED BY <1>1, <1>3, <1>4, <2>1, RegistryCloses DEF RevokeSame
<1>5. CASE RevokeAll(r)
  BY <1>1, <1>3, <1>5, RegistryCloses DEF RevokeAll
<1>6. CASE RevokeOthers(r)
  BY <1>1, <1>3, <1>6, RegistryCloses DEF RevokeOthers, OtherSessions
<1>7. CASE RevokeOne(r)
  <2>1. req[r].tok \in OwnedBy(req[r].user)
    BY <1>7, Working DEF RevokeOne, TokenSteps
  <2> QED BY <1>1, <1>3, <1>7, <2>1, RegistryCloses DEF RevokeOne, OwnedBy
<1> QED BY <1>2, <1>4, <1>5, <1>6, <1>7

\* The steps that write no row record nothing of sessions.
LEMMA RegistryQuiet ==
  ASSUME IInv, NEW r \in Requests, Serve(r), rows' = rows, ~Insert(r), ~Rotate(r)
  PROVE  UNCHANGED <<past.crowded, past.forked>>
<1>1. \A S : Loses(S) => UNCHANGED <<past.crowded, past.forked>>
  BY DEF Loses, IInv, TypeOK, Past
<1>2. Fallback(r) => UNCHANGED <<past.crowded, past.forked>>
  BY DEF Fallback, IInv, TypeOK, Past
<1> QED BY <1>1, <1>2
    DEF Serve, Login, RevokeSame, Cache, CacheSession, Refresh, Grace, RevokeAll,
        RevokeOthers, Members, Purge, Blocklist, Logout, RevokeOne, Owner, PurgeOne,
        Authenticate, Lookup, Recache, Negative, Verdict, Abort

LEMMA RegistryStep ==
  ASSUME IInv, Plans, [Next]_vars
  PROVE  Registry!Next \/ UNCHANGED Registry!vars
<1>1. CASE Outside
  BY <1>1, OutsideFrame, RegistryStutter
<1>2. ASSUME NEW r \in Requests, Serve(r), rows' = rows, ~Insert(r), ~Rotate(r)
      PROVE  UNCHANGED Registry!vars
  BY <1>2, RegistryQuiet, RegistryStutter
<1>3. ASSUME NEW r \in Requests, Serve(r)
      PROVE  Registry!Next \/ UNCHANGED Registry!vars
  <2>1. \/ rows' = rows \/ Insert(r) \/ Rotate(r)
        \/ RevokeSame(r) \/ RevokeAll(r) \/ RevokeOthers(r) \/ Logout(r) \/ RevokeOne(r)
    BY <1>3 DEF Serve, Login, Cache, Refresh, Grace, Members, Purge, Blocklist, Owner,
        PurgeOne, Authenticate, Lookup, Fallback, Recache, Negative, Verdict, Abort
  <2> QED BY <1>2, <1>3, <2>1, RegistryOpens, RegistryRenews, RegistryRevocations
<1> QED BY <1>1, <1>3, NextCases

LEMMA RegistryInit == Init => Registry!Init
<1> SUFFICES ASSUME Init PROVE Registry!Init
  OBVIOUS
<1>1. \A t \in Requests : rows[t].status = "absent"
  BY NoRowFields DEF Init
<1>2. OpenSessions = {} /\ Stored = {}
  BY <1>1 DEF OpenSessions, Stored
<1>3. past.crowded = {} /\ past.forked = {}
  BY DEF Init, Nothing
<1> QED BY <1>2, <1>3 DEF Registry!Init

(* However requests overlap and however far the replica lags, the steps of  *)
(* the service open, renew and close sessions as the registry says: a login *)
(* that saw every live token of its user opens the only session, and a      *)
(* session that ended stays so unless a rotation was decided before its end. *)
THEOREM SessionsImplementRegistry == Spec => RegistrySpec
<1>1. Init => Plans
  BY InitPlans
<1>2. IInv /\ Plans /\ [Next]_vars => Plans'
  BY PlansNext
<1>3. IInv /\ Plans /\ [Next]_vars => [Registry!Next]_(Registry!vars)
  BY RegistryStep
<1> QED BY <1>1, <1>2, <1>3, RegistryInit, InductiveInvariant, PTL
        DEF Spec, RegistrySpec, Registry!Spec

(***************************************************************************)
(* The index, and the revoked tokens that the cache calls active.          *)
(***************************************************************************)
LEMMA IndexServe ==
  ASSUME IInv, Plans, IndexOK, NEW r \in Requests, Serve(r)
  PROVE  IndexOK'
<1>1. \A t \in Stored : t \in Stored' /\ rows'[t].user = rows[t].user
  BY StoredStays
<1>2. past.lost \subseteq past'.lost
  BY HistoryGrows DEF PastGrows
<1>3. CASE UNCHANGED <<cache, userSet>>
  BY <1>1, <1>2, <1>3 DEF IndexOK
<1>4. req[r].pc \in TokenSteps => req[r].tok \in OwnedBy(req[r].user) /\ req[r].user \in Users
  BY Working DEF TokenSteps
<1>5. CASE Cache(r) \/ Recache(r)
  <2> DEFINE t == req[r].tok
  <2>1. CacheSession(t) /\ t \in OwnedBy(rows[t].user) /\ rows[t].user \in Users
        /\ t \in Requests
    BY <1>4, <1>5 DEF Cache, Recache, TokenSteps, OwnedBy, Stored
  <2>2. /\ \A x \in Requests : cache'[x] = "active" => cache[x] = "active" \/ x = t
        /\ \A u \in Users : userSet[u] \subseteq userSet'[u]
        /\ t \in userSet'[rows[t].user]
    BY <2>1 DEF CacheSession, IInv, TypeOK
  <2> HIDE DEF t
  <2>3. \A x \in Stored : rows[x].user \in Users
    BY DEF IInv, RowsOK, Stored
  <2>4. t \in Stored
    BY <2>1 DEF OwnedBy
  <2> QED BY <1>1, <1>2, <2>2, <2>3, <2>4 DEF IndexOK
<1>6. CASE Negative(r)
  <2>1. \A x \in Requests : cache'[x] = "active" => cache[x] = "active"
    BY <1>6 DEF Negative, IInv, TypeOK
  <2> QED BY <1>1, <1>2, <1>6, <2>1 DEF IndexOK, Negative
<1>7. CASE PurgeOne(r)
  <2>1. req[r].todo \subseteq {req[r].tok}
    BY <1>7 DEF PurgeOne, Plans, PlanOK
  <2>2. /\ \A x \in Requests : cache'[x] = "active" => cache[x] = "active" /\ x # req[r].tok
        /\ \A u \in Users : userSet[u] \ {req[r].tok} \subseteq userSet'[u]
    BY <1>7, <2>1 DEF PurgeOne, Forget, IInv, TypeOK
  <2>3. \A x \in Stored : rows[x].user \in Users
    BY DEF IInv, RowsOK, Stored
  <2> QED BY <1>1, <1>2, <2>2, <2>3 DEF IndexOK
<1>8. CASE Purge(r)
  <2> DEFINE q == req[r]
  <2>1. q.user \in Users
    BY <1>8, Working DEF Purge
  <2>2. \A x \in Requests : cache'[x] = "active" => cache[x] = "active" /\ x \notin q.todo
    BY <1>8 DEF Purge, Forget
  <2>3. \A u \in Users : \A x \in userSet[u] :
          x \in userSet'[u] \/ x \in q.todo \/ x \in past'.lost
    <3>1. CASE q.op = "others"
      BY <1>8, <2>1, <3>1 DEF Purge, IInv, TypeOK
    <3>2. CASE q.op # "others"
      <4>1. userSet[q.user] \ q.todo \subseteq past'.lost
        BY <1>8, <3>2 DEF Purge, Loses, IInv, TypeOK, Past
      <4>2. \A u \in Users : u # q.user => userSet'[u] = userSet[u]
        BY <1>8 DEF Purge, IInv, TypeOK
      <4> QED BY <4>1, <4>2
    <3> QED BY <3>1, <3>2
  <2>4. \A x \in Stored : rows[x].user \in Users
    BY DEF IInv, RowsOK, Stored
  <2> QED BY <1>1, <1>2, <2>2, <2>3, <2>4 DEF IndexOK
<1> QED BY <1>3, <1>5, <1>6, <1>7, <1>8
    DEF Serve, Login, RevokeSame, Insert, Refresh, Grace, Rotate, RevokeAll, RevokeOthers,
        Members, Blocklist, Logout, RevokeOne, Owner, Authenticate, Lookup, Fallback,
        Verdict, Abort, redisVars

LEMMA IndexOutside == ASSUME IInv, IndexOK, Outside PROVE IndexOK'
BY OutsideFrame DEF IndexOK

\* What becomes of the lingering tokens in a step of r: they are lost, r will
\* clear them, or they were lingering before and r was not to clear them.
Accounted(r) ==
  \A t \in Lingering' :
    \/ t \in past'.lost
    \/ t \in Clears(req[r])'
    \/ /\ t \in Lingering \ Clears(req[r])
       /\ rows[t].reason = "REVOKED_BY_USER" => rows'[t].reason = "REVOKED_BY_USER"

LEMMA LeftToOthers ==
  ASSUME IInv, LingeringCleared, NEW r \in Requests, Serve(r), Accounted(r)
  PROVE  LingeringCleared'
<1>1. SUFFICES ASSUME NEW t \in Lingering, t \notin past.lost, t \notin Clears(req[r]),
                      rows[t].reason = "REVOKED_BY_USER" => rows'[t].reason = "REVOKED_BY_USER"
               PROVE  \E x \in Requests : t \in Clears(req[x])'
  BY HistoryGrows DEF LingeringCleared, Accounted, PastGrows
<1>2. PICK x \in Requests : t \in Clears(req[x])
  BY <1>1 DEF LingeringCleared
<1>3. req'[x] = req[x]
  BY <1>1, <1>2, OthersWait DEF IInv
<1>4. t \in Stored /\ t \in Requests
  BY DEF Lingering, Stored
<1>5. rows'[t].user = rows[t].user /\ rows'[t].dev = rows[t].dev
  BY <1>4, StoredStays
<1> QED BY <1>1, <1>2, <1>3, <1>4, <1>5 DEF Clears

\* A step that writes neither rows nor keys, of a request with nothing to clear.
LEMMA NothingToClear ==
  ASSUME NEW r \in Requests, rows' = rows, cache' = cache, Clears(req[r]) = {}
  PROVE  Accounted(r)
<1>1. Lingering' = Lingering
  BY DEF Lingering, Superseded, Stored
<1> QED BY <1>1 DEF Accounted

LEMMA ClearsNothing ==
  \A q : q.pc \notin {"revokeSame", "insert", "members", "purge", "owner", "purgeOne"}
           => Clears(q) = {}
BY DEF Clears

LEMMA QuietCleared ==
  ASSUME IInv, NEW r \in Requests,
         \/ Login(r) \/ Refresh(r) \/ Grace(r) \/ Blocklist(r) \/ Authenticate(r)
         \/ Lookup(r) \/ Fallback(r) \/ Verdict(r)
  PROVE  Accounted(r)
<1>1. rows' = rows /\ cache' = cache
  BY DEF Login, Refresh, Grace, Blocklist, Authenticate, Lookup, Fallback, Verdict, redisVars
<1>2. req[r].pc \in {"idle", "grace", "blocklist", "lookup", "fallback", "verdict"}
  BY DEF Login, Refresh, Grace, Blocklist, Authenticate, Lookup, Fallback, Verdict, Arrives
<1> QED BY <1>1, <1>2, ClearsNothing, NothingToClear

\* A supersession is not undone while the reason stays.
LEMMA SupersededStays ==
  ASSUME IInv, NEW r \in Requests, Serve(r), NEW t \in Stored, Superseded(t),
         rows'[t].reason = rows[t].reason
  PROVE  Superseded(t)'
BY StoredStays DEF Superseded

\* Tokens a revocation leaves lingering: revoked by it, or lingering before.
LEMMA RevokedLinger ==
  ASSUME IInv, NEW r \in Requests, Serve(r), NEW S, NEW why \in Reasons,
         RevokeWhere(S, why), cache' = cache, NEW t \in Lingering'
  PROVE  /\ t \in Requests /\ t \in Stored
         /\ rows'[t].user = rows[t].user /\ rows'[t].dev = rows[t].dev
         /\ rows'[t].sess = rows[t].sess
         /\ \/ t \in S /\ rows'[t].reason = why
            \/ t \in Lingering /\ rows'[t] = rows[t]
<1>1. t \in Requests /\ t \in Stored
  BY RevokeWhereRows DEF Lingering, Stored
<1>2. CASE t \in S
  BY <1>1, <1>2, RevokeWhereRows, RevokedRows
<1>3. CASE t \notin S
  <2>1. rows'[t] = rows[t]
    BY <1>1, <1>3, RevokeWhereRows
  <2> QED BY <1>1, <2>1, SupersededStays DEF Lingering
<1> QED BY <1>1, <1>2, <1>3

LEMMA RevokeSameCleared ==
  ASSUME IInv, Plans, NEW r \in Requests, RevokeSame(r)
  PROVE  Accounted(r)
<1> DEFINE q == req[r]
<1>1. PICK s \in q.todo :
        /\ RevokeWhere({t \in Requests : rows[t].sess = s /\ rows[t].user = q.user},
                       "REVOKED_BY_USER")
        /\ Enter(r, Through(q, IF q.todo = {s} THEN "insert" ELSE "revokeSame",
                            q.todo \ {s}))
  BY DEF RevokeSame
<1> DEFINE S == {t \in Requests : rows[t].sess = s /\ rows[t].user = q.user}
<1>2. PICK p, rest : p \in {"insert", "revokeSame"} /\ Enter(r, Through(req[r], p, rest))
  BY <1>1
<1>3. req'[r].pc \in {"insert", "revokeSame"} /\ req'[r].user = q.user /\ req'[r].dev = q.dev
  BY <1>2, WorksThrough
<1>4. q.pc = "revokeSame" /\ cache' = cache /\ Serve(r)
  BY DEF RevokeSame, redisVars, Serve
<1>5. \A t \in OwnedBy(q.user) : rows[t].sess \in q.todo => rows[t].dev = q.dev
  BY <1>4 DEF Plans, PlanOK
<1>6. RevokeWhere(S, "REVOKED_BY_USER") /\ "REVOKED_BY_USER" \in Reasons
  BY <1>1 DEF Reasons
<1>7. SUFFICES ASSUME NEW t \in Lingering', t \notin Clears(req[r])'
               PROVE  t \in Lingering \ Clears(req[r]) /\ rows'[t] = rows[t]
  BY DEF Accounted
<1>8. /\ t \in Requests /\ t \in Stored
      /\ rows'[t].user = rows[t].user /\ rows'[t].dev = rows[t].dev
      /\ \/ t \in S /\ rows'[t].reason = "REVOKED_BY_USER"
         \/ t \in Lingering /\ rows'[t] = rows[t]
  <2> HIDE DEF S
  <2> QED BY <1>4, <1>6, RevokedLinger
<1>9. ~(rows'[t].user = q.user /\ rows'[t].dev = q.dev /\ rows'[t].reason = "REVOKED_BY_USER")
  BY <1>3, <1>7, <1>8 DEF Clears
<1>10. t \notin S \/ rows'[t].reason # "REVOKED_BY_USER"
  <2>1. t \in S => t \in OwnedBy(q.user) /\ rows[t].sess \in q.todo
    BY <1>1, <1>8 DEF OwnedBy
  <2> QED BY <1>5, <1>8, <1>9, <2>1
<1> QED BY <1>4, <1>8, <1>9, <1>10 DEF Clears

LEMMA InsertCleared ==
  ASSUME IInv, NEW r \in Requests, Insert(r)
  PROVE  Accounted(r)
<1>1. cache' = cache /\ Serve(r) /\ req[r].pc = "insert"
  BY DEF Insert, redisVars, Serve
<1>2. SUFFICES ASSUME NEW t \in Lingering'
               PROVE  t \in Lingering \ Clears(req[r]) /\ rows'[t] = rows[t]
  BY DEF Accounted
<1>3. t \in Requests \ {r} /\ rows'[t] = rows[t] /\ t \in Stored
  BY <1>2, InsertWrites DEF Lingering, Stored
<1>4. t \in Lingering
  BY <1>1, <1>2, <1>3, SupersededStays DEF Lingering
<1>5. ASSUME t \in Clears(req[r]) PROVE FALSE
  <2>1. /\ rows[t].user = req[r].user /\ rows[t].dev = req[r].dev
        /\ rows[t].reason = "REVOKED_BY_USER"
    BY <1>1, <1>5 DEF Clears
  <2>2. rows[t].sess \in Stored
    BY <1>3 DEF IInv, RowsOK
  <2>3. /\ r \in Stored' /\ rows'[r].sess = r /\ r # rows'[t].sess
        /\ rows'[r].user = rows'[t].user /\ rows'[r].dev = rows'[t].dev
    BY <1>3, <2>1, <2>2, InsertWrites DEF Stored
  <2>4. Superseded(t)'
    BY <1>3, <2>1, <2>3 DEF Superseded
  <2> QED BY <1>2, <2>4 DEF Lingering
<1> QED BY <1>3, <1>4, <1>5

LEMMA RotateCleared ==
  ASSUME IInv, NEW r \in Requests, Rotate(r)
  PROVE  Accounted(r)
<1>1. cache' = cache /\ Serve(r) /\ Clears(req[r]) = {}
  BY ClearsNothing DEF Rotate, redisVars, Serve
<1>2. SUFFICES ASSUME NEW t \in Lingering' PROVE t \in Lingering /\ rows'[t] = rows[t]
  BY <1>1 DEF Accounted
<1>3. r # None
  BY NoneAssumption
<1>4. t \in Requests /\ rows'[t] = rows[t] /\ t \in Stored
  BY <1>2, <1>3, RotateWrites DEF Lingering, Stored
<1> QED BY <1>1, <1>2, <1>4, SupersededStays DEF Lingering

LEMMA CacheCleared ==
  ASSUME IInv, NEW r \in Requests, Cache(r) \/ Recache(r)
  PROVE  Accounted(r)
<1>1. CacheSession(req[r].tok) /\ rows' = rows /\ Clears(req[r]) = {}
  BY ClearsNothing DEF Cache, Recache
<1>2. SUFFICES ASSUME NEW t \in Lingering', t \notin past'.lost
               PROVE  t \in Lingering
  BY <1>1 DEF Accounted
<1>3. t # req[r].tok
  BY <1>1, <1>2 DEF CacheSession, Loses, Lingering, IInv, TypeOK, Past
<1>4. cache'[t] = cache[t]
  BY <1>1, <1>2, <1>3 DEF CacheSession, Lingering, IInv, TypeOK
<1> QED BY <1>1, <1>2, <1>4 DEF Lingering, Superseded, Stored

LEMMA RevokeAllCleared ==
  ASSUME IInv, Plans, NEW r \in Requests, RevokeAll(r) \/ RevokeOthers(r)
  PROVE  Accounted(r)
<1>1. cache' = cache /\ Serve(r) /\ Clears(req[r]) = {}
  BY ClearsNothing DEF RevokeAll, RevokeOthers, redisVars, Serve
<1>2. /\ req'[r].pc = "members" /\ req'[r].user = req[r].user
      /\ req'[r].op = req[r].op /\ req'[r].arg = req[r].arg
  BY Becomes DEF RevokeAll, RevokeOthers
<1>3. PICK S, why : /\ why \in Reasons /\ RevokeWhere(S, why)
                    /\ \A t \in S : /\ rows[t].user = req[r].user
                                    /\ req[r].op = "others" => t # req[r].arg
  <2>1. "REVOKED_BY_USER" \in Reasons /\ req[r].why \in Reasons
    BY DEF Reasons, IInv, TypeOK, Request
  <2>2. CASE RevokeAll(r)
    <3> DEFINE S == {t \in Requests : rows[t].user = req[r].user}
    <3>1. req[r].op # "others"
      BY <2>2 DEF RevokeAll, Plans, PlanOK
    <3>2. RevokeWhere(S, req[r].why) /\ \A t \in S : rows[t].user = req[r].user
      BY <2>2 DEF RevokeAll
    <3> HIDE DEF S
    <3> QED BY <2>1, <3>1, <3>2
  <2>3. CASE RevokeOthers(r)
    <3> DEFINE S == OtherSessions(req[r].user, req[r].arg)
    <3>1. \A t \in S : rows[t].user = req[r].user /\ t # req[r].arg
      BY DEF OtherSessions
    <3>2. RevokeWhere(S, "REVOKED_BY_USER")
      BY <2>3 DEF RevokeOthers
    <3> HIDE DEF S
    <3> QED BY <2>1, <3>1, <3>2
  <2> QED BY <2>2, <2>3
<1>4. SUFFICES ASSUME NEW t \in Lingering', t \notin Clears(req[r])'
               PROVE  t \in Lingering /\ rows'[t] = rows[t]
  BY <1>1 DEF Accounted
<1>5. /\ t \in Requests /\ rows'[t].user = rows[t].user
      /\ t \in S \/ (t \in Lingering /\ rows'[t] = rows[t])
  BY <1>1, <1>3, RevokedLinger
<1>6. t \notin S
  BY <1>2, <1>3, <1>4, <1>5 DEF Clears
<1> QED BY <1>5, <1>6

LEMMA RevokeOneCleared ==
  ASSUME IInv, NEW r \in Requests, RevokeOne(r) \/ Logout(r)
  PROVE  Accounted(r)
<1>1. cache' = cache /\ Serve(r) /\ Clears(req[r]) = {} /\ "none" \in Reasons
  BY ClearsNothing DEF RevokeOne, Logout, Arrives, redisVars, Serve, Reasons
<1>2. PICK x : RevokeWhere({x}, "none") /\ req'[r].pc = "owner" /\ req'[r].tok = x
  <2>1. CASE RevokeOne(r)
    BY <2>1, Becomes DEF RevokeOne
  <2>2. CASE Logout(r)
    <3>1. \A u, t : Enter(r, Answering(Started("logout", u, None, t), "owner", "served"))
                      => req'[r].pc = "owner" /\ req'[r].tok = t
      BY DEF IInv, TypeOK, Enter, Answering, Started, Idle
    <3> QED BY <2>2, <3>1 DEF Logout
  <2> QED BY <2>1, <2>2
<1>3. SUFFICES ASSUME NEW t \in Lingering', t \notin Clears(req[r])'
               PROVE  t \in Lingering /\ rows'[t] = rows[t]
  BY <1>1 DEF Accounted
<1>4. t \in Requests /\ (t \in {x} \/ (t \in Lingering /\ rows'[t] = rows[t]))
  BY <1>1, <1>2, RevokedLinger
<1>5. t # x
  BY <1>2, <1>3, <1>4 DEF Clears
<1> QED BY <1>4, <1>5

\* SMEMBERS finds every key that is to be deleted, unless it is lost already.
LEMMA MembersCleared ==
  ASSUME IInv, IndexOK, NEW r \in Requests, Members(r)
  PROVE  Accounted(r)
<1> DEFINE q == req[r]
           ids == userSet[q.user]
           S == IF q.op = "others" THEN ids \ {q.arg} ELSE ids
<1>1. rows' = rows /\ cache' = cache /\ q.pc = "members" /\ past' = past
  BY DEF Members, redisVars
<1>2. SUFFICES ASSUME NEW t \in Lingering, t \notin past.lost, t \in Clears(req[r])
               PROVE  t \in Clears(req[r])'
  <2>1. Lingering' = Lingering
    BY <1>1 DEF Lingering, Superseded, Stored
  <2> QED BY <1>1, <2>1 DEF Accounted
<1>3. rows[t].user = q.user /\ (q.op = "others" => t # q.arg) /\ t \in Requests
  BY <1>1, <1>2 DEF Clears
<1>4. t \in S
  BY <1>2, <1>3 DEF IndexOK, Lingering
<1>5. Enter(r, Through(req[r], "purge", S))
  BY <1>4 DEF Members
<1> HIDE DEF S
<1>6. req'[r].pc = "purge" /\ req'[r].todo = S
  BY <1>5, WorksThrough
<1> QED BY <1>3, <1>4, <1>6 DEF Clears

LEMMA OwnerCleared ==
  ASSUME IInv, NEW r \in Requests, Owner(r)
  PROVE  Accounted(r)
<1>1. rows' = rows /\ cache' = cache /\ req[r].pc = "owner"
  BY DEF Owner, redisVars
<1>2. PICK S : Enter(r, Through(req[r], "purgeOne", S))
  BY DEF Owner
<1>3. req'[r].pc = "purgeOne" /\ req'[r].tok = req[r].tok
  BY <1>2, WorksThrough
<1>4. Lingering' = Lingering
  BY <1>1 DEF Lingering, Superseded, Stored
<1> QED BY <1>1, <1>3, <1>4 DEF Accounted, Clears

\* The steps that delete or overwrite the keys a request was to clear.
LEMMA KeysCleared ==
  ASSUME IInv, NEW r \in Requests, Purge(r) \/ PurgeOne(r) \/ Negative(r)
  PROVE  Accounted(r)
<1>1. rows' = rows
  BY DEF Purge, PurgeOne, Negative
<1>2. SUFFICES ASSUME NEW t \in Lingering' PROVE t \in Lingering \ Clears(req[r])
  BY <1>1 DEF Accounted
<1>3. t \in Requests /\ cache'[t] = "active"
  BY DEF Lingering
<1>4. cache[t] = "active" /\ t \notin Clears(req[r])
  BY <1>3 DEF Purge, PurgeOne, Negative, Forget, Clears, IInv, TypeOK
<1> QED BY <1>1, <1>2, <1>4 DEF Lingering, Superseded, Stored

LEMMA AbortCleared ==
  ASSUME IInv, NEW r \in Requests, Abort(r)
  PROVE  Accounted(r)
<1>1. rows' = rows /\ cache' = cache /\ Loses(Lingering \cap Clears(req[r]))
  BY DEF Abort, redisVars
<1>2. past'.lost = past.lost \cup (Lingering \cap Clears(req[r]))
  BY <1>1 DEF Loses, IInv, TypeOK, Past
<1>3. Lingering' = Lingering
  BY <1>1 DEF Lingering, Superseded, Stored
<1> QED BY <1>1, <1>2, <1>3 DEF Accounted

LEMMA LingeringServe ==
  ASSUME IInv, Plans, IndexOK, LingeringCleared, NEW r \in Requests, Serve(r)
  PROVE  LingeringCleared'
<1>1. Accounted(r)
  BY QuietCleared, RevokeSameCleared, InsertCleared, RotateCleared, CacheCleared,
     RevokeAllCleared, RevokeOneCleared, MembersCleared, OwnerCleared, KeysCleared,
     AbortCleared DEF Serve
<1> QED BY <1>1, LeftToOthers

LEMMA LingeringOutside == ASSUME IInv, LingeringCleared, Outside PROVE LingeringCleared'
<1>1. ASSUME NEW t \in Lingering' PROVE t \in Lingering
  BY <1>1, OutsideFrame DEF Lingering, Superseded, Stored
<1>2. \A x \in Requests : \A t \in Requests : t \in Clears(req[x]) => t \in Clears(req[x])'
  BY OutsideFrame DEF Clears
<1>3. Lingering \subseteq Requests
  BY DEF Lingering
<1> QED BY <1>1, <1>2, <1>3, OutsideFrame DEF LingeringCleared

(* Every conjunct of the invariant of the cache holds in every reachable    *)
(* state: plans, index, one live token per session, and that a lingering    *)
(* token is lost or about to be cleared.                                    *)
THEOREM CacheInvariant == Spec => []CacheIInv
<1> DEFINE Inv == IInv /\ OneTokenPerSession /\ Plans /\ IndexOK /\ LingeringCleared
<1>1. Init => Inv
  <2>1. Init => IndexOK /\ LingeringCleared
    BY NoRowFields DEF Init, IndexOK, LingeringCleared, Lingering
  <2>2. Init => OneTokenPerSession
    BY NoRowFields DEF Init, OneTokenPerSession, Stored
  <2> QED BY <2>1, <2>2, InitIInv, InitPlans
<1>2. Inv /\ [Next]_vars => Inv'
  BY NextStep, OneTokenNext, PlansNext, NextCases, IndexServe, IndexOutside,
     LingeringServe, LingeringOutside
<1>3. Inv => CacheIInv
  BY DEF CacheIInv, Plans
<1> QED BY <1>1, <1>2, <1>3, PTL DEF Spec

(* While no request of a user is under way, the cache calls no revoked token *)
(* of the user active but those that rotation replaced, those of a           *)
(* superseded session and the lost ones: a key written after its row had     *)
(* ended, or passed by or left behind by an invalidation.                    *)
THEOREM CacheIsCoherent == Spec => []CacheCoherent
<1>1. CacheIInv => CacheCoherent
  <2>1. SUFFICES ASSUME CacheIInv, NEW t \in Lingering, t \notin past.lost
                 PROVE  \E r \in InFlight : req[r].user = rows[t].user
    BY DEF CacheCoherent
  <2>2. PICK r \in Requests : t \in Clears(req[r])
    BY <2>1 DEF CacheIInv, LingeringCleared
  <2>3. r \in InFlight
    BY <2>2 DEF InFlight, Clears
  <2>4. RequestOK(r, req[r])
    BY <2>1 DEF CacheIInv, IInv
  <2>5. req[r].user = rows[t].user
    BY <2>2, <2>4 DEF Clears, RequestOK, TokenSteps, OwnedBy
  <2> QED BY <2>3, <2>5
<1> QED BY <1>1, CacheInvariant, PTL

=============================================================================
