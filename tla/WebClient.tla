-------------------------------- MODULE WebClient --------------------------------
(***************************************************************************)
(* The tabs of one browser.  They share the refresh cookie and the "user"   *)
(* of localStorage; each keeps its own access token and re-authentication  *)
(* token in memory.  Every call goes through apiRequest, which asks for a  *)
(* new access token after a 401 and repeats the call, on its own: tabs and *)
(* calls do not share a refresh.                                           *)
(*                                                                         *)
(* A call is sent, served and received in three steps.  The server is one  *)
(* step per request here and reads what it wrote: what interleaves inside   *)
(* it, and a replica that lags, is in Sessions.  The browser's device does  *)
(* not change, the account is one at a time, and the rows of refresh_tokens *)
(* that nobody holds are used again.                                       *)
(***************************************************************************)
EXTENDS Naturals, FiniteSets

CONSTANTS
  Tabs, Calls,
  Owner, None,  \* the account; no id
  Role,         \* of the account; an ADMIN's calls are in Sessions
  Redis,        \* sessions are cached
  MaxTokens,    \* bound on the refresh tokens held at once
  Ops,          \* the calls people and pages make in each tab of this instance
  Faults        \* "busy": 503; "lost": a call fails on the way; "slow": an answer
                \* outlives the grace period; "elsewhere": another device signs in;
                \* "error": a logout fails and says nothing of it

AllOps == {"login", "force", "restore", "status", "profile", "list", "reauth",
           "password", "email", "delete", "logout"}

ASSUME RoleAssumption == Role \in {"USER", "MANAGER"}
ASSUME BoundAssumption == MaxTokens \in Nat \ {0}
ASSUME OpsAssumption == Ops \in [Tabs -> SUBSET AllOps]
ASSUME RedisAssumption == Redis \in BOOLEAN
ASSUME FaultsAssumption == Faults \subseteq {"busy", "lost", "slow", "elsewhere", "error"}

Ids == 1..MaxTokens
No == 0  \* no token

P == INSTANCE Policy WITH NoId <- None

VARIABLES
  token,      \* refresh_tokens
  cached,     \* the tokens with a session in Redis
  elsewhere,  \* another device has a live session
  cookie,     \* the refresh token in the cookie jar
  user,       \* localStorage has a "user"
  tab,        \* the tabs
  call,       \* the calls under way
  upset       \* history: calls have crossed, answers that set the cookie were lost,
              \* or a logout failed

vars == <<token, cached, elsewhere, cookie, user, tab, call, upset>>
serverVars == <<token, cached, elsewhere>>

\* grace: less than 30 seconds since revoked_at; concurrent: the reason given.
Row == [state : {"none", "live", "ended"}, next : Ids \cup {No},
        grace : BOOLEAN, concurrent : BOOLEAN]
NoRow == [state |-> "none", next |-> No, grace |-> FALSE, concurrent |-> FALSE]
LiveRow == [NoRow EXCEPT !.state = "live"]

\* loading: App still restores the session; access: the access token, if it has
\* not expired; proof: the re-authentication token; asks: the page offers to sign
\* other devices out.
Tab == [page : {"login", "app"}, loading : BOOLEAN, access : Ids \cup {No},
        proof : {"none", "good", "old"}, asks : BOOLEAN]
Blank == [page |-> "login", loading |-> FALSE, access |-> No, proof |-> "none",
          asks |-> FALSE]

Steps == {"idle", "sent", "answered", "refresh", "refreshed", "again",
          "answeredAgain", "soon"}
Answers == {"none", "ok", "refused", "concurrent", "security", "conflict",
            "revoked", "forbidden", "reauth", "failed", "busy", "lost"}

\* jwt, proof and ck: what the request carries; id: the token it was given;
\* dead: its page is gone.
Call == [pc : Steps, op : AllOps, from : Tabs \cup {None}, jwt : Ids \cup {No},
         proof : BOOLEAN, ck : Ids \cup {No}, ans : Answers,
         id : Ids \cup {No}, dead : BOOLEAN]
Idle == [pc |-> "idle", op |-> "status", from |-> None, jwt |-> No, proof |-> FALSE,
         ck |-> No, ans |-> "none", id |-> No, dead |-> FALSE]

(* One type invariant for the eight variables. *)
TypeOK ==
  /\ token \in [Ids -> Row]
  /\ cached \subseteq Ids
  /\ elsewhere \in BOOLEAN
  /\ cookie \in Ids \cup {No}
  /\ user \in BOOLEAN
  /\ tab \in [Tabs -> Tab]
  /\ call \in [Calls -> Call]
  /\ upset \in BOOLEAN

Init ==
  /\ token = [i \in Ids |-> NoRow]
  /\ cached = {}
  /\ elsewhere \in (IF "elsewhere" \in Faults THEN BOOLEAN ELSE {FALSE})
  /\ cookie = No /\ user = FALSE
  /\ tab = [t \in Tabs |-> Blank]
  /\ call = [c \in Calls |-> Idle]
  /\ upset = FALSE

Live(i) == i # No /\ token[i].state = "live"
NoneLive == \A i \in Ids : ~Live(i)

\* getSessionData finds a session for an access token.
Accepted(i) == Live(i) \/ i \in cached

At(c, p) == call[c].pc = p
Op(c) == call[c].op
Mine(c) == call[c].from
Flying(c) == call[c].pc \notin {"idle", "soon"}

\* Calls that use the cookie to get a new access token, those that write the
\* "user", and those that may end tokens.
Renewing(c) == Flying(c) /\ (Op(c) = "restore" \/ call[c].pc \in {"refresh", "refreshed"})
Writing(c) == Renewing(c) \/ (Flying(c) /\ Op(c) \in {"profile", "email"})
Ending == {"login", "force", "logout", "password", "delete"}

\* Operation o, with cookie ck, begins while another call is under way that may
\* end tokens, and writes the cookie or the "user"; or the other way round; or both
\* renew, one of them the live token.  A sign-in crosses every call.  (Send adds: the
\* profile is read with a token that has ended and is still in Redis.)
Crosses(c, o, ck) ==
  \E d \in Calls \ {c} :
    \/ Flying(d) /\ Op(d) \in Ending /\ o \in Ending \cup {"restore", "profile", "email"}
    \/ Writing(d) /\ o \in Ending
    \/ Renewing(d) /\ o = "restore" /\ ck # call[d].ck /\ (Live(ck) \/ Live(call[d].ck))
    \/ Flying(d) /\ o \in {"login", "force"}
Note(cause) == upset' = (upset \/ cause)

(***************************************************************************)
(* Sending.                                                                *)
(***************************************************************************)
Guarded == AllOps \ {"login", "force", "restore", "logout"}

\* Mutant: logout sends no cookie.
Request_NoCookie(t, o) ==
  [Idle EXCEPT !.pc = "sent", !.op = o, !.from = t,
               !.jwt = IF o \in Guarded THEN tab[t].access ELSE No,
               !.proof = o \in {"password", "email"} /\ tab[t].proof = "good",
               !.ck = IF o = "restore" THEN cookie ELSE No]

\* What a request carries and its handler reads.
Request(t, o) ==
  [Idle EXCEPT !.pc = "sent", !.op = o, !.from = t,
               !.jwt = IF o \in Guarded THEN tab[t].access ELSE No,
               !.proof = o \in {"password", "email"} /\ tab[t].proof = "good",
               !.ck = IF o \in {"restore", "logout"} THEN cookie ELSE No]

\* The pages that make a call.  A button waits for the answer to its last call;
\* people wait for one form before they send another.
Forms == {"login", "force", "reauth", "password", "email", "delete", "logout"}
Offered(t, o) ==
  /\ \A c \in Calls : Flying(c) /\ Mine(c) = t /\ ~call[c].dead
                       => Op(c) # o /\ ~({o, Op(c)} \subseteq Forms)
  /\ o \in Ops[t] \ {"restore"}
  /\ ~tab[t].loading
  /\ o = "login" => tab[t].page = "login"
  /\ o = "force" => tab[t].asks
  /\ o = "status" => user
  /\ o \notin {"login", "force", "status"} => tab[t].page = "app"
  /\ o \in {"password", "email"} => tab[t].proof # "none"

Send(c, t, o) ==
  /\ At(c, "idle") /\ Offered(t, o)
  /\ call' = [call EXCEPT ![c] = Request(t, o)]
  /\ tab' = [tab EXCEPT ![t].asks = @ /\ o # "login"]
  /\ Note(Crosses(c, o, cookie) \/ (o \in {"profile", "email"}
                                            /\ tab[t].access \in {i \in cached : ~Live(i)}))
  /\ UNCHANGED <<serverVars, cookie, user>>

\* The check every ten seconds.
Poll(t) == \E c \in Calls : Send(c, t, "status")

\* The calls of a page that is left are nobody's; those that neither renew nor end
\* a token are forgotten.
Left(t) == [c \in Calls |->
              IF Mine(c) # t THEN call[c]
              ELSE IF Renewing(c) \/ (Flying(c) /\ Op(c) \in Ending)
                   THEN [call[c] EXCEPT !.dead = TRUE] ELSE Idle]

\* A page of the app is loaded.  App restores the session if there is a "user";
\* else the page sends the person to the login page.
Load(t) ==
  /\ IF user
     THEN \E c \in Calls :
            /\ At(c, "idle") /\ "restore" \in Ops[t]
            /\ call' = [Left(t) EXCEPT ![c] = Request(t, "restore")]
            /\ tab' = [tab EXCEPT ![t] = [Blank EXCEPT !.page = "app", !.loading = TRUE]]
            /\ Note(Crosses(c, "restore", cookie))
     ELSE /\ call' = Left(t)
          /\ tab' = [tab EXCEPT ![t] = Blank]
          /\ UNCHANGED upset
  /\ UNCHANGED <<serverVars, cookie, user>>

\* A page of the app is opened in a tab that runs, and there is no "user".
Turn(t) ==
  /\ tab[t].page = "app" /\ ~tab[t].loading /\ ~user
  /\ tab' = [tab EXCEPT ![t].page = "login", ![t].proof = "none"]
  /\ UNCHANGED <<serverVars, cookie, user, call, upset>>

(***************************************************************************)
(* Serving.                                                                *)
(***************************************************************************)
Answer(c, a, i) ==
  call' = [call EXCEPT ![c].ans = a, ![c].id = i, ![c].jwt = No,
             ![c].pc = CASE @ = "sent" -> "answered" [] @ = "refresh" -> "refreshed"
                         [] @ = "again" -> "answeredAgain"]

\* revoked_at and the reason are set again for a row that has ended.
End(row, concurrent) ==
  IF row.state = "none" THEN row
  ELSE [row EXCEPT !.state = "ended", !.grace = TRUE, !.concurrent = concurrent]

\* refresh_tokens becomes f.  A replacement that has ended counts for nothing.
Store(f) ==
  token' = [i \in Ids |-> IF f[i].next # No /\ f[f[i].next].state = "live" THEN f[i]
                          ELSE [f[i] EXCEPT !.next = No, !.grace = FALSE]]

\* invalidateAllUserSessions.
RevokeAll(concurrent) ==
  /\ Store([i \in Ids |-> End(token[i], concurrent)])
  /\ cached' = {} /\ elsewhere' = FALSE

\* The tokens somebody has or may be given.
Held ==
  LET carried == ({cookie} \cup {tab[t].access : t \in Tabs}
                    \cup UNION {{call[c].jwt, call[c].ck, call[c].id} : c \in Calls}) \ {No}
  IN carried \cup {token[i].next : i \in carried} \cup {i \in Ids : Live(i)}
Free == Ids \ Held
Lowest(free) == {i \in free : \A j \in free : i <= j}

\* A new row i; it takes the place of old, or everything live on this device
\* ends (login).  Rows nobody holds are forgotten.
Issue(i, old, free) ==
  /\ Store([j \in Ids |->
       CASE j = i -> LiveRow
         [] j \in free \ {i} -> NoRow
         [] j = old -> [End(token[j], FALSE) EXCEPT !.next = i]
         [] old = No /\ Live(j) -> End(token[j], FALSE)
         [] OTHER -> token[j]])
  /\ cached' = (cached \ free) \cup (IF Redis THEN {i} ELSE {})

\* Mutant: no grace period.
Successor_None(i) == No

\* The replacement of a token rotated less than 30 seconds ago.
Successor(i) ==
  IF i # No /\ token[i].state = "ended" /\ token[i].grace /\ Live(token[i].next)
  THEN token[i].next ELSE No

Reused(i) ==
  i # No /\ token[i].state = "ended" /\ ~token[i].concurrent /\ Successor(i) = No

Waits(c, ops) == call[c].pc \in {"sent", "again"} /\ Op(c) \in ops

Renews(c) == At(c, "refresh") \/ (At(c, "sent") /\ Op(c) = "restore")

(* refresh *)
Renew(c) ==
  LET i == call[c].ck IN
  /\ Renews(c)
  /\ \/ /\ i = No \/ (i # No /\ token[i].state = "none")
        /\ Answer(c, "refused", No)
        /\ UNCHANGED serverVars
     \/ /\ i # No /\ token[i].state = "ended" /\ token[i].concurrent
        /\ Answer(c, "concurrent", No)
        /\ UNCHANGED serverVars
     \/ /\ Successor(i) # No /\ ~token[i].concurrent
        /\ Answer(c, "ok", Successor(i))
        /\ UNCHANGED serverVars
     \/ /\ Reused(i)
        /\ RevokeAll(FALSE)
        /\ Answer(c, "security", No)
     \/ /\ Live(i)
        /\ \E free \in {Free} : \E j \in Lowest(free) :
             Issue(j, i, free) /\ Answer(c, "ok", j)
        /\ UNCHANGED elsewhere
  /\ UNCHANGED <<cookie, user, tab, upset>>

(* login; force is the same form with force: true.  Every password is right or not. *)
Login(c) ==
  /\ Waits(c, {"login", "force"})
  /\ \/ /\ Answer(c, "refused", No)
        /\ UNCHANGED serverVars
     \/ /\ elsewhere /\ Op(c) = "login"
        /\ Answer(c, "conflict", No)
        /\ UNCHANGED serverVars
     \/ /\ elsewhere /\ Op(c) = "force"
        /\ RevokeAll(TRUE)
        /\ Answer(c, "revoked", No)
     \/ /\ ~elsewhere
        /\ \E free \in {Free} : \E j \in Lowest(free) :
             Issue(j, No, free) /\ Answer(c, "ok", j)
        /\ UNCHANGED elsewhere
  /\ UNCHANGED <<cookie, user, tab, upset>>

\* revokeRefreshToken
Revoke(i) == Store([j \in Ids |-> IF j = i THEN End(token[j], FALSE) ELSE token[j]])

(* logout: asks for the cookie only.  An error of the database or of Redis, before *)
(* the row is revoked or after it, is swallowed: the answer is the same.           *)
Logout(c) ==
  LET i == call[c].ck IN
  /\ Waits(c, {"logout"})
  /\ Answer(c, "ok", No)
  /\ \/ Revoke(i) /\ cached' = cached \ {i} /\ UNCHANGED upset
     \/ /\ "error" \in Faults /\ i # No
        /\ UNCHANGED cached /\ (UNCHANGED token \/ (Redis /\ Revoke(i)))
        /\ Note(TRUE)
  /\ UNCHANGED <<elsewhere, cookie, user, tab>>

Admitted(c) == Accepted(call[c].jwt)

(* authMiddleware *)
Refuse(c) ==
  /\ Waits(c, Guarded) /\ ~Admitted(c)
  /\ Answer(c, IF call[c].jwt # No /\ token[call[c].jwt].concurrent
               THEN "concurrent" ELSE "refused", No)
  /\ UNCHANGED <<serverVars, cookie, user, tab, upset>>

(* reauthMiddleware *)
WantProof(c) ==
  /\ Waits(c, {"password", "email"}) /\ Admitted(c) /\ ~call[c].proof
  /\ Answer(c, "reauth", No)
  /\ UNCHANGED <<serverVars, cookie, user, tab, upset>>

\* A call that changes no token is let in and answered.
Handle(c, op, answers) ==
  /\ Waits(c, {op}) /\ Admitted(c)
  /\ \E a \in answers : Answer(c, a, No)
  /\ UNCHANGED <<serverVars, cookie, user, tab, upset>>

SessionStatus(c) == Handle(c, "status", {"ok"})

(* getSessions; to these roles, the policy refuses the audit log and            *)
(* revokeOtherSessions in the same way.                                        *)
GetSessions(c) ==
  Handle(c, "list",
         IF P!Can(P!Payload(Owner, Role), "view_sessions", Owner) THEN {"ok"}
         ELSE {"forbidden"})

GetProfile(c) == Handle(c, "profile", {"ok", "failed"})

(* reauthWithPassword, verifyReauthOTP *)
Reauth(c) == Handle(c, "reauth", {"ok", "failed"})

(* sendEmailChangeOTP, verifyAndChangeEmail *)
ChangeEmail(c) == call[c].proof /\ Handle(c, "email", {"ok", "failed"})

(* changePassword *)
ChangePassword(c) ==
  /\ Waits(c, {"password"}) /\ Admitted(c) /\ call[c].proof
  /\ \/ Answer(c, "failed", No) /\ UNCHANGED serverVars
     \/ Answer(c, "ok", No) /\ RevokeAll(FALSE)
  /\ UNCHANGED <<cookie, user, tab, upset>>

(* confirmAccountDeletion: the rows go with the user.  The next sign-in is of a  *)
(* new account.                                                              *)
DeleteAccount(c) ==
  /\ Waits(c, {"delete"}) /\ Admitted(c)
  /\ \/ Answer(c, "failed", No) /\ UNCHANGED serverVars
     \/ /\ Answer(c, "ok", No)
        /\ token' = [i \in Ids |-> NoRow] /\ cached' = {} /\ elsewhere' = FALSE
  /\ UNCHANGED <<cookie, user, tab, upset>>

Serve(c) == Renew(c) \/ Login(c) \/ Logout(c) \/ Refuse(c) \/ WantProof(c)
              \/ SessionStatus(c) \/ GetSessions(c) \/ GetProfile(c) \/ Reauth(c)
              \/ ChangeEmail(c) \/ ChangePassword(c) \/ DeleteAccount(c)

(* The overload protection refuses. *)
Busy(c) ==
  /\ "busy" \in Faults /\ call[c].pc \in {"sent", "refresh", "again"}
  /\ Answer(c, "busy", No)
  /\ UNCHANGED <<serverVars, cookie, user, tab, upset>>

(* A request, or its answer, is lost on the way. *)
Lose(c) ==
  /\ "lost" \in Faults /\ Flying(c) /\ call[c].ans # "lost"
  /\ call' = [call EXCEPT ![c].ans = "lost", ![c].id = No,
                ![c].pc = CASE @ = "sent" -> "answered" [] @ = "refresh" -> "refreshed"
                            [] @ = "again" -> "answeredAgain" [] OTHER -> @]
  /\ Note(At(c, "answered") \/ At(c, "refreshed"))
  /\ UNCHANGED <<serverVars, cookie, user, tab>>

(***************************************************************************)
(* Receiving.                                                              *)
(***************************************************************************)
\* The cookie jar after the answer to c.
Jar(c) ==
  IF call[c].id # No THEN call[c].id
  ELSE IF Op(c) \in {"logout", "delete"} /\ call[c].ans = "ok" THEN No ELSE cookie

Done(c) == call' = [call EXCEPT ![c] = Idle]

\* Mutant: the "user" stays.
SignOut_KeepsUser(t) == tab' = [tab EXCEPT ![t] = Blank] /\ UNCHANGED user

\* clearSession, and the login page: by the router, the tab's calls go on; or
\* loaded anew.
SignOut(t) == tab' = [tab EXCEPT ![t] = Blank] /\ user' = FALSE
Reload(c) == SignOut(Mine(c)) /\ call' = [Left(Mine(c)) EXCEPT ![c] = Idle]

\* setAccessToken and the "user" of localStorage.
Granted(t, i) ==
  /\ tab' = [tab EXCEPT ![t].access = i]
  /\ user' = TRUE

(* What the caller does with a good answer. *)
\* LoginPage: handleSuccess, and handleForceLogin when nobody else was signed in.
SignedIn(c) ==
  /\ Op(c) \in {"login", "force"} /\ call[c].ans = "ok"
  /\ tab' = [tab EXCEPT ![Mine(c)] = [Blank EXCEPT !.page = "app",
                                                   !.access = call[c].id]]
  /\ user' = TRUE /\ Done(c)

\* LoginPage, handleForceLogin: "Please log in again."
OthersLoggedOut(c) ==
  /\ Op(c) = "force" /\ call[c].ans = "revoked"
  /\ tab' = [tab EXCEPT ![Mine(c)].asks = FALSE]
  /\ UNCHANGED user /\ Done(c)

\* App
Restored(c) ==
  /\ Op(c) = "restore"
  /\ tab' = [tab EXCEPT ![Mine(c)].access = call[c].id, ![Mine(c)].loading = FALSE]
  /\ user' = TRUE /\ Done(c)

\* App, SessionsPage
Shown(c) == Op(c) \in {"status", "list"} /\ UNCHANGED <<tab, user>> /\ Done(c)

\* ProfilePage, AuthenticatedLayout
ProfileShown(c) == Op(c) = "profile" /\ UNCHANGED tab /\ user' = TRUE /\ Done(c)

\* ReauthModal
Proved(c) ==
  /\ Op(c) = "reauth"
  /\ tab' = [tab EXCEPT ![Mine(c)].proof = IF tab[Mine(c)].page = "app" THEN "good" ELSE @]
  /\ UNCHANGED user /\ Done(c)

\* ProfilePage: logging out in three seconds.
PasswordChanged(c) ==
  /\ Op(c) = "password"
  /\ tab' = [tab EXCEPT ![Mine(c)].proof = "none"]
  /\ call' = [call EXCEPT ![c] = [Idle EXCEPT !.pc = "soon", !.op = "password",
                                              !.from = Mine(c)]]
  /\ UNCHANGED user

\* ProfilePage: the code is sent; or it is verified, and the profile read again.
EmailChanged(c) ==
  /\ Op(c) = "email"
  /\ \/ UNCHANGED tab /\ Done(c)
     \/ /\ tab' = [tab EXCEPT ![Mine(c)].proof = "none"]
        /\ call' = [call EXCEPT ![c] = Request(Mine(c), "profile")]
  /\ UNCHANGED user

\* ProfilePage
Deleted(c) == Op(c) = "delete" /\ SignOut(Mine(c)) /\ Done(c)

\* ProfilePage, whatever the answer.
LoggedOut(c) == Op(c) = "logout" /\ SignOut(Mine(c))

Succeed(c) ==
  \/ SignedIn(c) \/ OthersLoggedOut(c) \/ Restored(c) \/ Shown(c) \/ ProfileShown(c)
  \/ Proved(c) \/ PasswordChanged(c) \/ EmailChanged(c) \/ Deleted(c)
  \/ LoggedOut(c) /\ Done(c)

(* What it does with an error. *)
Fail(c) ==
  \/ /\ Op(c) = "login" /\ call[c].ans = "conflict"
     /\ tab' = [tab EXCEPT ![Mine(c)].asks = tab[Mine(c)].page = "login"]
     /\ UNCHANGED user
  \/ Op(c) = "restore" /\ SignOut(Mine(c))
  \/ LoggedOut(c)
  \/ /\ Op(c) \notin {"restore", "logout"} /\ call[c].ans # "conflict"
     /\ UNCHANGED <<tab, user>>

Good(c) == call[c].ans \in {"ok", "revoked"}
Public == {"login", "force", "restore", "reauth"}
Expired(c) == call[c].ans \in {"refused", "reauth"} /\ Op(c) \notin Public

\* The tab is still there.
Here(c, step) == At(c, step) /\ ~call[c].dead

(* apiRequest, the first answer *)
Receive(c) ==
  /\ Here(c, "answered")
  /\ cookie' = Jar(c)
  /\ \/ Good(c) /\ Succeed(c)
     \/ call[c].ans = "concurrent" /\ Reload(c)
     \/ /\ Expired(c)
        /\ call' = [call EXCEPT ![c].pc = "refresh", ![c].ck = cookie, ![c].ans = "none"]
        /\ UNCHANGED <<tab, user>>
     \/ /\ ~Good(c) /\ call[c].ans # "concurrent" /\ ~Expired(c)
        /\ Fail(c) /\ Done(c)
  /\ Note(Expired(c) /\ Crosses(c, "restore", cookie))
  /\ UNCHANGED serverVars

\* Mutant: with the headers as they were.
Retry_OldHeaders(c) ==
  [call[c] EXCEPT !.pc = "again", !.ck = No, !.id = No, !.ans = "none"]

\* The call is repeated with the new access token.
Retry(c) ==
  [call[c] EXCEPT !.pc = "again", !.jwt = call[c].id, !.ck = No, !.id = No, !.ans = "none"]

(* apiRequest, the answer to the refresh *)
Refreshed(c) ==
  /\ Here(c, "refreshed")
  /\ cookie' = Jar(c)
  /\ \/ /\ call[c].ans = "ok"
        /\ Granted(Mine(c), call[c].id)
        /\ call' = [call EXCEPT ![c] = Retry(c)]
     \/ call[c].ans # "ok" /\ Reload(c)
  /\ UNCHANGED <<serverVars, upset>>

(* apiRequest, the answer to the repeated call *)
ReceiveAgain(c) ==
  /\ Here(c, "answeredAgain")
  /\ cookie' = Jar(c)
  /\ \/ Good(c) /\ Succeed(c)
     \/ ~Good(c) /\ Reload(c)
  /\ UNCHANGED <<serverVars, upset>>

\* The page is gone: the jar may have the cookie of the answer, or not.
Drop(c) ==
  /\ call[c].dead /\ call[c].pc \in {"answered", "refreshed", "answeredAgain"}
  /\ \/ cookie' = Jar(c) /\ UNCHANGED upset
     \/ UNCHANGED cookie /\ Note(call[c].id # No)
  /\ Done(c)
  /\ UNCHANGED <<serverVars, user, tab>>

\* Three seconds after the password was changed.
Timer(c) ==
  /\ At(c, "soon")
  /\ SignOut(Mine(c)) /\ Done(c)
  /\ UNCHANGED <<serverVars, cookie, upset>>

(***************************************************************************)
(* The clock, and another device.                                          *)
(***************************************************************************)
ExpireAccess(t) ==
  /\ tab[t].access # No
  /\ tab' = [tab EXCEPT ![t].access = No]
  /\ UNCHANGED <<serverVars, cookie, user, call, upset>>

ExpireProof(t) ==
  /\ tab[t].proof = "good"
  /\ tab' = [tab EXCEPT ![t].proof = "old"]
  /\ UNCHANGED <<serverVars, cookie, user, call, upset>>

GraceEnds(i) ==
  LET late == \E c \in Calls : Renewing(c) /\ i \in {call[c].ck, call[c].id} IN
  /\ token[i].grace /\ token[i].next # No
  /\ late => "slow" \in Faults
  /\ token' = [token EXCEPT ![i].grace = FALSE]
  /\ Note(late)
  /\ UNCHANGED <<cached, elsewhere, cookie, user, tab, call>>

\* It signs out; it signs in: at once if nobody is signed in, else it signs
\* everyone out first.
OtherDevice ==
  /\ "elsewhere" \in Faults
  /\ \/ elsewhere /\ elsewhere' = FALSE /\ UNCHANGED <<token, cached>>
     \/ ~elsewhere /\ NoneLive /\ elsewhere' = TRUE /\ UNCHANGED <<token, cached>>
     \/ ~NoneLive /\ RevokeAll(TRUE)
  /\ UNCHANGED <<cookie, user, tab, call, upset>>

Next ==
  \/ \E t \in Tabs : Load(t) \/ Turn(t) \/ ExpireAccess(t) \/ ExpireProof(t)
  \/ \E c \in Calls, t \in Tabs, o \in AllOps : Send(c, t, o)
  \/ \E c \in Calls : Serve(c) \/ Busy(c) \/ Lose(c) \/ Receive(c) \/ Refreshed(c)
                        \/ ReceiveAgain(c) \/ Drop(c) \/ Timer(c)
  \/ \E i \in Ids : GraceEnds(i)
  \/ OtherDevice

Spec == Init /\ [][Next]_vars

(***************************************************************************)
(* The inductive invariant.                                                *)
(***************************************************************************)
Starts == {"login", "force"}

\* At most one token lives, and on one device; it replaces one token at most, and
\* nothing else replaces any; Redis has it.
RowsOK ==
  /\ \A i, j \in Ids : Live(i) /\ Live(j) => i = j
  /\ elsewhere => NoneLive
  /\ \A i \in Ids : token[i].next # No => token[i].state = "ended" /\ Live(token[i].next)
  /\ \A i, j \in Ids : token[i].next # No /\ token[i].next = token[j].next => i = j
  /\ \A i \in Ids : Redis /\ Live(i) => i \in cached

\* What an answer may be, and how far the call r is that got it.
CallOK(r) ==
  /\ r.pc \in {"sent", "refresh", "again"} => r.ans = "none"
  /\ r.id # No <=> /\ r.ans = "ok"
                   /\ \/ r.pc = "answered" /\ r.op \in Starts \cup {"restore"}
                      \/ r.pc = "refreshed"
  /\ r.id # No => r.id # r.ck
  /\ r.pc \in {"refresh", "refreshed", "again", "answeredAgain"} => r.op \in Guarded \ {"reauth"}
  /\ r.pc = "answered" /\ r.op = "logout" => r.ans \in {"ok", "busy", "lost"}
  /\ r.pc = "refreshed" \/ (r.pc = "answered" /\ r.op = "restore")
       => r.ans \in {"ok", "refused", "concurrent", "security", "busy", "lost"}
  /\ r.pc = "answeredAgain"
       => r.ans \in {"ok", "refused", "concurrent", "reauth", "failed", "forbidden",
                     "busy", "lost"}
  /\ r.ans = "revoked" => r.op = "force"
  /\ r.pc = "soon" => r.op = "password"
  /\ r.pc # "idle" => r.from \in Tabs

\* Calls that have not crossed.
Apart ==
  \A c \in Calls : \A d \in Calls \ {c} : Flying(c) /\ Flying(d) =>
    /\ Op(c) \in Ending => Op(d) \notin Ending /\ ~Writing(d)
    /\ Op(c) \in Starts => call[d].pc \in {"sent", "answered"}
    /\ Renewing(c) /\ Renewing(d) /\ Live(call[c].ck) => call[d].ck = call[c].ck

\* A refresh with token i is granted.
Renewable(i) == Live(i) \/ (Successor(i) # No /\ ~token[i].concurrent)

\* The live token is in the jar, or in an answer on its way there.
OnItsWay(i) ==
  \/ cookie = i
  \/ \E c \in Calls : /\ call[c].id = i
                      /\ Op(c) \in Starts \/ (Renewing(c) /\ cookie = call[c].ck)

LiveIsKnown ==
  \A i \in Ids : Live(i) =>
    /\ OnItsWay(i)
    /\ \A c \in Calls : call[c].id # No => call[c].id = i
    /\ \A c \in Calls : Renewing(c) => Renewable(call[c].ck)

\* The calls after which nothing lives.
EndOK(c) ==
  LET r == call[c] IN
  /\ r.op = "logout" /\ r.pc = "sent" => \A i \in Ids : Live(i) => r.ck = i
  /\ \/ r.pc \in {"answered", "answeredAgain"} /\ r.op \in {"logout", "delete"} /\ r.ans = "ok"
     \/ Renewing(c) /\ r.ans \in {"refused", "security"}
     \/ Redis /\ r.pc = "again" /\ r.jwt \notin cached
     \/ Redis /\ r.pc = "answeredAgain" /\ r.ans = "refused"
     => NoneLive

\* Where there is a "user" there is a cookie, and a profile that is read proves it.
UserOK ==
  /\ user => cookie # No
  /\ \A c \in Calls : Flying(c) =>
       /\ Op(c) \in {"profile", "email"} /\ (call[c].ans = "ok" \/ call[c].jwt \in cached)
            => cookie # No
       /\ Op(c) \in {"logout", "delete"} /\ call[c].dead => ~user

\* Whatever happened, and while nothing crossed.
Sound == TypeOK /\ RowsOK /\ \A c \in Calls : CallOK(call[c])
Quiet == Apart /\ LiveIsKnown /\ (\A c \in Calls : EndOK(c)) /\ UserOK

IInv == Sound /\ (upset \/ Quiet)

(***************************************************************************)
(* Properties.                                                             *)
(***************************************************************************)
(* A browser whose calls did not cross and whose answers arrived may renew   *)
(* its token from several tabs at once: the alarm for a reused token         *)
(* (auth.service.ts) never ends a session that lives.                        *)
AlarmExplained ==
  [][\A c \in Calls : Renew(c) /\ Reused(call[c].ck) => upset \/ NoneLive]_vars

(* The two stores agree: where there is a "user", there is a cookie, once    *)
(* the calls have come to an end.                                            *)
UserHasCookie == user /\ ~upset /\ (\A c \in Calls : ~Flying(c)) => cookie # No

(* After "Logged out successfully." no refresh token of the account lives,   *)
(* whatever tab renewed it before; unless a renewal or another call crossed  *)
(* the request, which leaves the new token live, or the logout failed.       *)
(* (Access tokens of rotated tokens may still be in Redis, and work until    *)
(* they expire.)                                                             *)
LogoutEnds ==
  [][\A c \in Calls :
       Receive(c) /\ Op(c) = "logout" /\ call[c].ans = "ok" => upset \/ NoneLive]_vars

(* apiClient.ts clears the session on its own: a page of the app gives way   *)
(* to the login page while the token in the jar is live only if a call of    *)
(* this tab failed for another reason than the access token, signed out on   *)
(* purpose or crossed another, or if another tab removed the "user".         *)
KeptSignedIn ==
  [][\A t \in Tabs :
       tab[t].page = "app" /\ tab'[t].page = "login" /\ Live(cookie) /\ user =>
         \/ upset
         \/ \E c \in Calls :
              /\ Mine(c) = t /\ call'[c] = Idle /\ call[c] # Idle
              /\ \/ Op(c) \in {"logout", "delete", "password"}
                 \/ call[c].ans \in {"busy", "lost", "failed", "forbidden", "reauth",
                                     "concurrent"}]_vars

(* A signed-in person sees their own sessions (policy.ts: "Users can only    *)
(* view/manage their own resources").                                        *)
OwnSessionsShown ==
  \A c \in Calls : ~(Op(c) = "list" /\ call[c].ans = "forbidden")
=============================================================================
