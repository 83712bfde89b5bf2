------------------------------- MODULE Accounts -------------------------------
(***************************************************************************)
(* One account: the lockout of its sign-ins, and its deletion while other  *)
(* requests of the same user are in flight.  Every awaited statement is a  *)
(* step; the transaction of the third phase of the deletion is one step.   *)
(* What sign-ins do to one another's sessions is in Sessions.              *)
(*                                                                         *)
(* A sign-in makes one session at most and names its refresh token and its *)
(* access token.  One that is refused may be tried again.                  *)
(***************************************************************************)
EXTENDS Integers, FiniteSets

CONSTANTS
  Logins,       \* sign-ins under way at once
  Confirms,     \* confirmed deletions, each served once
  MaxAttempts,  \* wrong passwords that lock the account: 5 in the code
  Faults        \* "error": a statement throws, or its process stops;
                \* "lag": a read replica is behind; "restart": Redis comes back empty

ASSUME LimitAssumption == IsFiniteSet(Logins) /\ MaxAttempts \in Nat \ {0}
ASSUME FaultsAssumption == Faults \subseteq {"error", "lag", "restart"}

VARIABLES
  open,      \* the account exists
  attempts,  \* failed_login_attempts, counted to MaxAttempts
  locked,    \* locked_until lies ahead
  rows,      \* live rows of refresh_tokens
  cache,     \* session:<token> keys that say active
  index,     \* user:sessions:<user>
  blocked,   \* access tokens on the blocklist
  jobs,      \* rows of user_cleanup_jobs, each named by its confirmation
  login,     \* how far each sign-in, and then its session, is
  confirm,   \* how far each confirmed deletion is
  guesses,   \* history: wrong passwords tried since the count or lock was lifted
  spared,    \* history: a guess was not counted, or passed the check on old data
  straddled, \* history: tokens cached after a deletion had read the index
  doubled    \* history: the deletion was confirmed while one was under way, or
             \* after one that the replica did not show yet

vars == <<open, attempts, locked, rows, cache, index, blocked, jobs, login,
          confirm, guesses, spared, straddled, doubled>>

\* Guesses that one window of the lockout allows; history counts to one more.
MostGuesses == MaxAttempts + Cardinality(Logins) - 1

(* One type invariant for the fourteen variables. *)
TypeOK ==
  /\ open \in BOOLEAN /\ locked \in BOOLEAN
  /\ attempts \in 0..MaxAttempts
  /\ rows \subseteq Logins /\ cache \subseteq Logins /\ index \subseteq Logins
  /\ blocked \subseteq Logins /\ jobs \subseteq Confirms
  /\ login \in [Logins -> {"idle", "verify", "count", "reset", "insert", "cache",
                           "signedIn"}]
  /\ confirm \in [Confirms -> [pc : {"idle", "revoke", "members", "purge", "rest",
                                     "erase", "commit", "block", "done"},
                               by : Logins, seen : SUBSET Logins]]
  /\ guesses \in 0..(MostGuesses + 1)
  /\ spared \in BOOLEAN /\ doubled \in BOOLEAN
  /\ straddled \subseteq Logins

Init ==
  /\ open = TRUE /\ attempts = 0 /\ locked = FALSE
  /\ rows = {} /\ cache = {} /\ index = {} /\ blocked = {} /\ jobs = {}
  /\ login = [l \in Logins |-> "idle"]
  /\ confirm \in [Confirms -> [pc : {"idle"}, by : Logins, seen : {{}}]]
  /\ guesses = 0 /\ spared = FALSE /\ straddled = {} /\ doubled = FALSE

sessionVars == <<rows, cache, index, blocked>>
lockVars == <<attempts, locked, guesses, spared>>
deletionVars == <<open, jobs, confirm, doubled>>

(***************************************************************************)
(* Signing in.                                                             *)
(***************************************************************************)
Step(l, p, q) == login[l] = p /\ login' = [login EXCEPT ![l] = q]

Passes_Always == TRUE
\* What findUserByEmail returned exists and is not locked.
Passes == open /\ ~locked

\* The user is read, from the replica if there is one.  A request that does not
\* pass is answered and changes nothing.
Check(l) ==
  /\ Step(l, "idle", "verify")
  /\ \/ Passes /\ UNCHANGED spared
     \/ "lag" \in Faults /\ ~Passes /\ spared' = TRUE
  /\ UNCHANGED <<deletionVars, sessionVars, attempts, locked, guesses, straddled>>

\* verifyPassword
Wrong(l) ==
  /\ Step(l, "verify", "count")
  /\ guesses' = IF guesses <= MostGuesses THEN guesses + 1 ELSE guesses
  /\ UNCHANGED <<deletionVars, sessionVars, attempts, locked, spared, straddled>>

Right(l) ==
  /\ Step(l, "verify", "reset")
  /\ UNCHANGED <<deletionVars, sessionVars, lockVars, straddled>>

Misses == IF attempts < MaxAttempts THEN attempts + 1 ELSE attempts

Locks_Once(n) == n = MaxAttempts /\ ~locked
Locks(n) == n >= MaxAttempts

\* incrementFailedAttempts, one UPDATE; of a deleted user it finds no row.
Count(l) ==
  /\ Step(l, "count", "idle")
  /\ IF open
     THEN attempts' = Misses /\ locked' = Locks(attempts + 1)
     ELSE UNCHANGED <<attempts, locked>>
  /\ UNCHANGED <<deletionVars, sessionVars, guesses, spared, straddled>>

\* resetFailedAttempts
Reset(l) ==
  /\ Step(l, "reset", "insert")
  /\ IF open
     THEN attempts' = 0 /\ locked' = FALSE /\ guesses' = 0
     ELSE UNCHANGED <<attempts, locked, guesses>>
  /\ UNCHANGED <<deletionVars, sessionVars, spared, straddled>>

\* createRefreshToken: user_id REFERENCES users(id).
Insert(l) ==
  /\ \/ open /\ Step(l, "insert", "cache") /\ rows' = rows \cup {l}
     \/ ~open /\ Step(l, "insert", "idle") /\ UNCHANGED rows
  /\ UNCHANGED <<deletionVars, cache, index, blocked, lockVars, straddled>>

\* A later request of the session finds no key and reads a live row, or one
\* that the replica still shows alive.
Fallback(l) ==
  /\ l \notin cache /\ (l \in rows \/ "lag" \in Faults)
  /\ Step(l, "signedIn", "cache")
  /\ UNCHANGED <<deletionVars, sessionVars, lockVars, straddled>>

\* A deletion has read the index and will delete no other keys, but the index
\* with whatever joins it meanwhile: in the first phase, or for good.
Looked(c) ==
  \/ confirm[c].pc = "purge" /\ confirm[c].seen # {}
  \/ confirm[c].pc \in {"erase", "commit", "block", "done"}

\* cacheSession: SETEX and SADD in one pipeline.
Cache(l) ==
  /\ Step(l, "cache", "signedIn")
  /\ cache' = cache \cup {l} /\ index' = index \cup {l}
  /\ straddled' = IF \E c \in Confirms : Looked(c) THEN straddled \cup {l}
                                                    ELSE straddled
  /\ UNCHANGED <<deletionVars, rows, blocked, lockVars>>

\* A statement throws, or the process stops.
Fail(l) ==
  /\ "error" \in Faults
  /\ \/ \E p \in {"verify", "count", "reset", "insert"} : Step(l, p, "idle")
     \/ Step(l, "cache", "signedIn")
  /\ spared' = (spared \/ login[l] = "count")
  /\ UNCHANGED <<deletionVars, sessionVars, attempts, locked, guesses, straddled>>

\* Fifteen minutes are over.
LockEnds ==
  /\ locked
  /\ locked' = FALSE /\ guesses' = 0
  /\ UNCHANGED <<deletionVars, sessionVars, attempts, spared, login, straddled>>

(***************************************************************************)
(* confirmAccountDeletion.                                                 *)
(***************************************************************************)
Go(c, p, q) == confirm[c].pc = p /\ confirm' = [confirm EXCEPT ![c].pc = q]
Underway(c) == confirm[c].pc \notin {"idle", "done"}

\* The middleware's answer for the access token of a session with a key.
LetsIn(l) == l \in cache \ blocked

\* The middleware, findUserById on the replica, and the check of the code or
\* the password.
Begin(c) ==
  /\ Go(c, "idle", "revoke")
  /\ LetsIn(confirm[c].by)
  /\ open \/ "lag" \in Faults
  /\ doubled' = (doubled \/ ~open \/ \E d \in Confirms : Underway(d))
  /\ UNCHANGED <<open, jobs, login, sessionVars, lockVars, straddled>>

\* Phase 1: invalidateAllUserSessions is an UPDATE, SMEMBERS and a pipeline.
Revoke(c) ==
  /\ Go(c, "revoke", "members")
  /\ rows' = {}
  /\ UNCHANGED <<open, jobs, doubled, login, cache, index, blocked, lockVars, straddled>>

Read(c, p, q) ==
  /\ confirm[c].pc = p
  /\ confirm' = [confirm EXCEPT ![c] = [pc |-> q, by |-> @.by, seen |-> index]]

\* The second phase reads the index again.
Members(c) ==
  /\ Read(c, "members", "purge") \/ Read(c, "rest", "erase")
  /\ UNCHANGED <<open, jobs, doubled, login, sessionVars, lockVars, straddled>>

Unlisted_NoKeys(c) == cache' = cache /\ index' = {}
\* DEL of the keys read, and of the index.
Unlisted(c) == cache' = cache \ confirm[c].seen /\ index' = {}

Purge(c) ==
  /\ Go(c, "purge", "rest")
  /\ IF confirm[c].seen = {} THEN UNCHANGED <<cache, index>> ELSE Unlisted(c)
  /\ UNCHANGED <<open, jobs, doubled, login, rows, blocked, lockVars, straddled>>

\* Phase 2
Erase(c) ==
  /\ Go(c, "erase", "commit")
  /\ Unlisted(c)
  /\ UNCHANGED <<open, jobs, doubled, login, rows, blocked, lockVars, straddled>>

Deleted_NoJob(c) == rows' = {} /\ UNCHANGED jobs /\ open' = FALSE
Deleted(c) == rows' = {} /\ jobs' = jobs \cup {c} /\ open' = FALSE

\* Phase 3: one transaction.  Another one that finds no user commits as well.
Commit(c) ==
  /\ Go(c, "commit", "block")
  /\ Deleted(c)
  /\ UNCHANGED <<doubled, login, cache, index, blocked, lockVars, straddled>>

\* Phase 4: blocklistAccessToken.
Block(c) ==
  /\ Go(c, "block", "done")
  /\ blocked' = blocked \cup {confirm[c].by}
  /\ UNCHANGED <<open, jobs, doubled, login, rows, cache, index, lockVars, straddled>>

\* A statement throws or the process stops: what was done stays done.
Abandon(c) ==
  /\ "error" \in Faults
  /\ Underway(c)
  /\ Go(c, confirm[c].pc, "done")
  /\ UNCHANGED <<open, jobs, doubled, login, sessionVars, lockVars, straddled>>

Restart ==
  /\ "restart" \in Faults
  /\ cache' = {} /\ index' = {} /\ blocked' = {}
  /\ UNCHANGED <<deletionVars, login, rows, lockVars, straddled>>

SignIn(l) ==
  \/ Check(l) \/ Wrong(l) \/ Right(l) \/ Count(l) \/ Reset(l) \/ Insert(l)
  \/ Fallback(l) \/ Cache(l) \/ Fail(l)

Delete(c) ==
  \/ Begin(c) \/ Revoke(c) \/ Members(c) \/ Purge(c) \/ Erase(c) \/ Commit(c)
  \/ Block(c) \/ Abandon(c)

Next ==
  \/ \E l \in Logins : SignIn(l)
  \/ \E c \in Confirms : Delete(c)
  \/ LockEnds \/ Restart

Spec == Init /\ [][Next]_vars

(***************************************************************************)
(* Properties.                                                             *)
(***************************************************************************)
(* Between two moments at which the count or the lock was lifted (a right  *)
(* password, the end of the 15 minutes) no more wrong passwords are tried  *)
(* than the limit and one for each other sign-in in flight, unless one was *)
(* not counted or passed the check on old data.                            *)
GuessesBounded == spared \/ guesses <= MostGuesses

(* Only time and a right password lift the lock or lower the count; a late *)
(* wrong password, checked before the account was locked, does not.        *)
LiftedWithReason ==
  [][(locked /\ ~locked') \/ attempts' < attempts =>
       LockEnds \/ \E l \in Logins : login[l] = "reset"]_vars

(* Nothing lets the user of a deleted account in: no live refresh token in *)
(* Postgres, ever, and no active key in Redis either, unless a request     *)
(* cached one after a deletion had looked at the index.                    *)
NoAccessLeft ==
  ~open => rows = {} /\ cache \subseteq straddled

(* A deleted account has a cleanup job, so its files and its farewell are  *)
(* taken care of, an open one has none, and only a confirmation during     *)
(* another, or one the replica hides the end of another from, makes two.   *)
OneJobPerAccount ==
  /\ open <=> jobs = {}
  /\ Cardinality(jobs) > 1 => doubled

(***************************************************************************)
(* The invariant behind them.                                              *)
(***************************************************************************)
Trying == {l \in Logins : login[l] = "verify"}
Missed == {l \in Logins : login[l] = "count"}

\* While the account is unlocked every guess is in the count or about to be;
\* from then on only those past the check guess.
GuessesCounted ==
  /\ locked => attempts = MaxAttempts
  /\ ~spared =>
       IF open /\ ~locked
       THEN \/ attempts < MaxAttempts /\ guesses <= attempts + Cardinality(Missed)
            \/ attempts = MaxAttempts /\ guesses <= Cardinality(Missed)
       ELSE guesses + Cardinality(Trying) <= MostGuesses

\* Global invalidation finds every active key through the index, and what a
\* deletion has not found by its last look was cached after it.
KeysFound ==
  /\ cache \subseteq index \cup straddled
  /\ \A c \in Confirms :
       /\ Looked(c) /\ confirm[c].pc \in {"purge", "erase"} =>
            cache \subseteq confirm[c].seen \cup straddled
       /\ confirm[c].pc = "commit" => cache \subseteq straddled

Deleting(c) == c \in jobs \/ Underway(c)

DeletionCounted ==
  /\ open <=> jobs = {}
  /\ \A c \in jobs : confirm[c].pc \in {"block", "done"}
  /\ \A c, d \in Confirms : (Deleting(c) /\ Deleting(d) /\ c # d) => doubled

\* The conjunction is inductive.
IInv == TypeOK /\ GuessesCounted /\ KeysFound /\ DeletionCounted /\ NoAccessLeft
=============================================================================
