# NexVault, specified

TLA+ specifications of the NexVault authentication server (`src/apps/api`) and of
the part of its web client that keeps people signed in (`src/apps/web`), the
TLC runs that check them on small instances, and TLAPS proofs of the properties
that matter most for every instance. Everything is translated from the source;
`PROJECT.json` names, for each definition, the lines it stands for.

## 1. The system

One Express process (or several behind a balancer) serves a React client. It
keeps its state in Postgres and, when `REDIS_URL` is set, in Redis. Handlers are
`async` functions: between two `await`s nothing else runs in the process, and at
every `await` anything may.

| Component (source under `src/apps/api/src`) | State | Operations | What makes it correct |
|---|---|---|---|
| Session service: `modules/auth/auth.service.ts`, `auth.repository.ts` | rows of `refresh_tokens` | login, refresh (rotation, grace period, theft and hijack detection), logout, password change, revoke others | a token belongs for ever to its session, user and device; rotation links tokens in chains; one live token per session; one active session per user; where a race or an old reading breaks one of these, nothing else does |
| Session cache: `modules/auth/session.store.ts` | `session:<token>`, `user:sessions:<user>` in Redis | write-through, lookup with fall-back to Postgres, negative caching, three invalidations | never hides a live session; does not outlive a revoked one; every key can be found again for deletion |
| Auth middleware, blocklist: `core/security/auth.middleware.ts`, `blocklist.store.ts` | `blocklist:<signature>` | blocklist check, session lookup, fingerprint and travel check | lets through live sessions only |
| Hashing limiter: `core/security/password.ts` | `activeCount`, `queue` | `run`, `next` | no slot leaks, no idle slot while somebody waits, first in first out, every accepted call ends |
| One-time codes: `modules/otp/*` | `otps` rows or `otp:<email>:<purpose>` | `sendOTP`, `verifyOTP` | a code is used once; only the newest is accepted |
| Lock service: `core/security/lock.service.ts` | `lock:<key>` with a lease in Redis, or a Map of each process | acquire, release | excludes; nobody frees another's lock; comes free after a crash |
| E-mail queue and worker: `modules/email/*` | `email_jobs`, or hashes and sorted sets | enqueue, claim, send, expire, retry, dead-letter | no job lost or worked on twice; bounded attempts; every job settles |
| Overload protection: `shared/middleware/overload-protection.middleware.ts` | `currentState`, `activeRequests` | middleware, cleanup | counter exact; bounded admission; overload ends, without flapping |
| Rate limiter: `shared/middleware/rate-limiter.middleware.ts`, `core/database/redis.ts` | one token bucket per key and policy | `checkTokenBucket` | no more than capacity plus what time refilled, and what clocks out of order set back |
| Accounts: rest of `auth.service.ts` | `users` | lockout, deletion in four phases; registration, social sign-up, profile, reset, e-mail change, verification | the lockout bounds the guesses; a deleted account lets nobody in and has one cleanup job; an answer is true of the table; one owner per name and address |
| Account deletion worker: `modules/auth/deletion.worker.ts` | `user_cleanup_jobs`, the uploads directory | select, mark, clean, farewell, complete, retry | bounded attempts; the farewell is sent once and is true; every job settles |
| Username bloom filter: `modules/auth/username-bloom-filter.ts`, `shared/utils/bloom-filter.ts` | a bit set per process | load, add, test | a process knows the names it made accounts for |
| Policy and re-authentication: `core/security/policy.ts`, `reauth.middleware.ts` | none; a short-lived proof in the client | `can`, `check` | people may act on what is theirs, and on nothing else |
| Others: JWT, TOTP, encryption, pwned and geo services, validators, audit, metrics, templates | none, or records no decision reads | | |
| Web client: `src/apps/web`: `apiClient.ts`, `App.tsx`, `LoginPage`, `ProfilePage`, `SessionsPage`, `AuthenticatedLayout`, `ReauthModal` | cookie and localStorage, shared by the tabs; access token and proof of each tab | calls, refresh and repeated call, restore, the ten-second check, sign-in and sign-out | no false theft alarm; a logout is one; signed out for a reason only; the stores of the browser agree |

How they interact: a request passes overload protection, the rate limiter and
(for protected routes) the middleware, which reads the session cache and falls
back to Postgres; handlers call the session service, which writes Postgres first
and Redis after; password hashing goes through the limiter; codes and alerts go
through the e-mail queue, which the worker empties on a timer and right after an
enqueue (the fast path). Nothing but the database serialises two requests. In the
browser every tab has its own `apiClient`: after a 401 a call asks for a new access
token by itself and is repeated, whatever other calls and tabs do, while the cookie
with the refresh token is one for all of them.

What is hard: requests interleave at every `await`, so what was read before one
is stale after it (login's list of sessions, the cached row, the old refresh
token); Postgres and Redis are written one after the other, and a request may
fail in between; Redis may come back empty; a lock has a lease; an execution of
the worker may die with the job in its hand; timers and callbacks overlap. The
hazards are listed one by one, with the line and the property that covers each,
in `PROJECT.json`.

## 2. The modules

| Module | What it is |
|---|---|
| `Sessions` | the session service, cache, index, blocklist and middleware; a request is a process |
| `SessionRegistry` | the abstract promise: a session is opened once, alone unless its login overlooked another, and closed for good unless it was renewed on an old reading |
| `MCSessions` | `Sessions` with the symmetry of users, devices and requests |
| `Sessions_proofs` | its inductive invariants and what follows, the refinement of `SessionRegistry` among it |
| `HashingLimiter` | the Argon2 limiter |
| `Accounts`, `MCAccounts`, `Accounts_proofs` | one account: the lockout of its sign-ins, its confirmed deletion, and what they race with; its proofs |
| `CleanupWorker`, `CleanupWorker_proofs` | the jobs a deletion leaves, and the worker's overlapping runs; its proofs |
| `Users`, `MCUsers`, `Users_proofs` | the users table and the requests that write it, the lock of a name, the filters; its proofs |
| `BloomFilter` | the filter's bits and hashing; `Users` has one per process |
| `WebClient`, `MCWebClient`, `WebClient_proofs` | the tabs of one browser, against the server's answers; its proofs |
| `Policy` | the decisions of the policy engine; `WebClient` asks it |
| `Otp`, `MCOtp`, `Otp_proofs` | codes, their two stores and their lock, in several processes; its proofs |
| `EmailDelivery`, `EmailDelivery_proofs` | the two queues and the worker; its proofs |
| `Admission`, `MCAdmission` | overload protection and the token bucket |
| `Overload_proofs` | proofs about `Admission` and `HashingLimiter`, the two guards against more work than the server can do |

### Sessions

`rows` is the table, `replica` what `readQuery` sees of it, `cache`, `userSet` and
`blocked` the three kinds of Redis keys, `req` the requests. Each statement a handler
awaits is one action, named for what it does: `Login` reads the active sessions and
decides; `RevokeSame` is one `UPDATE` of its loop; `Insert` and `Cache` are
`createRefreshToken` and `cacheSession`. `Refresh` reads the row and takes one of the
five branches of the code; `Grace`, `Rotate` follow. `RevokeAll`, `Members`, `Purge` are
the three round trips of a global revocation, and so on for the middleware
(`Authenticate`, `Lookup`, `Fallback`, `Recache`, `Negative`, `Verdict`). A request
makes at most one row and one access token, so it names both, and the session a login
opens.

Abstractions: a transaction and a Redis pipeline are one step each. (A pipeline is not
atomic on the server, but its commands touch keys of one user and no reader looks at two
of them in one step.) A fingerprint is a member of `Devices`. The 30-second grace period
is a flag on the row that time may clear at any moment, the five minutes of a negative
entry likewise. The seven-day life of a refresh token and the life of an access token
are left out; so are audit records and e-mails. The outcome of the travel check is a
free choice. Ending the other sessions gets past the policy for an `ADMIN` only (see
`Policy`), so that operation stands for the requests of one.

With `"lag"` in `Faults` every `readQuery` (the token of a refresh and its replacement,
the open sessions a login looks for, the row behind a missing key, the owner of a row)
is on `replica`; `Replicate` brings all of it up to date, at any moment or never.
Transactions and `UPDATE`s are on `rows`.

What an old reading or an unlucky order leads to is remembered in `past`, and each
property names the part that excuses it and nothing more. `missed`: tokens a look-up
did not find on the replica. `forked`: sessions of which a token was rotated that had
ended already. `crowded`: sessions opened beside a live token their login had not seen.
`lost`: tokens whose key was written when the row had ended, was passed by between the
`SMEMBERS` and the `DEL` of an invalidation, or was left by one that was cut off.

### Accounts

One account, and the awaited statements of its sign-ins and of
`confirmAccountDeletion`. A sign-in reads the user (`Check`), verifies the password
(`Wrong` or `Right`), counts or resets, and opens a session (`Insert`, `Cache`); what
sign-ins do to one another's sessions is in `Sessions`. The session is named by its
sign-in; later requests of it appear as `Fallback`, which recaches it. A confirmation
passes the middleware and the check of its code or password (`Begin`), then runs the
phases: `Revoke`, `Members`, `Purge` are the global invalidation, `Members` again
and `Erase` the clean-up of Redis, `Commit` the transaction, `Block` the blocklist.

`attempts` stands for `failed_login_attempts` and stops at the limit, which is all
the code compares it with. `guesses` is the history the lockout is judged by: wrong
passwords tried since it was last lifted. With `"lag"` in `Faults` every `readQuery`
(the user, the refresh token) may return what the primary no longer holds; `spared`
and `doubled` record that this, or a failed statement, voided a promise.
`straddled` are the keys cached after a deletion had looked at the index: between
the `SMEMBERS` and the `DEL` of either phase such a key is dropped from the index
and not deleted, so the second phase does not repair what escapes the first.

### CleanupWorker

A run of `processCleanupJobs` is a process that holds the rows it selected, with the
`retry_count` they had then. Two runs overlap because the timer awaits nothing and
every process has one. The marking and the update in the catch are outside the
inner `try`: if they throw, or the process stops, the run is over (`CutOff`) and the
job in its hand stays `PROCESSING`, which no run selects. Files and tables are one
step, as their errors are swallowed. The promises are made of jobs no two runs
overlapped on; `past` records which those are not.

### Users

A request is what one person does with a form: the code it needs is sent when it
begins (`/send-otp`, `sendEmailChangeOTP`, `forgotPassword`), and every call awaited
after that is a step. An account is named by the request that makes it. `Lock`,
`Verify`, `Register`, `Greet`, `Unlock` are a registration; `SocialLook`,
`SocialCreate`, `Mark`, `ReadBack`, `Greet` the account a social login makes, with
its five tries at a name; `RenameLook`, `Rename`, `ReaddressLook`, `Verify`,
`Readdress`, `ResetLook`, `Find`, `Reset` and `Mark` the changes of an account;
`CheckFilter` and `CheckLook` the check of a name. `Register` is its transaction;
what follows the commit is a step of its own, since its errors reach the person
although the account stays.

`users` is the primary, `replica` what `readQuery` sees; `Replicate` brings it up to
date. Comparison is the point of the module: reads ignore case, the unique columns
do not, the validator lower-cases the address of some routes, the lock and the
filter lower-case the name; `Lower` is that function, and the instance has names and
addresses in two spellings. The constraints on `username`, `email` and
`phone_number` are those `createUser` names when it translates their violations; no
file of the repository creates them. Codes are a set of purpose and address here:
cooldown, expiry, attempts and the code's own lock are in `Otp`. `stale`, `overrun`,
`unloaded` and `renamed` record which promises are void: the table changed after a
request had read it, a sign-up outlived its lease, a filter did not get all the names,
an account no longer has the name the filter was given. A process that stops answers
nothing more, but a lock it holds in Redis stays, with its name, until its lease ends.

### BloomFilter

`getHashes` is the double hashing of the code, modulo the size. The two string
hashes are parameters. Nothing removes a bit.

### WebClient and Policy

`tab` is what a page keeps in memory, `cookie` and `user` what the browser keeps for
all tabs, `token` and `cached` the rows and the Redis keys of this account on this
device. A call goes through `Send`, an action of the server, `Receive`, and, after
a 401, `Renew`, `Refreshed`, the server again and `ReceiveAgain`: the branches of
`apiRequest` in their order. What a caller does with a good answer has an operator
per page (`SignedIn`, `Restored`, `ProfileShown`, `PasswordChanged`, ...). `Load` is
a page that is loaded (`App` restores the session), `Turn` one that is opened by the
router, `Poll` the ten-second check. A call of a page that was left may still set
the cookie, or not (`Drop`).

The server is one step for each request; what interleaves inside it, and a replica that
lags, is in `Sessions`, whose branches `Renew` repeats: a live token is rotated, a
rotated one within its grace is answered with the replacement, any other that ended is
an alarm. `upset` records what makes the promises void: calls that crossed although one
of them ends tokens, answers with a cookie that were lost, and renewals that took longer
than the grace period, and a logout that failed. `logout` swallows every error, so with
`"error"` in `Faults` its answer and the cleared cookie are the same while the row, or
the key in Redis, is still there. The guard of `Send` lets a person send one form of a
tab at a time.

The payload of `Policy` is what `authMiddleware` leaves in `req.user`: a `userId`
and no `id`. The list of sessions is answered by `Can` of that payload, so `USER` and
`MANAGER` get 403; the calls of an `ADMIN`, which go through, are in `Sessions`.

### HashingLimiter

The code between two awaits is one step; what `next()` starts, it starts in the
step that frees the slot. A job started by `run` itself gives its slot back in
its `finally`; a queued one resolves its caller first (`Settle`) and gives the
slot back some callbacks later, and in between the caller may already call again
through another process of the model.

### Otp

A code is named by the send that made it. `Ask` is the cooldown check; `Clear` and
`Save` are the `DELETE` and the `INSERT` of the Postgres store, or `Save` alone the
`SET` of Redis. A verification acquires the lock, reads, and consumes, drops or counts;
on Redis counting is `Count`, `Ttl`, `Restore` because the code is GET, TTL, SET. Each
verification is served by a process (`at`), and `held` are the verifications that hold
the lock. On Redis that is one key; without Redis it is a Map of each process, so that
only verifications of one process exclude each other, and the Map is gone when the
process stops (`Stop`), with all it was serving. `crossed` records the pairs that worked
at once under the locks of two processes, `late` the verifications that had read the
store when a newer code was saved. `LeaseEnds` is the end of the five seconds, under a
working holder only when `"slow" \in Faults`. Codes of two sends are taken to differ;
the attempt counter is written and never read by the code, so it is not state.

### EmailDelivery

An execution is a process, because `processQueue` awaits nothing of what it starts.
On Postgres the claim is one transaction (`Take`). On Redis it is one script per
priority (`Scan`), then `HGETALL` and `HSET`. `old` and `due` are raised by time.
`StoreError` throws where the code does not catch, and inside the `try` around the
send it leads to the failure path, as in the code. `harmed` records the jobs a fault
met, so that the properties say exactly what holds of the others.

### Admission

`Arrive` is the middleware from counting to verdict (it has no `await`). `Finish`
and `Disconnect` are the cleanup, on whichever of `finish` and `close` comes first.
Memory and lag appear only through the worse of the two, so they are one gauge. One
tick of the clock refills one token. A check carries the time of its own process, which
may lie behind (`Lags`); one older than the last check sets `last_refreshed` back, and
`setBack` adds up by how much. `RecoveryConcurrent` must lie above 1 and not
above `MaxConcurrent`, as by default (12 and 20): with 1 the server would never
leave `OVERLOADED`, since the request being judged is counted.

## 3. The runs

| Run | Bounds | What it shows |
|---|---|---|
| `sessions_concurrent` | 2 users, 2 devices, 3 requests, all in flight, a lagging replica, aborts, Redis restarts | tokens stay bound, chains hold, negative cache sound, users isolated, one live token per session, coherent cache, refinement of `SessionRegistry`, in every interleaving |
| `hashing_limiter` | 5 callers, 2 slots, 2 queue places | accounting, order, service |
| `accounts` | 2 sign-ins, each any number of times, 2 confirmations, a limit of 3, all faults | guesses bounded, no access after a deletion, one cleanup job |
| `users` | 2 requests of any kind, 2 processes, 3 names and 3 addresses of which 2 differ in case, 2 tries at a name, a filter of 4 bits, all faults | answers true of the table, name lock, filters, twins |
| `users_sent_code` | the same | *violation*: a code sent to an address with a capital is not found |
| `web_client` | 2 tabs, 2 calls at a time, 6 rows, role `USER`, Redis, all faults | no false alarm, a logout ends the session, signed out for a reason, cookie and user agree |
| `web_own_sessions` | 2 tabs, sign-in and list | *violation*: people may not see their own sessions |
| `cleanup_worker` | 2 jobs, 2 runs at a time, 2 tries, all faults | attempts bounded, one true farewell, settlement |
| `otp` | 2 sends, 2 verifications, 2 processes, both stores, all faults | single use, newest only, the lock |
| `otp_release` | 1 send, 2 verifications, 2 processes, both stores, all faults | the lock comes free |
| `email_delivery` | 2 jobs, 2 executions, 2 priorities, 2 tries, both queues, all faults | no duplicate work, no loss, bounded attempts, settlement |
| `admission` | 4 connections, limits 3 and 2, bucket of 2, 2 ticks, clocks up to 1 tick behind and 1 tick set back | counter, admission, hysteresis, rate |

Why the bounds are enough. The hazards of the session code are races of two requests
about tokens a third made, or a reading of the replica after two requests, which three
requests give; longer histories are the theorems'. Two users show isolation. Two
verifications in two processes are in one process or in two, and two sends give an older
and a newer code; the liveness of the lock needs one of them only. The limiter needs
more callers than slots and places together, which five are. Two jobs and two executions
overlap in every way the code can, and with two priorities and two tries each branch of
the worker is taken. Two sign-ins of one account suffice for a guess that is checked
before the lock and counted after it, and for a key cached behind a deletion; two
confirmations for a second job; a limit of three leaves room for counts below, at and
past it. Two jobs in a batch of two show a run that is cut off between its rows, and two
tries a retry and a last failure. Four connections pass the limit of three and straddle
the recovery threshold. Two requests of `Users` give every pair of operations, and with
two processes the same pair in one and in two of them; a third spelling or a second case
twin would repeat the first. Four bits and two hashes make names share bits without any
filter having all of them. All actions fire in some run.

`web_client` gives one tab the forms and the other the refreshes (`restore`, `status`),
since either tab may do anything and what matters is which operations meet. Three things
keep it small. `CallsAlike`: calls are interchangeable. `Calm`: a browser that is upset
is not followed further, as each of the four properties excuses it from the state on in
which it becomes so. `Seen`: rows are compared by what the server tells apart in them
(live or ended, replaced, in grace, ended for a concurrent sign-in, cached) and not by
their number; a row that nobody holds is used again, and with at most six held at once a
free one always exists. That one token lives at most and has replaced one at most, which
`Seen` takes for granted, is proved (`OneTokenLives`). Redis is there, as in production;
an `ADMIN` and the end of the seven days of a refresh token are left out.

`TypeOK` documents the types of each module, is a conjunct of its inductive
invariant and proved.

A *violation* run states what a comment or the README of the repository says and
shows by a shortest trace that the code does otherwise; `PROJECT.json` quotes the
lines under "findings".

Deadlock checking is off where requests, sends and jobs are finite in number, so
that the system really comes to rest; it is on for the limiter and for admission.

### Fairness

Only four specifications assume any. `HashingLimiter`: a running job ends and
promise callbacks run (weak fairness of the steps of a call that holds a slot;
callers need not call). `EmailDelivery`: the poll timer fires for ever, so an
execution steps on, and backoff ends. `Otp`: a verification that began goes on
(unless a fault stops it) and a lease ends. `CleanupWorker`: the timer fires for
ever and a run steps on; `JobsSettle` further takes runs to be cut off finitely
often. `Users` and `WebClient` state safety only: nothing in the code retries what a
person or a page gave up. No fairness is assumed of clients, of
faults, or of strong kind.

## 4. The proofs

**Sessions.** `IInv` is the conjunction of the types, what holds of a row (`RowsOK`:
its user, device and session exist, a replacement is a different stored row of the
same session), of a request at each step (`RequestOK`: what it works on belongs to
its user; a request that is about to insert has no row yet; one that is about to
rotate has the row's device; one that is about to write a negative entry read a
revoked row or missed it), of the replica (`ReplicaOK`: no row, or an earlier version of
the same one), of the cache (`CacheOK`), and the two properties on sessions and
chains. The properties alone are not inductive: that rotation keeps a session on
one device needs the device remembered since `Refresh`, and that a negative entry
is sound needs that a row once revoked stays so while the request waits. The proof
has a lemma per action; `TypeOK`, `SessionBoundToDevice`, `ReplacementChain` and
`NegativeCacheSound` follow. Assumptions: `NoneAssumption`, `OpsAssumption`,
`BoundAssumption`, `FaultsAssumption`; any sets, finite or not.

`SessionIsolation`, an action property, follows from the same invariant: what a
request past its arrival reaches is its user's, and a logout's user is the owner of
the cookie it came with.

Nothing is assumed of how requests overlap or of how far the replica lags.
`OneTokenPerSession` is inductive with `IInv`: a new token is live beside another of its
session only if the rotated one was not, and that is the step that puts the session
into `past.forked`. For the refinement, `PlanOK` says what a login still relies on at its
later steps: every live token it saw has been revoked or is among those it has still to
revoke, so the row it inserts is alone or beside one it had not seen (`past.crowded`).
`SessionsImplementRegistry` then maps every step: `Insert` opens, the revocations close
some sessions of one user or stutter, `Rotate` revives or stutters, and all others
stutter.

`CacheCoherent` speaks of users at rest; `CacheIInv` says the same of any moment: a
token that is revoked in Postgres and active in Redis is lost, or the steps ahead of some
request will delete or supersede it (`LingeringCleared`, `Clears`), and the index lists
every cached key but the lost ones (`IndexOK`), or a purge would not find it. The
aborted requests, the two gaps of the invalidations and the readings of the replica are
all in; each puts the tokens it strands into `past.lost`, and the proof is that there
are no others.

**Accounts.** Four facts carry `IInv`. `GuessesCounted`: while the account is open and
unlocked the guesses are at most the count plus the wrong passwords about to be
counted; once it is locked or deleted, only sign-ins past the check still guess, so
guesses plus those stay below the bound. The two meet at the step that locks, where
one sign-in leaves the missed ones; it takes cardinality lemmas on the finite set of
sign-ins. `KeysFound`: every active key is in the index or straddled a deletion, and
what a deletion has seen contains every other one. `DeletionCounted`: the account is
open exactly while there is no job, and two confirmations that both go on or have
committed make `doubled` true. From these the four properties follow, for any
finite set of sign-ins, any confirmations, limit and faults (`LimitAssumption`,
`FaultsAssumption`). `GuessesBounded` alone is not inductive: a state in which all
guesses are spent and another sign-in is past the check satisfies it.

**HashingLimiter.** (In `Overload_proofs`, with `Admission`.) `LimiterIInv` adds to the
types and the two properties that the queue holds exactly the waiting callers, each
once: without it a caller could be started twice and the count would go wrong.
`SlotsAccountedFor` needs cardinality lemmas on a finite set of callers.
`FirstComeFirstServed` is an action property proved from the same invariant.

**Admission.** (In `Overload_proofs`.) `CounterExact` is inductive with the types; the
admission bound follows from it and from the verdict, which is taken with the new
request counted. `QuietServerAdmits` is proved from it for any state left behind.
`RateBounded` needs `BucketInv`: what was allowed plus the tokens left is at most the
capacity plus the time of the last refill plus what was set back so far. Nothing is
assumed of the clocks: a check with an older time sets `last_refreshed` back, the same
ticks are refilled again, and `setBack` pays for them one for one.

`OverloadEndsQuietly` follows from the exact counter: the only step out of overload is
an arrival, judged with itself counted.

**Otp.** `SingleUse` says nothing of what a verification is about to do, so it is not
inductive. `PendingUnused` adds that no code in hand, to be accepted or written back,
was accepted before, but by a verification that crossed this one under the lock of
another process. That needs what the lock excludes (`LockExcludes`, of one process or of
all), that two at work at once are such a pair (`CrossedOK`), that the code about to be
consumed is the one that was read (`VerifyOK`), and that a stored code was saved once by a
send that saves no more (`StoreOK`), or it could come back. `OnlyNewest` is what
`NewestOnly` needs of the two stores: unless sends raced, the table is empty or has the
newest code alone, a count in progress writes that one back, and a verification about to
accept has read that one or is `late`. For any sends, verifications, processes, backends
and faults.

**EmailDelivery.** `IInv` is said of each job: one execution holds it at most, and it is
nowhere else then (`HeldApart`); its status tells where it is unless a fault touched
it (`Placed`); `retries` in the row, its copy in the execution and the calls made agree
(`CallsCounted`). The bound on calls rests on the last: a job that waits has failed
calls only, and a fault between a call and its record makes a later execution count
on from the row. For any jobs, executions, priorities, retries and faults, both
queues in one proof.

**CleanupWorker.** For jobs no two runs overlapped on, a row in a run's hand has the
status and the tries its step implies (`Counts`), and how far the run is tells of files
and e-mail (`Told`). `BudgetLeft`, that a job not yet finished has tries left, was first
written for `PENDING` jobs only; the proof showed that it is not inductive without the
jobs still to be queued. For any number of jobs and runs, batch and retries.

**Users.** `IInv` says of every request what it may rely on at its step: what the lock,
the code and the look-up have established (`StepOK`), whether its account exists and is
verified (`AccountOK`), what its answer promised (`Answered`), that its lease is held or
overrun (`LeaseOK`), and what the look-up of an account has found (`FoundOK`); rows stay
once made (`RowsStay`). `TypeOK`, `AnswersHold`, `NameLockExcludes` and `OwnNamesKnown`
follow, and so does the action property `TwinsNeedStaleCheck`. That a filter keeps what
was added and what it was loaded with is a lemma there, for any hash functions, size and
number of hashes. Besides the assumptions on the constants (`LowerAssumption`:
lower-casing is idempotent and stays among the names), `RowAssumption` says that the
value for no account is not a row. The proof corrected the model twice. `OwnNamesKnown`
was false beyond two requests: an account renamed away, a filter loaded then, and the
account renamed back leave a name its own process does not know; the property now
excepts accounts that were renamed. And `Restart` used to forget the name of a sign-up
it cut off, so that its lock in Redis protected no name or another one.

**WebClient.** `IInv` is `Sound /\ (upset \/ Quiet)`: what holds whatever happens, and
what holds while no calls crossed, no answer was lost and no logout failed. `Sound` has
the types, the rows (`RowsOK`: one live token, which replaced one at most, and none
while another device is signed in) and, for each call, how far it is and which answers
it can have by then (`CallOK`). `Quiet` follows the live token. No call that ends tokens
flies beside one that writes, and renewals under way carry the same token (`Apart`). The
live token is in the jar or in an answer about to put it there, and a refresh under way
carries it or the one it has just replaced (`LiveIsKnown`): that is why the alarm for a
reused token is not false. After an answer that tells a page that nothing lives, nothing
does (`EndOK`), and a user in `localStorage` has a cookie, as has a profile about to be
shown (`UserOK`). None of the four properties is inductive: `AlarmExplained` and
`LogoutEnds` speak of one step, and `UserHasCookie` of a browser at rest, while what
keeps it true happens with calls under way. The proof takes the actions one by one, and
within the server's step the answers to a renewal (granted, the replacement again,
refused, alarm), to a sign-in and to what ends tokens. It corrected the invariant:
without "a renewed token is another one than the token sent" a refresh could be answered
with its own token and leave none to be found. For any tabs, calls, tokens, operations,
roles and faults. The properties are of the specification without the reductions of its
run (`Calm`, `Seen`, `CallsAlike`), so they do not rest on them. `KeptSignedIn` is
proved with Redis only (`ASSUME Redis`), and is false without it (section 5); the other
three need no Redis.

**Model-checked only.** Liveness (`EveryCallServed`, `EveryJobSettled`,
`LockComesFree`, `JobsSettle`), as fairness and `ENABLED` are beyond the prover.
That the functions of `BloomFilter` compute the hashes the code does is by
translation: no theorem is about them.

## 5. Where the code does otherwise

Two disagreements are shown by runs (`users_sent_code`, `web_own_sessions`) and
quoted in `PROJECT.json`. Others were met while modelling; the models have them as
the code does them, and the properties make an exception where one is needed.

- *Single active session* (`auth.service.ts:261`): two overlapping logins from two
  devices both succeed, as each reads the sessions before the other inserts; with a
  read replica a login that overlaps with nothing may miss an open session as well.
- A session is locked out for five minutes when its row has not reached the replica: with
  the key gone from Redis the look-up finds no row and caches `revoked`
  (`session.store.ts:79-83`). On the word of the replica a revoked token is cached active,
  too (`:99`), and a token that was rotated is rotated again, without a second look at the
  row (`auth.repository.ts:490`), which leaves a session with two live tokens.
- *Reuse ends every session* (`src/README.md:33`): so does a token that was revoked
  by a logout, a login on the same device or a password change and was never used
  (`auth.service.ts:943`).
- *Validate session is still active* (`auth.middleware.ts:50`): a login on the same
  device revokes the earlier session in Postgres and leaves its Redis key, so its
  access token is served until it expires (`auth.service.ts:307`).
- *Single-use* codes (`otp.service.ts:132`): a verification that outlives the
  five-second lease lets a second one accept the same code; and without Redis the lock is
  a Map of one process (`lock.service.ts:11`), so two processes accept it in any case.
- *Already cleared* (`auth.service.ts:1113`): the error of a logout that failed is
  swallowed; the person reads "Logged out successfully.", and the session lives.
- A welcome e-mail that cannot be queued answers an error, and rolls back after the
  commit; the account exists (`auth.service.ts:159-170`).
- The first social sign-up takes the phone number `0000000000`; where phone numbers
  are unique all later ones are refused (`auth.service.ts:815`).
- A code is used up before the password is hashed and before the account is looked
  for; when either fails the person needs another code (`auth.service.ts:121`, `655`).
- `GET /sessions` names a session by `session_id` (`auth.repository.ts:520`), while
  `DELETE /sessions/:id` looks for a token of that id and `isCurrent` compares with the
  token's (`auth.controller.ts:553`, `578`), so neither ever matches.
- `/logout` is not behind `authMiddleware`, so `req.token` is undefined and the access
  token is never put on the blocklist (`auth.routes.ts:67-70`).
- `apiRequest` takes every 401 for an expired token and clears the session when the
  repeated call is refused; the branches for `REAUTH_REQUIRED` in `ProfilePage` and
  `SessionsPage` run only when the person is signed out already.
- The three-second timer after a password change signs out whoever signed in again
  in the meantime (`ProfilePage.tsx:266`).
- Without Redis the middleware looks for the row of the token itself: when another tab
  rotates the token between a tab's refresh and its repeated call, the call is refused
  and `apiRequest` signs the page out, although the session lives on in the cookie. With
  Redis the rotated token's key stays active and hides this.
- The ten-second check does nothing once `user` is gone (`App.tsx:48`): a tab whose
  session another tab ended shows its page until a call is made.

## 6. Not modelled, and the plan

Next: in `Sessions`, the session a social login opens and `DELETE /sessions/:id`; the
lemmas of the proof are one per action, so each adds one. In `WebClient`, a replica that
lags behind the refreshes of several tabs.

Left out for good: cryptography and token formats, distances and speeds,
validators but for what they do to case, templates, audit, metrics and telemetry (no
decision reads them), the other forms, the styles and the two-factor set-up of the
web client, whose server side does not exist, third-party code.
