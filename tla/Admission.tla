------------------------------- MODULE Admission -------------------------------
(***************************************************************************)
(* What stands before every handler of the API: overload protection with   *)
(* its hysteresis, then the token buckets of the rate limiter.             *)
(*                                                                         *)
(* Overload protection runs from the arrival of a request to its verdict   *)
(* without an await, so that is one step; a bucket is read and written by  *)
(* one script.  Memory and event-loop lag are inputs that change at any    *)
(* time, and since every test asks for the worse of the two, one gauge     *)
(* stands for both.  Tokens are counted in requests and time in the ticks  *)
(* that refill one token; the processes that share a bucket on Redis each   *)
(* pass the time of their own clock, so that it comes out of order.         *)
(***************************************************************************)
EXTENDS Integers, FiniteSets

CONSTANTS
  Requests,            \* connections, each used again and again
  MaxConcurrent,       \* OVERLOAD_MAX_CONCURRENT, 20 by default
  RecoveryConcurrent,  \* OVERLOAD_RECOVERY_CONCURRENT, 12 by default
  Capacity,            \* tokens of a full bucket: a policy's maxRequests
  MaxClock,            \* bound on the ticks
  MaxSetBack,          \* bound on the ticks a bucket is set back
  Lags,                \* how old the time a check passes to the bucket may be
  Faults               \* "error": the store of the buckets throws

ASSUME ConcurrencyAssumption ==
  /\ MaxConcurrent \in Nat /\ RecoveryConcurrent \in Nat
  /\ 1 < RecoveryConcurrent /\ RecoveryConcurrent <= MaxConcurrent
ASSUME BucketAssumption == Capacity \in Nat \ {0} /\ MaxClock \in Nat /\ MaxSetBack \in Nat
ASSUME LagsAssumption == Lags \subseteq Nat
ASSUME RequestsAssumption == IsFiniteSet(Requests)
ASSUME FaultsAssumption == Faults \subseteq {"error"}

VARIABLES
  currentState,    \* NORMAL, WARNING or OVERLOADED
  activeRequests,  \* the counter
  pressure,        \* the worse of memory and event-loop lag
  req,             \* the requests
  bucket,          \* the token bucket of the clients' key
  clock,           \* ticks so far
  allowed,         \* history: checks the bucket answered with yes
  setBack          \* history: ticks by which checks set last_refreshed back

vars == <<currentState, activeRequests, pressure, req, bucket, clock, allowed, setBack>>

pastVars == <<allowed, setBack>>

\* Below the recovery threshold, at it, between the two, above the maximum.
Gauge == {"below", "at", "high", "over"}

Classes == {"HEALTH", "AUTH", "APP_AUTHENTICATED", "NON_ESSENTIAL"}

\* working: the handler runs; gone: it runs, but its client has disconnected.
Request == [pc : {"idle", "limit", "working", "gone", "refused"}, class : Classes]

Idle == [pc |-> "idle", class |-> "HEALTH"]

States == {"NORMAL", "WARNING", "OVERLOADED"}

(* One type invariant for the eight variables. *)
TypeOK ==
  /\ currentState \in States
  /\ activeRequests \in Nat
  /\ pressure \in Gauge
  /\ req \in [Requests -> Request]
  /\ bucket \in [tokens : 0..Capacity, last : -1..MaxClock]
  /\ clock \in 0..MaxClock
  /\ allowed \in Nat /\ setBack \in 0..MaxSetBack

\* last = -1: there is no bucket yet.
Init ==
  /\ currentState = "NORMAL"
  /\ activeRequests = 0
  /\ pressure = "below"
  /\ req = [r \in Requests |-> Idle]
  /\ bucket = [tokens |-> 0, last |-> -1]
  /\ clock = 0
  /\ allowed = 0 /\ setBack = 0

\* The connections overload protection counts.
Counted == {r \in Requests : req[r].pc \in {"limit", "working", "refused"}}

SetPc(r, p) == req' = [req EXCEPT ![r].pc = p]
End(r) == req' = [req EXCEPT ![r] = Idle]

(***************************************************************************)
(* evaluateSystemHealth, with n requests active.                           *)
(***************************************************************************)
Over(n) == n > MaxConcurrent \/ pressure = "over"

Strained(n) == n > RecoveryConcurrent \/ pressure \in {"high", "over"}

Recovered_NoHysteresis(n) == ~Over(n)
Recovered_Alone(n) == n < 1 /\ pressure = "below"
Recovered(n) == n < RecoveryConcurrent /\ pressure = "below"

Health(n) ==
  CASE Over(n) -> "OVERLOADED"
    [] ~Over(n) /\ currentState # "OVERLOADED" ->
         IF Strained(n) THEN "WARNING" ELSE "NORMAL"
    [] ~Over(n) /\ currentState = "OVERLOADED" ->
         IF Recovered(n) THEN "NORMAL" ELSE "OVERLOADED"

Turned_AuthPasses(state, class) ==
  state = "OVERLOADED" /\ class \notin {"HEALTH", "AUTH"}
\* Whether a request of that class is turned away in that state.
Turned(state, class) ==
  \/ state = "OVERLOADED" /\ class # "HEALTH"
  \/ state = "WARNING" /\ class = "NON_ESSENTIAL"

Arrive(r) ==
  LET state == Health(activeRequests + 1)
  IN /\ req[r].pc = "idle"
     /\ activeRequests' = activeRequests + 1
     /\ currentState' = state
     /\ \E c \in Classes :
          req' = [req EXCEPT ![r] =
                    [pc |-> IF Turned(state, c) THEN "refused" ELSE "limit",
                     class |-> c]]
     /\ UNCHANGED <<pressure, bucket, clock, pastVars>>

(***************************************************************************)
(* checkTokenBucket with the time now, in Lua or in memory.                *)
(***************************************************************************)
Elapsed(now) == IF now > bucket.last THEN now - bucket.last ELSE 0

\* How far last_refreshed := now takes the bucket back.
Back(now) == IF now < bucket.last THEN bucket.last - now ELSE 0

Least(a, b) == IF a < b THEN a ELSE b

Refilled_Uncapped(now) ==
  IF bucket.last = -1 THEN Capacity ELSE Capacity + Elapsed(now)
Refilled(now) ==
  IF bucket.last = -1 THEN Capacity ELSE Least(Capacity, bucket.tokens + Elapsed(now))

Limit(r) ==
  /\ req[r].pc = "limit"
  /\ \E l \in {x \in Lags : x <= clock} :
       LET now == clock - l
           tokens == Refilled(now)
       IN /\ \/ /\ tokens >= 1
                /\ bucket' = [tokens |-> tokens - 1, last |-> now]
                /\ allowed' = allowed + 1
                /\ SetPc(r, "working")
             \/ /\ tokens < 1
                /\ bucket' = [tokens |-> tokens, last |-> now]
                /\ SetPc(r, "refused")
                /\ UNCHANGED allowed
          /\ setBack + Back(now) <= MaxSetBack
          /\ setBack' = setBack + Back(now)
  /\ UNCHANGED <<currentState, activeRequests, pressure, clock>>

\* The store throws: the limiter lets the request through.
FailOpen(r) ==
  /\ "error" \in Faults
  /\ req[r].pc = "limit"
  /\ SetPc(r, "working")
  /\ UNCHANGED <<currentState, activeRequests, pressure, bucket, clock, pastVars>>

(***************************************************************************)
(* cleanup, on the first of "finish" and "close".                          *)
(***************************************************************************)
CleanedUp_Twice(n) == n - 2
CleanedUp(n) == n - 1

Finish(r) ==
  /\ req[r].pc \in {"working", "refused"}
  /\ activeRequests' = CleanedUp(activeRequests)
  /\ End(r)
  /\ UNCHANGED <<currentState, pressure, bucket, clock, pastVars>>

\* The client disconnects: what it asked for goes on.
Disconnect(r) ==
  /\ req[r].pc = "working"
  /\ activeRequests' = CleanedUp(activeRequests)
  /\ SetPc(r, "gone")
  /\ UNCHANGED <<currentState, pressure, bucket, clock, pastVars>>

FinishGone(r) ==
  /\ req[r].pc = "gone"
  /\ End(r)
  /\ UNCHANGED <<currentState, activeRequests, pressure, bucket, clock, pastVars>>

(***************************************************************************)
(* The environment.                                                        *)
(***************************************************************************)
Drift ==
  /\ pressure' \in Gauge \ {pressure}
  /\ UNCHANGED <<currentState, activeRequests, req, bucket, clock, pastVars>>

Tick ==
  /\ clock < MaxClock
  /\ clock' = clock + 1
  /\ UNCHANGED <<currentState, activeRequests, pressure, req, bucket, pastVars>>

Next ==
  \/ \E r \in Requests : \/ Arrive(r) \/ Limit(r) \/ FailOpen(r)
                         \/ Finish(r) \/ Disconnect(r) \/ FinishGone(r)
  \/ Drift \/ Tick

Spec == Init /\ [][Next]_vars

(***************************************************************************)
(* Properties.                                                             *)
(***************************************************************************)
(* The counter is the number of open requests, however they end: cleanup    *)
(* runs once for each.  A leak would shed load for ever, a second run would *)
(* let in more than the limit.                                              *)
CounterExact == activeRequests = Cardinality(Counted)

\* Past overload protection, on a connection that is still open.
Admitted == {r \in Requests : req[r].pc \in {"limit", "working"}
                              /\ req[r].class # "HEALTH"}

(* However they arrive, no more than MaxConcurrent requests other than      *)
(* health checks are admitted on open connections.                          *)
AdmittedBounded == Cardinality(Admitted) <= MaxConcurrent

\* The conjunction is inductive.
IInv == TypeOK /\ CounterExact /\ AdmittedBounded

(* The service never locks itself out: a request that finds no other open   *)
(* and the gauges below recovery is admitted and ends the overload, whatever *)
(* state the last burst left behind.                                        *)
QuietServerAdmits ==
  [][\A r \in Requests :
       (Counted = {} /\ pressure = "below"
          /\ req[r].pc = "idle" /\ req'[r].pc # "idle") =>
         req'[r].pc = "limit" /\ currentState' = "NORMAL"]_vars

(* No flapping: overload is left for NORMAL and never for WARNING, and not  *)
(* while as many requests are open as began the strain.                     *)
OverloadEndsQuietly ==
  [][(currentState = "OVERLOADED" /\ currentState' # "OVERLOADED") =>
       /\ currentState' = "NORMAL"
       /\ Cardinality(Counted') < RecoveryConcurrent]_vars

(* Up to any time the bucket has allowed no more requests than its capacity, *)
(* what that time refilled, and what checks that reached it behind the clock *)
(* of an earlier one made it refill a second time: each sets last_refreshed  *)
(* back, and nothing else lets a client have more than its rate.             *)
RateBounded == allowed <= Capacity + clock + setBack

\* What makes it inductive: the tokens left are part of the bound.
BucketInv ==
  /\ bucket.last <= clock
  /\ bucket.last = -1 => allowed = 0
  /\ bucket.last # -1 => allowed + bucket.tokens <= Capacity + bucket.last + setBack
=============================================================================
