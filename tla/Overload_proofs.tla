---------------------------- MODULE Overload_proofs ----------------------------
(***************************************************************************)
(* Proofs about what keeps the API from more work than it can do.           *)
(*                                                                         *)
(* Admission, in front of every handler, for any finite set of connections, *)
(* any limits, any bucket: the counter is exact and bounds the admitted     *)
(* requests, and, while checks reach the bucket in the order of their       *)
(* clocks, so does its capacity the requests it allows.                    *)
(*                                                                         *)
(* HashingLimiter, in front of Argon2, for any finite set of callers, any   *)
(* number of cores and any queue size: no slot leaks, the bounds hold,     *)
(* nobody waits while a slot is free, and the queue is first in, first out. *)
(***************************************************************************)
EXTENDS Admission, HashingLimiter, FiniteSetTheorems, SequenceTheorems, TLAPS

(***************************************************************************)
(* Admission.                                                              *)
(***************************************************************************)
(* The sets of connections are finite.                                      *)
LEMMA CountedFinite ==
  /\ IsFiniteSet(Counted) /\ Cardinality(Counted) \in Nat
  /\ IsFiniteSet(Admitted) /\ Cardinality(Admitted) \in Nat
  /\ Cardinality(Admitted) <= Cardinality(Counted)
<1>1. Counted \in SUBSET Requests /\ Admitted \in SUBSET Counted
  BY DEF Counted, Admitted
<1>2. IsFiniteSet(Counted)
  BY <1>1, RequestsAssumption, FS_Subset
<1>3. IsFiniteSet(Admitted) /\ Cardinality(Admitted) <= Cardinality(Counted)
  BY <1>1, <1>2, FS_Subset
<1> QED
  BY <1>2, <1>3, FS_CardinalityType

(* A state other than OVERLOADED means that the limits are kept.            *)
LEMMA HealthOK ==
  ASSUME NEW n \in Nat, currentState \in States
  PROVE  /\ Health(n) \in States
         /\ Health(n) # "OVERLOADED" => n <= MaxConcurrent
<1>1. CASE Over(n)
  BY <1>1 DEF Health, States
<1>2. CASE ~Over(n)
  <2>1. n <= MaxConcurrent
    BY <1>2, ConcurrencyAssumption DEF Over
  <2>2. Health(n) \in States
    BY <1>2 DEF Health, States
  <2> QED
    BY <2>1, <2>2
<1> QED
  BY <1>1, <1>2

LEMMA RefilledOK ==
  ASSUME TypeOK, NEW now \in 0..MaxClock
  PROVE  /\ Refilled(now) \in 0..Capacity
         /\ bucket.last # -1 /\ bucket.last <= now =>
              Refilled(now) <= bucket.tokens + now - bucket.last
BY BucketAssumption DEF TypeOK, Refilled, Elapsed, Least

LEMMA InitOK == Init => IInv
<1> SUFFICES ASSUME Init PROVE IInv
  OBVIOUS
<1>1. TypeOK
  BY BucketAssumption DEF Init, TypeOK, States, Gauge, Request, Idle, Classes
<1>2. Counted = {} /\ Admitted = {}
  BY DEF Init, Counted, Admitted, Idle
<1>3. Cardinality(Counted) = 0 /\ Cardinality(Admitted) = 0
  BY <1>2, FS_EmptySet
<1> QED
  BY <1>1, <1>3, ConcurrencyAssumption DEF Init, IInv, CounterExact, AdmittedBounded

LEMMA ArriveOK ==
  ASSUME IInv, NEW r \in Requests, Arrive(r)
  PROVE  IInv'
<1> USE DEF IInv
<1> DEFINE n == activeRequests + 1
<1>0. n \in Nat /\ currentState \in States /\ currentState' = Health(n)
  BY DEF TypeOK, Arrive
<1>1. currentState' \in States /\ (currentState' # "OVERLOADED" => n <= MaxConcurrent)
  BY <1>0, HealthOK
<1>2. PICK c \in Classes :
        req' = [req EXCEPT ![r] =
                  [pc |-> IF Turned(currentState', c) THEN "refused" ELSE "limit",
                   class |-> c]]
  BY <1>0 DEF Arrive
<1>3. TypeOK'
  BY <1>0, <1>1, <1>2 DEF TypeOK, Arrive, Request, pastVars
<1>4. Counted' = Counted \cup {r} /\ r \notin Counted
  BY <1>2 DEF Counted, Arrive, TypeOK
<1>5. Cardinality(Counted') = n
  BY <1>4, CountedFinite, FS_AddElement DEF CounterExact
<1>6. CounterExact'
  BY <1>0, <1>5 DEF CounterExact, Arrive
<1>7. AdmittedBounded'
  <2>1. CASE currentState' # "OVERLOADED"
    <3>1. Cardinality(Admitted') <= Cardinality(Counted')
      <4>1. Counted' \in SUBSET Requests /\ Admitted' \in SUBSET Counted'
        BY DEF Counted, Admitted
      <4>2. IsFiniteSet(Counted')
        BY <4>1, RequestsAssumption, FS_Subset
      <4> QED
        BY <4>1, <4>2, FS_Subset
    <3>2. Cardinality(Admitted') \in Nat
      <4>1. Admitted' \in SUBSET Requests
        BY DEF Admitted
      <4> QED
        BY <4>1, RequestsAssumption, FS_Subset, FS_CardinalityType
    <3> QED
      BY <2>1, <3>1, <3>2, <1>0, <1>1, <1>5, ConcurrencyAssumption DEF AdmittedBounded
  <2>2. CASE currentState' = "OVERLOADED"
    <3>1. Admitted' = Admitted
      BY <2>2, <1>2 DEF Admitted, Turned, Arrive, TypeOK
    <3> QED
      BY <3>1 DEF AdmittedBounded
  <2> QED
    BY <2>1, <2>2
<1> QED
  BY <1>3, <1>6, <1>7

(* A request that is neither newly open nor newly admitted.                 *)
LEMMA PassOK ==
  ASSUME IInv, TypeOK', activeRequests' = activeRequests,
         Counted' = Counted, Admitted' \subseteq Admitted
  PROVE  IInv'
<1> USE DEF IInv
<1>1. Cardinality(Admitted') \in Nat /\ Cardinality(Admitted') <= Cardinality(Admitted)
  BY CountedFinite, FS_Subset, FS_CardinalityType
<1>2. AdmittedBounded'
  BY <1>1, CountedFinite, ConcurrencyAssumption DEF AdmittedBounded
<1> QED
  BY <1>2 DEF CounterExact

LEMMA LeaveOK ==
  ASSUME IInv, NEW r \in Counted,
         activeRequests' = CleanedUp(activeRequests),
         Counted' = Counted \ {r}, Admitted' \subseteq Admitted,
         activeRequests' \in Nat => TypeOK'
  PROVE  IInv'
<1> USE DEF IInv
<1>1. Cardinality(Counted') = Cardinality(Counted) - 1 /\ IsFiniteSet(Counted')
  BY CountedFinite, FS_RemoveElement
<1>2. CounterExact' /\ activeRequests' \in Nat
  BY <1>1, FS_CardinalityType DEF CounterExact, CleanedUp
<1>3. Cardinality(Admitted') \in Nat /\ Cardinality(Admitted') <= Cardinality(Admitted)
  BY CountedFinite, FS_Subset, FS_CardinalityType
<1>4. AdmittedBounded'
  BY <1>3, CountedFinite, ConcurrencyAssumption DEF AdmittedBounded
<1> QED
  BY <1>2, <1>4

(* The bucket's answer: what Limit does to the bucket.                      *)
LEMMA LimitType ==
  ASSUME TypeOK, NEW r \in Requests, Limit(r)
  PROVE  TypeOK'
<1>1. PICK l \in {x \in Lags : x <= clock} :
        LET now == clock - l
            tokens == Refilled(now)
        IN /\ \/ /\ tokens >= 1
                 /\ bucket' = [tokens |-> tokens - 1, last |-> now]
                 /\ allowed' = allowed + 1
                 /\ SetPc(r, "working")
              \/ /\ tokens < 1
                 /\ bucket' = [tokens |-> tokens, last |-> now]
                 /\ SetPc(r, "refused")
                 /\ UNCHANGED allowed
           /\ setBack + Back(now) <= MaxSetBack
           /\ setBack' = setBack + Back(now)
  BY DEF Limit
<1> DEFINE now == clock - l
<1>2. now \in 0..MaxClock
  BY LagsAssumption, BucketAssumption DEF TypeOK
<1>3. Refilled(now) \in 0..Capacity
  BY <1>2, RefilledOK
<1>4. bucket' \in [tokens : 0..Capacity, last : -1..MaxClock] /\ allowed' \in Nat
  BY <1>1, <1>2, <1>3, BucketAssumption DEF TypeOK
<1>5. req' \in [Requests -> Request]
  BY <1>1 DEF TypeOK, SetPc, Request
<1>6. setBack' \in 0..MaxSetBack
  <2>1. Back(now) \in Nat
    BY <1>2 DEF TypeOK, Back
  <2> QED
    BY <1>1, <2>1, BucketAssumption DEF TypeOK
<1> QED
  BY <1>4, <1>5, <1>6 DEF TypeOK, Limit

LEMMA NextOK ==
  ASSUME IInv, [Next]_vars
  PROVE  IInv'
<1> USE DEF IInv
<1>1. ASSUME NEW r \in Requests, Arrive(r) PROVE IInv'
  BY <1>1, ArriveOK
<1>2. ASSUME NEW r \in Requests, Limit(r) PROVE IInv'
  <2>1. TypeOK'
    BY <1>2, LimitType
  <2>2. Counted' = Counted /\ Admitted' \subseteq Admitted
    BY <1>2 DEF Limit, SetPc, Counted, Admitted, TypeOK, Request
  <2> QED
    BY <1>2, <2>1, <2>2, PassOK DEF Limit
<1>3. ASSUME NEW r \in Requests, FailOpen(r) PROVE IInv'
  <2>1. TypeOK'
    BY <1>3 DEF FailOpen, TypeOK, SetPc, Request, pastVars
  <2>2. Counted' = Counted /\ Admitted' \subseteq Admitted
    BY <1>3 DEF FailOpen, SetPc, Counted, Admitted, TypeOK, Request
  <2> QED
    BY <1>3, <2>1, <2>2, PassOK DEF FailOpen
<1>4. ASSUME NEW r \in Requests, Finish(r) PROVE IInv'
  <2>1. r \in Counted /\ Counted' = Counted \ {r} /\ Admitted' \subseteq Admitted
    BY <1>4 DEF Finish, End, Idle, Counted, Admitted, TypeOK
  <2>2. activeRequests' \in Nat => TypeOK'
    BY <1>4 DEF Finish, End, Idle, TypeOK, Request, Classes, pastVars
  <2> QED
    BY <1>4, <2>1, <2>2, LeaveOK DEF Finish
<1>5. ASSUME NEW r \in Requests, Disconnect(r) PROVE IInv'
  <2>1. r \in Counted /\ Counted' = Counted \ {r} /\ Admitted' \subseteq Admitted
    BY <1>5 DEF Disconnect, SetPc, Counted, Admitted, TypeOK, Request
  <2>2. activeRequests' \in Nat => TypeOK'
    BY <1>5 DEF Disconnect, SetPc, TypeOK, Request, pastVars
  <2> QED
    BY <1>5, <2>1, <2>2, LeaveOK DEF Disconnect
<1>6. ASSUME NEW r \in Requests, FinishGone(r) PROVE IInv'
  <2>1. TypeOK'
    BY <1>6 DEF FinishGone, TypeOK, End, Idle, Request, Classes, pastVars
  <2>2. Counted' = Counted /\ Admitted' \subseteq Admitted
    BY <1>6 DEF FinishGone, End, Idle, Counted, Admitted, TypeOK
  <2> QED
    BY <1>6, <2>1, <2>2, PassOK DEF FinishGone
<1>7. ASSUME Drift \/ Tick \/ UNCHANGED vars PROVE IInv'
  <2>1. TypeOK'
    BY <1>7, BucketAssumption DEF Drift, Tick, vars, TypeOK, pastVars
  <2>2. req' = req /\ activeRequests' = activeRequests
    BY <1>7 DEF Drift, Tick, vars
  <2> QED
    BY <2>1, <2>2, PassOK DEF Counted, Admitted
<1> QED
  BY <1>1, <1>2, <1>3, <1>4, <1>5, <1>6, <1>7 DEF Next

(* IInv is an invariant of admission.                                       *)
THEOREM InductiveInvariant == Spec => []IInv
<1> QED
  BY InitOK, NextOK, PTL DEF Spec

(* The counter of overload protection is exact.                             *)
THEOREM CounterIsExact == Spec => []CounterExact
<1>1. IInv => CounterExact
  BY DEF IInv
<1> QED
  BY <1>1, InductiveInvariant, PTL

(* No more than MaxConcurrent requests are admitted at a time.              *)
THEOREM AdmissionIsBounded == Spec => []AdmittedBounded
<1>1. IInv => AdmittedBounded
  BY DEF IInv
<1> QED
  BY <1>1, InductiveInvariant, PTL

(* A quiet server admits the next request and ends the overload.            *)
LEMMA ArrivesQuietly ==
  ASSUME IInv, NEW r \in Requests, Next,
         Counted = {}, pressure = "below",
         req[r].pc = "idle", req'[r].pc # "idle"
  PROVE  req'[r].pc = "limit" /\ currentState' = "NORMAL"
<1> USE DEF IInv
<1>1. activeRequests = 0
  BY FS_EmptySet DEF CounterExact
<1>2. Arrive(r)
  BY DEF Next, Arrive, Limit, FailOpen, Finish, Disconnect, FinishGone, Drift,
         Tick, SetPc, End, TypeOK
<1>3. ~Over(1) /\ ~Strained(1) /\ Recovered(1)
  BY ConcurrencyAssumption DEF Over, Strained, Recovered
<1>4. Health(1) = "NORMAL"
  BY <1>3 DEF Health
<1>5. currentState' = "NORMAL"
  BY <1>1, <1>2, <1>4 DEF Arrive
<1>6. \A c \in Classes : ~Turned("NORMAL", c)
  BY DEF Turned
<1> QED
  BY <1>1, <1>2, <1>4, <1>5, <1>6 DEF Arrive, TypeOK

(* Overload protection never locks the service out.                         *)
THEOREM QuietServerIsOpen == Spec => QuietServerAdmits
<1>1. IInv /\ [Next]_vars =>
        [\A r \in Requests :
           (Counted = {} /\ pressure = "below"
              /\ req[r].pc = "idle" /\ req'[r].pc # "idle") =>
             req'[r].pc = "limit" /\ currentState' = "NORMAL"]_vars
  BY ArrivesQuietly
<1> QED
  BY <1>1, InductiveInvariant, PTL DEF Spec, QuietServerAdmits

(* A step out of overload is an arrival that finds the server recovered.    *)
LEMMA EndsQuietly ==
  ASSUME IInv, Next, currentState = "OVERLOADED", currentState' # "OVERLOADED"
  PROVE  currentState' = "NORMAL" /\ Cardinality(Counted') < RecoveryConcurrent
<1>1. PICK r \in Requests : Arrive(r)
  BY DEF Next, Limit, FailOpen, Finish, Disconnect, FinishGone, Drift, Tick
<1>2. PICK n : n = activeRequests + 1
  OBVIOUS
<1>3. currentState' = Health(n) /\ activeRequests' = n
  BY <1>1, <1>2 DEF Arrive
<1>4. ~Over(n) /\ Recovered(n) /\ Health(n) = "NORMAL"
  BY <1>3 DEF Health
<1>5. Cardinality(Counted') = n
  BY <1>3, NextOK DEF IInv, CounterExact
<1> QED
  BY <1>3, <1>4, <1>5 DEF Recovered

(* Overload is left for NORMAL, and only with few requests open: the state   *)
(* of the middleware does not flap.                                          *)
THEOREM OverloadIsLeftQuietly == Spec => OverloadEndsQuietly
<1>1. IInv /\ [Next]_vars =>
        [(currentState = "OVERLOADED" /\ currentState' # "OVERLOADED") =>
           /\ currentState' = "NORMAL"
           /\ Cardinality(Counted') < RecoveryConcurrent]_vars
  BY EndsQuietly
<1> QED
  BY <1>1, InductiveInvariant, PTL DEF Spec, OverloadEndsQuietly

(* One step keeps the account of the bucket.                                *)
LEMMA BucketStep ==
  ASSUME TypeOK, BucketInv, [Next]_vars
  PROVE  BucketInv'
<1>1. ASSUME NEW r \in Requests, Limit(r) PROVE BucketInv'
  <2>1. PICK l \in {x \in Lags : x <= clock} :
          /\ \/ /\ Refilled(clock - l) >= 1
                /\ bucket' = [tokens |-> Refilled(clock - l) - 1, last |-> clock - l]
                /\ allowed' = allowed + 1
             \/ /\ bucket' = [tokens |-> Refilled(clock - l), last |-> clock - l]
                /\ allowed' = allowed
          /\ setBack' = setBack + Back(clock - l)
    BY <1>1 DEF Limit
  <2> DEFINE now == clock - l
  <2>2. /\ now \in 0..MaxClock /\ now <= clock /\ clock' = clock
        /\ bucket.tokens \in 0..Capacity /\ bucket.last \in -1..MaxClock
        /\ allowed \in Nat /\ setBack \in Nat
    BY <1>1, LagsAssumption, BucketAssumption DEF Limit, TypeOK
  <2>3. Refilled(now) \in 0..Capacity
    BY <2>2, RefilledOK
  <2> HIDE DEF now
  <2>4. /\ Back(now) \in Nat
        /\ bucket.last # -1 => Refilled(now) <= bucket.tokens + (now - bucket.last) + Back(now)
    BY <2>2, BucketAssumption DEF Refilled, Elapsed, Least, Back
  <2>5. allowed + Refilled(now) <= Capacity + now + setBack + Back(now)
    <3>1. CASE bucket.last = -1
      BY <3>1, <2>2, <2>3, <2>4, BucketAssumption DEF BucketInv
    <3>2. CASE bucket.last # -1
      BY <3>2, <2>2, <2>3, <2>4, BucketAssumption DEF BucketInv
    <3> QED
      BY <3>1, <3>2
  <2>6. /\ \/ /\ Refilled(now) >= 1
              /\ bucket' = [tokens |-> Refilled(now) - 1, last |-> now]
              /\ allowed' = allowed + 1
           \/ /\ bucket' = [tokens |-> Refilled(now), last |-> now]
              /\ allowed' = allowed
        /\ setBack' = setBack + Back(now)
    BY <2>1 DEF now
  <2> QED
    BY <2>2, <2>3, <2>4, <2>5, <2>6, BucketAssumption DEF BucketInv
<1>2. ASSUME NEW r \in Requests,
             Arrive(r) \/ FailOpen(r) \/ Finish(r) \/ Disconnect(r) \/ FinishGone(r)
      PROVE  BucketInv'
  BY <1>2 DEF Arrive, FailOpen, Finish, Disconnect, FinishGone, BucketInv, pastVars
<1>3. ASSUME Tick PROVE BucketInv'
  BY <1>3 DEF Tick, BucketInv, TypeOK, pastVars
<1>4. ASSUME Drift \/ UNCHANGED vars PROVE BucketInv'
  BY <1>4 DEF Drift, vars, BucketInv, pastVars
<1> QED
  BY <1>1, <1>2, <1>3, <1>4 DEF Next

(* Whatever clocks the checks bring, the bucket never allows more than its  *)
(* capacity, what time refilled and what it was set back.                   *)
THEOREM RateIsBounded == Spec => []RateBounded
<1>1. Init => BucketInv
  BY BucketAssumption DEF Init, BucketInv
<1>2. IInv /\ BucketInv /\ [Next]_vars => BucketInv'
  BY BucketStep DEF IInv
<1>3. IInv /\ BucketInv => RateBounded
  BY BucketAssumption DEF IInv, BucketInv, RateBounded, TypeOK
<1> QED
  BY <1>1, <1>2, <1>3, InductiveInvariant, PTL DEF Spec

(***************************************************************************)
(* The limiter in front of Argon2.                                         *)
(***************************************************************************)
USE CallersAssumption, CoresAssumption, QueueAssumption

(* Counting a finite set of callers that loses or gains one.                *)
LEMMA RunningIsFinite ==
  ASSUME LimiterTypeOK
  PROVE  IsFiniteSet(Running) /\ Cardinality(Running) \in Nat
<1>1. Running \in SUBSET Callers
  BY DEF Running
<1>2. IsFiniteSet(Running)
  BY <1>1, FS_Subset
<1> QED
  BY <1>2, FS_CardinalityType

LEMMA LimiterStarts == LimiterInit => LimiterIInv
<1> SUFFICES ASSUME LimiterInit PROVE LimiterIInv
  OBVIOUS
<1>1. LimiterTypeOK
  BY DEF LimiterInit, LimiterTypeOK, JobStates
<1>2. Running = {}
  BY DEF LimiterInit, Running
<1>3. Cardinality(Running) = 0
  BY <1>2, FS_EmptySet
<1>4. SlotsAccountedFor
  BY <1>3 DEF LimiterInit, SlotsAccountedFor
<1>5. WorkConserving /\ QueueHoldsWaiting
  BY DEF LimiterInit, WorkConserving, QueueHoldsWaiting
<1> QED
  BY <1>1, <1>4, <1>5 DEF LimiterIInv

LEMMA StartAtOnceOK ==
  ASSUME LimiterIInv, NEW c \in Callers, StartAtOnce(c)
  PROVE  LimiterIInv'
<1> USE DEF LimiterIInv
<1>1. queue = <<>>
  BY DEF StartAtOnce, SlotFree, WorkConserving, LimiterTypeOK
<1>2. LimiterTypeOK'
  BY DEF LimiterTypeOK, StartAtOnce, JobStates
<1>3. Running' = Running \cup {c} /\ c \notin Running
  BY DEF Running, StartAtOnce, MayCall, LimiterTypeOK
<1>4. Cardinality(Running') = Cardinality(Running) + 1
  BY <1>3, RunningIsFinite, FS_AddElement
<1>5. SlotsAccountedFor'
  BY <1>4 DEF SlotsAccountedFor, StartAtOnce, SlotFree, LimiterTypeOK
<1>6. WorkConserving'
  BY <1>1 DEF WorkConserving, StartAtOnce
<1>7. QueueHoldsWaiting'
  BY DEF QueueHoldsWaiting, StartAtOnce, MayCall, LimiterTypeOK
<1> QED
  BY <1>2, <1>5, <1>6, <1>7

LEMMA EnqueueOK ==
  ASSUME LimiterIInv, NEW c \in Callers, Enqueue(c)
  PROVE  LimiterIInv'
<1> USE DEF LimiterIInv
<1> DEFINE n == Len(queue)
<1>0. /\ queue \in Seq(Callers) /\ n \in Nat /\ DOMAIN queue = 1..n
      /\ queue' = Append(queue, c)
  BY LenProperties DEF LimiterTypeOK, Enqueue
<1>1. /\ queue' \in Seq(Callers) /\ Len(queue') = n + 1
      /\ DOMAIN queue' = 1..(n + 1)
      /\ \A i \in 1..n : queue'[i] = queue[i]
      /\ queue'[n + 1] = c
  BY <1>0, AppendProperties, LenProperties
<1>2. LimiterTypeOK'
  BY <1>1 DEF LimiterTypeOK, Enqueue, JobStates
<1>3. Running' = Running
  BY DEF Running, Enqueue, MayCall, LimiterTypeOK
<1>4. SlotsAccountedFor'
  BY <1>0, <1>1, <1>3
     DEF SlotsAccountedFor, Enqueue, QueueFull, LimiterTypeOK
<1>5. WorkConserving'
  BY DEF WorkConserving, SlotsAccountedFor, Enqueue, SlotFree, LimiterTypeOK
<1>6. \A i \in 1..n : queue[i] # c
  BY <1>0 DEF QueueHoldsWaiting, Enqueue, MayCall
<1>7. ASSUME NEW d \in Callers
      PROVE  (state[d] = "queued" <=> \E i \in DOMAIN queue : queue[i] = d)'
  <2>1. CASE d = c
    <3>1. state'[c] = "queued"
      BY DEF Enqueue, LimiterTypeOK
    <3>2. n + 1 \in DOMAIN queue'
      BY <1>0, <1>1
    <3> QED
      BY <2>1, <3>1, <3>2, <1>1
  <2>2. CASE d # c
    <3>1. state'[d] = state[d]
      BY <2>2 DEF Enqueue, LimiterTypeOK
    <3>2. (\E i \in DOMAIN queue' : queue'[i] = d)
            <=> (\E i \in DOMAIN queue : queue[i] = d)
      BY <2>2, <1>0, <1>1
    <3> QED
      BY <3>1, <3>2 DEF QueueHoldsWaiting
  <2> QED
    BY <2>1, <2>2
<1>8. (\A i, j \in DOMAIN queue : queue[i] = queue[j] => i = j)'
  BY <1>0, <1>1, <1>6 DEF QueueHoldsWaiting
<1>9. QueueHoldsWaiting'
  BY <1>7, <1>8 DEF QueueHoldsWaiting
<1> QED
  BY <1>2, <1>4, <1>5, <1>9

LEMMA RefuseCallOK ==
  ASSUME LimiterIInv, NEW c \in Callers, Refuse(c)
  PROVE  LimiterIInv'
<1> USE DEF LimiterIInv
<1>1. LimiterTypeOK'
  BY DEF LimiterTypeOK, Refuse, JobStates
<1>2. Running' = Running
  BY DEF Running, Refuse, MayCall, LimiterTypeOK
<1>3. SlotsAccountedFor' /\ WorkConserving'
  BY <1>2 DEF SlotsAccountedFor, WorkConserving, Refuse
<1>4. QueueHoldsWaiting'
  BY DEF QueueHoldsWaiting, Refuse, MayCall, LimiterTypeOK
<1> QED
  BY <1>1, <1>3, <1>4

(* The caller at the head of the queue takes the slot that c gives back.    *)
LEMMA HandedOver ==
  ASSUME LimiterIInv, NEW c \in Callers, c \in Running, queue # <<>>,
         queue' = Tail(queue), activeCount' = activeCount,
         state' = [state EXCEPT ![c] = "idle", ![Head(queue)] = "dequeued"]
  PROVE  LimiterIInv'
<1> USE DEF LimiterIInv
<1> DEFINE n == Len(queue)
           h == Head(queue)
<1>0. /\ queue \in Seq(Callers) /\ n \in Nat /\ DOMAIN queue = 1..n
  BY LenProperties DEF LimiterTypeOK
<1>1. /\ n > 0 /\ h = queue[1] /\ h \in Callers
      /\ queue' \in Seq(Callers) /\ Len(queue') = n - 1
      /\ DOMAIN queue' = 1..(n - 1)
      /\ \A i \in 1..(n - 1) : queue'[i] = queue[i + 1]
  <2>1. n > 0
    BY <1>0, EmptySeq
  <2>2. Tail(queue) \in Seq(Callers) /\ Len(Tail(queue)) = n - 1
    BY <1>0, HeadTailProperties
  <2>3. \A i \in 1..(n - 1) : Tail(queue)[i] = queue[i + 1]
    BY <1>0, <2>1
  <2> QED
    BY <1>0, <2>1, <2>2, <2>3, LenProperties
<1>2. state[h] = "queued" /\ h \notin Running
  BY <1>0, <1>1 DEF QueueHoldsWaiting, Running
<1> HIDE DEF n, h
<1>3. /\ h # c
      /\ state' = [state EXCEPT ![c] = "idle", ![h] = "dequeued"]
  BY <1>2 DEF h
<1>4. /\ state'[c] = "idle" /\ state'[h] = "dequeued"
      /\ \A d \in Callers \ {c, h} : state'[d] = state[d]
  BY <1>1, <1>3 DEF LimiterTypeOK
<1>5. LimiterTypeOK'
  BY <1>1, <1>3 DEF LimiterTypeOK, JobStates
<1>6. Running' = (Running \ {c}) \cup {h} /\ h \notin Running \ {c}
  BY <1>1, <1>2, <1>4 DEF Running
<1>7. Cardinality(Running') = Cardinality(Running)
  <2>1. IsFiniteSet(Running) /\ Cardinality(Running) \in Nat
    BY RunningIsFinite
  <2>2. /\ IsFiniteSet(Running \ {c})
        /\ Cardinality(Running \ {c}) = Cardinality(Running) - 1
    BY <2>1, FS_RemoveElement
  <2>3. Cardinality((Running \ {c}) \cup {h}) = Cardinality(Running \ {c}) + 1
    BY <2>2, <1>6, FS_AddElement
  <2> QED
    BY <2>1, <2>2, <2>3, <1>6
<1>8. SlotsAccountedFor'
  BY <1>0, <1>1, <1>7 DEF SlotsAccountedFor, n
<1>9. WorkConserving'
  BY DEF WorkConserving
<1>10. ASSUME NEW d \in Callers
       PROVE  (state[d] = "queued" <=> \E i \in DOMAIN queue : queue[i] = d)'
  <2>1. CASE d = h
    <3>1. \A i \in 1..(n - 1) : queue[i + 1] # h
      BY <1>0, <1>1 DEF QueueHoldsWaiting
    <3> QED
      BY <2>1, <3>1, <1>1, <1>4
  <2>2. CASE d # h
    <3>1. state'[d] = "queued" <=> state[d] = "queued"
      BY <2>2, <1>4 DEF Running
    <3>2. (\E i \in 1..n : queue[i] = d) <=> (\E i \in 1..(n - 1) : queue[i + 1] = d)
      <4>1. ASSUME NEW i \in 1..n, queue[i] = d
            PROVE  \E k \in 1..(n - 1) : queue[k + 1] = d
        <5>1. i # 1
          BY <4>1, <2>2, <1>1
        <5>2. i - 1 \in 1..(n - 1) /\ (i - 1) + 1 = i
          BY <5>1, <1>0
        <5> QED
          BY <4>1, <5>2
      <4>2. ASSUME NEW i \in 1..(n - 1), queue[i + 1] = d
            PROVE  \E k \in 1..n : queue[k] = d
        <5>1. i + 1 \in 1..n
          BY <1>0
        <5> QED
          BY <4>2, <5>1
      <4> QED
        BY <4>1, <4>2
    <3>3. (\E i \in DOMAIN queue : queue[i] = d)
            <=> (\E i \in DOMAIN queue' : queue'[i] = d)
      BY <3>2, <1>0, <1>1
    <3> QED
      BY <3>1, <3>3 DEF QueueHoldsWaiting
  <2> QED
    BY <2>1, <2>2
<1>11. ASSUME NEW i \in 1..(n - 1), NEW j \in 1..(n - 1), queue'[i] = queue'[j]
       PROVE  i = j
  <2>1. i + 1 \in DOMAIN queue /\ j + 1 \in DOMAIN queue
    BY <1>0
  <2>2. queue[i + 1] = queue[j + 1]
    BY <1>1, <1>11
  <2>3. i + 1 = j + 1
    BY <2>1, <2>2 DEF QueueHoldsWaiting
  <2> QED
    BY <2>3, <1>0
<1>12. QueueHoldsWaiting'
  BY <1>1, <1>10, <1>11 DEF QueueHoldsWaiting
<1> QED
  BY <1>5, <1>8, <1>9, <1>12

(* Nobody waits, and the slot becomes free.                                 *)
LEMMA Freed ==
  ASSUME LimiterIInv, NEW c \in Callers, c \in Running,
         ~(queue # <<>> /\ SlotFree(activeCount - 1)),
         queue' = queue, activeCount' = activeCount - 1,
         state' = [state EXCEPT ![c] = "idle"]
  PROVE  LimiterIInv'
<1> USE DEF LimiterIInv
<1>1. Running' = Running \ {c}
  BY DEF Running, LimiterTypeOK
<1>2. /\ Cardinality(Running') = Cardinality(Running) - 1
      /\ Cardinality(Running') \in Nat
  <2>1. IsFiniteSet(Running) /\ Cardinality(Running) \in Nat
    BY RunningIsFinite
  <2>2. /\ IsFiniteSet(Running')
        /\ Cardinality(Running') = Cardinality(Running) - 1
    BY <2>1, <1>1, FS_RemoveElement
  <2> QED
    BY <2>2, FS_CardinalityType
<1>3. activeCount' = Cardinality(Running') /\ activeCount' \in Nat
  BY <1>2 DEF SlotsAccountedFor
<1>4. activeCount' < MaxConcurrency
  BY <1>3 DEF SlotsAccountedFor, LimiterTypeOK
<1>5. queue = <<>>
  BY <1>4 DEF SlotFree
<1>6. LimiterTypeOK'
  BY <1>3 DEF LimiterTypeOK, JobStates
<1>7. SlotsAccountedFor' /\ WorkConserving'
  BY <1>3, <1>4, <1>5 DEF SlotsAccountedFor, WorkConserving, LimiterTypeOK
<1>8. QueueHoldsWaiting'
  BY DEF QueueHoldsWaiting, Running, LimiterTypeOK
<1> QED
  BY <1>6, <1>7, <1>8

LEMMA GiveBackOK ==
  ASSUME LimiterIInv, NEW c \in Callers, c \in Running, GiveBack(c)
  PROVE  LimiterIInv'
<1>1. CASE queue # <<>> /\ SlotFree(activeCount - 1)
  BY <1>1, HandedOver DEF GiveBack
<1>2. CASE ~(queue # <<>> /\ SlotFree(activeCount - 1))
  BY <1>2, Freed DEF GiveBack
<1> QED
  BY <1>1, <1>2

LEMMA SettleOK ==
  ASSUME LimiterIInv, NEW c \in Callers, Settle(c)
  PROVE  LimiterIInv'
<1> USE DEF LimiterIInv
<1>1. LimiterTypeOK'
  BY DEF LimiterTypeOK, Settle, JobStates
<1>2. Running' = Running
  BY DEF Running, Settle, LimiterTypeOK
<1>3. SlotsAccountedFor' /\ WorkConserving'
  BY <1>2 DEF SlotsAccountedFor, WorkConserving, Settle
<1>4. QueueHoldsWaiting'
  BY DEF QueueHoldsWaiting, Settle, LimiterTypeOK
<1> QED
  BY <1>1, <1>3, <1>4

LEMMA LimiterStutters ==
  ASSUME LimiterIInv, UNCHANGED limiterVars
  PROVE  LimiterIInv'
BY DEF limiterVars, LimiterIInv, LimiterTypeOK, SlotsAccountedFor, WorkConserving,
       QueueHoldsWaiting, Running

LEMMA LimiterSteps ==
  ASSUME LimiterIInv, [LimiterNext]_limiterVars
  PROVE  LimiterIInv'
<1>1. ASSUME NEW c \in Callers, StartAtOnce(c) PROVE LimiterIInv'
  BY <1>1, StartAtOnceOK
<1>2. ASSUME NEW c \in Callers, Enqueue(c) PROVE LimiterIInv'
  BY <1>2, EnqueueOK
<1>3. ASSUME NEW c \in Callers, Refuse(c) PROVE LimiterIInv'
  BY <1>3, RefuseCallOK
<1>4. ASSUME NEW c \in Callers, FinishDirect(c) PROVE LimiterIInv'
  <2>1. c \in Running
    BY <1>4 DEF FinishDirect, Running
  <2> QED
    BY <1>4, <2>1, GiveBackOK DEF FinishDirect
<1>5. ASSUME NEW c \in Callers, Settle(c) PROVE LimiterIInv'
  BY <1>5, SettleOK
<1>6. ASSUME NEW c \in Callers, FinishDequeued(c) PROVE LimiterIInv'
  <2>1. c \in Running
    BY <1>6 DEF FinishDequeued, Running
  <2> QED
    BY <1>6, <2>1, GiveBackOK DEF FinishDequeued
<1>7. CASE UNCHANGED limiterVars
  BY <1>7, LimiterStutters
<1> QED
  BY <1>1, <1>2, <1>3, <1>4, <1>5, <1>6, <1>7 DEF LimiterNext

(* IInv is an invariant of the limiter, whatever callers do.                *)
THEOREM LimiterInvariant == LimiterSpec => []LimiterIInv
<1>1. LimiterInit => LimiterIInv
  BY LimiterStarts
<1>2. LimiterIInv /\ [LimiterNext]_limiterVars => LimiterIInv'
  BY LimiterSteps
<1> QED
  BY <1>1, <1>2, PTL DEF LimiterSpec

(* No slot of the limiter leaks and neither bound is ever exceeded.         *)
THEOREM NoSlotLeaks == LimiterSpec => []SlotsAccountedFor
<1>1. LimiterIInv => SlotsAccountedFor
  BY DEF LimiterIInv
<1> QED
  BY <1>1, LimiterInvariant, PTL

(* Nobody ever waits while a slot is free.                                  *)
THEOREM NoIdleSlot == LimiterSpec => []WorkConserving
<1>1. LimiterIInv => WorkConserving
  BY DEF LimiterIInv
<1> QED
  BY <1>1, LimiterInvariant, PTL

(* A job that starts leaves nobody waiting who had called before it.        *)
LEMMA StartsInOrder ==
  ASSUME LimiterIInv, [LimiterNext]_limiterVars,
         NEW c \in Callers, c \notin Running, c \in Running',
         NEW i \in DOMAIN queue, \A k \in 1..i : queue[k] # c
  PROVE  queue[i] \in Running'
<1> USE DEF LimiterIInv
<1>1. queue # <<>> /\ i \in Nat /\ 1 \in 1..i /\ queue[1] = Head(queue)
  <2>1. DOMAIN queue = 1..Len(queue) /\ Len(queue) \in Nat
    BY LenProperties DEF LimiterTypeOK
  <2> QED
    BY <2>1, EmptySeq DEF LimiterTypeOK
<1>2. c # Head(queue)
  BY <1>1
<1>3. ~ \E d \in Callers : StartAtOnce(d)
  BY <1>1 DEF StartAtOnce, SlotFree, WorkConserving, LimiterTypeOK
<1>4. ASSUME NEW d \in Callers, Enqueue(d) \/ Refuse(d) \/ Settle(d) PROVE FALSE
  BY <1>4 DEF Enqueue, Refuse, Settle, Running, LimiterTypeOK
<1>5. ASSUME NEW d \in Callers, GiveBack(d) PROVE FALSE
  BY <1>2, <1>5 DEF GiveBack, Running, LimiterTypeOK
<1>6. CASE UNCHANGED limiterVars
  BY <1>6 DEF limiterVars, Running
<1> QED
  BY <1>3, <1>4, <1>5, <1>6 DEF LimiterNext, FinishDirect, FinishDequeued

(* The queue in front of Argon2 is first in, first out.                     *)
THEOREM FirstInFirstOut == LimiterSpec => FirstComeFirstServed
<1>1. LimiterIInv /\ [LimiterNext]_limiterVars =>
        [\A c \in Callers :
           (c \notin Running /\ c \in Running') =>
             \A i \in DOMAIN queue :
               (\A k \in 1..i : queue[k] # c) => queue[i] \in Running']_limiterVars
  BY StartsInOrder
<1> QED
  BY <1>1, LimiterInvariant, PTL DEF LimiterSpec, FirstComeFirstServed
===============================================================================
