---------------------------- MODULE HashingLimiter ----------------------------
(***************************************************************************)
(* The limiter in front of Argon2: every password hash and every password  *)
(* verification of the API goes through ConcurrencyLimiter.run, which runs *)
(* at most MaxConcurrency of them at a time, keeps at most MaxQueueSize    *)
(* waiting in a first-in first-out queue, and answers 429 to the rest.     *)
(*                                                                         *)
(* The code between two awaits runs to its end on the one JavaScript       *)
(* thread, so it is one step.  A caller is a process that calls run again  *)
(* and again.                                                              *)
(*                                                                         *)
(* Admission stands in front of the same server; what both modules have is  *)
(* named for the limiter here, so that one module may extend the two.       *)
(***************************************************************************)
EXTENDS Naturals, Sequences, FiniteSets

CONSTANTS
  Callers,         \* whoever hashes or verifies a password
  MaxConcurrency,  \* the number of CPU cores
  MaxQueueSize     \* 1000 in the code

ASSUME CallersAssumption == IsFiniteSet(Callers)
ASSUME CoresAssumption == MaxConcurrency \in Nat \ {0}
ASSUME QueueAssumption == MaxQueueSize \in Nat

VARIABLES
  activeCount,  \* the limiter's count of running jobs
  queue,        \* the callers waiting, oldest first
  state         \* what became of each caller's latest call

limiterVars == <<activeCount, queue, state>>

\* A job started by run itself is "direct", one taken from the queue is
\* "dequeued": its caller learns the result (it is "settled") some promise
\* callbacks before the slot is given back.
JobStates == {"idle", "queued", "direct", "dequeued", "settled", "refused"}

LimiterTypeOK ==
  /\ activeCount \in Nat
  /\ queue \in Seq(Callers)
  /\ state \in [Callers -> JobStates]

LimiterInit ==
  /\ activeCount = 0
  /\ queue = <<>>
  /\ state = [c \in Callers |-> "idle"]

\* The callers that hold a slot.
Running == {c \in Callers : state[c] \in {"direct", "dequeued", "settled"}}

SlotFree_OffByOne(n) == n <= MaxConcurrency
SlotFree(n) == n < MaxConcurrency

QueueFull == Len(queue) >= MaxQueueSize

(***************************************************************************)
(* run                                                                     *)
(***************************************************************************)
MayCall(c) == state[c] \in {"idle", "refused"}

StartAtOnce(c) ==
  /\ MayCall(c)
  /\ SlotFree(activeCount)
  /\ activeCount' = activeCount + 1
  /\ state' = [state EXCEPT ![c] = "direct"]
  /\ UNCHANGED queue

Enqueue(c) ==
  /\ MayCall(c)
  /\ ~SlotFree(activeCount)
  /\ ~QueueFull
  /\ queue' = Append(queue, c)
  /\ state' = [state EXCEPT ![c] = "queued"]
  /\ UNCHANGED activeCount

Refuse(c) ==
  /\ MayCall(c)
  /\ ~SlotFree(activeCount)
  /\ QueueFull
  /\ state' = [state EXCEPT ![c] = "refused"]
  /\ UNCHANGED <<activeCount, queue>>

(***************************************************************************)
(* activeCount--; next(), with what the task that next() shifts off the    *)
(* queue does at once: activeCount++ and the call of its job.              *)
(***************************************************************************)
GiveBack_Forgetful(c) ==
  /\ activeCount' = activeCount - 1
  /\ state' = [state EXCEPT ![c] = "idle"]
  /\ UNCHANGED queue

GiveBack_LastFirst(c) ==
  \/ /\ queue # <<>> /\ SlotFree(activeCount - 1)
     /\ queue' = SubSeq(queue, 1, Len(queue) - 1)
     /\ state' = [state EXCEPT ![c] = "idle", ![queue[Len(queue)]] = "dequeued"]
     /\ UNCHANGED activeCount
  \/ /\ ~(queue # <<>> /\ SlotFree(activeCount - 1))
     /\ activeCount' = activeCount - 1
     /\ state' = [state EXCEPT ![c] = "idle"]
     /\ UNCHANGED queue

GiveBack(c) ==
  \/ /\ queue # <<>> /\ SlotFree(activeCount - 1)
     /\ queue' = Tail(queue)
     /\ state' = [state EXCEPT ![c] = "idle", ![Head(queue)] = "dequeued"]
     /\ UNCHANGED activeCount
  \/ /\ ~(queue # <<>> /\ SlotFree(activeCount - 1))
     /\ activeCount' = activeCount - 1
     /\ state' = [state EXCEPT ![c] = "idle"]
     /\ UNCHANGED queue

\* The awaited job ends, well or not, and the finally block runs.
FinishDirect(c) ==
  /\ state[c] = "direct"
  /\ GiveBack(c)

\* then(resolve) or catch(reject)
Settle(c) ==
  /\ state[c] = "dequeued"
  /\ state' = [state EXCEPT ![c] = "settled"]
  /\ UNCHANGED <<activeCount, queue>>

\* finally
FinishDequeued(c) ==
  /\ state[c] = "settled"
  /\ GiveBack(c)

LimiterNext ==
  \E c \in Callers :
    \/ StartAtOnce(c) \/ Enqueue(c) \/ Refuse(c)
    \/ FinishDirect(c) \/ Settle(c) \/ FinishDequeued(c)

\* Argon2 always ends, and promise callbacks always run.
Fairness ==
  \A c \in Callers :
    WF_limiterVars(FinishDirect(c) \/ Settle(c) \/ FinishDequeued(c))

LimiterSpec == LimiterInit /\ [][LimiterNext]_limiterVars /\ Fairness

(***************************************************************************)
(* Properties.                                                             *)
(***************************************************************************)
(* activeCount is the number of jobs that really hold a slot (a leak would *)
(* shrink the limiter for ever), never more than the limit; the queue keeps *)
(* to its size.                                                             *)
SlotsAccountedFor ==
  /\ activeCount = Cardinality(Running)
  /\ activeCount <= MaxConcurrency
  /\ Len(queue) <= MaxQueueSize

(* Nobody waits while a slot is free: next() is called at every place where *)
(* one becomes free.                                                        *)
WorkConserving == queue # <<>> => activeCount = MaxConcurrency

\* The queue holds exactly the callers whose call waits, each once.
QueueHoldsWaiting ==
  /\ \A c \in Callers : state[c] = "queued" <=> \E i \in DOMAIN queue : queue[i] = c
  /\ \A i, j \in DOMAIN queue : queue[i] = queue[j] => i = j

\* The conjunction is inductive.
LimiterIInv ==
  LimiterTypeOK /\ SlotsAccountedFor /\ WorkConserving /\ QueueHoldsWaiting

(* First come, first served: a step that starts a job leaves nobody waiting *)
(* who had called before it.                                                *)
FirstComeFirstServed ==
  [][\A c \in Callers :
       (c \notin Running /\ c \in Running') =>
         \A i \in DOMAIN queue :
           (\A k \in 1..i : queue[k] # c) => queue[i] \in Running']_limiterVars

(* Every call that was not refused gets its turn and its answer.            *)
EveryCallServed ==
  /\ \A c \in Callers : state[c] = "queued" ~> state[c] = "dequeued"
  /\ \A c \in Callers : c \in Running ~> c \notin Running
=============================================================================
