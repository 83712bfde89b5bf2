----------------------------- MODULE EmailDelivery -----------------------------
(***************************************************************************)
(* Outgoing e-mail: the job queue, in Postgres or in Redis, and the worker *)
(* that takes due jobs from it, hands them to the mail provider, and       *)
(* retries, expires or gives up on them.                                   *)
(*                                                                         *)
(* The poll timer and the fast path after an enqueue start executions that *)
(* nobody awaits, so several run at a time, in one process or in many: an  *)
(* execution is a process here.  A Postgres transaction, a Redis script    *)
(* and a Redis MULTI are one step each.  Age and backoff are flags that    *)
(* time may raise at any moment.                                           *)
(***************************************************************************)
EXTENDS Naturals, FiniteSets

CONSTANTS
  Jobs,        \* the e-mails to be sent, one job each
  Executions,  \* bound on the executions at a time
  Levels,      \* number of priorities, 4 in the code; 1 is CRITICAL
  MaxRetries,  \* max_retries, 3 in the code
  None,        \* no job
  Backends,    \* the queues of this instance: "postgres" and "redis"
  Faults       \* what may go wrong: "crash" and "store"

ASSUME NoneAssumption == None \notin Jobs
ASSUME LevelsAssumption == Levels \in Nat \ {0}
ASSUME RetriesAssumption == MaxRetries \in Nat \ {0}
ASSUME BackendsAssumption == Backends \subseteq {"postgres", "redis"}
ASSUME FaultsAssumption == Faults \subseteq {"crash", "store"}

VARIABLES
  backend,  \* the queue this deployment uses
  jobs,     \* email_jobs in Postgres, the email:job:* hashes in Redis
  waiting,  \* Redis only: the members of the email:queue:* sorted sets
  exec,     \* the executions
  tries,    \* history: how often the provider was called for a job
  sent,     \* history: how often it accepted the e-mail
  harmed    \* history: jobs whose execution a fault interrupted

vars == <<backend, jobs, waiting, exec, tries, sent, harmed>>

Status == {"none", "QUEUED", "PROCESSING", "SENT", "FAILED", "EXPIRED", "DLQ"}

\* due: next_attempt_at has come; old: queued more than 15 minutes ago.
Job == [status : Status, level : 1..Levels, retries : 0..MaxRetries,
        due : BOOLEAN, old : BOOLEAN]

Execution == [pc : {"idle", "scan", "load", "mark", "execute", "expire",
                    "send", "markSent", "fail", "requeue"},
              job : Jobs \cup {None}, level : 1..Levels, retries : 0..MaxRetries]

Idle == [pc |-> "idle", job |-> None, level |-> 1, retries |-> 0]

(* One type invariant for the seven variables. *)
TypeOK ==
  /\ backend \in Backends
  /\ jobs \in [Jobs -> Job]
  /\ waiting \in SUBSET Jobs
  /\ exec \in [Executions -> Execution]
  /\ tries \in [Jobs -> 0..MaxRetries]
  /\ sent \in [Jobs -> 0..MaxRetries]
  /\ harmed \in SUBSET Jobs

Init ==
  /\ backend \in Backends
  /\ jobs = [j \in Jobs |-> [status |-> "none", level |-> 1, retries |-> 0,
                             due |-> FALSE, old |-> FALSE]]
  /\ waiting = {}
  /\ exec = [x \in Executions |-> Idle]
  /\ tries = [j \in Jobs |-> 0]
  /\ sent = [j \in Jobs |-> 0]
  /\ harmed = {}

Holding(x, j) == exec[x].job = j /\ exec[x].pc # "idle"

Goto(x, p) == exec' = [exec EXCEPT ![x].pc = p]
End(x) == exec' = [exec EXCEPT ![x] = Idle]
SetStatus(j, s) == jobs' = [jobs EXCEPT ![j].status = s]

(***************************************************************************)
(* enqueueJob.                                                             *)
(***************************************************************************)
Enqueue(j) ==
  /\ jobs[j].status = "none"
  /\ \E p \in 1..Levels :
       jobs' = [jobs EXCEPT ![j] = [status |-> "QUEUED", level |-> p,
                                    retries |-> 0, due |-> TRUE, old |-> FALSE]]
  /\ waiting' = IF backend = "redis" THEN waiting \cup {j} ELSE waiting
  /\ UNCHANGED <<backend, exec, tries, sent, harmed>>

(***************************************************************************)
(* getNextJob on Postgres: SELECT ... FOR UPDATE SKIP LOCKED and UPDATE in *)
(* one transaction.                                                        *)
(***************************************************************************)
Eligible ==
  {j \in Jobs : /\ jobs[j].status \in {"QUEUED", "FAILED"}
                /\ jobs[j].retries < MaxRetries
                /\ jobs[j].due}

Claimed_Unmarked(j) == jobs[j]
Claimed(j) == [jobs[j] EXCEPT !.status = "PROCESSING"]

Take(x) ==
  /\ backend = "postgres"
  /\ exec[x].pc = "idle"
  /\ \E j \in Eligible :
       /\ \A k \in Eligible : jobs[j].level <= jobs[k].level
       /\ jobs' = [jobs EXCEPT ![j] = Claimed(j)]
       /\ exec' = [exec EXCEPT ![x] = [pc |-> "execute", job |-> j,
                                       level |-> jobs[j].level,
                                       retries |-> jobs[j].retries]]
  /\ UNCHANGED <<backend, waiting, tries, sent, harmed>>

(***************************************************************************)
(* getNextJob on Redis: one script per priority pops the first due id, then *)
(* HGETALL and HSET status.                                                *)
(***************************************************************************)
Poll(x) ==
  /\ backend = "redis"
  /\ exec[x].pc = "idle"
  /\ Goto(x, "scan")
  /\ UNCHANGED <<backend, jobs, waiting, tries, sent, harmed>>

Popped_Kept(j) == waiting
Popped(j) == waiting \ {j}

Scan(x) ==
  LET level == exec[x].level
      due   == {j \in waiting : jobs[j].level = level /\ jobs[j].due}
  IN /\ exec[x].pc = "scan"
     /\ \/ \E j \in due :
             /\ waiting' = Popped(j)
             /\ exec' = [exec EXCEPT ![x].pc = "load", ![x].job = j]
        \/ /\ due = {}
           /\ IF level < Levels
              THEN exec' = [exec EXCEPT ![x].level = level + 1]
              ELSE End(x)
           /\ UNCHANGED waiting
     /\ UNCHANGED <<backend, jobs, tries, sent, harmed>>

Load(x) ==
  /\ exec[x].pc = "load"
  /\ exec' = [exec EXCEPT ![x].pc = "mark",
                          ![x].retries = jobs[exec[x].job].retries]
  /\ UNCHANGED <<backend, jobs, waiting, tries, sent, harmed>>

Mark(x) ==
  /\ exec[x].pc = "mark"
  /\ SetStatus(exec[x].job, "PROCESSING")
  /\ Goto(x, "execute")
  /\ UNCHANGED <<backend, waiting, tries, sent, harmed>>

(***************************************************************************)
(* executeJob.                                                             *)
(***************************************************************************)
Overdue(x) == exec[x].level = 1 /\ jobs[exec[x].job].old

\* The age check, then the call of the provider.
Execute(x) ==
  LET j == exec[x].job
  IN /\ exec[x].pc = "execute"
     /\ \/ /\ Overdue(x)
           /\ Goto(x, "expire")
           /\ UNCHANGED tries
        \/ /\ ~Overdue(x)
           /\ Goto(x, "send")
           /\ tries' = [tries EXCEPT ![j] = @ + 1]
     /\ UNCHANGED <<backend, jobs, waiting, sent, harmed>>

Expire(x) ==
  /\ exec[x].pc = "expire"
  /\ SetStatus(exec[x].job, "EXPIRED")
  /\ End(x)
  /\ UNCHANGED <<backend, waiting, tries, sent, harmed>>

\* The provider accepts the e-mail, or the call throws.
Send(x) ==
  /\ exec[x].pc = "send"
  /\ \/ /\ sent' = [sent EXCEPT ![exec[x].job] = @ + 1]
        /\ Goto(x, "markSent")
     \/ /\ Goto(x, "fail")
        /\ UNCHANGED sent
  /\ UNCHANGED <<backend, jobs, waiting, tries, harmed>>

MarkSent(x) ==
  /\ exec[x].pc = "markSent"
  /\ SetStatus(exec[x].job, "SENT")
  /\ End(x)
  /\ UNCHANGED <<backend, waiting, tries, sent, harmed>>

(***************************************************************************)
(* handleFailure: the retry count is the one read when the job was taken.  *)
(***************************************************************************)
Permanent_OneMore(x) == exec[x].retries + 1 > MaxRetries
Permanent(x) == exec[x].retries + 1 >= MaxRetries

GiveUp(x) ==
  /\ exec[x].pc = "fail"
  /\ Permanent(x)
  /\ SetStatus(exec[x].job, "DLQ")
  /\ End(x)
  /\ UNCHANGED <<backend, waiting, tries, sent, harmed>>

AfterRetry_NotRequeued(x) == End(x)
\* incrementRetry is one UPDATE on Postgres; on Redis the ZADD comes last.
AfterRetry(x) == IF backend = "redis" THEN Goto(x, "requeue") ELSE End(x)

\* Nobody else writes a job that an execution holds, so the HGETALL before
\* this HSET is part of the step.
Retry(x) ==
  /\ exec[x].pc = "fail"
  /\ ~Permanent(x)
  /\ jobs' = [jobs EXCEPT ![exec[x].job].retries = @ + 1,
                          ![exec[x].job].status = "FAILED",
                          ![exec[x].job].due = FALSE]
  /\ AfterRetry(x)
  /\ UNCHANGED <<backend, waiting, tries, sent, harmed>>

Requeue(x) ==
  /\ exec[x].pc = "requeue"
  /\ waiting' = waiting \cup {exec[x].job}
  /\ End(x)
  /\ UNCHANGED <<backend, jobs, tries, sent, harmed>>

(***************************************************************************)
(* Time and faults.                                                        *)
(***************************************************************************)
Unfinished == {j \in Jobs : jobs[j].status \in {"QUEUED", "PROCESSING", "FAILED"}}

BackoffEnds(j) ==
  /\ j \in Unfinished /\ ~jobs[j].due
  /\ jobs' = [jobs EXCEPT ![j].due = TRUE]
  /\ UNCHANGED <<backend, waiting, exec, tries, sent, harmed>>

GrowsOld(j) ==
  /\ j \in Unfinished /\ ~jobs[j].old
  /\ jobs' = [jobs EXCEPT ![j].old = TRUE]
  /\ UNCHANGED <<backend, waiting, exec, tries, sent, harmed>>

\* A statement of an execution throws.  Only the one that marks the job as
\* sent is inside the try whose catch handles a failed send, and on Redis it
\* may have set the status already.
StoreError(x) ==
  /\ "store" \in Faults
  /\ exec[x].pc \in {"load", "mark", "expire", "markSent", "fail", "requeue"}
  /\ harmed' = harmed \cup {exec[x].job}
  /\ \/ /\ exec[x].pc # "markSent"
        /\ End(x)
        /\ UNCHANGED jobs
     \/ /\ exec[x].pc = "markSent"
        /\ Goto(x, "fail")
        /\ \/ UNCHANGED jobs
           \/ backend = "redis" /\ SetStatus(exec[x].job, "SENT")
  /\ UNCHANGED <<backend, waiting, tries, sent>>

\* The process stops, or shuts down without waiting for its executions.
Crash ==
  LET held == {j \in Jobs : \E x \in Executions : Holding(x, j)}
  IN /\ "crash" \in Faults
     /\ held # {}
     /\ harmed' = harmed \cup held
     /\ exec' = [x \in Executions |-> Idle]
     /\ UNCHANGED <<backend, jobs, waiting, tries, sent>>

Step(x) ==
  \/ Take(x) \/ Poll(x) \/ Scan(x) \/ Load(x) \/ Mark(x) \/ Execute(x)
  \/ Expire(x) \/ Send(x) \/ MarkSent(x) \/ GiveUp(x) \/ Retry(x) \/ Requeue(x)

Next ==
  \/ \E j \in Jobs : Enqueue(j) \/ BackoffEnds(j) \/ GrowsOld(j)
  \/ \E x \in Executions : Step(x) \/ StoreError(x)
  \/ Crash

\* The poll timer fires for ever, calls return, and time passes.
Fairness ==
  /\ \A x \in Executions : WF_vars(Step(x))
  /\ \A j \in Jobs : WF_vars(BackoffEnds(j))

Spec == Init /\ [][Next]_vars /\ Fairness

(***************************************************************************)
(* Properties.                                                             *)
(***************************************************************************)
(* No two executions work on the same job, although polls overlap and no    *)
(* execution is awaited: SKIP LOCKED with the PROCESSING mark, or the pop   *)
(* script, keep them apart through every retry.                             *)
OneExecutionPerJob ==
  \A x, y \in Executions : \A j \in Jobs :
    (Holding(x, j) /\ Holding(y, j)) => x = y

\* A job that waits to be taken.
Queued(j) ==
  IF backend = "redis" THEN j \in waiting
  ELSE jobs[j].status \in {"QUEUED", "FAILED"} /\ jobs[j].retries < MaxRetries

(* A job that no fault touched is never lost and never in two places: until *)
(* it is sent, expired or given up it either waits in the queue or is held  *)
(* by an execution.                                                         *)
NoJobLost ==
  \A j \in Unfinished \ harmed :
    Queued(j) <=> ~ \E x \in Executions : Holding(x, j)

\* The calls for one job.
Bounded(j) ==
  /\ tries[j] <= MaxRetries
  /\ j \notin harmed => sent[j] <= 1
  /\ jobs[j].status = "SENT" => sent[j] >= 1
  /\ (sent[j] >= 1 /\ j \notin harmed) =>
       \/ jobs[j].status = "SENT"
       \/ \E x \in Executions : Holding(x, j) /\ exec[x].pc = "markSent"

(* The provider is called at most MaxRetries times for a job, and not again *)
(* after it accepted the e-mail, unless a fault came between the sending    *)
(* and the record of it.                                                    *)
AttemptsBounded == \A j \in Jobs : Bounded(j)

(***************************************************************************)
(* What the three rest on.                                                 *)
(***************************************************************************)
\* An execution has a job from the claim or the pop on, and four of its steps
\* are of Redis only.
ExecOK ==
  \A x \in Executions :
    /\ exec[x].pc \in {"idle", "scan"} <=> exec[x].job = None
    /\ exec[x].pc = "idle" => exec[x] = Idle
    /\ exec[x].pc \in {"scan", "load", "mark", "requeue"} => backend = "redis"

\* One execution holds j, which is nowhere else then: on Postgres it is marked,
\* on Redis it is popped.
HeldApart(j) ==
  /\ j \in waiting => backend = "redis" /\ jobs[j].status # "none"
  /\ \A x, y \in Executions : Holding(x, j) /\ Holding(y, j) => x = y
  /\ \A x \in Executions : Holding(x, j) =>
       /\ jobs[j].status # "none" /\ j \notin waiting
       /\ backend = "postgres" => jobs[j].status = "PROCESSING"

\* The status of a job no fault touched tells where it is.
Placed(j) ==
  j \notin harmed =>
    /\ jobs[j].status \in {"QUEUED", "FAILED"} <=>
         \/ Queued(j)
         \/ \E x \in Executions : Holding(x, j) /\ exec[x].pc \in {"load", "mark", "requeue"}
    /\ jobs[j].status = "PROCESSING" <=>
         \E x \in Executions :
           Holding(x, j) /\ exec[x].pc \in {"execute", "expire", "send", "markSent", "fail"}

\* While j waits, or an execution has it in hand: retries counts the calls that
\* failed, and the execution knows the count.
CallsCounted(j) ==
  /\ sent[j] <= tries[j]
  /\ jobs[j].status = "none" => tries[j] = 0
  /\ Queued(j) => /\ jobs[j].retries < MaxRetries /\ tries[j] <= jobs[j].retries
                  /\ j \notin harmed => sent[j] = 0
  /\ \A x \in Executions : Holding(x, j) =>
       /\ jobs[j].retries < MaxRetries
       /\ exec[x].pc \notin {"load", "requeue"} => exec[x].retries = jobs[j].retries
       /\ tries[j] <= jobs[j].retries
            + (IF exec[x].pc \in {"send", "markSent", "fail"} THEN 1 ELSE 0)
       /\ exec[x].pc = "send" => sent[j] < tries[j]
       /\ exec[x].pc = "markSent" => sent[j] >= 1
       /\ j \notin harmed /\ exec[x].pc # "markSent" => sent[j] = 0

JobOK(j) == HeldApart(j) /\ Placed(j) /\ CallsCounted(j) /\ Bounded(j)

\* The conjunction is inductive.
IInv == TypeOK /\ ExecOK /\ \A j \in Jobs : JobOK(j)

(* Every job no fault touches is in the end sent, expired or given up.      *)
EveryJobSettled ==
  \A j \in Jobs :
    j \in Unfinished ~> (j \notin Unfinished \/ j \in harmed)
=============================================================================
