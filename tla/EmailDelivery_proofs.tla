-------------------------- MODULE EmailDelivery_proofs --------------------------
(***************************************************************************)
(* Proofs about EmailDelivery for any set of jobs, any number of overlapping *)
(* executions, priorities and retries, on both queues and with any faults: *)
(* IInv is an invariant, and from it no two executions work on a job, no   *)
(* job is lost, and the provider is called a bounded number of times.      *)
(***************************************************************************)
EXTENDS EmailDelivery, TLAPS

(***************************************************************************)
(* A step is about one job, or about none: nothing it does shows at another.*)
(***************************************************************************)
Untouched(k) ==
  /\ jobs'[k] = jobs[k] /\ tries'[k] = tries[k] /\ sent'[k] = sent[k]
  /\ k \in waiting' <=> k \in waiting
  /\ k \in harmed' <=> k \in harmed
  /\ \A x \in Executions : /\ Holding(x, k)' <=> Holding(x, k)
                           /\ Holding(x, k) => exec'[x] = exec[x]

LEMMA OthersOK ==
  ASSUME NEW k \in Jobs, JobOK(k), Untouched(k), UNCHANGED backend
  PROVE  JobOK(k)'
<1>1. Queued(k)' <=> Queued(k)
  BY DEF Untouched, Queued
<1>2. HeldApart(k)'
  BY DEF JobOK, HeldApart, Untouched
<1>3. Placed(k)'
  BY <1>1 DEF JobOK, Placed, Untouched
<1>4. CallsCounted(k)'
  BY <1>1 DEF JobOK, CallsCounted, Untouched
<1>5. Bounded(k)'
  BY DEF JobOK, Bounded, Untouched
<1> QED
  BY <1>2, <1>3, <1>4, <1>5 DEF JobOK

(* One execution moves on to the record e, and the step is about its job.   *)
LEMMA MoveOK ==
  ASSUME IInv, NEW x \in Executions, NEW e \in Execution,
         exec' = [exec EXCEPT ![x] = e],
         NEW j \in Jobs, exec[x].job \in {j, None}, e.job \in {j, None},
         e.pc \in {"idle", "scan"} <=> e.job = None,
         e.pc = "idle" => e = Idle,
         e.pc \in {"scan", "load", "mark", "requeue"} => backend = "redis",
         \A k \in Jobs \ {j} : /\ jobs'[k] = jobs[k]
                               /\ tries'[k] = tries[k] /\ sent'[k] = sent[k]
                               /\ k \in waiting' <=> k \in waiting
                               /\ k \in harmed' <=> k \in harmed,
         UNCHANGED backend, TypeOK', JobOK(j)'
  PROVE  IInv'
<1> USE DEF IInv
<1>1. exec'[x] = e /\ \A y \in Executions \ {x} : exec'[y] = exec[y]
  BY DEF TypeOK
<1>2. ExecOK'
  BY <1>1 DEF ExecOK
<1>3. ASSUME NEW k \in Jobs, k # j
      PROVE  JobOK(k)'
  <2>1. ~Holding(x, k) /\ ~Holding(x, k)'
    BY <1>1, <1>3, NoneAssumption DEF Holding
  <2>2. Untouched(k)
    BY <1>1, <1>3, <2>1 DEF Untouched, Holding
  <2> QED
    BY <2>2, OthersOK
<1> QED
  BY <1>2, <1>3

(* What is known of the job in hand.                                        *)
LEMMA InHand ==
  ASSUME IInv, NEW x \in Executions, exec[x].pc \notin {"idle", "scan"}
  PROVE  /\ exec[x] \in Execution
         /\ \E j \in Jobs :
              /\ exec[x].job = j /\ Holding(x, j) /\ JobOK(j)
              /\ \A y \in Executions \ {x} : ~Holding(y, j)
<1>1. exec[x] \in Execution /\ exec[x].job \in Jobs /\ exec[x].pc # "idle"
  BY DEF IInv, TypeOK, ExecOK, Execution
<1>2. ASSUME NEW j \in Jobs, exec[x].job = j
      PROVE  /\ Holding(x, j) /\ JobOK(j)
             /\ \A y \in Executions \ {x} : ~Holding(y, j)
  BY <1>1, <1>2 DEF IInv, JobOK, HeldApart, Holding
<1> QED
  BY <1>1, <1>2

LEMMA IdleIsExecution == Idle \in Execution /\ Idle.pc = "idle" /\ Idle.job = None
BY LevelsAssumption, RetriesAssumption DEF Idle, Execution

(***************************************************************************)
(* The queue.                                                              *)
(***************************************************************************)
LEMMA EnqueueOK ==
  ASSUME IInv, NEW j \in Jobs, Enqueue(j)
  PROVE  IInv'
<1> USE DEF IInv
<1>0. UNCHANGED <<backend, exec, tries, sent, harmed>>
  BY DEF Enqueue
<1>1. PICK p \in 1..Levels :
        jobs' = [jobs EXCEPT ![j] = [status |-> "QUEUED", level |-> p,
                                     retries |-> 0, due |-> TRUE, old |-> FALSE]]
  BY DEF Enqueue
<1>2. /\ jobs'[j].status = "QUEUED" /\ jobs'[j].retries = 0
      /\ \A k \in Jobs \ {j} : jobs'[k] = jobs[k] /\ (k \in waiting' <=> k \in waiting)
      /\ backend = "redis" <=> j \in waiting'
  BY <1>1 DEF Enqueue, TypeOK, JobOK, HeldApart
<1>3. TypeOK'
  BY <1>0, <1>1, RetriesAssumption DEF Enqueue, TypeOK, Job, Status
<1>4. ~ \E x \in Executions : Holding(x, j)
  BY DEF Enqueue, JobOK, HeldApart
<1>5. tries[j] = 0 /\ sent[j] = 0
  BY DEF Enqueue, JobOK, CallsCounted, TypeOK
<1>6. JobOK(j)'
  <2>1. Queued(j)' /\ ~ \E x \in Executions : Holding(x, j)'
    BY <1>0, <1>2, <1>4, RetriesAssumption DEF Queued, Holding
  <2>2. HeldApart(j)' /\ Placed(j)'
    BY <1>0, <1>2, <2>1 DEF HeldApart, Placed
  <2>3. CallsCounted(j)' /\ Bounded(j)'
    BY <1>0, <1>2, <1>5, <2>1, RetriesAssumption DEF CallsCounted, Bounded
  <2> QED
    BY <2>2, <2>3 DEF JobOK
<1>7. \A k \in Jobs \ {j} : Untouched(k)
  BY <1>0, <1>2 DEF Untouched, Holding
<1>8. ExecOK'
  BY <1>0 DEF ExecOK
<1> QED
  BY <1>0, <1>3, <1>6, <1>7, <1>8, OthersOK

LEMMA TakeOK ==
  ASSUME IInv, NEW x \in Executions, Take(x)
  PROVE  IInv'
<1> USE DEF IInv
<1>0. /\ UNCHANGED <<backend, waiting, tries, sent, harmed>>
      /\ backend = "postgres" /\ exec[x].pc = "idle"
  BY DEF Take
<1>1. PICK j \in Eligible :
        /\ jobs' = [jobs EXCEPT ![j] = Claimed(j)]
        /\ exec' = [exec EXCEPT ![x] = [pc |-> "execute", job |-> j,
                                        level |-> jobs[j].level,
                                        retries |-> jobs[j].retries]]
  BY DEF Take
<1> DEFINE e == [pc |-> "execute", job |-> j, level |-> jobs[j].level,
                 retries |-> jobs[j].retries]
<1>2. /\ j \in Jobs /\ jobs[j] \in Job /\ jobs[j].status \in {"QUEUED", "FAILED"}
      /\ jobs[j].retries < MaxRetries /\ exec[x].job = None
  BY <1>0 DEF Eligible, TypeOK, ExecOK
<1>3. e \in Execution /\ Claimed(j) \in Job
  BY <1>2 DEF Execution, Job, Claimed, Status
<1>4. /\ jobs'[j].status = "PROCESSING" /\ jobs'[j].retries = jobs[j].retries
      /\ \A k \in Jobs \ {j} : jobs'[k] = jobs[k]
      /\ exec'[x] = e /\ \A y \in Executions \ {x} : exec'[y] = exec[y]
  BY <1>1, <1>2 DEF TypeOK, Claimed, Job
<1>5. TypeOK'
  BY <1>0, <1>1, <1>2, <1>3 DEF TypeOK
<1>6. JobOK(j)'
  <2>1. Queued(j) /\ j \notin waiting
    BY <1>0, <1>2 DEF Queued, JobOK, HeldApart
  <2>2. \A y \in Executions : Holding(y, j)' <=> y = x
    <3>1. ~ \E y \in Executions : Holding(y, j)
      BY <1>0, <1>2 DEF JobOK, HeldApart
    <3> QED
      BY <1>4, <3>1 DEF Holding
  <2>3. ~Queued(j)'
    BY <1>0, <1>4 DEF Queued
  <2>4. HeldApart(j)' /\ Placed(j)'
    BY <1>0, <1>4, <2>1, <2>2, <2>3 DEF HeldApart, Placed
  <2>5. CallsCounted(j)'
    BY <1>0, <1>2, <1>4, <2>1, <2>2, <2>3 DEF JobOK, CallsCounted, TypeOK, Job
  <2>6. Bounded(j)'
    BY <1>0, <1>2, <1>4, <2>1, <2>2 DEF JobOK, CallsCounted, Bounded, TypeOK
  <2> QED
    BY <2>4, <2>5, <2>6 DEF JobOK
<1>7. e.pc = "execute" /\ e.job = j
  OBVIOUS
<1> HIDE DEF e
<1> QED
  BY <1>0, <1>1, <1>2, <1>3, <1>4, <1>5, <1>6, <1>7, MoveOK, NoneAssumption DEF e

LEMMA PollOK ==
  ASSUME IInv, NEW x \in Executions, Poll(x)
  PROVE  IInv'
<1> USE DEF IInv
<1>0. /\ UNCHANGED <<backend, jobs, waiting, tries, sent, harmed>>
      /\ backend = "redis" /\ exec[x] = Idle
  BY DEF Poll, ExecOK
<1> DEFINE e == [exec[x] EXCEPT !.pc = "scan"]
<1>1. /\ exec' = [exec EXCEPT ![x] = e]
      /\ e \in Execution /\ e.pc = "scan" /\ e.job = None
  BY <1>0, IdleIsExecution DEF Poll, Goto, Execution
<1> HIDE DEF e
<1>2. exec'[x] = e /\ \A y \in Executions \ {x} : exec'[y] = exec[y]
  BY <1>1 DEF TypeOK
<1>3. TypeOK' /\ ExecOK'
  BY <1>0, <1>1, <1>2 DEF TypeOK, ExecOK
<1>4. \A k \in Jobs : Untouched(k)
  BY <1>0, <1>1, <1>2, IdleIsExecution, NoneAssumption DEF Untouched, Holding
<1> QED
  BY <1>0, <1>3, <1>4, OthersOK

LEMMA ScanOK ==
  ASSUME IInv, NEW x \in Executions, Scan(x)
  PROVE  IInv'
<1> USE DEF IInv
<1>0. /\ UNCHANGED <<backend, jobs, tries, sent, harmed>>
      /\ exec[x] \in Execution /\ exec[x].pc = "scan" /\ exec[x].job = None
      /\ backend = "redis"
  BY DEF Scan, TypeOK, ExecOK
<1>1. ASSUME NEW j \in waiting,
             waiting' = Popped(j), exec' = [exec EXCEPT ![x].pc = "load", ![x].job = j]
      PROVE  IInv'
  <2> DEFINE e == [exec[x] EXCEPT !.pc = "load", !.job = j]
  <2>1. /\ j \in Jobs
        /\ exec' = [exec EXCEPT ![x] = e]
        /\ e \in Execution /\ e.pc = "load" /\ e.job = j
    BY <1>0, <1>1 DEF TypeOK, Execution
  <2> HIDE DEF e
  <2>2. /\ exec'[x] = e /\ \A y \in Executions \ {x} : exec'[y] = exec[y]
        /\ j \notin waiting' /\ \A k \in Jobs \ {j} : k \in waiting' <=> k \in waiting
    BY <1>1, <2>1 DEF TypeOK, Popped
  <2>3. TypeOK'
    BY <1>0, <1>1, <2>1 DEF TypeOK, Popped
  <2>4. Queued(j) /\ ~Queued(j)'
    BY <1>0, <1>1, <2>2 DEF Queued
  <2>5. \A y \in Executions : Holding(y, j)' <=> y = x
    <3>1. ~ \E y \in Executions : Holding(y, j)
      BY <1>1, <2>1 DEF JobOK, HeldApart
    <3> QED
      BY <2>1, <2>2, <3>1 DEF Holding
  <2>6. HeldApart(j)'
    BY <1>0, <1>1, <2>1, <2>2, <2>5 DEF JobOK, HeldApart
  <2>7. Placed(j)'
    <3>1. ~ \E y \in Executions : Holding(y, j)
      BY <1>1, <2>1 DEF JobOK, HeldApart
    <3>2. j \notin harmed => jobs[j].status \in {"QUEUED", "FAILED"}
      BY <2>1, <2>4 DEF JobOK, Placed
    <3> QED
      BY <1>0, <2>1, <2>2, <2>5, <3>2 DEF Placed
  <2>8. CallsCounted(j)'
    BY <1>0, <2>1, <2>2, <2>4, <2>5 DEF JobOK, CallsCounted, TypeOK, Job
  <2>9. Bounded(j)'
    BY <1>0, <2>1, <2>2, <2>4, <2>5 DEF JobOK, CallsCounted, Bounded
  <2> QED
    BY <1>0, <2>1, <2>2, <2>3, <2>6, <2>7, <2>8, <2>9, MoveOK, NoneAssumption DEF JobOK
<1>2. ASSUME NEW e \in Execution, exec' = [exec EXCEPT ![x] = e], UNCHANGED waiting,
             \/ e.pc = "scan" /\ e.job = None
             \/ e = Idle
      PROVE  IInv'
  <2>1. /\ exec'[x] = e /\ \A y \in Executions \ {x} : exec'[y] = exec[y]
        /\ e.job = None /\ e.pc \in {"idle", "scan"}
    BY <1>2, IdleIsExecution DEF TypeOK
  <2>2. TypeOK' /\ ExecOK'
    BY <1>0, <1>2, <2>1, IdleIsExecution DEF TypeOK, ExecOK
  <2>3. \A k \in Jobs : Untouched(k)
    BY <1>0, <1>2, <2>1, NoneAssumption DEF Untouched, Holding
  <2> QED
    BY <1>0, <2>2, <2>3, OthersOK
<1>3. ASSUME exec[x].level < Levels,
             exec' = [exec EXCEPT ![x].level = exec[x].level + 1], UNCHANGED waiting
      PROVE  IInv'
  <2> DEFINE e == [exec[x] EXCEPT !.level = exec[x].level + 1]
  <2>1. /\ e \in Execution /\ exec' = [exec EXCEPT ![x] = e]
        /\ e.pc = "scan" /\ e.job = None
    BY <1>0, <1>3, LevelsAssumption DEF Execution
  <2> QED
    BY <1>2, <1>3, <2>1
<1> QED
  BY <1>1, <1>2, <1>3, IdleIsExecution DEF Scan, End

(***************************************************************************)
(* The steps with a job in hand.                                           *)
(***************************************************************************)
LEMMA HolderStays ==
  ASSUME IInv, NEW x \in Executions, exec[x].pc \notin {"idle", "scan"},
         NEW j \in Jobs, exec[x].job = j,
         NEW e \in Execution, exec' = [exec EXCEPT ![x] = e],
         e.job = j, e.pc # "idle"
  PROVE  exec'[x] = e /\ \A y \in Executions : Holding(y, j)' <=> y = x
<1>1. exec'[x] = e /\ \A y \in Executions \ {x} : exec'[y] = exec[y]
  BY DEF IInv, TypeOK
<1> QED
  BY <1>1, InHand DEF Holding

LEMMA HolderLeaves ==
  ASSUME IInv, NEW x \in Executions, exec[x].pc \notin {"idle", "scan"},
         NEW j \in Jobs, exec[x].job = j, End(x)
  PROVE  \A y \in Executions : ~Holding(y, j)'
<1>1. exec'[x] = Idle /\ \A y \in Executions \ {x} : exec'[y] = exec[y]
  BY DEF End, IInv, TypeOK
<1> QED
  BY <1>1, InHand, IdleIsExecution DEF Holding

(* Such a step preserves IInv if it does for the job in hand.               *)
LEMMA HandOK ==
  ASSUME IInv, NEW x \in Executions, exec[x].pc \notin {"idle", "scan"},
         NEW j \in Jobs, exec[x].job = j,
         NEW e \in Execution, exec' = [exec EXCEPT ![x] = e],
         \/ e = Idle
         \/ /\ e.job = j /\ e.pc \notin {"idle", "scan"}
            /\ e.pc \in {"load", "mark", "requeue"} => backend = "redis",
         \A k \in Jobs \ {j} : /\ jobs'[k] = jobs[k]
                               /\ tries'[k] = tries[k] /\ sent'[k] = sent[k]
                               /\ k \in waiting' <=> k \in waiting
                               /\ k \in harmed' <=> k \in harmed,
         UNCHANGED backend, TypeOK', JobOK(j)'
  PROVE  IInv'
<1>1. /\ e.job \in {j, None}
      /\ e.pc \in {"idle", "scan"} <=> e.job = None
      /\ e.pc = "idle" => e = Idle
      /\ e.pc \in {"scan", "load", "mark", "requeue"} => backend = "redis"
  BY IdleIsExecution, NoneAssumption
<1> QED
  BY <1>1, MoveOK

LEMMA LoadOK ==
  ASSUME IInv, NEW x \in Executions, Load(x)
  PROVE  IInv'
<1>0. /\ UNCHANGED <<backend, jobs, waiting, tries, sent, harmed>>
      /\ exec[x].pc = "load" /\ backend = "redis"
  BY DEF Load, ExecOK, IInv
<1>1. PICK j \in Jobs : exec[x].job = j /\ Holding(x, j) /\ JobOK(j)
  BY <1>0, InHand
<1> DEFINE e == [exec[x] EXCEPT !.pc = "mark", !.retries = jobs[j].retries]
<1>2. /\ e \in Execution /\ exec' = [exec EXCEPT ![x] = e]
      /\ e.pc = "mark" /\ e.job = j /\ e.retries = jobs[j].retries /\ e.pc # "idle"
  <2>1. exec[x] \in Execution /\ jobs[j] \in Job
    BY DEF IInv, TypeOK
  <2> QED
    BY <1>0, <1>1, <2>1, IdleIsExecution DEF Load, Execution, Job
<1> HIDE DEF e
<1>3. exec'[x] = e /\ \A y \in Executions : Holding(y, j)' <=> y = x
  BY <1>0, <1>1, <1>2, HolderStays
<1>4. TypeOK'
  BY <1>0, <1>2 DEF IInv, TypeOK
<1>5. HeldApart(j)' /\ Placed(j)'
  BY <1>0, <1>1, <1>2, <1>3 DEF JobOK, HeldApart, Placed, Queued, Holding
<1>6. CallsCounted(j)' /\ Bounded(j)'
  BY <1>0, <1>1, <1>2, <1>3 DEF JobOK, CallsCounted, Bounded, HeldApart, Queued
<1>7. JobOK(j)'
  BY <1>5, <1>6 DEF JobOK
<1> QED
  BY <1>0, <1>1, <1>2, <1>4, <1>7, HandOK

(* A write of the status of the job in hand.                                *)
LEMMA SetStatusType ==
  ASSUME TypeOK, NEW j \in Jobs, NEW s \in Status, SetStatus(j, s)
  PROVE  /\ jobs' \in [Jobs -> Job]
         /\ jobs'[j].status = s /\ jobs'[j].retries = jobs[j].retries
         /\ \A k \in Jobs \ {j} : jobs'[k] = jobs[k]
BY DEF SetStatus, TypeOK, Job

LEMMA MarkOK ==
  ASSUME IInv, NEW x \in Executions, Mark(x)
  PROVE  IInv'
<1>0. /\ UNCHANGED <<backend, waiting, tries, sent, harmed>>
      /\ exec[x].pc = "mark" /\ backend = "redis"
  BY DEF Mark, ExecOK, IInv
<1>1. PICK j \in Jobs : exec[x].job = j /\ Holding(x, j) /\ JobOK(j)
  BY <1>0, InHand
<1> DEFINE e == [exec[x] EXCEPT !.pc = "execute"]
<1>2. /\ e \in Execution /\ exec' = [exec EXCEPT ![x] = e]
      /\ e.pc = "execute" /\ e.job = j /\ e.retries = exec[x].retries /\ e.pc # "idle"
  BY <1>0, <1>1, InHand, IdleIsExecution DEF Mark, Goto, Execution
<1> HIDE DEF e
<1>3. exec'[x] = e /\ \A y \in Executions : Holding(y, j)' <=> y = x
  BY <1>0, <1>1, <1>2, HolderStays
<1>4. /\ jobs' \in [Jobs -> Job]
      /\ jobs'[j].status = "PROCESSING" /\ jobs'[j].retries = jobs[j].retries
      /\ \A k \in Jobs \ {j} : jobs'[k] = jobs[k]
  BY <1>1, SetStatusType DEF Mark, Status, IInv
<1>5. TypeOK'
  BY <1>0, <1>2, <1>4 DEF IInv, TypeOK
<1>6. HeldApart(j)' /\ Placed(j)'
  BY <1>0, <1>1, <1>2, <1>3, <1>4 DEF JobOK, HeldApart, Placed, Queued
<1>7. CallsCounted(j)' /\ Bounded(j)'
  BY <1>0, <1>1, <1>2, <1>3, <1>4 DEF JobOK, CallsCounted, Bounded, HeldApart, Queued
<1>8. JobOK(j)'
  BY <1>6, <1>7 DEF JobOK
<1> QED
  BY <1>0, <1>1, <1>2, <1>4, <1>5, <1>8, HandOK

LEMMA ExecuteOK ==
  ASSUME IInv, NEW x \in Executions, Execute(x)
  PROVE  IInv'
<1>0. /\ UNCHANGED <<backend, jobs, waiting, sent, harmed>>
      /\ exec[x].pc = "execute"
  BY DEF Execute
<1>1. PICK j \in Jobs : exec[x].job = j /\ Holding(x, j) /\ JobOK(j)
  BY <1>0, InHand
<1>2. tries[j] < MaxRetries /\ tries[j] <= jobs[j].retries /\ tries[j] \in Nat
  BY <1>0, <1>1, RetriesAssumption DEF JobOK, CallsCounted, IInv, TypeOK, Job
<1>3. ASSUME NEW p \in {"expire", "send"}, Goto(x, p),
             IF p = "send" THEN tries' = [tries EXCEPT ![j] = @ + 1] ELSE UNCHANGED tries
      PROVE  IInv'
  <2> DEFINE e == [exec[x] EXCEPT !.pc = p]
  <2>1. /\ e \in Execution /\ exec' = [exec EXCEPT ![x] = e]
        /\ e.pc = p /\ e.job = j /\ e.retries = exec[x].retries /\ e.pc # "idle"
    BY <1>0, <1>1, <1>3, InHand, IdleIsExecution DEF Goto, Execution
  <2> HIDE DEF e
  <2>2. exec'[x] = e /\ \A y \in Executions : Holding(y, j)' <=> y = x
    BY <1>0, <1>1, <2>1, HolderStays
  <2>3. /\ tries' \in [Jobs -> 0..MaxRetries]
        /\ tries'[j] = IF p = "send" THEN tries[j] + 1 ELSE tries[j]
        /\ \A k \in Jobs \ {j} : tries'[k] = tries[k]
    BY <1>1, <1>2, <1>3, RetriesAssumption DEF IInv, TypeOK
  <2>4. TypeOK'
    BY <1>0, <2>1, <2>3 DEF IInv, TypeOK
  <2>5. HeldApart(j)' /\ Placed(j)'
    BY <1>0, <1>1, <2>1, <2>2 DEF JobOK, HeldApart, Placed, Queued
  <2>6. ~Queued(j)' /\ jobs[j].status # "none"
    BY <1>0, <1>1, BackendsAssumption DEF JobOK, HeldApart, Queued, IInv, TypeOK
  <2>7. CallsCounted(j)'
    BY <1>0, <1>1, <1>2, <2>1, <2>2, <2>3, <2>6 DEF JobOK, CallsCounted, IInv, TypeOK, Job
  <2>8. Bounded(j)'
    BY <1>0, <1>1, <1>2, <2>1, <2>2, <2>3 DEF JobOK, CallsCounted, Bounded, IInv, TypeOK
  <2>9. JobOK(j)'
    BY <2>5, <2>7, <2>8 DEF JobOK
  <2> QED
    BY <1>0, <1>1, <2>1, <2>3, <2>4, <2>9, HandOK
<1>4. CASE Overdue(x)
  BY <1>1, <1>3, <1>4 DEF Execute
<1>5. CASE ~Overdue(x)
  BY <1>1, <1>3, <1>5 DEF Execute
<1> QED
  BY <1>4, <1>5

LEMMA SendOK ==
  ASSUME IInv, NEW x \in Executions, Send(x)
  PROVE  IInv'
<1>0. /\ UNCHANGED <<backend, jobs, waiting, tries, harmed>>
      /\ exec[x].pc = "send"
  BY DEF Send
<1>1. PICK j \in Jobs : exec[x].job = j /\ Holding(x, j) /\ JobOK(j)
  BY <1>0, InHand
<1>2. /\ sent[j] < tries[j] /\ sent[j] \in Nat /\ tries[j] \in Nat
      /\ tries[j] <= MaxRetries
      /\ j \notin harmed => sent[j] = 0
  BY <1>0, <1>1, RetriesAssumption DEF JobOK, CallsCounted, Bounded, IInv, TypeOK
<1>3. ASSUME NEW p \in {"markSent", "fail"}, Goto(x, p),
             IF p = "markSent" THEN sent' = [sent EXCEPT ![j] = @ + 1] ELSE UNCHANGED sent
      PROVE  IInv'
  <2> DEFINE e == [exec[x] EXCEPT !.pc = p]
  <2>1. /\ e \in Execution /\ exec' = [exec EXCEPT ![x] = e]
        /\ e.pc = p /\ e.job = j /\ e.retries = exec[x].retries /\ e.pc # "idle"
    BY <1>0, <1>1, <1>3, InHand DEF Goto, Execution
  <2> HIDE DEF e
  <2>2. exec'[x] = e /\ \A y \in Executions : Holding(y, j)' <=> y = x
    BY <1>0, <1>1, <2>1, HolderStays
  <2>3. /\ sent' \in [Jobs -> 0..MaxRetries]
        /\ sent'[j] = IF p = "markSent" THEN sent[j] + 1 ELSE sent[j]
        /\ \A k \in Jobs \ {j} : sent'[k] = sent[k]
    BY <1>1, <1>2, <1>3, RetriesAssumption DEF IInv, TypeOK
  <2>4. TypeOK'
    BY <1>0, <2>1, <2>3 DEF IInv, TypeOK
  <2>5. HeldApart(j)' /\ Placed(j)'
    BY <1>0, <1>1, <2>1, <2>2 DEF JobOK, HeldApart, Placed, Queued
  <2>6. ~Queued(j)' /\ jobs[j].status # "none"
    BY <1>0, <1>1, BackendsAssumption DEF JobOK, HeldApart, Queued, IInv, TypeOK
  <2>7. CallsCounted(j)'
    BY <1>0, <1>1, <1>2, <2>1, <2>2, <2>3, <2>6 DEF JobOK, CallsCounted, IInv, TypeOK, Job
  <2>8. Bounded(j)'
    <3>1. jobs[j].status = "SENT" => sent'[j] >= 1
      BY <1>1, <1>2, <2>3 DEF JobOK, Bounded
    <3> QED
      BY <1>0, <1>1, <1>2, <2>1, <2>2, <2>3, <3>1 DEF Bounded
  <2>9. JobOK(j)'
    BY <2>5, <2>7, <2>8 DEF JobOK
  <2> QED
    BY <1>0, <1>1, <2>1, <2>3, <2>4, <2>9, HandOK
<1>4. CASE Goto(x, "markSent") /\ sent' = [sent EXCEPT ![exec[x].job] = @ + 1]
  BY <1>1, <1>3, <1>4
<1>5. CASE Goto(x, "fail") /\ UNCHANGED sent
  BY <1>1, <1>3, <1>5
<1> QED
  BY <1>4, <1>5 DEF Send

(* A job that is sent, expired or given up is nowhere any more.             *)
LEMMA FinishOK ==
  ASSUME IInv, NEW x \in Executions, NEW s \in {"SENT", "EXPIRED", "DLQ"},
         exec[x].pc \in {"expire", "markSent", "fail"},
         s = "SENT" <=> exec[x].pc = "markSent",
         SetStatus(exec[x].job, s), End(x),
         UNCHANGED <<backend, waiting, tries, sent, harmed>>
  PROVE  IInv'
<1>1. PICK j \in Jobs : exec[x].job = j /\ Holding(x, j) /\ JobOK(j)
  BY InHand
<1>2. /\ jobs' \in [Jobs -> Job]
      /\ jobs'[j].status = s /\ jobs'[j].retries = jobs[j].retries
      /\ \A k \in Jobs \ {j} : jobs'[k] = jobs[k]
  BY <1>1, SetStatusType DEF Status, IInv
<1>3. \A y \in Executions : ~Holding(y, j)'
  BY <1>1, HolderLeaves
<1>4. TypeOK'
  BY <1>2, IdleIsExecution DEF End, IInv, TypeOK
<1>5. ~Queued(j)' /\ j \notin waiting
  BY <1>1, <1>2 DEF JobOK, HeldApart, Queued
<1>6. HeldApart(j)' /\ Placed(j)'
  BY <1>2, <1>3, <1>5 DEF HeldApart, Placed
<1>7. CallsCounted(j)'
  BY <1>1, <1>2, <1>3, <1>5 DEF JobOK, CallsCounted
<1>8. /\ s = "SENT" => sent[j] >= 1
      /\ j \notin harmed /\ s # "SENT" => sent[j] = 0
  BY <1>1 DEF JobOK, CallsCounted
<1>9. Bounded(j)'
  BY <1>1, <1>2, <1>3, <1>8 DEF JobOK, Bounded
<1>10. JobOK(j)'
  BY <1>6, <1>7, <1>9 DEF JobOK
<1> QED
  BY <1>1, <1>2, <1>4, <1>10, HandOK, IdleIsExecution DEF End

LEMMA RetryOK ==
  ASSUME IInv, NEW x \in Executions, Retry(x)
  PROVE  IInv'
<1>0. /\ UNCHANGED <<backend, waiting, tries, sent, harmed>>
      /\ exec[x].pc = "fail"
  BY DEF Retry
<1>1. PICK j \in Jobs : exec[x].job = j /\ Holding(x, j) /\ JobOK(j)
  BY <1>0, InHand
<1>2. /\ jobs[j] \in Job /\ jobs[j].retries + 1 < MaxRetries
      /\ tries[j] <= jobs[j].retries + 1 /\ tries[j] \in Nat
      /\ j \notin harmed => sent[j] = 0
  BY <1>0, <1>1, RetriesAssumption
     DEF Retry, Permanent, JobOK, CallsCounted, IInv, TypeOK, Job
<1>3. /\ jobs' \in [Jobs -> Job]
      /\ jobs'[j].status = "FAILED" /\ jobs'[j].retries = jobs[j].retries + 1
      /\ \A k \in Jobs \ {j} : jobs'[k] = jobs[k]
  <2> DEFINE r == [jobs[j] EXCEPT !.retries = @ + 1, !.status = "FAILED", !.due = FALSE]
  <2>1. jobs' = [jobs EXCEPT ![j] = r]
    BY <1>1, <1>2 DEF Retry, Job, IInv, TypeOK
  <2>2. r \in Job /\ r.status = "FAILED" /\ r.retries = jobs[j].retries + 1
    <3>1. jobs[j].retries + 1 \in 0..MaxRetries
      BY <1>2, RetriesAssumption DEF Job
    <3> QED
      BY <1>2, <3>1 DEF Job, Status
  <2> HIDE DEF r
  <2> QED
    BY <2>1, <2>2 DEF IInv, TypeOK
<1>4. CASE backend = "redis"
  <2> DEFINE e == [exec[x] EXCEPT !.pc = "requeue"]
  <2>1. /\ e \in Execution /\ exec' = [exec EXCEPT ![x] = e]
        /\ e.pc = "requeue" /\ e.job = j /\ e.pc # "idle"
    BY <1>0, <1>1, <1>4, InHand DEF Retry, AfterRetry, Goto, Execution
  <2> HIDE DEF e
  <2>2. exec'[x] = e /\ \A y \in Executions : Holding(y, j)' <=> y = x
    BY <1>0, <1>1, <2>1, HolderStays
  <2>3. TypeOK'
    BY <1>0, <1>3, <2>1 DEF IInv, TypeOK
  <2>4. ~Queued(j)' /\ j \notin waiting
    BY <1>0, <1>1, <1>4 DEF JobOK, HeldApart, Queued
  <2>5. HeldApart(j)' /\ Placed(j)'
    BY <1>0, <1>3, <1>4, <2>1, <2>2, <2>4 DEF HeldApart, Placed
  <2>6. CallsCounted(j)'
    <3>1. jobs'[j].retries < MaxRetries /\ tries[j] <= jobs'[j].retries
      BY <1>2, <1>3
    <3>2. ASSUME NEW y \in Executions, Holding(y, j)'
          PROVE  exec'[y].pc = "requeue"
      BY <2>1, <2>2, <3>2
    <3>3. sent[j] <= tries[j]
      BY <1>1 DEF JobOK, CallsCounted
    <3>4. tries[j] <= jobs'[j].retries + 0
      <4>1. jobs'[j].retries \in Nat
        BY <1>2, <1>3 DEF Job
      <4> QED
        BY <3>1, <4>1
    <3> QED
      BY <1>0, <1>2, <1>3, <2>4, <3>1, <3>2, <3>3, <3>4 DEF CallsCounted
  <2>7. Bounded(j)'
    BY <1>0, <1>1, <1>2, <1>3 DEF JobOK, Bounded
  <2>8. JobOK(j)'
    BY <2>5, <2>6, <2>7 DEF JobOK
  <2> QED
    BY <1>0, <1>1, <1>3, <1>4, <2>1, <2>3, <2>8, HandOK
<1>5. CASE backend # "redis"
  <2>1. End(x)
    BY <1>5 DEF Retry, AfterRetry
  <2>2. \A y \in Executions : ~Holding(y, j)'
    BY <1>0, <1>1, <2>1, HolderLeaves
  <2>3. TypeOK'
    BY <1>0, <1>3, <2>1, IdleIsExecution DEF End, IInv, TypeOK
  <2>4. Queued(j)' /\ j \notin waiting
    BY <1>0, <1>1, <1>2, <1>3, <1>5 DEF JobOK, HeldApart, Queued
  <2>5. HeldApart(j)' /\ Placed(j)'
    BY <1>0, <1>3, <2>2, <2>4 DEF HeldApart, Placed
  <2>6. CallsCounted(j)'
    BY <1>0, <1>1, <1>2, <1>3, <2>2, <2>4 DEF JobOK, CallsCounted
  <2>7. Bounded(j)'
    BY <1>0, <1>1, <1>2, <1>3 DEF JobOK, Bounded
  <2>8. JobOK(j)'
    BY <2>5, <2>6, <2>7 DEF JobOK
  <2> QED
    BY <1>0, <1>1, <1>3, <2>1, <2>3, <2>8, HandOK, IdleIsExecution DEF End
<1> QED
  BY <1>4, <1>5

LEMMA RequeueOK ==
  ASSUME IInv, NEW x \in Executions, Requeue(x)
  PROVE  IInv'
<1>0. /\ UNCHANGED <<backend, jobs, tries, sent, harmed>>
      /\ exec[x].pc = "requeue" /\ backend = "redis" /\ End(x)
  BY DEF Requeue, ExecOK, IInv
<1>1. PICK j \in Jobs : exec[x].job = j /\ Holding(x, j) /\ JobOK(j)
  BY <1>0, InHand
<1>2. waiting' = waiting \cup {j}
  BY <1>1 DEF Requeue
<1>3. \A y \in Executions : ~Holding(y, j)'
  BY <1>0, <1>1, HolderLeaves
<1>4. TypeOK'
  BY <1>0, <1>2, IdleIsExecution DEF End, IInv, TypeOK
<1>5. Queued(j)'
  BY <1>0, <1>2 DEF Queued
<1>6. HeldApart(j)'
  BY <1>0, <1>1, <1>3 DEF JobOK, HeldApart
<1>7. Placed(j)'
  <2>1. j \notin harmed => jobs[j].status \in {"QUEUED", "FAILED"}
    BY <1>0, <1>1 DEF JobOK, Placed
  <2> QED
    BY <1>0, <1>3, <1>5, <2>1 DEF Placed
<1>8. CallsCounted(j)'
  BY <1>0, <1>1, <1>3 DEF JobOK, CallsCounted, IInv, TypeOK, Job
<1>9. Bounded(j)'
  BY <1>0, <1>1 DEF JobOK, Bounded, CallsCounted
<1>10. JobOK(j)'
  BY <1>6, <1>7, <1>8, <1>9 DEF JobOK
<1> QED
  BY <1>0, <1>1, <1>2, <1>4, <1>10, HandOK, IdleIsExecution DEF End

(***************************************************************************)
(* Time and faults.                                                        *)
(***************************************************************************)
(* The flags that time raises.                                             *)
LEMMA FlagOK ==
  ASSUME IInv, NEW j \in Jobs, NEW r \in Job, jobs' = [jobs EXCEPT ![j] = r],
         r.status = jobs[j].status, r.retries = jobs[j].retries,
         UNCHANGED <<backend, waiting, exec, tries, sent, harmed>>
  PROVE  IInv'
<1>1. /\ jobs' \in [Jobs -> Job]
      /\ \A k \in Jobs : jobs'[k].status = jobs[k].status /\ jobs'[k].retries = jobs[k].retries
  BY DEF IInv, TypeOK
<1>2. TypeOK' /\ ExecOK'
  BY <1>1 DEF IInv, TypeOK, ExecOK
<1>3. ASSUME NEW k \in Jobs
      PROVE  JobOK(k)'
  <2>1. Queued(k)' <=> Queued(k)
    BY <1>1 DEF Queued
  <2>2. \A x \in Executions : Holding(x, k)' <=> Holding(x, k)
    BY DEF Holding
  <2>3. JobOK(k)
    BY DEF IInv
  <2>4. HeldApart(k)' /\ Placed(k)'
    BY <1>1, <2>1, <2>2, <2>3 DEF JobOK, HeldApart, Placed
  <2>5. CallsCounted(k)' /\ Bounded(k)'
    BY <1>1, <2>1, <2>2, <2>3 DEF JobOK, CallsCounted, Bounded
  <2> QED
    BY <2>4, <2>5 DEF JobOK
<1> QED
  BY <1>2, <1>3 DEF IInv

LEMMA TimeOK ==
  ASSUME IInv, NEW j \in Jobs, BackoffEnds(j) \/ GrowsOld(j)
  PROVE  IInv'
<1>1. jobs[j] \in Job
  BY DEF IInv, TypeOK
<1>2. CASE BackoffEnds(j)
  <2> DEFINE r == [jobs[j] EXCEPT !.due = TRUE]
  <2>1. /\ r \in Job /\ jobs' = [jobs EXCEPT ![j] = r]
        /\ r.status = jobs[j].status /\ r.retries = jobs[j].retries
    BY <1>1, <1>2 DEF BackoffEnds, Job
  <2> HIDE DEF r
  <2> QED
    BY <1>2, <2>1, FlagOK DEF BackoffEnds
<1>3. CASE GrowsOld(j)
  <2> DEFINE r == [jobs[j] EXCEPT !.old = TRUE]
  <2>1. /\ r \in Job /\ jobs' = [jobs EXCEPT ![j] = r]
        /\ r.status = jobs[j].status /\ r.retries = jobs[j].retries
    BY <1>1, <1>3 DEF GrowsOld, Job
  <2> HIDE DEF r
  <2> QED
    BY <1>3, <2>1, FlagOK DEF GrowsOld
<1> QED
  BY <1>2, <1>3

LEMMA StoreErrorOK ==
  ASSUME IInv, NEW x \in Executions, StoreError(x)
  PROVE  IInv'
<1>0. /\ UNCHANGED <<backend, waiting, tries, sent>>
      /\ exec[x].pc \notin {"idle", "scan"}
  BY DEF StoreError
<1>1. PICK j \in Jobs : exec[x].job = j /\ Holding(x, j) /\ JobOK(j)
  BY <1>0, InHand
<1>2. /\ harmed' = harmed \cup {j}
      /\ \A k \in Jobs \ {j} : k \in harmed' <=> k \in harmed
  BY <1>1 DEF StoreError
<1>3. ~Queued(j) /\ j \notin waiting /\ jobs[j].status # "none"
  BY <1>1, BackendsAssumption DEF JobOK, HeldApart, Queued, IInv, TypeOK
<1>4. CASE End(x) /\ UNCHANGED jobs
  <2>1. \A y \in Executions : ~Holding(y, j)'
    BY <1>0, <1>1, <1>4, HolderLeaves
  <2>2. TypeOK'
    BY <1>0, <1>2, <1>4, IdleIsExecution DEF End, IInv, TypeOK
  <2>3. ~Queued(j)'
    BY <1>0, <1>3, <1>4 DEF Queued
  <2>4. HeldApart(j)' /\ Placed(j)'
    BY <1>0, <1>2, <1>3, <1>4, <2>1 DEF HeldApart, Placed
  <2>5. CallsCounted(j)' /\ Bounded(j)'
    BY <1>0, <1>1, <1>2, <1>4, <2>1, <2>3 DEF JobOK, CallsCounted, Bounded
  <2>6. JobOK(j)'
    BY <2>4, <2>5 DEF JobOK
  <2> QED
    BY <1>0, <1>1, <1>2, <1>4, <2>2, <2>6, HandOK, IdleIsExecution DEF End
<1>5. CASE /\ exec[x].pc = "markSent" /\ Goto(x, "fail")
           /\ UNCHANGED jobs \/ (backend = "redis" /\ SetStatus(exec[x].job, "SENT"))
  <2> DEFINE e == [exec[x] EXCEPT !.pc = "fail"]
  <2>1. /\ e \in Execution /\ exec' = [exec EXCEPT ![x] = e]
        /\ e.pc = "fail" /\ e.job = j /\ e.retries = exec[x].retries /\ e.pc # "idle"
    BY <1>0, <1>1, <1>5, InHand DEF Goto, Execution
  <2> HIDE DEF e
  <2>2. exec'[x] = e /\ \A y \in Executions : Holding(y, j)' <=> y = x
    BY <1>0, <1>1, <2>1, HolderStays
  <2>3. /\ jobs' \in [Jobs -> Job] /\ jobs'[j].retries = jobs[j].retries
        /\ jobs'[j].status \in {jobs[j].status, "SENT"}
        /\ backend = "postgres" => jobs'[j].status = jobs[j].status
        /\ \A k \in Jobs \ {j} : jobs'[k] = jobs[k]
    <3>1. CASE UNCHANGED jobs
      BY <3>1 DEF IInv, TypeOK
    <3>2. CASE backend = "redis" /\ SetStatus(j, "SENT")
      BY <3>2, SetStatusType DEF Status, IInv
    <3> QED
      BY <1>1, <1>5, <3>1, <3>2
  <2>4. TypeOK'
    BY <1>0, <1>2, <2>1, <2>3 DEF IInv, TypeOK
  <2>5. ~Queued(j)' /\ jobs'[j].status # "none"
    BY <1>0, <1>3, <2>3 DEF Queued
  <2>6. HeldApart(j)' /\ Placed(j)'
    BY <1>0, <1>1, <1>2, <1>3, <2>2, <2>3, <2>5 DEF JobOK, HeldApart, Placed
  <2>7. CallsCounted(j)'
    BY <1>0, <1>1, <1>2, <1>5, <2>1, <2>2, <2>3, <2>5 DEF JobOK, CallsCounted
  <2>8. Bounded(j)'
    <3>1. sent[j] >= 1
      BY <1>1, <1>5 DEF JobOK, CallsCounted
    <3> QED
      BY <1>0, <1>1, <1>2, <3>1 DEF JobOK, Bounded
  <2>9. JobOK(j)'
    BY <2>6, <2>7, <2>8 DEF JobOK
  <2> QED
    BY <1>0, <1>1, <1>2, <2>1, <2>3, <2>4, <2>9, HandOK
<1> QED
  BY <1>4, <1>5 DEF StoreError

LEMMA CrashOK ==
  ASSUME IInv, Crash
  PROVE  IInv'
<1> DEFINE held == {j \in Jobs : \E x \in Executions : Holding(x, j)}
<1>0. /\ UNCHANGED <<backend, jobs, waiting, tries, sent>>
      /\ harmed' = harmed \cup held /\ exec' = [x \in Executions |-> Idle]
  BY DEF Crash
<1>1. TypeOK' /\ ExecOK'
  BY <1>0, IdleIsExecution DEF IInv, TypeOK, ExecOK
<1>2. ASSUME NEW k \in Jobs
      PROVE  JobOK(k)'
  <2>1. \A y \in Executions : ~Holding(y, k)'
    BY <1>0, IdleIsExecution DEF Holding
  <2>2. JobOK(k) /\ (Queued(k)' <=> Queued(k))
    BY <1>0 DEF IInv, Queued
  <2>3. k \notin harmed' => k \notin harmed /\ ~ \E x \in Executions : Holding(x, k)
    BY <1>0
  <2>4. HeldApart(k)' /\ Placed(k)'
    BY <1>0, <2>1, <2>2, <2>3 DEF JobOK, HeldApart, Placed
  <2>5. CallsCounted(k)' /\ Bounded(k)'
    BY <1>0, <2>1, <2>2, <2>3 DEF JobOK, CallsCounted, Bounded
  <2> QED
    BY <2>4, <2>5 DEF JobOK
<1> QED
  BY <1>1, <1>2 DEF IInv

(***************************************************************************)
(* The theorems.                                                           *)
(***************************************************************************)
LEMMA InitOK == Init => IInv
<1> SUFFICES ASSUME Init PROVE IInv
  OBVIOUS
<1>1. TypeOK
  BY IdleIsExecution, LevelsAssumption, RetriesAssumption DEF Init, TypeOK, Job, Status
<1>2. ExecOK
  BY IdleIsExecution DEF Init, ExecOK
<1>3. ASSUME NEW j \in Jobs
      PROVE  JobOK(j)
  <2>1. ~Queued(j) /\ \A x \in Executions : ~Holding(x, j)
    BY IdleIsExecution DEF Init, Queued, Holding
  <2> QED
    BY <2>1, RetriesAssumption
       DEF Init, JobOK, HeldApart, Placed, CallsCounted, Bounded
<1> QED
  BY <1>1, <1>2, <1>3 DEF IInv

LEMMA NextOK == IInv /\ [Next]_vars => IInv'
<1> SUFFICES ASSUME IInv, [Next]_vars PROVE IInv'
  OBVIOUS
<1>1. ASSUME NEW j \in Jobs, Enqueue(j) \/ BackoffEnds(j) \/ GrowsOld(j)
      PROVE  IInv'
  BY <1>1, EnqueueOK, TimeOK
<1>2. ASSUME NEW x \in Executions, Step(x)
      PROVE  IInv'
  <2>1. CASE Expire(x)
    BY <2>1, FinishOK DEF Expire
  <2>2. CASE MarkSent(x)
    BY <2>2, FinishOK DEF MarkSent
  <2>3. CASE GiveUp(x)
    BY <2>3, FinishOK DEF GiveUp
  <2> QED
    BY <1>2, <2>1, <2>2, <2>3, TakeOK, PollOK, ScanOK, LoadOK, MarkOK, ExecuteOK,
       SendOK, RetryOK, RequeueOK DEF Step
<1>3. ASSUME NEW x \in Executions, StoreError(x)
      PROVE  IInv'
  BY <1>3, StoreErrorOK
<1>4. CASE Crash
  BY <1>4, CrashOK
<1>5. CASE UNCHANGED vars
  <2>1. TypeOK' /\ ExecOK'
    BY <1>5 DEF vars, IInv, TypeOK, ExecOK
  <2>2. \A k \in Jobs : Untouched(k)
    BY <1>5 DEF vars, Untouched, Holding
  <2> QED
    BY <1>5, <2>1, <2>2, OthersOK DEF vars, IInv
<1> QED
  BY <1>1, <1>2, <1>3, <1>4, <1>5 DEF Next

(* IInv is an invariant of both queues, whatever fails and whenever.        *)
THEOREM InductiveInvariant == Spec => []IInv
<1> QED
  BY InitOK, NextOK, PTL DEF Spec

(* Overlapping polls never give one job to two executions.                 *)
THEOREM JobsAreHeldOnce == Spec => []OneExecutionPerJob
<1>1. IInv => OneExecutionPerJob
  BY DEF IInv, JobOK, HeldApart, OneExecutionPerJob
<1> QED
  BY <1>1, InductiveInvariant, PTL

(* A job no fault touched waits or is held, never both and never neither,   *)
(* until it is sent, expired or given up.                                  *)
THEOREM JobsAreNotLost == Spec => []NoJobLost
<1>1. IInv => NoJobLost
  <2> SUFFICES ASSUME IInv, NEW j \in Unfinished \ harmed
               PROVE  Queued(j) <=> ~ \E x \in Executions : Holding(x, j)
    BY DEF NoJobLost
  <2>1. JobOK(j) /\ j \in Jobs
    BY DEF IInv, Unfinished
  <2>2. Queued(j) => ~ \E x \in Executions : Holding(x, j)
    BY <2>1, BackendsAssumption DEF JobOK, HeldApart, Queued, IInv, TypeOK
  <2>3. ~Queued(j) => \E x \in Executions : Holding(x, j)
    BY <2>1 DEF JobOK, Placed, Unfinished
  <2> QED
    BY <2>2, <2>3
<1> QED
  BY <1>1, InductiveInvariant, PTL

(* The provider is called MaxRetries times at most for a job, and after it  *)
(* accepted the e-mail not again, unless a fault came before the record.   *)
THEOREM CallsAreBounded == Spec => []AttemptsBounded
<1>1. IInv => AttemptsBounded
  BY DEF IInv, JobOK, AttemptsBounded
<1> QED
  BY <1>1, InductiveInvariant, PTL
=============================================================================
