----------------------------- MODULE CleanupWorker -----------------------------
(***************************************************************************)
(* The worker that cleans up after deleted accounts.  Its timer awaits no  *)
(* earlier run, and several processes have one each, so runs overlap; they *)
(* select jobs without a lock.  Every awaited statement is a step.         *)
(***************************************************************************)
EXTENDS Integers, FiniteSets, FiniteSetsExt, Functions

CONSTANTS
  MaxJobs,     \* rows of user_cleanup_jobs, each of a user of its own
  Executions,  \* overlapping runs of processCleanupJobs
  MaxRetries,  \* max_retries of a job
  Batch,       \* jobs one run takes
  Faults       \* "error": a statement throws; "stop": a process stops

ASSUME BoundsAssumption ==
  MaxJobs \in Nat /\ MaxRetries \in Nat \ {0} /\ Batch \in Nat \ {0}
ASSUME FaultsAssumption == Faults \subseteq {"error", "stop"}

VARIABLES
  status,  \* of each job
  retry,   \* its retry_count
  files,   \* the jobs whose user has files in the uploads directory
  run,     \* how far each execution is, and the rows it selected
  mails,   \* history: farewell e-mails queued for a job, counted to 2
  tries,   \* history: times a job was begun, counted to MaxRetries + 1
  past     \* history: what makes a promise void

vars == <<status, retry, files, mails, run, tries, past>>

\* A job is named by its place in created_at.
Jobs == 1..MaxJobs

\* The rows an execution selected and has not done: the retry_count of each.
Rows == UNION {[s -> 0..MaxRetries] : s \in SUBSET Jobs}

\* kept: a file could not be removed; overlapped: taken by two runs at once,
\* and nothing is counted from then on; repeated: failed after its e-mail;
\* lost: left PROCESSING by its run.
Past == [kept : SUBSET Jobs, overlapped : SUBSET Jobs, repeated : SUBSET Jobs,
         lost : SUBSET Jobs]

(* One type invariant for the seven variables. *)
TypeOK ==
  /\ status \in [Jobs -> {"none", "PENDING", "PROCESSING", "COMPLETED", "FAILED"}]
  /\ retry \in [Jobs -> 0..MaxRetries]
  /\ files \subseteq Jobs
  /\ mails \in [Jobs -> 0..2]
  /\ run \in [Executions -> [pc : {"idle", "mark", "clean", "farewell", "complete",
                                   "requeue"},
                             todo : Rows]]
  /\ tries \in [Jobs -> 0..(MaxRetries + 1)]
  /\ past \in Past

Idle == [pc |-> "idle", todo |-> [j \in {} |-> 0]]

Init ==
  /\ status = [j \in Jobs |-> "none"]
  /\ retry = [j \in Jobs |-> 0]
  /\ files = Jobs
  /\ mails = [j \in Jobs |-> 0]
  /\ run = [x \in Executions |-> Idle]
  /\ tries = [j \in Jobs |-> 0]
  /\ past = [kept |-> {}, overlapped |-> {}, repeated |-> {}, lost |-> {}]

\* ORDER BY created_at
Now(x) == Min(DOMAIN run[x].todo)
Holds(x, j) == j \in DOMAIN run[x].todo
InHand(x) == run[x].pc \in {"clean", "farewell", "complete", "requeue"}
Settled(j) == status[j] \in {"COMPLETED", "FAILED"}

Reach(x, p) == run' = [run EXCEPT ![x].pc = p]

\* The loop goes on with the next row, or the run ends.
NextRow(x) ==
  LET rest == DOMAIN run[x].todo \ {Now(x)}
  IN run' = [run EXCEPT ![x] = [pc |-> IF rest = {} THEN "idle" ELSE "mark",
                                todo |-> Restrict(run[x].todo, rest)]]

Counted(f, j, most) ==
  IF j \in past.overlapped \/ f[j] = most THEN f ELSE [f EXCEPT ![j] = @ + 1]

Noted(set, j) == IF j \in past.overlapped THEN set ELSE set \cup {j}

\* Phase 3 of confirmAccountDeletion inserts the job.
Queue(j) ==
  /\ status[j] = "none" /\ \A i \in 1..(j - 1) : status[i] # "none"
  /\ status' = [status EXCEPT ![j] = "PENDING"]
  /\ UNCHANGED <<retry, files, mails, run, tries, past>>

Eligible(j) ==
  \/ status[j] = "PENDING"
  \/ status[j] = "FAILED" /\ retry[j] < MaxRetries

\* ORDER BY created_at LIMIT
Oldest(s) == {j \in s : Cardinality({i \in s : i < j}) < Batch}

\* The timer fires: the SELECT.
Select(x) ==
  LET found == Oldest({j \in Jobs : Eligible(j)})
  IN /\ run[x].pc = "idle"
     /\ found # {}
     /\ run' = [run EXCEPT ![x] = [pc |-> "mark", todo |-> Restrict(retry, found)]]
     /\ LET twice == past.overlapped \cup
               {j \in found : \E y \in Executions \ {x} : Holds(y, j)}
        IN /\ past' = [past EXCEPT !.overlapped = twice, !.repeated = @ \ twice,
                                   !.lost = @ \ twice]
           /\ mails' = [j \in Jobs |-> IF j \in twice THEN 0 ELSE mails[j]]
           /\ tries' = [j \in Jobs |-> IF j \in twice THEN 0 ELSE tries[j]]
     /\ UNCHANGED <<status, retry, files>>

Mark(x) ==
  /\ run[x].pc = "mark"
  /\ status' = [status EXCEPT ![Now(x)] = "PROCESSING"]
  /\ tries' = Counted(tries, Now(x), MaxRetries + 1)
  /\ Reach(x, "clean")
  /\ UNCHANGED <<retry, files, mails, past>>

Remaining_All(j) == files
Remaining(j) == files \ {j}

\* The files and the tables; what cannot be removed is logged and left.
Clean(x) ==
  /\ run[x].pc = "clean"
  /\ \/ files' = Remaining(Now(x)) /\ UNCHANGED past
     \/ /\ "error" \in Faults /\ Now(x) \in files
        /\ past' = [past EXCEPT !.kept = @ \cup {Now(x)}]
        /\ UNCHANGED files
  /\ Reach(x, "farewell")
  /\ UNCHANGED <<status, retry, mails, tries>>

Farewell(x) ==
  /\ run[x].pc = "farewell"
  /\ mails' = Counted(mails, Now(x), 2)
  /\ Reach(x, "complete")
  /\ UNCHANGED <<status, retry, files, tries, past>>

Complete(x) ==
  /\ run[x].pc = "complete"
  /\ status' = [status EXCEPT ![Now(x)] = "COMPLETED"]
  /\ NextRow(x)
  /\ UNCHANGED <<retry, files, mails, tries, past>>

\* A statement of the inner try throws.
Fail(x) ==
  /\ "error" \in Faults
  /\ run[x].pc \in {"clean", "farewell", "complete"}
  /\ Reach(x, "requeue")
  /\ past' = IF run[x].pc = "complete"
             THEN [past EXCEPT !.repeated = Noted(@, Now(x))] ELSE past
  /\ UNCHANGED <<status, retry, files, mails, tries>>

Afterwards_OneMore(n) == IF n > MaxRetries THEN "FAILED" ELSE "PENDING"
Afterwards_Stuck(n) == "PROCESSING"
Afterwards(n) == IF n >= MaxRetries THEN "FAILED" ELSE "PENDING"

\* The catch: the count is the one this run selected, plus one.
Requeue(x) ==
  LET n == run[x].todo[Now(x)] + 1
  IN /\ run[x].pc = "requeue"
     /\ status' = [status EXCEPT ![Now(x)] = Afterwards(n)]
     /\ retry' = [retry EXCEPT ![Now(x)] = n]
     /\ NextRow(x)
     /\ UNCHANGED <<files, mails, tries, past>>

\* The process stops, or the marking or the catch throws: the run is over, and
\* the job in its hand stays PROCESSING.
CutOff(x) ==
  /\ \/ "stop" \in Faults /\ run[x].pc # "idle"
     \/ "error" \in Faults /\ run[x].pc \in {"mark", "requeue"}
  /\ run' = [run EXCEPT ![x] = Idle]
  /\ past' = IF InHand(x) THEN [past EXCEPT !.lost = Noted(@, Now(x))] ELSE past
  /\ UNCHANGED <<status, retry, files, mails, tries>>

Work(x) ==
  \/ Select(x) \/ Mark(x) \/ Clean(x) \/ Farewell(x) \/ Complete(x) \/ Requeue(x)

Next ==
  \/ \E j \in Jobs : Queue(j)
  \/ \E x \in Executions : Work(x) \/ Fail(x) \/ CutOff(x)

\* The timer of each process fires again and again, and a run goes on.
Fairness == \A x \in Executions : WF_vars(Work(x))

Spec == Init /\ [][Next]_vars /\ Fairness

(***************************************************************************)
(* Properties.                                                             *)
(***************************************************************************)
(* A job is begun max_retries times at most, also by later runs that find  *)
(* it FAILED, unless runs of the worker overlapped on it: then each counts *)
(* on from the retry_count it selected.                                    *)
AttemptsBounded ==
  \A j \in Jobs \ past.overlapped : tries[j] <= MaxRetries

(* When a job is COMPLETED its farewell e-mail ("your NexVault account and *)
(* all associated data have been permanently deleted") was queued and the  *)
(* files are gone, unless one could not be removed; and there is one such  *)
(* e-mail, unless the run failed after queueing it or runs overlapped.     *)
FarewellOnce ==
  \A j \in Jobs \ past.overlapped :
    /\ status[j] = "COMPLETED" =>
         mails[j] > 0 /\ (j \in files => j \in past.kept)
    /\ mails[j] > 1 => j \in past.repeated

(***************************************************************************)
(* What the two rest on.                                                   *)
(***************************************************************************)
\* A run has rows while it is busy, and what it selected had budget left.
RunsOK ==
  \A x \in Executions :
    /\ run[x].pc = "idle" <=> DOMAIN run[x].todo = {}
    /\ \A j \in DOMAIN run[x].todo : run[x].todo[j] < MaxRetries

BudgetLeft ==
  \A j \in Jobs : status[j] \in {"none", "PENDING"} => retry[j] < MaxRetries

Begun(x, j) == InHand(x) /\ Now(x) = j

\* j is PENDING until its run begins it, and PROCESSING from then on; its tries
\* are those its retry_count tells of, and the one that was begun.
Counts(j) ==
  /\ \A x, y \in Executions : Holds(x, j) /\ Holds(y, j) => x = y
  /\ status[j] = "none" => tries[j] = 0 /\ mails[j] = 0
  /\ status[j] = "PENDING" => tries[j] <= retry[j]
  /\ status[j] = "FAILED" => retry[j] >= MaxRetries
  /\ \A x \in Executions : Holds(x, j) =>
       IF Begun(x, j) THEN status[j] = "PROCESSING" /\ tries[j] <= run[x].todo[j] + 1
       ELSE status[j] = "PENDING" /\ tries[j] <= run[x].todo[j]

\* How far the run is with j tells of its files and of its e-mail.
Told(j) ==
  /\ status[j] = "PENDING" => mails[j] = 0 \/ j \in past.repeated
  /\ \A x \in Executions : Holds(x, j) /\ Begun(x, j) =>
       /\ run[x].pc = "complete" => mails[j] > 0
       /\ run[x].pc # "complete" => mails[j] = 0 \/ j \in past.repeated
       /\ run[x].pc \in {"farewell", "complete"} => (j \in files => j \in past.kept)

\* The conjunction is inductive.
IInv ==
  /\ TypeOK /\ RunsOK /\ BudgetLeft
  /\ \A j \in Jobs \ past.overlapped : Counts(j) /\ Told(j)
  /\ AttemptsBounded /\ FarewellOnce

(* Once runs are no longer cut off, every job is COMPLETED or FAILED in    *)
(* the end, but for those a run had in its hand when it was cut off, which *)
(* nobody selects again, and those runs overlapped on.                     *)
JobsSettle ==
  <>[][\A x \in Executions : ~CutOff(x)]_vars =>
    \A j \in Jobs :
      status[j] = "PENDING" ~> Settled(j) \/ j \in past.lost \cup past.overlapped
=============================================================================
