-------------------------- MODULE CleanupWorker_proofs --------------------------
(***************************************************************************)
(* Proofs about CleanupWorker for any number of jobs, overlapping runs,    *)
(* retries and rows per run, with any faults: IInv is an invariant, and    *)
(* from it a job no two runs overlapped on is begun max_retries times at   *)
(* most and told of at its end, once.                                      *)
(***************************************************************************)
EXTENDS CleanupWorker, WellFoundedInduction, TLAPS

(***************************************************************************)
(* The rows of a run.                                                      *)
(***************************************************************************)
(* A set of numbers that is not empty has a least element, and Min is it.  *)
LEMMA MinInside ==
  ASSUME NEW S \in SUBSET Nat, S # {}
  PROVE  Min(S) \in S
<1>1. PICK m \in S : \A y \in S : ~ (<<y, m>> \in OpToRel(<, Nat))
  BY WFMin, NatLessThanWellFounded
<1>2. \A y \in S : m <= y
  <2> SUFFICES ASSUME NEW y \in S, y < m PROVE FALSE
    OBVIOUS
  <2>1. <<y, m>> \in OpToRel(<, Nat)
    BY DEF OpToRel
  <2> QED
    BY <1>1, <2>1
<1> QED
  BY <1>2 DEF Min

(* What is left of the selected rows are rows, with the counts they had.   *)
LEMMA RestrictRows ==
  ASSUME NEW f, NEW S \in SUBSET Jobs, \A j \in S : f[j] \in 0..MaxRetries
  PROVE  /\ Restrict(f, S) \in Rows /\ DOMAIN Restrict(f, S) = S
         /\ \A j \in S : Restrict(f, S)[j] = f[j]
BY DEF Restrict, Rows

RunRecord == [pc : {"idle", "mark", "clean", "farewell", "complete", "requeue"},
              todo : Rows]

LEMMA IdleIsRun ==
  Idle \in RunRecord /\ Idle.pc = "idle" /\ DOMAIN Idle.todo = {}
BY DEF Idle, RunRecord, Rows

(***************************************************************************)
(* What IInv says of one job.                                              *)
(***************************************************************************)
OneFarewell(j) ==
  /\ status[j] = "COMPLETED" => mails[j] > 0 /\ (j \in files => j \in past.kept)
  /\ mails[j] > 1 => j \in past.repeated

JobOK(j) == Counts(j) /\ Told(j) /\ tries[j] <= MaxRetries /\ OneFarewell(j)

LEMMA PerJob ==
  IInv <=> /\ TypeOK /\ RunsOK /\ BudgetLeft
           /\ \A j \in Jobs \ past.overlapped : JobOK(j)
BY DEF IInv, JobOK, OneFarewell, AttemptsBounded, FarewellOnce

(* A busy run has a row in hand: a job, with budget left when selected.    *)
LEMMA RowInHand ==
  ASSUME IInv, NEW x \in Executions, run[x].pc # "idle"
  PROVE  /\ run[x] \in RunRecord /\ DOMAIN run[x].todo \in SUBSET Jobs
         /\ Now(x) \in Jobs /\ Holds(x, Now(x))
         /\ run[x].todo[Now(x)] \in 0..(MaxRetries - 1)
<1>1. run[x] \in RunRecord /\ DOMAIN run[x].todo # {}
  BY DEF IInv, TypeOK, RunsOK, RunRecord
<1>2. run[x].todo \in Rows
  BY <1>1 DEF RunRecord
<1>3. /\ DOMAIN run[x].todo \in SUBSET Jobs
      /\ \A j \in DOMAIN run[x].todo : run[x].todo[j] \in 0..MaxRetries
  BY <1>2 DEF Rows
<1>4. Now(x) \in DOMAIN run[x].todo
  BY <1>1, <1>3, MinInside DEF Now, Jobs
<1>5. run[x].todo[Now(x)] < MaxRetries
  BY <1>4 DEF IInv, RunsOK
<1> QED
  BY <1>1, <1>3, <1>4, <1>5, BoundsAssumption DEF Holds

(***************************************************************************)
(* A step of a run is about the job it has in hand: nothing shows at       *)
(* another one, which it may hold but has not begun.                       *)
(***************************************************************************)
SameJob(k) ==
  /\ status'[k] = status[k] /\ retry'[k] = retry[k]
  /\ mails'[k] = mails[k] /\ tries'[k] = tries[k]
  /\ k \in files' <=> k \in files
  /\ k \in past'.kept <=> k \in past.kept
  /\ k \in past'.repeated <=> k \in past.repeated

SameHolders(k) ==
  \A y \in Executions : Holds(y, k)' =>
    /\ Holds(y, k) /\ run'[y].todo[k] = run[y].todo[k]
    /\ Begun(y, k)' <=> Begun(y, k)
    /\ Begun(y, k) => run'[y].pc = run[y].pc

LEMMA OthersOK ==
  ASSUME NEW k \in Jobs, JobOK(k), SameJob(k), SameHolders(k)
  PROVE  JobOK(k)'
<1>1. Counts(k)'
  BY DEF JobOK, Counts, SameJob, SameHolders
<1>2. Told(k)'
  BY DEF JobOK, Told, SameJob, SameHolders
<1>3. (tries[k] <= MaxRetries)' /\ OneFarewell(k)'
  BY DEF JobOK, OneFarewell, SameJob
<1> QED
  BY <1>1, <1>2, <1>3 DEF JobOK

(* Run x moves on to the record r with the row j in hand.                  *)
LEMMA MoveOK ==
  ASSUME IInv, NEW x \in Executions, run[x].pc # "idle",
         NEW j \in Jobs, j = Now(x),
         NEW r \in RunRecord, run' = [run EXCEPT ![x] = r],
         r.pc = "idle" <=> DOMAIN r.todo = {},
         DOMAIN r.todo \subseteq DOMAIN run[x].todo,
         \A k \in DOMAIN r.todo : r.todo[k] = run[x].todo[k],
         r.pc \notin {"idle", "mark"} => DOMAIN r.todo = DOMAIN run[x].todo,
         \A k \in Jobs \ {j} : SameJob(k),
         past'.overlapped = past.overlapped,
         TypeOK', BudgetLeft',
         j \notin past.overlapped => JobOK(j)'
  PROVE  IInv'
<1> USE DEF IInv
<1>1. run'[x] = r /\ \A y \in Executions \ {x} : run'[y] = run[y]
  BY DEF TypeOK
<1>2. RunsOK'
  BY <1>1 DEF RunsOK
<1>3. ASSUME NEW k \in Jobs \ past'.overlapped
      PROVE  JobOK(k)'
  <2>1. CASE k # j
    <3>1. SameHolders(k)
      <4> SUFFICES ASSUME NEW y \in Executions, Holds(y, k)'
                   PROVE  /\ Holds(y, k) /\ run'[y].todo[k] = run[y].todo[k]
                          /\ Begun(y, k)' <=> Begun(y, k)
                          /\ Begun(y, k) => run'[y].pc = run[y].pc
        BY DEF SameHolders
      <4>1. CASE y # x
        BY <1>1, <4>1 DEF Holds, Begun, InHand, Now
      <4>2. CASE y = x
        <5>1. ~Begun(x, k) /\ Holds(x, k) /\ run'[x].todo[k] = run[x].todo[k]
          BY <1>1, <2>1, <4>2 DEF Begun, Holds
        <5>2. ~Begun(x, k)'
          <6>1. CASE r.pc \in {"idle", "mark"}
            BY <1>1, <6>1 DEF Begun, InHand
          <6>2. CASE r.pc \notin {"idle", "mark"}
            BY <1>1, <2>1, <6>2 DEF Begun, Now
          <6> QED
            BY <6>1, <6>2
        <5> QED
          BY <4>2, <5>1, <5>2
      <4> QED
        BY <4>1, <4>2
    <3>2. JobOK(k)
      BY PerJob
    <3> QED
      BY <2>1, <3>1, <3>2, OthersOK
  <2>2. CASE k = j
    BY <2>2
  <2> QED
    BY <2>1, <2>2
<1> QED
  BY <1>2, <1>3 DEF JobOK, OneFarewell, AttemptsBounded, FarewellOnce

(***************************************************************************)
(* One lemma per action.                                                   *)
(***************************************************************************)
LEMMA QueueOK ==
  ASSUME IInv, NEW j \in Jobs, Queue(j)
  PROVE  IInv'
<1> USE DEF IInv
<1>0. /\ UNCHANGED <<retry, files, mails, run, tries, past>>
      /\ status' = [status EXCEPT ![j] = "PENDING"] /\ status[j] = "none"
  BY DEF Queue
<1>1. status'[j] = "PENDING" /\ \A k \in Jobs \ {j} : status'[k] = status[k]
  BY <1>0 DEF TypeOK
<1>2. TypeOK' /\ RunsOK' /\ BudgetLeft'
  BY <1>0, <1>1 DEF TypeOK, RunsOK, BudgetLeft
<1>3. ASSUME NEW k \in Jobs \ past'.overlapped
      PROVE  JobOK(k)'
  <2>1. JobOK(k)
    BY <1>0, PerJob
  <2>2. CASE k # j
    <3>1. SameJob(k) /\ SameHolders(k)
      BY <1>0, <1>1, <2>2 DEF SameJob, SameHolders, Holds, Begun, InHand, Now
    <3> QED
      BY <2>1, <3>1, OthersOK
  <2>3. CASE k = j
    <3>1. /\ \A x \in Executions : ~Holds(x, j)
          /\ tries[j] = 0 /\ mails[j] = 0
      BY <1>0, <2>1, <2>3 DEF JobOK, Counts
    <3>2. \A x \in Executions : ~Holds(x, j)'
      BY <1>0, <3>1 DEF Holds
    <3>3. Counts(j)'
      BY <1>0, <1>1, <1>2, <3>1, <3>2 DEF Counts, TypeOK
    <3>4. Told(j)' /\ (tries[j] <= MaxRetries)' /\ OneFarewell(j)'
      BY <1>0, <1>1, <3>1, <3>2, BoundsAssumption DEF Told, OneFarewell
    <3> QED
      BY <2>3, <3>3, <3>4 DEF JobOK
  <2> QED
    BY <2>2, <2>3
<1> QED
  BY <1>2, <1>3 DEF JobOK, OneFarewell, AttemptsBounded, FarewellOnce

(* A run that selects the job alone finds it PENDING: a FAILED one has no   *)
(* budget left.                                                            *)
LEMMA SelectOK ==
  ASSUME IInv, NEW x \in Executions, Select(x)
  PROVE  IInv'
<1> USE DEF IInv
<1> DEFINE found == Oldest({j \in Jobs : Eligible(j)})
           twice == past.overlapped \cup
                      {j \in found : \E y \in Executions \ {x} : Holds(y, j)}
           rows == Restrict(retry, found)
<1>0. /\ run[x].pc = "idle" /\ found # {}
      /\ run' = [run EXCEPT ![x] = [pc |-> "mark", todo |-> rows]]
      /\ past' = [past EXCEPT !.overlapped = twice, !.repeated = @ \ twice,
                              !.lost = @ \ twice]
      /\ mails' = [j \in Jobs |-> IF j \in twice THEN 0 ELSE mails[j]]
      /\ tries' = [j \in Jobs |-> IF j \in twice THEN 0 ELSE tries[j]]
      /\ UNCHANGED <<status, retry, files>>
  BY DEF Select
<1>1. found \in SUBSET Jobs /\ \A j \in found : Eligible(j)
  BY DEF Oldest
<1>2. \A j \in found : retry[j] \in 0..(MaxRetries - 1)
  BY <1>1, BoundsAssumption DEF Eligible, BudgetLeft, TypeOK
<1>3. /\ rows \in Rows /\ DOMAIN rows = found
      /\ \A j \in found : rows[j] = retry[j]
  BY <1>1, RestrictRows DEF TypeOK
<1>4. twice \in SUBSET Jobs
  BY <1>1 DEF TypeOK, Past
<1> HIDE DEF found, twice, rows
<1>5. /\ run'[x].pc = "mark" /\ run'[x].todo = rows
      /\ \A y \in Executions \ {x} : run'[y] = run[y]
  BY <1>0 DEF TypeOK
<1>6. TypeOK'
  <2>1. past' \in Past
    BY <1>0, <1>4 DEF TypeOK, Past
  <2>2. mails' \in [Jobs -> 0..2] /\ tries' \in [Jobs -> 0..(MaxRetries + 1)]
    BY <1>0, BoundsAssumption DEF TypeOK
  <2>3. run' \in [Executions -> RunRecord]
    BY <1>0, <1>3 DEF TypeOK, RunRecord
  <2> QED
    BY <1>0, <2>1, <2>2, <2>3 DEF TypeOK, RunRecord
<1>7. RunsOK' /\ BudgetLeft'
  <2>1. ASSUME NEW y \in Executions
        PROVE  /\ run'[y].pc = "idle" <=> DOMAIN run'[y].todo = {}
               /\ \A j \in DOMAIN run'[y].todo : run'[y].todo[j] < MaxRetries
    <3>1. CASE y = x
      BY <1>0, <1>2, <1>3, <1>5, <3>1, BoundsAssumption
    <3>2. CASE y # x
      BY <1>5, <3>2 DEF RunsOK
    <3> QED
      BY <3>1, <3>2
  <2> QED
    BY <1>0, <2>1 DEF RunsOK, BudgetLeft
<1>8. past'.overlapped = twice /\ past.overlapped \subseteq twice
  BY <1>0 DEF TypeOK, Past, twice
<1>9. ASSUME NEW k \in Jobs \ past'.overlapped
      PROVE  JobOK(k)'
  <2>1. JobOK(k) /\ k \notin twice
    BY <1>8, PerJob
  <2>2. SameJob(k)
    BY <1>0, <2>1 DEF SameJob, TypeOK, Past
  <2>3. ~Holds(x, k)
    BY <1>0 DEF Holds, RunsOK
  <2>4. CASE k \notin found
    <3>1. SameHolders(k)
      BY <1>3, <1>5, <2>3, <2>4 DEF SameHolders, Holds, Begun, InHand, Now
    <3> QED
      BY <2>1, <2>2, <3>1, OthersOK
  <2>5. CASE k \in found
    <3>1. /\ \A y \in Executions : Holds(y, k)' => y = x
          /\ ~Begun(x, k)' /\ run'[x].todo[k] = retry[k]
      BY <1>3, <1>5, <2>1, <2>5 DEF Holds, Begun, InHand, twice
    <3>2. status[k] = "PENDING"
      <4>1. Eligible(k) /\ retry[k] < MaxRetries /\ retry[k] \in Nat
        BY <1>1, <1>2, <2>5, BoundsAssumption
      <4> QED
        BY <2>1, <4>1, BoundsAssumption DEF JobOK, Counts, Eligible
    <3>3. Counts(k)'
      BY <1>0, <2>1, <2>2, <3>1, <3>2 DEF Counts, JobOK, SameJob
    <3>4. Told(k)' /\ (tries[k] <= MaxRetries)' /\ OneFarewell(k)'
      BY <2>1, <2>2, <3>1 DEF Told, OneFarewell, JobOK, SameJob
    <3> QED
      BY <3>3, <3>4 DEF JobOK
  <2> QED
    BY <2>4, <2>5
<1> QED
  BY <1>6, <1>7, <1>9 DEF JobOK, OneFarewell, AttemptsBounded, FarewellOnce

(* What a run may count on for the row in hand, if it alone has the job.    *)
LEMMA AloneInHand ==
  ASSUME IInv, NEW x \in Executions, run[x].pc # "idle",
         NEW j \in Jobs, j = Now(x), j \notin past.overlapped
  PROVE  /\ JobOK(j) /\ Holds(x, j) /\ \A y \in Executions \ {x} : ~Holds(y, j)
         /\ InHand(x) => status[j] = "PROCESSING" /\ tries[j] <= run[x].todo[j] + 1
         /\ ~InHand(x) => status[j] = "PENDING" /\ tries[j] <= run[x].todo[j]
<1>1. JobOK(j) /\ Holds(x, j)
  BY PerJob, RowInHand
<1>2. \A y \in Executions \ {x} : ~Holds(y, j)
  BY <1>1 DEF JobOK, Counts
<1>3. Begun(x, j) <=> InHand(x)
  BY DEF Begun
<1> QED
  BY <1>1, <1>2, <1>3 DEF JobOK, Counts

LEMMA ReachMoves ==
  ASSUME IInv, NEW x \in Executions, run[x].pc # "idle",
         NEW p \in {"clean", "farewell", "complete", "requeue"}, Reach(x, p)
  PROVE  \E r \in RunRecord : /\ run' = [run EXCEPT ![x] = r]
                              /\ r.pc = p /\ r.todo = run[x].todo
<1>1. run[x] \in RunRecord /\ x \in DOMAIN run
  BY RowInHand DEF IInv, TypeOK
<1> DEFINE r == [pc |-> p, todo |-> run[x].todo]
<1>2. r \in RunRecord
  BY <1>1 DEF RunRecord
<1>3. [run[x] EXCEPT !.pc = p] = r
  BY <1>1 DEF RunRecord
<1>4. run' = [run EXCEPT ![x] = r]
  BY <1>1, <1>3 DEF Reach
<1> QED
  BY <1>2, <1>4

LEMMA NextRowMoves ==
  ASSUME IInv, NEW x \in Executions, run[x].pc # "idle", NextRow(x)
  PROVE  \E r \in RunRecord : /\ run' = [run EXCEPT ![x] = r]
                              /\ r.pc \in {"idle", "mark"}
                              /\ r.pc = "idle" <=> DOMAIN r.todo = {}
                              /\ DOMAIN r.todo = DOMAIN run[x].todo \ {Now(x)}
                              /\ \A k \in DOMAIN r.todo : r.todo[k] = run[x].todo[k]
<1> DEFINE rest == DOMAIN run[x].todo \ {Now(x)}
           rows == Restrict(run[x].todo, rest)
           r == [pc |-> IF rest = {} THEN "idle" ELSE "mark", todo |-> rows]
<1>1. run[x].todo \in Rows /\ DOMAIN run[x].todo \in SUBSET Jobs
  BY RowInHand DEF RunRecord
<1>2. rest \in SUBSET Jobs /\ \A j \in rest : run[x].todo[j] \in 0..MaxRetries
  BY <1>1 DEF Rows
<1>3. rows \in Rows /\ DOMAIN rows = rest /\ \A j \in rest : rows[j] = run[x].todo[j]
  BY <1>2, RestrictRows
<1>4. run' = [run EXCEPT ![x] = r]
  BY DEF NextRow
<1> HIDE DEF rows
<1>5. r \in RunRecord
  BY <1>3 DEF RunRecord
<1> QED
  BY <1>3, <1>4, <1>5

(* The job is right after a step that keeps the row in hand ...             *)
LEMMA StillInHand ==
  ASSUME IInv, NEW x \in Executions, run[x].pc # "idle",
         NEW j \in Jobs, j = Now(x), j \notin past.overlapped,
         NEW r \in RunRecord, run' = [run EXCEPT ![x] = r], r.todo = run[x].todo,
         r.pc \in {"clean", "farewell", "complete", "requeue"},
         status'[j] = "PROCESSING",
         tries'[j] \in Nat, tries'[j] <= run[x].todo[j] + 1,
         r.pc = "complete" => mails'[j] > 0,
         r.pc # "complete" => mails'[j] = 0 \/ j \in past'.repeated,
         r.pc \in {"farewell", "complete"} => (j \in files' => j \in past'.kept),
         mails'[j] > 1 => j \in past'.repeated
  PROVE  JobOK(j)'
<1>1. run'[x] = r /\ \A y \in Executions \ {x} : run'[y] = run[y]
  BY DEF IInv, TypeOK
<1>2. \A y \in Executions : Holds(y, j)' <=> y = x
  BY <1>1, AloneInHand DEF Holds
<1>3. Begun(x, j)'
  BY <1>1 DEF Begun, InHand, Now
<1>4. Counts(j)'
  BY <1>1, <1>2, <1>3 DEF Counts
<1>5. Told(j)'
  BY <1>1, <1>2, <1>3 DEF Told
<1>6. (tries[j] <= MaxRetries)'
  BY RowInHand, BoundsAssumption
<1> QED
  BY <1>4, <1>5, <1>6 DEF JobOK, OneFarewell

(* ... and after one that lets go of it.                                    *)
LEMMA LetGo ==
  ASSUME IInv, NEW x \in Executions, run[x].pc # "idle",
         NEW j \in Jobs, j = Now(x), j \notin past.overlapped,
         NEW r \in RunRecord, run' = [run EXCEPT ![x] = r], j \notin DOMAIN r.todo,
         status'[j] # "none", UNCHANGED <<tries, mails>>,
         status'[j] = "PENDING" =>
           tries[j] <= retry'[j] /\ (mails[j] = 0 \/ j \in past'.repeated),
         status'[j] = "FAILED" => retry'[j] >= MaxRetries,
         status'[j] = "COMPLETED" => mails[j] > 0 /\ (j \in files' => j \in past'.kept),
         mails[j] > 1 => j \in past'.repeated
  PROVE  JobOK(j)'
<1>1. run'[x] = r /\ \A y \in Executions \ {x} : run'[y] = run[y]
  BY DEF IInv, TypeOK
<1>2. \A y \in Executions : ~Holds(y, j)'
  BY <1>1, AloneInHand DEF Holds
<1>3. Counts(j)' /\ Told(j)'
  BY <1>2 DEF Counts, Told
<1>4. (tries[j] <= MaxRetries)'
  BY AloneInHand DEF JobOK
<1> QED
  BY <1>3, <1>4 DEF JobOK, OneFarewell

(* Counting and noting add to the job alone.                                *)
LEMMA CountedAdds ==
  ASSUME IInv, NEW f, NEW most \in Nat \ {0}, f \in [Jobs -> 0..most], NEW j \in Jobs
  PROVE  /\ Counted(f, j, most) \in [Jobs -> 0..most]
         /\ \A k \in Jobs \ {j} : Counted(f, j, most)[k] = f[k]
         /\ j \notin past.overlapped /\ f[j] < most =>
              Counted(f, j, most)[j] = f[j] + 1
         /\ j \notin past.overlapped => Counted(f, j, most)[j] \in {f[j], f[j] + 1}
                                        /\ Counted(f, j, most)[j] > 0
BY DEF Counted

LEMMA MarkOK ==
  ASSUME IInv, NEW x \in Executions, Mark(x)
  PROVE  IInv'
<1>0. /\ UNCHANGED <<retry, files, mails, past>> /\ run[x].pc = "mark"
      /\ Reach(x, "clean")
  BY DEF Mark
<1>1. PICK r \in RunRecord : /\ run' = [run EXCEPT ![x] = r]
                             /\ r.pc = "clean" /\ r.todo = run[x].todo
  BY <1>0, ReachMoves
<1>2. PICK j \in Jobs : j = Now(x)
  BY <1>0, RowInHand
<1>3. /\ j \in DOMAIN run[x].todo /\ run[x].todo[j] \in 0..(MaxRetries - 1)
      /\ MaxRetries + 1 \in Nat \ {0}
  BY <1>0, <1>2, RowInHand, BoundsAssumption DEF Holds
<1>4. /\ status' = [status EXCEPT ![j] = "PROCESSING"]
      /\ tries' = Counted(tries, j, MaxRetries + 1)
  BY <1>2 DEF Mark
<1>5. /\ tries \in [Jobs -> 0..(MaxRetries + 1)]
      /\ tries' \in [Jobs -> 0..(MaxRetries + 1)]
      /\ \A k \in Jobs \ {j} : tries'[k] = tries[k]
  BY <1>3, <1>4, CountedAdds DEF IInv, TypeOK
<1>6. status'[j] = "PROCESSING" /\ \A k \in Jobs \ {j} : status'[k] = status[k]
  BY <1>4 DEF IInv, TypeOK
<1>7. TypeOK'
  BY <1>0, <1>1, <1>4, <1>5 DEF IInv, TypeOK, RunRecord
<1>8. BudgetLeft'
  BY <1>0, <1>6 DEF IInv, BudgetLeft
<1>9. ASSUME j \notin past.overlapped
      PROVE  JobOK(j)'
  <2>1. JobOK(j) /\ status[j] = "PENDING" /\ tries[j] <= run[x].todo[j]
    BY <1>0, <1>2, <1>9, AloneInHand DEF InHand
  <2>2. tries'[j] \in {tries[j], tries[j] + 1}
    BY <1>3, <1>4, <1>5, <1>9, CountedAdds
  <2>3. tries'[j] \in Nat /\ tries'[j] <= run[x].todo[j] + 1
    BY <1>3, <1>5, <2>1, <2>2, BoundsAssumption
  <2>4. mails'[j] = 0 \/ j \in past'.repeated
    BY <1>0, <2>1 DEF JobOK, Told
  <2>5. mails'[j] > 1 => j \in past'.repeated
    BY <2>4
  <2>6. run[x].pc # "idle" /\ r.pc \notin {"farewell", "complete"}
    BY <1>0, <1>1
  <2> QED
    BY <1>1, <1>2, <1>6, <1>9, <2>3, <2>4, <2>5, <2>6, StillInHand
<1>10. \A k \in Jobs \ {j} : SameJob(k)
  BY <1>0, <1>5, <1>6 DEF SameJob
<1>11. run[x].pc # "idle" /\ DOMAIN r.todo # {} /\ r.pc # "idle"
  BY <1>0, <1>1, <1>3
<1> QED
  BY <1>0, <1>1, <1>2, <1>7, <1>8, <1>9, <1>10, <1>11, MoveOK

LEMMA CleanOK ==
  ASSUME IInv, NEW x \in Executions, Clean(x)
  PROVE  IInv'
<1>0. /\ UNCHANGED <<status, retry, mails, tries>> /\ run[x].pc = "clean"
      /\ Reach(x, "farewell")
  BY DEF Clean
<1>1. PICK r \in RunRecord : /\ run' = [run EXCEPT ![x] = r]
                             /\ r.pc = "farewell" /\ r.todo = run[x].todo
  BY <1>0, ReachMoves
<1>2. PICK j \in Jobs : j = Now(x)
  BY <1>0, RowInHand
<1>3. j \in DOMAIN run[x].todo
  BY <1>0, <1>2, RowInHand DEF Holds
<1>4. past \in Past /\ files \subseteq Jobs
  BY DEF IInv, TypeOK
<1>5. /\ past' \in Past /\ files' \subseteq Jobs
      /\ past'.overlapped = past.overlapped /\ past'.repeated = past.repeated
      /\ \A k \in Jobs \ {j} : (k \in files' <=> k \in files)
                               /\ (k \in past'.kept <=> k \in past.kept)
      /\ j \in files' => j \in past'.kept
  <2>1. CASE files' = Remaining(j) /\ UNCHANGED past
    BY <1>4, <2>1 DEF Remaining
  <2>2. CASE past' = [past EXCEPT !.kept = @ \cup {j}] /\ UNCHANGED files
    BY <1>4, <2>2 DEF Past
  <2> QED
    BY <1>2, <2>1, <2>2 DEF Clean
<1>6. TypeOK'
  BY <1>0, <1>1, <1>5 DEF IInv, TypeOK, RunRecord
<1>7. BudgetLeft'
  BY <1>0 DEF IInv, BudgetLeft
<1>8. ASSUME j \notin past.overlapped
      PROVE  JobOK(j)'
  <2>1. /\ JobOK(j) /\ Holds(x, j) /\ Begun(x, j)
        /\ status[j] = "PROCESSING" /\ tries[j] <= run[x].todo[j] + 1
    BY <1>0, <1>2, <1>8, AloneInHand DEF InHand, Begun
  <2>2. mails[j] = 0 \/ j \in past.repeated
    BY <1>0, <2>1 DEF JobOK, Told
  <2>3. tries[j] \in Nat
    BY DEF IInv, TypeOK
  <2>4. mails'[j] > 1 => j \in past'.repeated
    BY <1>0, <1>5, <2>1 DEF JobOK, OneFarewell
  <2>5. /\ status'[j] = "PROCESSING"
        /\ tries'[j] \in Nat /\ tries'[j] <= run[x].todo[j] + 1
        /\ mails'[j] = 0 \/ j \in past'.repeated
    BY <1>0, <1>5, <2>1, <2>2, <2>3
  <2> QED
    BY <1>0, <1>1, <1>2, <1>5, <1>8, <2>4, <2>5, StillInHand
<1>9. \A k \in Jobs \ {j} : SameJob(k)
  BY <1>0, <1>5 DEF SameJob
<1>10. run[x].pc # "idle" /\ DOMAIN r.todo # {} /\ r.pc # "idle"
  BY <1>0, <1>1, <1>3
<1> QED
  BY <1>0, <1>1, <1>2, <1>5, <1>6, <1>7, <1>8, <1>9, <1>10, MoveOK

LEMMA FarewellOK ==
  ASSUME IInv, NEW x \in Executions, Farewell(x)
  PROVE  IInv'
<1>0. /\ UNCHANGED <<status, retry, files, tries, past>> /\ run[x].pc = "farewell"
      /\ Reach(x, "complete")
  BY DEF Farewell
<1>1. PICK r \in RunRecord : /\ run' = [run EXCEPT ![x] = r]
                             /\ r.pc = "complete" /\ r.todo = run[x].todo
  BY <1>0, ReachMoves
<1>2. PICK j \in Jobs : j = Now(x)
  BY <1>0, RowInHand
<1>3. j \in DOMAIN run[x].todo
  BY <1>0, <1>2, RowInHand DEF Holds
<1>4. mails' = Counted(mails, j, 2) /\ mails \in [Jobs -> 0..2]
  BY <1>2 DEF Farewell, IInv, TypeOK
<1>5. mails' \in [Jobs -> 0..2] /\ \A k \in Jobs \ {j} : mails'[k] = mails[k]
  <2>1. /\ Counted(mails, j, 2) \in [Jobs -> 0..2]
        /\ \A k \in Jobs \ {j} : Counted(mails, j, 2)[k] = mails[k]
    <3>1. 2 \in Nat \ {0}
      OBVIOUS
    <3> QED
      BY <1>4, <3>1, CountedAdds, Zenon
  <2> QED
    BY <1>4, <2>1
<1>6. TypeOK'
  BY <1>0, <1>1, <1>5 DEF IInv, TypeOK, RunRecord
<1>7. BudgetLeft'
  BY <1>0 DEF IInv, BudgetLeft
<1>8. ASSUME j \notin past.overlapped
      PROVE  JobOK(j)'
  <2>1. /\ JobOK(j) /\ Holds(x, j) /\ Begun(x, j)
        /\ status[j] = "PROCESSING" /\ tries[j] <= run[x].todo[j] + 1
    BY <1>0, <1>2, <1>8, AloneInHand DEF InHand, Begun
  <2>2. /\ mails[j] = 0 \/ j \in past.repeated
        /\ j \in files => j \in past.kept
    BY <1>0, <2>1 DEF JobOK, Told
  <2>3. mails'[j] > 0 /\ mails'[j] \in {mails[j], mails[j] + 1} /\ mails[j] \in Nat
    BY <1>4, <1>8, CountedAdds
  <2>4. mails'[j] > 1 => j \in past'.repeated
    BY <1>0, <2>2, <2>3
  <2>5. /\ status'[j] = "PROCESSING" /\ r.pc = "complete" /\ run[x].pc # "idle"
        /\ tries'[j] \in Nat /\ tries'[j] <= run[x].todo[j] + 1
        /\ j \in files' => j \in past'.kept
    BY <1>0, <1>1, <2>1, <2>2 DEF IInv, TypeOK
  <2> QED
    BY <1>1, <1>2, <1>8, <2>3, <2>4, <2>5, StillInHand
<1>9. \A k \in Jobs \ {j} : SameJob(k)
  BY <1>0, <1>5 DEF SameJob
<1>10. run[x].pc # "idle" /\ DOMAIN r.todo # {} /\ r.pc # "idle"
  BY <1>0, <1>1, <1>3
<1> QED
  BY <1>0, <1>1, <1>2, <1>6, <1>7, <1>8, <1>9, <1>10, MoveOK

LEMMA CompleteOK ==
  ASSUME IInv, NEW x \in Executions, Complete(x)
  PROVE  IInv'
<1>0. /\ UNCHANGED <<retry, files, mails, tries, past>> /\ run[x].pc = "complete"
      /\ NextRow(x)
  BY DEF Complete
<1>1. PICK r \in RunRecord :
        /\ run' = [run EXCEPT ![x] = r] /\ r.pc \in {"idle", "mark"}
        /\ r.pc = "idle" <=> DOMAIN r.todo = {}
        /\ DOMAIN r.todo = DOMAIN run[x].todo \ {Now(x)}
        /\ \A k \in DOMAIN r.todo : r.todo[k] = run[x].todo[k]
  BY <1>0, NextRowMoves
<1>2. PICK j \in Jobs : j = Now(x)
  BY <1>0, RowInHand
<1>3. status' = [status EXCEPT ![j] = "COMPLETED"]
  BY <1>2 DEF Complete
<1>4. status'[j] = "COMPLETED" /\ \A k \in Jobs \ {j} : status'[k] = status[k]
  BY <1>3 DEF IInv, TypeOK
<1>5. TypeOK'
  BY <1>0, <1>1, <1>3 DEF IInv, TypeOK, RunRecord
<1>6. BudgetLeft'
  BY <1>0, <1>4 DEF IInv, BudgetLeft
<1>7. ASSUME j \notin past.overlapped
      PROVE  JobOK(j)'
  <2>1. JobOK(j) /\ Holds(x, j) /\ Begun(x, j)
    BY <1>0, <1>2, <1>7, AloneInHand DEF InHand, Begun
  <2>2. mails[j] > 0 /\ (j \in files => j \in past.kept)
    BY <1>0, <2>1 DEF JobOK, Told
  <2>3. mails[j] > 1 => j \in past.repeated
    BY <2>1 DEF JobOK, OneFarewell
  <2>4. run[x].pc # "idle" /\ j \notin DOMAIN r.todo
    BY <1>0, <1>1, <1>2
  <2> QED
    BY <1>0, <1>1, <1>2, <1>4, <1>7, <2>2, <2>3, <2>4, LetGo
<1>8. \A k \in Jobs \ {j} : SameJob(k)
  BY <1>0, <1>4 DEF SameJob
<1> QED
  BY <1>0, <1>1, <1>2, <1>5, <1>6, <1>7, <1>8, MoveOK

LEMMA FailOK ==
  ASSUME IInv, NEW x \in Executions, Fail(x)
  PROVE  IInv'
<1>0. /\ UNCHANGED <<status, retry, files, mails, tries>>
      /\ run[x].pc \in {"clean", "farewell", "complete"}
      /\ Reach(x, "requeue")
  BY DEF Fail
<1>1. PICK r \in RunRecord : /\ run' = [run EXCEPT ![x] = r]
                             /\ r.pc = "requeue" /\ r.todo = run[x].todo
  BY <1>0, ReachMoves
<1>2. PICK j \in Jobs : j = Now(x)
  BY <1>0, RowInHand
<1>3. j \in DOMAIN run[x].todo
  BY <1>0, <1>2, RowInHand DEF Holds
<1>4. past \in Past
  BY DEF IInv, TypeOK
<1>5. /\ past' \in Past
      /\ past'.overlapped = past.overlapped /\ past'.kept = past.kept
      /\ past.repeated \subseteq past'.repeated
      /\ \A k \in Jobs \ {j} : k \in past'.repeated <=> k \in past.repeated
      /\ run[x].pc = "complete" /\ j \notin past.overlapped => j \in past'.repeated
  <2>1. CASE run[x].pc = "complete"
    <3>1. past' = [past EXCEPT !.repeated = Noted(@, j)]
      BY <1>2, <2>1 DEF Fail
    <3> QED
      BY <1>4, <2>1, <3>1 DEF Past, Noted
  <2>2. CASE run[x].pc # "complete"
    BY <1>4, <2>2 DEF Fail
  <2> QED
    BY <2>1, <2>2
<1>6. TypeOK'
  BY <1>0, <1>1, <1>5 DEF IInv, TypeOK, RunRecord
<1>7. BudgetLeft'
  BY <1>0 DEF IInv, BudgetLeft
<1>8. ASSUME j \notin past.overlapped
      PROVE  JobOK(j)'
  <2>1. /\ JobOK(j) /\ Holds(x, j) /\ Begun(x, j)
        /\ status[j] = "PROCESSING" /\ tries[j] <= run[x].todo[j] + 1
    BY <1>0, <1>2, <1>8, AloneInHand DEF InHand, Begun
  <2>2. mails[j] = 0 \/ j \in past'.repeated
    BY <1>5, <1>8, <2>1 DEF JobOK, Told
  <2>3. /\ mails'[j] = 0 \/ j \in past'.repeated
        /\ mails'[j] > 1 => j \in past'.repeated
    BY <1>0, <2>2
  <2>4. /\ status'[j] = "PROCESSING" /\ run[x].pc # "idle"
        /\ tries'[j] \in Nat /\ tries'[j] <= run[x].todo[j] + 1
    BY <1>0, <2>1 DEF IInv, TypeOK
  <2> QED
    BY <1>1, <1>2, <1>8, <2>3, <2>4, StillInHand
<1>9. \A k \in Jobs \ {j} : SameJob(k)
  BY <1>0, <1>5 DEF SameJob
<1>10. run[x].pc # "idle" /\ DOMAIN r.todo # {} /\ r.pc # "idle"
  BY <1>0, <1>1, <1>3
<1> QED
  BY <1>0, <1>1, <1>2, <1>5, <1>6, <1>7, <1>8, <1>9, <1>10, MoveOK

LEMMA RequeueOK ==
  ASSUME IInv, NEW x \in Executions, Requeue(x)
  PROVE  IInv'
<1>0. /\ UNCHANGED <<files, mails, tries, past>> /\ run[x].pc = "requeue"
      /\ NextRow(x)
  BY DEF Requeue
<1>1. PICK r \in RunRecord :
        /\ run' = [run EXCEPT ![x] = r] /\ r.pc \in {"idle", "mark"}
        /\ r.pc = "idle" <=> DOMAIN r.todo = {}
        /\ DOMAIN r.todo = DOMAIN run[x].todo \ {Now(x)}
        /\ \A k \in DOMAIN r.todo : r.todo[k] = run[x].todo[k]
  BY <1>0, NextRowMoves
<1>2. PICK j \in Jobs : j = Now(x)
  BY <1>0, RowInHand
<1>3. PICK n \in 1..MaxRetries : n = run[x].todo[j] + 1
  BY <1>0, <1>2, RowInHand, BoundsAssumption
<1>4. /\ status' = [status EXCEPT ![j] = Afterwards(n)]
      /\ retry' = [retry EXCEPT ![j] = n]
  BY <1>2, <1>3 DEF Requeue
<1>5. /\ Afterwards(n) \in {"FAILED", "PENDING"}
      /\ Afterwards(n) = "FAILED" <=> n >= MaxRetries
  BY DEF Afterwards
<1>6. /\ status'[j] = Afterwards(n) /\ retry'[j] = n
      /\ \A k \in Jobs \ {j} : status'[k] = status[k] /\ retry'[k] = retry[k]
  BY <1>4 DEF IInv, TypeOK
<1>7. TypeOK'
  BY <1>0, <1>1, <1>4, <1>5, BoundsAssumption DEF IInv, TypeOK, RunRecord
<1>8. BudgetLeft'
  BY <1>5, <1>6, BoundsAssumption DEF IInv, BudgetLeft
<1>9. ASSUME j \notin past.overlapped
      PROVE  JobOK(j)'
  <2>1. /\ JobOK(j) /\ Holds(x, j) /\ Begun(x, j)
        /\ tries[j] <= run[x].todo[j] + 1
    BY <1>0, <1>2, <1>9, AloneInHand DEF InHand, Begun
  <2>2. mails[j] = 0 \/ j \in past.repeated
    BY <1>0, <2>1 DEF JobOK, Told
  <2>3. mails[j] > 1 => j \in past.repeated
    BY <2>1 DEF JobOK, OneFarewell
  <2>4. run[x].pc # "idle" /\ j \notin DOMAIN r.todo /\ tries[j] <= retry'[j]
    BY <1>0, <1>1, <1>2, <1>3, <1>6, <2>1
  <2>5. status'[j] \in {"FAILED", "PENDING"}
        /\ (status'[j] = "FAILED" => retry'[j] >= MaxRetries)
    BY <1>5, <1>6
  <2> QED
    BY <1>0, <1>1, <1>2, <1>9, <2>2, <2>3, <2>4, <2>5, LetGo
<1>10. \A k \in Jobs \ {j} : SameJob(k)
  BY <1>0, <1>6 DEF SameJob
<1> QED
  BY <1>0, <1>1, <1>2, <1>7, <1>8, <1>9, <1>10, MoveOK

(* The job in hand stays PROCESSING, which no claim is about.               *)
LEMMA CutOffOK ==
  ASSUME IInv, NEW x \in Executions, CutOff(x)
  PROVE  IInv'
<1>0. /\ UNCHANGED <<status, retry, files, mails, tries>> /\ run[x].pc # "idle"
      /\ run' = [run EXCEPT ![x] = Idle]
  BY DEF CutOff
<1>1. PICK j \in Jobs : j = Now(x)
  BY <1>0, RowInHand
<1>2. past \in Past
  BY DEF IInv, TypeOK
<1>3. /\ past' \in Past /\ past'.overlapped = past.overlapped
      /\ past'.kept = past.kept /\ past'.repeated = past.repeated
  <2>1. CASE InHand(x)
    <3>1. past' = [past EXCEPT !.lost = Noted(@, j)]
      BY <1>1, <2>1 DEF CutOff
    <3> QED
      BY <1>2, <3>1 DEF Past, Noted
  <2>2. CASE ~InHand(x)
    BY <1>2, <2>2 DEF CutOff
  <2> QED
    BY <2>1, <2>2
<1>4. TypeOK'
  BY <1>0, <1>3, IdleIsRun DEF IInv, TypeOK, RunRecord
<1>5. BudgetLeft'
  BY <1>0 DEF IInv, BudgetLeft
<1>6. ASSUME j \notin past.overlapped
      PROVE  JobOK(j)'
  <2>1. /\ JobOK(j) /\ status[j] \in {"PENDING", "PROCESSING"}
    BY <1>0, <1>1, <1>6, AloneInHand
  <2>2. /\ mails[j] > 1 => j \in past.repeated
        /\ status[j] = "PENDING" =>
             tries[j] <= retry[j] /\ (mails[j] = 0 \/ j \in past.repeated)
    BY <2>1 DEF JobOK, OneFarewell, Counts, Told
  <2> QED
    BY <1>0, <1>1, <1>3, <1>6, <2>1, <2>2, IdleIsRun, LetGo
<1>7. \A k \in Jobs \ {j} : SameJob(k)
  BY <1>0, <1>3 DEF SameJob
<1> QED
  BY <1>0, <1>1, <1>3, <1>4, <1>5, <1>6, <1>7, IdleIsRun, MoveOK

(***************************************************************************)
(* The theorems.                                                           *)
(***************************************************************************)
LEMMA InitOK == Init => IInv
<1> SUFFICES ASSUME Init PROVE IInv
  OBVIOUS
<1>1. TypeOK
  BY IdleIsRun, BoundsAssumption DEF Init, TypeOK, Past, RunRecord
<1>2. RunsOK /\ BudgetLeft
  BY IdleIsRun, BoundsAssumption DEF Init, RunsOK, BudgetLeft
<1>3. ASSUME NEW j \in Jobs
      PROVE  JobOK(j)
  <2>1. \A x \in Executions : ~Holds(x, j)
    BY IdleIsRun DEF Init, Holds
  <2> QED
    BY <2>1, BoundsAssumption DEF Init, JobOK, Counts, Told, OneFarewell
<1> QED
  BY <1>1, <1>2, <1>3, PerJob

LEMMA NextOK == IInv /\ [Next]_vars => IInv'
<1> SUFFICES ASSUME IInv, [Next]_vars PROVE IInv'
  OBVIOUS
<1>1. ASSUME NEW j \in Jobs, Queue(j)
      PROVE  IInv'
  BY <1>1, QueueOK
<1>2. ASSUME NEW x \in Executions, Work(x)
      PROVE  IInv'
  BY <1>2, SelectOK, MarkOK, CleanOK, FarewellOK, CompleteOK, RequeueOK DEF Work
<1>3. ASSUME NEW x \in Executions, Fail(x) \/ CutOff(x)
      PROVE  IInv'
  BY <1>3, FailOK, CutOffOK
<1>4. CASE UNCHANGED vars
  <2>1. TypeOK' /\ RunsOK' /\ BudgetLeft'
    BY <1>4 DEF vars, IInv, TypeOK, RunsOK, BudgetLeft
  <2>2. ASSUME NEW k \in Jobs \ past'.overlapped
        PROVE  JobOK(k)'
    <3>1. JobOK(k) /\ SameJob(k) /\ SameHolders(k)
      BY <1>4, PerJob DEF vars, SameJob, SameHolders, Holds, Begun, InHand, Now
    <3> QED
      BY <3>1, OthersOK
  <2> QED
    BY <2>1, <2>2 DEF IInv, JobOK, OneFarewell, AttemptsBounded, FarewellOnce
<1> QED
  BY <1>1, <1>2, <1>3, <1>4 DEF Next

(* IInv is an invariant, whatever fails and however the runs overlap.       *)
THEOREM InductiveInvariant == Spec => []IInv
<1> QED
  BY InitOK, NextOK, PTL DEF Spec

(* A job is begun max_retries times at most, also over later runs, unless  *)
(* two runs took it at once.                                               *)
THEOREM BeginningsAreBounded == Spec => []AttemptsBounded
<1>1. IInv => AttemptsBounded
  BY DEF IInv
<1> QED
  BY <1>1, InductiveInvariant, PTL

(* A COMPLETED job has told its user, has removed the files it could, and  *)
(* has told once unless its run failed after that or two runs took it.     *)
THEOREM EndIsToldOnce == Spec => []FarewellOnce
<1>1. IInv => FarewellOnce
  BY DEF IInv
<1> QED
  BY <1>1, InductiveInvariant, PTL
=============================================================================
