------------------------------ MODULE Users_proofs ------------------------------
(***************************************************************************)
(* Proofs about Users for any requests, processes, names and addresses,    *)
(* any filter and any of the faults: IInv is an invariant, and from it the *)
(* answers are true, the lock of a name excludes, a process knows the names *)
(* of its own sign-ups, and what was checked holds when it is written.      *)
(***************************************************************************)
EXTENDS Users, TLAPS

(***************************************************************************)
(* The filter.                                                             *)
(***************************************************************************)
LEMMA FilterAdds ==
  ASSUME NEW bits \in SUBSET Filter!Bits, NEW v \in Names
  PROVE  /\ Filter!Added(bits, v) \in SUBSET Filter!Bits
         /\ bits \subseteq Filter!Added(bits, v)
         /\ Filter!Has(Filter!Added(bits, v), v)
<1>1. Filter!getHashes(v) \in SUBSET Filter!Bits
  <2>1. ASSUME NEW i \in 0..(NumHashes - 1)
        PROVE  (fnv1a[v] + i * djb2[v]) % Size \in 0..(Size - 1)
    <3>1. PICK h \in Nat : h = fnv1a[v] + i * djb2[v]
      BY HashAssumption, SizeAssumption
    <3>2. h % Size \in 0..(Size - 1)
      BY SizeAssumption
    <3> QED
      BY <3>1, <3>2
  <2> QED
    BY <2>1 DEF Filter!getHashes, Filter!Bits
<1> QED
  BY <1>1 DEF Filter!Added, Filter!Has

LEMMA FilterLoads ==
  ASSUME NEW vs \in SUBSET Names
  PROVE  /\ Filter!Loaded(vs) \in SUBSET Filter!Bits
         /\ \A v \in vs : Filter!Has(Filter!Loaded(vs), v)
<1>1. \A v \in vs : Filter!getHashes(v) \in SUBSET Filter!Bits
  <2> SUFFICES ASSUME NEW v \in vs PROVE Filter!getHashes(v) \in SUBSET Filter!Bits
    OBVIOUS
  <2>1. {} \in SUBSET Filter!Bits
    OBVIOUS
  <2>2. Filter!Added({}, v) \in SUBSET Filter!Bits
    BY <2>1, FilterAdds
  <2> QED
    BY <2>2 DEF Filter!Added
<1> QED
  BY <1>1 DEF Filter!Loaded, Filter!Has

LEMMA FilterKeeps ==
  ASSUME NEW f, NEW g, f \subseteq g, NEW v, Filter!Has(f, v)
  PROVE  Filter!Has(g, v)
BY DEF Filter!Has

(***************************************************************************)
(* The table.                                                              *)
(***************************************************************************)
(* What a step of request r may do to the table: rows stay, also verified, *)
(* only r's own account is made, and who is busy notes a change.           *)
TableStep(r) ==
  /\ users' \in Table /\ replica' \in Table
  /\ \A a \in Accounts : replica'[a] # None => users'[a] # None
  /\ \A a \in Accounts : users[a] # None =>
       /\ users'[a] # None
       /\ users[a].verified => users'[a].verified
       /\ a \notin renamed' => a \notin renamed
                               /\ Lower[users'[a].name] = Lower[users[a].name]
  /\ \A s \in Requests \ {r} :
       /\ users'[s] # None => users[s] # None
       /\ s \notin stale' => s \notin stale /\ (Busy(s) => users' = users)
  /\ stale' \subseteq Requests /\ renamed' \subseteq Accounts

(* The table stays as it is.                                                *)
LEMMA StillTable ==
  ASSUME IInv, NEW r \in Requests, UNCHANGED rowVars,
         stale' \subseteq Requests, stale \ {r} \subseteq stale'
  PROVE  TableStep(r)
BY DEF IInv, TypeOK, RowsStay, TableStep, rowVars

LEMMA NotedTable ==
  ASSUME IInv, NEW r \in Requests, UNCHANGED rowVars, Noted(r) \/ UNCHANGED stale
  PROVE  TableStep(r)
<1>1. stale' \subseteq Requests /\ stale \ {r} \subseteq stale'
  BY DEF Noted, IInv, TypeOK
<1> QED
  BY <1>1, StillTable

(* A row is written: the first of r's own account, or one that was there.   *)
LEMMA WriteTable ==
  ASSUME IInv, NEW r \in Requests, NEW a \in Accounts, NEW row \in Row,
         Write(r, a, row),
         users[a] # None \/ a = r,
         users[a] # None /\ users[a].verified => row.verified
  PROVE  /\ TableStep(r)
         /\ users' = [users EXCEPT ![a] = row] /\ users'[a] = row
         /\ \A b \in Accounts \ {a} : users'[b] = users[b]
<1>0. row # None
  BY RowAssumption
<1>1. users \in Table /\ replica \in Table
  BY DEF IInv, TypeOK
<1>2. /\ users' = [users EXCEPT ![a] = row] /\ users'[a] = row
      /\ \A b \in Accounts \ {a} : users'[b] = users[b]
  BY <1>1 DEF Write, Table
<1>3. users' \in Table
  BY <1>1, <1>2 DEF Table
<1>4. replica' \in Table /\ \A b \in Accounts : replica'[b] # None => users'[b] # None
  <2>1. CASE "lag" \in Faults
    BY <1>0, <1>1, <1>2, <2>1 DEF Write, IInv, RowsStay
  <2>2. CASE "lag" \notin Faults
    BY <1>3, <2>2 DEF Write
  <2> QED
    BY <2>1, <2>2
<1>5. /\ renamed \subseteq renamed' /\ renamed' \subseteq renamed \cup {a}
      /\ users[a] # None /\ a \notin renamed' => Lower[users[a].name] = Lower[row.name]
      /\ stale' = stale \cup {q \in Requests \ {r} : Busy(q)}
  BY DEF Write
<1>6. /\ stale' \subseteq Requests /\ renamed' \subseteq Accounts
  BY <1>5 DEF IInv, TypeOK
<1>7. ASSUME NEW b \in Accounts, users[b] # None
      PROVE  /\ users'[b] # None
             /\ users[b].verified => users'[b].verified
             /\ b \notin renamed' => b \notin renamed
                                     /\ Lower[users'[b].name] = Lower[users[b].name]
  <2>1. CASE b = a
    BY <1>0, <1>2, <1>5, <1>7, <2>1
  <2>2. CASE b # a
    BY <1>2, <1>5, <1>7, <2>2
  <2> QED
    BY <2>1, <2>2
<1>8. \A s \in Requests \ {r} :
        /\ users'[s] # None => users[s] # None
        /\ s \notin stale' => s \notin stale /\ ~Busy(s)
  BY <1>2, <1>5 DEF Accounts
<1> QED
  BY <1>2, <1>3, <1>4, <1>6, <1>7, <1>8 DEF TableStep

(***************************************************************************)
(* The requests that do not move.                                          *)
(***************************************************************************)
\* What OwnNamesKnown says of one request.
Known(r) ==
  /\ Creates(r) /\ req[r].out = "ok" /\ users[r] # None
  /\ req[r].at \notin unloaded /\ r \notin renamed
  => Filter!Has(filter[req[r].at], Lower[users[r].name])

OneOK(r) == StepOK(r) /\ AccountOK(r) /\ Answered(r) /\ FoundOK(r) /\ Known(r)

LEMMA PerRequest ==
  IInv <=> /\ TypeOK /\ RowsStay
           /\ \A r \in Requests : OneOK(r) /\ LeaseOK(r)
BY DEF IInv, OneOK, OwnNamesKnown, Known

LEMMA OthersOK ==
  ASSUME IInv, NEW r \in Requests, TableStep(r),
         NEW s \in Requests \ {r}, req'[s] = req[s],
         welcome \subseteq welcome', UNCHANGED unloaded,
         \A p \in Processes : filter[p] \subseteq filter'[p]
  PROVE  OneOK(s)'
<1>0. OneOK(s) /\ s \in Accounts /\ req[s] \in Request
  BY PerRequest DEF Accounts, IInv, TypeOK
<1>1. /\ users'[s] # None <=> users[s] # None
      /\ users[s] # None =>
           /\ users[s].verified => users'[s].verified
           /\ s \notin renamed' => s \notin renamed
                                   /\ Lower[users'[s].name] = Lower[users[s].name]
      /\ s \notin stale' => s \notin stale /\ (Busy(s) => users' = users)
  BY <1>0 DEF TableStep
<1>2. StepOK(s)'
  BY <1>0 DEF OneOK, StepOK, TableStep, Op, At, Busy, Creates
<1>3. AccountOK(s)' /\ Answered(s)'
  BY <1>0, <1>1 DEF OneOK, AccountOK, Answered, Op, At, Creates
<1>4. FoundOK(s)'
  <2>1. Busy(s) \/ req[s].pc \notin {"store", "code", "mark"}
    BY DEF Busy
  <2> QED
    BY <1>0, <1>1, <2>1 DEF OneOK, FoundOK, Op, At
<1>5. Known(s)'
  <2> SUFFICES ASSUME Creates(s)', req'[s].out = "ok", users'[s] # None,
                      req'[s].at \notin unloaded', s \notin renamed'
               PROVE  Filter!Has(filter[req[s].at], Lower[users[s].name])'
    BY DEF Known
  <2>1. Creates(s) /\ req[s].out = "ok" /\ users[s] # None
        /\ req[s].at \notin unloaded /\ s \notin renamed
    BY <1>1 DEF Creates, Op
  <2>2. req[s].at \in Processes
    BY <1>0, <2>1 DEF OneOK, StepOK
  <2>3. Filter!Has(filter[req[s].at], Lower[users[s].name])
    BY <1>0, <2>1 DEF OneOK, Known
  <2>4. Filter!Has(filter'[req[s].at], Lower[users[s].name])
    BY <2>2, <2>3, FilterKeeps
  <2> QED
    BY <1>1, <2>1, <2>4 DEF Filter!Has, Filter!getHashes
<1> QED
  BY <1>2, <1>3, <1>4, <1>5 DEF OneOK

(***************************************************************************)
(* Request r moves on to the record q.                                     *)
(***************************************************************************)
LEMMA MoveOK ==
  ASSUME IInv, NEW r \in Requests, NEW q \in Request,
         req' = [req EXCEPT ![r] = q], TableStep(r),
         codes' \subseteq {"verify", "change", "reset"} \X Addresses,
         UNCHANGED <<shared, unloaded>>,
         leases' \subseteq Requests, overrun' \subseteq Requests,
         filter' \in [Processes -> SUBSET Filter!Bits],
         \A p \in Processes : filter[p] \subseteq filter'[p],
         welcome \subseteq welcome', welcome' \subseteq welcome \cup {r},
         r \in welcome' => users'[r] # None,
         \A s \in Requests : LeaseOK(s)', OneOK(r)'
  PROVE  IInv'
<1>1. req' \in [Requests -> Request] /\ \A s \in Requests \ {r} : req'[s] = req[s]
  BY DEF IInv, TypeOK
<1>2. TypeOK'
  BY <1>1 DEF IInv, TypeOK, TableStep, Accounts
<1>3. RowsStay'
  BY DEF IInv, TypeOK, RowsStay, TableStep
<1>4. \A s \in Requests : OneOK(s)'
  BY <1>1, OthersOK
<1> QED
  BY <1>2, <1>3, <1>4 DEF IInv, OneOK, OwnNamesKnown, Known

(***************************************************************************)
(* The locks.                                                              *)
(***************************************************************************)
LEMMA LocksKept ==
  ASSUME IInv, NEW r \in Requests, NEW q \in Request,
         req' = [req EXCEPT ![r] = q],
         UNCHANGED <<shared, leases, overrun>>,
         r \notin leases \/ (q.op = Op(r) /\ q.name = req[r].name /\ q.at = req[r].at),
         InLock(r) <=> q.op = "register" /\ q.pc \notin {"idle", "done", "lock"},
         r \in leases => InLock(r)
  PROVE  \A s \in Requests : LeaseOK(s)'
<1>1. req'[r] = q /\ \A s \in Requests \ {r} : req'[s] = req[s]
  BY DEF IInv, TypeOK
<1>2. \A s \in Requests : InLock(s)' <=> InLock(s)
  BY <1>1 DEF InLock, Busy, Op, At
<1>3. \A s \in leases : /\ req'[s].op = req[s].op /\ req'[s].name = req[s].name
                        /\ req'[s].at = req[s].at
  BY <1>1 DEF IInv, TypeOK, Op
<1>4. ASSUME NEW s \in Requests
      PROVE  LeaseOK(s)'
  <2>1. LeaseOK(s) /\ leases \subseteq Requests
    BY DEF IInv, TypeOK
  <2>2. (InLock(s) /\ s \notin overrun => s \in leases)'
    BY <1>2, <2>1 DEF LeaseOK
  <2>3. (s \in leases => Op(s) = "register" /\ (InLock(s) \/ (shared /\ At(s, "done"))))'
    BY <1>1, <1>2, <1>3, <2>1 DEF LeaseOK, Op, At
  <2>4. (\A p \in leases : s \in leases /\ SameLock(p, s) => p = s)'
    BY <1>3, <2>1 DEF LeaseOK, SameLock
  <2> QED
    BY <2>2, <2>3, <2>4 DEF LeaseOK
<1> QED
  BY <1>4

(***************************************************************************)
(* Answers.                                                                *)
(***************************************************************************)
LEMMA IdleIsRequest == Idle \in Request
BY FirstAssumption, AttemptsAssumption DEF Idle, Request, Steps, Ops

LEMMA ReplyIsRequest ==
  ASSUME IInv, NEW r \in Requests, NEW o \in {"ok", "refused", "error"}
  PROVE  Reply(r, o) \in Request
<1>1. req[r] \in Request
  BY DEF IInv, TypeOK
<1> QED
  BY <1>1, FirstAssumption, AttemptsAssumption DEF Reply, Request, Steps, Op

(* An answer is right if what it says of the account is.                    *)
LEMMA AnswerOK ==
  ASSUME IInv, NEW r \in Requests, NEW o \in {"ok", "refused", "error"},
         Busy(r), ~At(r, "unlock"), Answer(r, o), TableStep(r),
         users'[r] # None => Creates(r) /\ (users[r] # None \/ r \in renamed'),
         Creates(r) /\ o = "refused" => users'[r] = None,
         Creates(r) /\ o = "ok" =>
           /\ Op(r) = "register" => users'[r] # None
           /\ users'[r] # None =>
                /\ users'[r].verified /\ r \in welcome'
                /\ r \in renamed' \/ req[r].at \in unloaded'
                   \/ Filter!Has(filter'[req[r].at], Lower[users'[r].name])
  PROVE  OneOK(r)'
<1> DEFINE q == Reply(r, o)
<1>1. q \in Request /\ req'[r] = q
  BY ReplyIsRequest DEF Answer, IInv, TypeOK
<1>2. OneOK(r) /\ r \in Accounts
  BY PerRequest DEF Accounts
<1>3. /\ q.pc \in {"unlock", "done"} /\ q.op = Op(r) /\ q.out = o
      /\ q.pc = "unlock" => Op(r) = "register"
      /\ Creates(r) => q.at = req[r].at /\ q.name = req[r].name
  BY DEF Reply
<1> HIDE DEF q
<1>4. req[r].at \in Processes /\ Op(r) \in Ops
  BY <1>2 DEF OneOK, StepOK, Op, IInv, TypeOK, Request
<1>5. StepOK(r)'
  BY <1>1, <1>3, <1>4 DEF StepOK, Op, At, Busy, Creates, Takes
<1>6. AccountOK(r)'
  <2>1. users'[r] # None /\ r \notin renamed' => Lower[users'[r].name] = Lower[req[r].name]
    BY <1>2 DEF OneOK, AccountOK, TableStep
  <2> QED
    BY <1>1, <1>3, <2>1 DEF AccountOK, Op, At, Creates
<1>7. Answered(r)'
  BY <1>1, <1>3 DEF Answered, Op, Creates
<1>8. FoundOK(r)'
  BY <1>1, <1>3 DEF FoundOK, Op, At
<1>9. Known(r)'
  <2> SUFFICES ASSUME Creates(r)', req'[r].out = "ok", users'[r] # None,
                      req'[r].at \notin unloaded', r \notin renamed'
               PROVE  Filter!Has(filter[req[r].at], Lower[users[r].name])'
    BY DEF Known
  <2>1. Creates(r) /\ o = "ok" /\ req'[r].at = req[r].at
    BY <1>1, <1>3 DEF Creates, Op
  <2>2. Filter!Has(filter'[req[r].at], Lower[users'[r].name])
    BY <2>1
  <2> QED
    BY <2>1, <2>2 DEF Filter!Has, Filter!getHashes
<1> QED
  BY <1>5, <1>6, <1>7, <1>8, <1>9 DEF OneOK

LEMMA AnswerKeepsLocks ==
  ASSUME IInv, NEW r \in Requests, NEW o \in {"ok", "refused", "error"},
         Busy(r), ~At(r, "unlock"), Answer(r, o), UNCHANGED <<shared, leases, overrun>>
  PROVE  \A s \in Requests : LeaseOK(s)'
<1> DEFINE q == Reply(r, o)
<1>1. q \in Request /\ req' = [req EXCEPT ![r] = q]
  BY ReplyIsRequest DEF Answer
<1>2. /\ q.op = Op(r) /\ (Creates(r) => q.at = req[r].at /\ q.name = req[r].name)
      /\ q.pc = IF Op(r) = "register" /\ ~At(r, "lock") THEN "unlock" ELSE "done"
  BY DEF Reply
<1> HIDE DEF q
<1>3. r \in leases => Op(r) = "register" /\ InLock(r)
  BY DEF IInv, LeaseOK, Busy, At
<1>4. InLock(r) <=> q.op = "register" /\ q.pc \notin {"idle", "done", "lock"}
  BY <1>2 DEF InLock
<1> QED
  BY <1>1, <1>2, <1>3, <1>4, LocksKept DEF Creates

(* An answer that leaves the table alone ...                                *)
LEMMA AnswerStep ==
  ASSUME IInv, NEW r \in Requests, NEW o \in {"ok", "refused", "error"},
         Busy(r), ~At(r, "unlock"), Answer(r, o),
         UNCHANGED <<rowVars, lockVars, filterVars, welcome>>,
         Noted(r) \/ UNCHANGED stale, codes' \subseteq codes,
         Creates(r) /\ o # "error" => users[r] = None,
         o = "ok" => Op(r) # "register"
  PROVE  IInv'
<1>1. TableStep(r)
  BY NotedTable
<1>2. UNCHANGED <<users, shared, leases, overrun, filter, unloaded, welcome>>
  BY DEF rowVars, lockVars, filterVars
<1>3. OneOK(r) /\ r \in Accounts
  BY PerRequest DEF Accounts
<1>4. users[r] # None => Creates(r)
  BY <1>3 DEF OneOK, AccountOK
<1>5. OneOK(r)'
  BY <1>1, <1>2, <1>4, AnswerOK
<1>6. \A s \in Requests : LeaseOK(s)'
  BY <1>2, AnswerKeepsLocks
<1>7. Reply(r, o) \in Request /\ req' = [req EXCEPT ![r] = Reply(r, o)]
  BY ReplyIsRequest DEF Answer
<1>8. /\ codes' \subseteq {"verify", "change", "reset"} \X Addresses
      /\ leases' \subseteq Requests /\ overrun' \subseteq Requests
      /\ filter' \in [Processes -> SUBSET Filter!Bits]
      /\ r \in welcome' => users'[r] # None
  BY <1>2, <1>3 DEF IInv, TypeOK, RowsStay
<1> QED
  BY <1>1, <1>2, <1>5, <1>6, <1>7, <1>8, MoveOK

(* ... and one after a row was written that is not of r's own account.      *)
LEMMA WrittenStep ==
  ASSUME IInv, NEW r \in Requests, NEW a \in Accounts, NEW row \in Row,
         Busy(r), ~Creates(r), users[a] # None, users[a].verified => row.verified,
         Write(r, a, row), Answer(r, "ok"),
         UNCHANGED <<codes, lockVars, filterVars, welcome>>
  PROVE  IInv'
<1>1. /\ TableStep(r) /\ users'[a] = row
      /\ \A b \in Accounts \ {a} : users'[b] = users[b]
  BY WriteTable
<1>2. UNCHANGED <<codes, shared, leases, overrun, filter, unloaded, welcome>>
  BY DEF lockVars, filterVars
<1>3. OneOK(r) /\ r \in Accounts
  BY PerRequest DEF Accounts
<1>4. users'[r] = None
  BY <1>1, <1>3 DEF OneOK, AccountOK
<1>5. ~At(r, "unlock")
  BY <1>3 DEF OneOK, StepOK, At, Creates, Takes
<1>6. OneOK(r)'
  BY <1>1, <1>4, <1>5, AnswerOK
<1>7. \A s \in Requests : LeaseOK(s)'
  BY <1>2, <1>5, AnswerKeepsLocks
<1>8. Reply(r, "ok") \in Request /\ req' = [req EXCEPT ![r] = Reply(r, "ok")]
  BY ReplyIsRequest DEF Answer
<1>9. /\ codes' \subseteq {"verify", "change", "reset"} \X Addresses
      /\ leases' \subseteq Requests /\ overrun' \subseteq Requests
      /\ filter' \in [Processes -> SUBSET Filter!Bits]
      /\ r \notin welcome'
  BY <1>1, <1>2, <1>3, <1>4 DEF IInv, TypeOK, RowsStay, TableStep
<1> QED
  BY <1>1, <1>2, <1>6, <1>7, <1>8, <1>9, MoveOK

(***************************************************************************)
(* Steps on the way to an answer.                                          *)
(***************************************************************************)
(* The record q of a request that goes on to p: the same but for p, and for *)
(* the account it found or the name it tries next.                         *)
LEMMA GoesOn ==
  ASSUME IInv, NEW r \in Requests, NEW q \in Request, req' = [req EXCEPT ![r] = q],
         Busy(r), TableStep(r),
         q.op = Op(r), q.at = req[r].at, q.out = req[r].out,
         q.pc \notin {"idle", "unlock", "done"}, Op(r) \in Takes[q.pc], ~At(r, "unlock"),
         \/ Op(r) \in {"rename", "readdress"} \/ q.pc = "store"
         \/ (Op(r) = "verify" /\ q.pc = "mark")
         => q.who \in Accounts /\ users[q.who] # None,
         users'[r] # None =>
           /\ Creates(r) /\ q.pc \in {"mark", "read", "greet"}
           /\ r \in renamed' \/ Lower[users'[r].name] = Lower[q.name],
         q.pc \in {"read", "greet"} => users'[r] # None /\ users'[r].verified,
         Op(r) = "social" /\ q.pc = "mark" => users'[r] # None,
         FoundOK(r)'
  PROVE  OneOK(r)'
<1>1. req'[r] = q
  BY DEF IInv, TypeOK
<1>2. OneOK(r)
  BY PerRequest
<1>3. q.at \in Processes /\ q.out = "none"
  BY <1>2 DEF OneOK, StepOK, Busy, At
<1>4. StepOK(r)'
  BY <1>1, <1>3 DEF StepOK, Op, At, Busy, Creates, TableStep
<1>5. AccountOK(r)' /\ Answered(r)' /\ Known(r)'
  BY <1>1, <1>3 DEF AccountOK, Answered, Known, Op, At, Creates
<1> QED
  BY <1>4, <1>5 DEF OneOK

LEMMA GoRecord ==
  ASSUME IInv, NEW r \in Requests, NEW p \in Steps, Go(r, p)
  PROVE  \E q \in Request :
           /\ req' = [req EXCEPT ![r] = q] /\ q.pc = p /\ q.op = Op(r)
           /\ q.at = req[r].at /\ q.out = req[r].out /\ q.who = req[r].who
           /\ q.name = req[r].name /\ q.address = req[r].address
<1> DEFINE q == [req[r] EXCEPT !.pc = p]
<1>1. req[r] \in Request /\ r \in DOMAIN req
  BY DEF IInv, TypeOK
<1>2. q \in Request
  BY <1>1 DEF Request
<1>3. req' = [req EXCEPT ![r] = q]
  BY <1>1 DEF Go
<1>4. /\ q.pc = p /\ q.op = Op(r) /\ q.at = req[r].at /\ q.out = req[r].out
      /\ q.who = req[r].who /\ q.name = req[r].name /\ q.address = req[r].address
  BY <1>1 DEF Request, Op
<1> QED
  BY <1>2, <1>3, <1>4

LEMMA GoStep ==
  ASSUME IInv, NEW r \in Requests, NEW q \in Request, req' = [req EXCEPT ![r] = q],
         Busy(r), ~At(r, "unlock"), ~At(r, "lock"),
         UNCHANGED <<rowVars, lockVars, filterVars, welcome>>,
         Noted(r) \/ UNCHANGED stale,
         codes' \subseteq {"verify", "change", "reset"} \X Addresses,
         q.op = Op(r), q.at = req[r].at, q.out = req[r].out,
         q.pc \notin {"idle", "unlock", "done", "lock"}, Op(r) \in Takes[q.pc],
         Op(r) = "register" => q.name = req[r].name,
         \/ Op(r) \in {"rename", "readdress"} \/ q.pc = "store"
         \/ (Op(r) = "verify" /\ q.pc = "mark")
         => q.who \in Accounts /\ users[q.who] # None,
         users[r] # None => q.pc \in {"mark", "read", "greet"} /\ q.name = req[r].name,
         q.pc \in {"read", "greet"} => users[r] # None /\ users[r].verified,
         ~(Op(r) = "social" /\ q.pc = "mark"),
         FoundOK(r)'
  PROVE  IInv'
<1>1. TableStep(r)
  BY NotedTable
<1>2. UNCHANGED <<users, renamed, shared, leases, overrun, filter, unloaded, welcome>>
  BY DEF rowVars, lockVars, filterVars
<1>3. OneOK(r) /\ LeaseOK(r) /\ r \in Accounts
  BY PerRequest DEF Accounts
<1>4. users[r] # None =>
        Creates(r) /\ (r \in renamed \/ Lower[users[r].name] = Lower[req[r].name])
  BY <1>3 DEF OneOK, AccountOK
<1>5. OneOK(r)'
  BY <1>1, <1>2, <1>4, GoesOn
<1>6. r \in leases => Op(r) = "register"
  BY <1>3 DEF LeaseOK
<1>7. InLock(r) <=> q.op = "register" /\ q.pc \notin {"idle", "done", "lock"}
  BY DEF InLock
<1>8. r \in leases => InLock(r)
  BY <1>3 DEF LeaseOK, Busy, At
<1>9. \A s \in Requests : LeaseOK(s)'
  BY <1>2, <1>6, <1>7, <1>8, LocksKept DEF Op
<1>10. /\ leases' \subseteq Requests /\ overrun' \subseteq Requests
       /\ filter' \in [Processes -> SUBSET Filter!Bits]
       /\ r \in welcome' => users'[r] # None
  BY <1>2, <1>3 DEF IInv, TypeOK, RowsStay
<1> QED
  BY <1>1, <1>2, <1>5, <1>9, <1>10, MoveOK

(***************************************************************************)
(* The sign-up.                                                            *)
(***************************************************************************)
LEMMA LowerKeeps ==
  /\ \A d \in Addresses : Lower[d] \in Addresses /\ Lower[Lower[d]] = Lower[d]
  /\ \A n \in Names : Lower[n] \in Names
BY LowerAssumption

LEMMA AddressIsAddress ==
  ASSUME IInv, NEW r \in Requests
  PROVE  /\ req[r] \in Request /\ req[r].name \in Names /\ Address(r) \in Addresses
         /\ Lower[Address(r)] = Lower[req[r].address]
<1>1. req[r] \in Request /\ req[r].name \in Names /\ req[r].address \in Addresses
  BY DEF IInv, TypeOK, Request
<1> QED
  BY <1>1, LowerKeeps DEF Address

LEMMA LockOK ==
  ASSUME IInv, NEW r \in Requests, Lock(r)
  PROVE  IInv'
<1>0. /\ At(r, "lock") /\ OneOK(r) /\ LeaseOK(r) /\ r \in Accounts
      /\ UNCHANGED <<tableVars, codes, shared, overrun, filterVars, welcome>>
  BY PerRequest DEF Lock, Accounts
<1>1. /\ Busy(r) /\ ~At(r, "unlock") /\ Op(r) = "register" /\ users[r] = None
      /\ r \notin leases /\ UNCHANGED <<rowVars, stale>>
  BY <1>0 DEF Busy, At, OneOK, StepOK, AccountOK, LeaseOK, InLock, Takes, tableVars
<1>2. CASE Answer(r, "refused") /\ UNCHANGED leases
  BY <1>0, <1>1, <1>2, AnswerStep DEF lockVars
<1>3. CASE /\ Go(r, "code") /\ leases' = leases \cup {r}
           /\ ~ \E q \in leases : SameLock(q, r)
  <2>1. PICK q \in Request :
           /\ req' = [req EXCEPT ![r] = q] /\ q.pc = "code" /\ q.op = Op(r)
           /\ q.at = req[r].at /\ q.out = req[r].out /\ q.who = req[r].who
           /\ q.name = req[r].name /\ q.address = req[r].address
    BY <1>3, GoRecord DEF Steps
  <2>2. TableStep(r)
    BY <1>1, NotedTable
  <2>3. UNCHANGED <<users, renamed, shared, overrun, filter, unloaded, welcome>>
    BY <1>0, <1>1 DEF rowVars, filterVars
  <2>4. req'[r] = q /\ \A s \in Requests \ {r} : req'[s] = req[s]
    BY <2>1 DEF IInv, TypeOK
  <2>5. FoundOK(r)'
    BY <1>1, <2>1, <2>4 DEF FoundOK, Op, At
  <2>6. OneOK(r)'
    <3>1. /\ Op(r) \in Takes[q.pc] /\ users'[r] = None
          /\ q.pc \notin {"idle", "unlock", "done", "store", "mark", "read", "greet"}
          /\ Op(r) \notin {"rename", "readdress", "social"}
      BY <1>1, <2>1, <2>3 DEF Takes
    <3> QED
      BY <1>1, <2>1, <2>2, <2>5, <3>1, GoesOn
  <2>7. ASSUME NEW s \in Requests
        PROVE  LeaseOK(s)'
    <3>1. LeaseOK(s) /\ leases \subseteq Requests
      BY DEF IInv, TypeOK
    <3>2. \A t \in Requests \ {r} : InLock(t)' <=> InLock(t)
      BY <2>4 DEF InLock, Busy, Op, At
    <3>3. InLock(r)' /\ Op(r)' = "register"
      BY <1>1, <2>1, <2>4 DEF InLock, Busy, Op, At
    <3>4. (InLock(s) /\ s \notin overrun => s \in leases)'
      BY <1>3, <2>3, <3>1, <3>2 DEF LeaseOK
    <3>5. (s \in leases => Op(s) = "register" /\ (InLock(s) \/ (shared /\ At(s, "done"))))'
      BY <1>3, <2>3, <2>4, <3>1, <3>2, <3>3 DEF LeaseOK, Op, At
    <3>6. \A t, u \in leases' : SameLock(t, u)' <=> SameLock(t, u)
      BY <2>1, <2>3, <2>4, <3>1, <1>3 DEF SameLock
    <3>7. \A t \in leases : ~SameLock(t, r) /\ ~SameLock(r, t)
      BY <1>3 DEF SameLock
    <3>8. (\A t \in leases : s \in leases /\ SameLock(t, s) => t = s)'
      BY <1>3, <3>1, <3>6, <3>7 DEF LeaseOK
    <3> QED
      BY <3>4, <3>5, <3>8 DEF LeaseOK
  <2>8. /\ codes' \subseteq {"verify", "change", "reset"} \X Addresses
        /\ leases' \subseteq Requests /\ overrun' \subseteq Requests
        /\ filter' \in [Processes -> SUBSET Filter!Bits]
        /\ r \in welcome' => users'[r] # None
    BY <1>0, <1>3, <2>3 DEF IInv, TypeOK, RowsStay
  <2> QED
    BY <2>1, <2>2, <2>3, <2>6, <2>7, <2>8, MoveOK
<1> QED
  BY <1>2, <1>3 DEF Lock

(* What is known of a request at a step that asks for no account of its own. *)
LEMMA BeforeAccount ==
  ASSUME IInv, NEW r \in Requests,
         req[r].pc \in {"lock", "code", "create", "look", "find", "store", "filter"}
  PROVE  /\ Busy(r) /\ ~At(r, "unlock") /\ users[r] = None
         /\ r \in Accounts /\ Op(r) \in Takes[req[r].pc]
         /\ StepOK(r) /\ FoundOK(r)
<1>1. OneOK(r) /\ r \in Accounts
  BY PerRequest DEF Accounts
<1> QED
  BY <1>1 DEF OneOK, StepOK, AccountOK, Busy, At

LEMMA VerifyOK ==
  ASSUME IInv, NEW r \in Requests, Verify(r)
  PROVE  IInv'
<1>0. At(r, "code") /\ UNCHANGED <<tableVars, lockVars, filterVars, welcome>>
  BY DEF Verify
<1>1. /\ Busy(r) /\ ~At(r, "unlock") /\ ~At(r, "lock") /\ users[r] = None
      /\ Op(r) \in {"register", "readdress", "reset", "verify"}
      /\ StepOK(r) /\ FoundOK(r) /\ UNCHANGED <<rowVars, stale>>
  BY <1>0, BeforeAccount DEF At, Takes, tableVars
<1>2. codes \subseteq {"verify", "change", "reset"} \X Addresses
  BY DEF IInv, TypeOK
<1>3. CASE Answer(r, "refused") /\ codes' \subseteq codes
  BY <1>0, <1>1, <1>3, AnswerStep
<1>4. CASE codes' = codes \ {Code(r)} /\ Go(r, AfterCode[Op(r)])
  <2>1. /\ Op(r) = "register" => AfterCode[Op(r)] = "create"
        /\ Op(r) = "readdress" => AfterCode[Op(r)] = "store"
        /\ Op(r) \in {"reset", "verify"} => AfterCode[Op(r)] = "find"
    BY DEF AfterCode
  <2>2. PICK p \in {"create", "store", "find"} : p = AfterCode[Op(r)]
    BY <1>1, <2>1
  <2>3. PICK q \in Request :
           /\ req' = [req EXCEPT ![r] = q] /\ q.pc = p /\ q.op = Op(r)
           /\ q.at = req[r].at /\ q.out = req[r].out /\ q.who = req[r].who
           /\ q.name = req[r].name /\ q.address = req[r].address
    BY <1>4, <2>2, GoRecord DEF Steps
  <2>4. /\ Op(r) \in Takes[q.pc] /\ q.pc \in {"create", "store", "find"}
        /\ q.pc = "store" <=> Op(r) = "readdress"
    BY <1>1, <2>1, <2>2, <2>3 DEF Takes
  <2>5. Op(r) = "readdress" => q.who \in Accounts /\ users[q.who] # None
    BY <1>1, <2>3 DEF StepOK
  <2>6. FoundOK(r)'
    <3>1. req'[r] = q /\ UNCHANGED <<users, stale>>
      BY <1>1, <2>3 DEF IInv, TypeOK, rowVars
    <3> QED
      BY <1>0, <1>1, <2>3, <2>4, <3>1 DEF FoundOK, Op, At
  <2>7. codes' \subseteq {"verify", "change", "reset"} \X Addresses
    BY <1>2, <1>4
  <2>8. /\ q.pc \notin {"idle", "unlock", "done", "lock", "mark", "read", "greet"}
        /\ Op(r) \notin {"rename", "social"}
    BY <1>1, <2>4
  <2> QED
    BY <1>0, <1>1, <2>3, <2>4, <2>5, <2>6, <2>7, <2>8, GoStep
<1> QED
  BY <1>3, <1>4 DEF Verify, Breached

LEMMA HashOK ==
  ASSUME IInv, NEW r \in Requests, Hash(r)
  PROVE  IInv'
<1>1. /\ req[r].pc \in {"create", "store"} /\ Answer(r, "refused")
      /\ UNCHANGED <<rowVars, stale, codes, lockVars, filterVars, welcome>>
  BY DEF Hash, At, tableVars
<1>2. Busy(r) /\ ~At(r, "unlock") /\ users[r] = None
  BY <1>1, BeforeAccount
<1> QED
  BY <1>1, <1>2, AnswerStep

(* A request writes the row of its own account and goes on.                 *)
LEMMA OwnRowStep ==
  ASSUME IInv, NEW r \in Requests, Creates(r), req[r].pc \in {"create", "mark"},
         NEW row \in Row, Write(r, r, row),
         users[r] = None => row.name = req[r].name,
         users[r] # None => row.name = users[r].name /\ (users[r].verified => row.verified),
         NEW p \in {"mark", "read", "greet"}, Go(r, p), Op(r) \in Takes[p],
         p \in {"read", "greet"} => row.verified,
         UNCHANGED <<codes, lockVars, filterVars, welcome>>
  PROVE  IInv'
<1>0. /\ r \in Accounts /\ OneOK(r) /\ LeaseOK(r) /\ row # None
      /\ Busy(r) /\ ~At(r, "unlock") /\ ~At(r, "lock") /\ ~At(r, "done")
  BY PerRequest, RowAssumption DEF Accounts, Busy, At
<1>1. TableStep(r) /\ users'[r] = row
  BY <1>0, WriteTable
<1>2. PICK q \in Request :
        /\ req' = [req EXCEPT ![r] = q] /\ q.pc = p /\ q.op = Op(r)
        /\ q.at = req[r].at /\ q.out = req[r].out /\ q.who = req[r].who
        /\ q.name = req[r].name /\ q.address = req[r].address
  BY GoRecord DEF Steps
<1>3. r \in renamed' \/ Lower[users'[r].name] = Lower[q.name]
  <2>1. renamed \subseteq renamed'
    BY DEF Write
  <2> QED
    BY <1>0, <1>1, <1>2, <2>1 DEF OneOK, AccountOK
<1>4. FoundOK(r)'
  <2>1. req'[r] = q
    BY <1>2 DEF IInv, TypeOK
  <2> QED
    BY <1>2, <2>1 DEF FoundOK, Op, At, Creates
<1>5. OneOK(r)'
  <2>1. /\ Op(r) \notin {"rename", "readdress", "verify"} /\ users'[r] # None
        /\ q.pc \notin {"idle", "unlock", "done", "store"}
        /\ Op(r) \in Takes[q.pc] /\ q.pc \in {"mark", "read", "greet"}
        /\ q.pc \in {"read", "greet"} => users'[r].verified
    BY <1>0, <1>1, <1>2 DEF Creates
  <2> QED
    BY <1>0, <1>1, <1>2, <1>3, <1>4, <2>1, GoesOn
<1>6. UNCHANGED <<shared, leases, overrun, filter, unloaded>>
  BY DEF lockVars, filterVars
<1>7. \A s \in Requests : LeaseOK(s)'
  <2>1. InLock(r) <=> q.op = "register" /\ q.pc \notin {"idle", "done", "lock"}
    BY <1>0, <1>2 DEF InLock
  <2>2. r \in leases => InLock(r)
    BY <1>0 DEF LeaseOK
  <2> QED
    BY <1>2, <1>6, <2>1, <2>2, LocksKept
<1>8. /\ codes' \subseteq {"verify", "change", "reset"} \X Addresses
      /\ leases' \subseteq Requests /\ overrun' \subseteq Requests
      /\ filter' \in [Processes -> SUBSET Filter!Bits]
      /\ users'[r] # None
  BY <1>0, <1>1, <1>6 DEF IInv, TypeOK
<1> QED
  BY <1>1, <1>2, <1>5, <1>6, <1>7, <1>8, MoveOK

LEMMA RegisterOK ==
  ASSUME IInv, NEW r \in Requests, Register(r)
  PROVE  IInv'
<1>0. /\ At(r, "create") /\ Op(r) = "register"
      /\ UNCHANGED <<codes, lockVars, filterVars, welcome>>
  BY DEF Register
<1>1. Busy(r) /\ ~At(r, "unlock") /\ users[r] = None /\ r \in Accounts
  BY <1>0, BeforeAccount DEF At
<1>2. CASE Write(r, r, NewRow(r)) /\ Go(r, "greet")
  <2>1. /\ NewRow(r) \in Row /\ NewRow(r).name = req[r].name /\ NewRow(r).verified
    BY <1>0, <1>1, AddressIsAddress DEF NewRow, Row
  <2>2. Creates(r) /\ Op(r) \in Takes["greet"] /\ req[r].pc \in {"create", "mark"}
    BY <1>0 DEF Creates, Takes, At
  <2> QED
    BY <1>0, <1>1, <1>2, <2>1, <2>2, OwnRowStep
<1>3. CASE Answer(r, "refused") /\ UNCHANGED tableVars
  BY <1>0, <1>1, <1>3, AnswerStep DEF tableVars
<1> QED
  BY <1>2, <1>3 DEF Register

LEMMA GreetOK ==
  ASSUME IInv, NEW r \in Requests, Greet(r)
  PROVE  IInv'
<1>0. At(r, "greet") /\ UNCHANGED <<tableVars, codes, lockVars, unloaded>>
  BY DEF Greet
<1>1. /\ OneOK(r) /\ r \in Accounts /\ Busy(r) /\ ~At(r, "unlock")
      /\ UNCHANGED <<users, rowVars, stale, renamed, shared, leases, overrun>>
  BY <1>0, PerRequest DEF Accounts, Busy, At, tableVars, rowVars, lockVars
<1>2. /\ users[r] # None /\ users[r].verified /\ Creates(r)
      /\ req[r].at \in Processes
      /\ r \in renamed \/ Lower[users[r].name] = Lower[req[r].name]
  BY <1>0, <1>1 DEF OneOK, AccountOK, StepOK, At
<1>3. TableStep(r)
  BY <1>1, NotedTable
<1>4. /\ filter \in [Processes -> SUBSET Filter!Bits] /\ Lower[req[r].name] \in Names
      /\ welcome \subseteq Accounts
  BY AddressIsAddress, LowerKeeps DEF IInv, TypeOK
<1>5. /\ Learned(r) \in SUBSET Filter!Bits
      /\ filter[req[r].at] \subseteq Learned(r)
      /\ Filter!Has(Learned(r), Lower[req[r].name])
  BY <1>2, <1>4, FilterAdds DEF Learned
<1>6. ASSUME filter' = [filter EXCEPT ![req[r].at] = Learned(r)] \/ UNCHANGED filter
      PROVE  /\ filter' \in [Processes -> SUBSET Filter!Bits]
             /\ \A p \in Processes : filter[p] \subseteq filter'[p]
  BY <1>2, <1>4, <1>5, <1>6
<1>7. ASSUME NEW o \in {"ok", "error"}, Answer(r, o),
             filter' = [filter EXCEPT ![req[r].at] = Learned(r)] \/ UNCHANGED filter,
             welcome \subseteq welcome', welcome' \subseteq welcome \cup {r},
             o = "ok" => /\ r \in welcome'
                         /\ filter' = [filter EXCEPT ![req[r].at] = Learned(r)]
      PROVE  IInv'
  <2>1. o = "ok" => r \in renamed'
                    \/ Filter!Has(filter'[req[r].at], Lower[users'[r].name])
    <3> SUFFICES ASSUME o = "ok", r \notin renamed
                 PROVE  Filter!Has(filter'[req[r].at], Lower[users'[r].name])
      BY <1>1
    <3>1. filter'[req[r].at] = Learned(r)
      BY <1>2, <1>4, <1>7
    <3>2. Lower[users'[r].name] = Lower[req[r].name]
      BY <1>1, <1>2
    <3> QED
      BY <1>5, <3>1, <3>2
  <2>2. OneOK(r)'
    BY <1>1, <1>2, <1>3, <1>7, <2>1, AnswerOK
  <2>3. \A s \in Requests : LeaseOK(s)'
    BY <1>1, <1>7, AnswerKeepsLocks
  <2>4. Reply(r, o) \in Request /\ req' = [req EXCEPT ![r] = Reply(r, o)]
    BY <1>7, ReplyIsRequest DEF Answer
  <2>5. /\ codes' \subseteq {"verify", "change", "reset"} \X Addresses
        /\ leases' \subseteq Requests /\ overrun' \subseteq Requests
        /\ users'[r] # None
    BY <1>0, <1>1, <1>2 DEF IInv, TypeOK
  <2> QED
    BY <1>0, <1>1, <1>3, <1>6, <1>7, <2>2, <2>3, <2>4, <2>5, MoveOK
<1>8. CASE /\ welcome' = welcome \cup {r}
           /\ filter' = [filter EXCEPT ![req[r].at] = Learned(r)]
           /\ Answer(r, "ok")
  BY <1>7, <1>8
<1>9. CASE /\ filter' = IF Op(r) = "social"
                        THEN [filter EXCEPT ![req[r].at] = Learned(r)] ELSE filter
           /\ Answer(r, "error")
           /\ UNCHANGED welcome
  BY <1>7, <1>9
<1> QED
  BY <1>8, <1>9 DEF Greet

LEMMA UnlockOK ==
  ASSUME IInv, NEW r \in Requests, Unlock(r)
  PROVE  IInv'
<1>0. /\ At(r, "unlock") /\ Go(r, "done")
      /\ leases' = leases \ {r} /\ overrun' = overrun \ {r}
      /\ UNCHANGED <<tableVars, codes, shared, filterVars, welcome>>
  BY DEF Unlock
<1>1. PICK q \in Request :
        /\ req' = [req EXCEPT ![r] = q] /\ q.pc = "done" /\ q.op = Op(r)
        /\ q.at = req[r].at /\ q.out = req[r].out /\ q.who = req[r].who
        /\ q.name = req[r].name /\ q.address = req[r].address
  BY <1>0, GoRecord DEF Steps
<1>2. /\ req'[r] = q /\ \A s \in Requests \ {r} : req'[s] = req[s]
      /\ UNCHANGED <<users, rowVars, stale, renamed, shared, filter, unloaded, welcome>>
  BY <1>0, <1>1 DEF IInv, TypeOK, tableVars, rowVars, filterVars
<1>3. TableStep(r) /\ OneOK(r)
  BY <1>2, NotedTable, PerRequest
<1>4. OneOK(r)'
  <2>0. q.op \in Takes["done"]
    BY <1>1 DEF Takes, Request
  <2>1. StepOK(r)' /\ AccountOK(r)'
    <3>1. StepOK(r)'
      BY <1>0, <1>1, <1>2, <1>3, <2>0 DEF OneOK, StepOK, Op, At, Busy, Creates
    <3>2. AccountOK(r)'
      BY <1>0, <1>1, <1>2, <1>3 DEF OneOK, AccountOK, Op, At, Creates
    <3> QED
      BY <3>1, <3>2
  <2>2. Answered(r)' /\ FoundOK(r)'
    BY <1>0, <1>1, <1>2, <1>3 DEF OneOK, Answered, FoundOK, Op, At, Creates
  <2>3. Known(r)'
    BY <1>1, <1>2, <1>3 DEF OneOK, Known, Op, Creates, Filter!Has, Filter!getHashes
  <2> QED
    BY <2>1, <2>2, <2>3 DEF OneOK
<1>5. ASSUME NEW s \in Requests
      PROVE  LeaseOK(s)'
  <2>1. LeaseOK(s) /\ leases \subseteq Requests
    BY DEF IInv, TypeOK
  <2>2. \A t \in Requests \ {r} : InLock(t)' <=> InLock(t)
    BY <1>2 DEF InLock, Busy, Op, At
  <2>3. ~InLock(r)'
    BY <1>1, <1>2 DEF InLock, Busy
  <2>4. (InLock(s) /\ s \notin overrun => s \in leases)'
    BY <1>0, <2>1, <2>2, <2>3 DEF LeaseOK
  <2>5. (s \in leases => Op(s) = "register" /\ (InLock(s) \/ (shared /\ At(s, "done"))))'
    BY <1>0, <1>2, <2>1, <2>2 DEF LeaseOK, Op, At
  <2>6. (\A t \in leases : s \in leases /\ SameLock(t, s) => t = s)'
    BY <1>0, <1>2, <2>1 DEF LeaseOK, SameLock
  <2> QED
    BY <2>4, <2>5, <2>6 DEF LeaseOK
<1>6. /\ codes' \subseteq {"verify", "change", "reset"} \X Addresses
      /\ leases' \subseteq Requests /\ overrun' \subseteq Requests
      /\ filter' \in [Processes -> SUBSET Filter!Bits]
      /\ r \in welcome' => users'[r] # None
  BY <1>0, <1>2 DEF IInv, TypeOK, RowsStay
<1> QED
  BY <1>1, <1>2, <1>3, <1>4, <1>5, <1>6, MoveOK

(***************************************************************************)
(* The social login and the verification.                                  *)
(***************************************************************************)
LEMMA SocialLookOK ==
  ASSUME IInv, NEW r \in Requests, SocialLook(r)
  PROVE  IInv'
<1>0. /\ At(r, "look") /\ Op(r) = "social" /\ Noted(r)
      /\ UNCHANGED <<rowVars, codes, lockVars, filterVars, welcome>>
  BY DEF SocialLook
<1>1. Busy(r) /\ ~At(r, "unlock") /\ ~At(r, "lock") /\ users[r] = None
  BY <1>0, BeforeAccount DEF At
<1>2. CASE Answer(r, "ok")
  BY <1>0, <1>1, <1>2, AnswerStep
<1>3. CASE Go(r, "create")
  <2>1. PICK q \in Request :
           /\ req' = [req EXCEPT ![r] = q] /\ q.pc = "create" /\ q.op = Op(r)
           /\ q.at = req[r].at /\ q.out = req[r].out /\ q.who = req[r].who
           /\ q.name = req[r].name /\ q.address = req[r].address
    BY <1>3, GoRecord DEF Steps
  <2>2. FoundOK(r)'
    <3>1. req'[r] = q
      BY <2>1 DEF IInv, TypeOK
    <3> QED
      BY <1>0, <2>1, <3>1 DEF FoundOK, Op, At
  <2>3. /\ Op(r) \in Takes[q.pc] /\ Op(r) \notin {"rename", "readdress", "verify", "register"}
        /\ q.pc \notin {"idle", "unlock", "done", "lock", "store", "mark", "read", "greet"}
        /\ codes' \subseteq {"verify", "change", "reset"} \X Addresses
    BY <1>0, <2>1 DEF Takes, IInv, TypeOK
  <2> QED
    BY <1>0, <1>1, <2>1, <2>2, <2>3, GoStep
<1> QED
  BY <1>2, <1>3 DEF SocialLook

(* A retry tries another name for an account that is not there yet.         *)
LEMMA SocialCreateOK ==
  ASSUME IInv, NEW r \in Requests, SocialCreate(r)
  PROVE  IInv'
<1>0. /\ At(r, "create") /\ Op(r) = "social"
      /\ UNCHANGED <<codes, lockVars, filterVars, welcome>>
  BY DEF SocialCreate
<1>1. /\ Busy(r) /\ ~At(r, "unlock") /\ ~At(r, "lock") /\ users[r] = None
      /\ r \in Accounts /\ req[r] \in Request
  BY <1>0, BeforeAccount DEF At, IInv, TypeOK
<1>2. CASE Write(r, r, NewRow(r)) /\ Go(r, "mark")
  <2>1. /\ NewRow(r) \in Row /\ NewRow(r).name = req[r].name
    BY <1>0, <1>1, AddressIsAddress DEF NewRow, Row
  <2>2. Creates(r) /\ Op(r) \in Takes["mark"] /\ req[r].pc \in {"create", "mark"}
    BY <1>0 DEF Creates, Takes, At
  <2> QED
    BY <1>0, <1>1, <1>2, <2>1, <2>2, OwnRowStep
<1>3. CASE Answer(r, "refused") /\ UNCHANGED tableVars
  BY <1>0, <1>1, <1>3, AnswerStep DEF tableVars
<1>4. ASSUME NEW n \in Names, ~Exhausted(r), UNCHANGED tableVars,
             req' = [req EXCEPT ![r].tries = Tried(r), ![r].name = n]
      PROVE  IInv'
  <2> DEFINE q == [req[r] EXCEPT !.tries = Tried(r), !.name = n]
  <2>1. Tried(r) \in 0..(MaxAttempts - 1)
    BY <1>1, <1>4, AttemptsAssumption DEF Tried, Exhausted, Request
  <2>2. q \in Request
    BY <1>1, <2>1 DEF Request
  <2>3. req' = [req EXCEPT ![r] = q]
    BY <1>1, <1>4 DEF IInv, TypeOK
  <2>4. /\ q.pc = "create" /\ q.op = Op(r) /\ q.at = req[r].at /\ q.out = req[r].out
    BY <1>0, <1>1 DEF Request, At, Op
  <2> HIDE DEF q
  <2>5. FoundOK(r)'
    <3>1. req'[r] = q
      BY <2>3 DEF IInv, TypeOK
    <3> QED
      BY <1>0, <2>4, <3>1 DEF FoundOK, Op, At
  <2>6. /\ Op(r) \in Takes[q.pc] /\ Op(r) \notin {"rename", "readdress", "verify", "register"}
        /\ q.pc \notin {"idle", "unlock", "done", "lock", "store", "mark", "read", "greet"}
        /\ codes' \subseteq {"verify", "change", "reset"} \X Addresses
        /\ UNCHANGED <<rowVars, stale>>
    BY <1>0, <1>4, <2>4 DEF Takes, IInv, TypeOK, tableVars
  <2> QED
    BY <1>0, <1>1, <2>2, <2>3, <2>4, <2>5, <2>6, GoStep
<1> QED
  BY <1>2, <1>3, <1>4 DEF SocialCreate

LEMMA MarkOK ==
  ASSUME IInv, NEW r \in Requests, Mark(r)
  PROVE  IInv'
<1>0. At(r, "mark") /\ UNCHANGED <<codes, lockVars, filterVars, welcome>>
  BY DEF Mark
<1>1. OneOK(r) /\ r \in Accounts /\ Op(r) \in {"social", "verify"}
  BY <1>0, PerRequest DEF Accounts, OneOK, StepOK, Takes, At
<1>2. PICK a \in Accounts : a = Whose(r) /\ users[a] # None
  BY <1>0, <1>1 DEF Whose, OneOK, StepOK, AccountOK
<1>3. users[a] \in Row
  BY <1>2 DEF IInv, TypeOK, Table
<1> DEFINE row == [users[a] EXCEPT !.verified = TRUE]
<1>4. row \in Row /\ row.verified /\ row.name = users[a].name
  BY <1>3 DEF Row
<1>5. Write(r, a, row)
  BY <1>2 DEF Mark
<1> HIDE DEF row
<1>6. CASE Op(r) = "social"
  <2>1. a = r /\ Go(r, "read") /\ Op(r) \in Takes["read"]
    BY <1>2, <1>6 DEF Whose, Mark, Takes
  <2>2. Creates(r) /\ req[r].pc \in {"create", "mark"}
    BY <1>0, <1>6 DEF Creates, At
  <2> QED
    BY <1>0, <1>2, <1>4, <1>5, <2>1, <2>2, OwnRowStep
<1>7. CASE Op(r) = "verify"
  <2>1. Answer(r, "ok") /\ Busy(r) /\ ~Creates(r)
    BY <1>0, <1>7 DEF Mark, Busy, At, Creates
  <2> QED
    BY <1>0, <1>2, <1>4, <1>5, <2>1, WrittenStep
<1> QED
  BY <1>1, <1>6, <1>7

LEMMA ReadBackOK ==
  ASSUME IInv, NEW r \in Requests, ReadBack(r)
  PROVE  IInv'
<1>0. /\ At(r, "read")
      /\ UNCHANGED <<rowVars, stale, codes, lockVars, filterVars, welcome>>
  BY DEF ReadBack, tableVars
<1>1. /\ OneOK(r) /\ Op(r) = "social"
      /\ Busy(r) /\ ~At(r, "unlock") /\ ~At(r, "lock")
  BY <1>0, PerRequest DEF OneOK, StepOK, Takes, At, Busy
<1>2. users[r] # None /\ users[r].verified
  BY <1>0, <1>1 DEF OneOK, AccountOK, At
<1>3. CASE Answer(r, "error")
  BY <1>0, <1>1, <1>3, AnswerStep
<1>4. CASE Go(r, "greet")
  <2>1. PICK q \in Request :
           /\ req' = [req EXCEPT ![r] = q] /\ q.pc = "greet" /\ q.op = Op(r)
           /\ q.at = req[r].at /\ q.out = req[r].out /\ q.who = req[r].who
           /\ q.name = req[r].name /\ q.address = req[r].address
    BY <1>4, GoRecord DEF Steps
  <2>2. FoundOK(r)'
    <3>1. req'[r] = q
      BY <2>1 DEF IInv, TypeOK
    <3> QED
      BY <1>1, <2>1, <3>1 DEF FoundOK, Op, At
  <2>3. /\ Op(r) \in Takes[q.pc] /\ Op(r) \notin {"rename", "readdress", "verify", "register"}
        /\ q.pc \notin {"idle", "unlock", "done", "lock", "store", "mark"}
        /\ codes' \subseteq {"verify", "change", "reset"} \X Addresses
    BY <1>0, <1>1, <2>1 DEF Takes, IInv, TypeOK
  <2> QED
    BY <1>0, <1>1, <1>2, <2>1, <2>2, <2>3, GoStep
<1> QED
  BY <1>3, <1>4 DEF ReadBack

(***************************************************************************)
(* Changes of the profile.                                                 *)
(***************************************************************************)
(* What is read are rows, and of accounts the table has.                   *)
LEMMA ReadRows ==
  ASSUME IInv, NEW a \in Accounts, Read[a] # None
  PROVE  Read[a] \in Row /\ users[a] # None
BY DEF IInv, TypeOK, RowsStay, Read, Table

LEMMA NotedFresh ==
  ASSUME IInv, NEW r \in Requests, Noted(r), r \notin stale'
  PROVE  Read = users
BY DEF Noted

LEMMA RenameLookOK ==
  ASSUME IInv, NEW r \in Requests, RenameLook(r)
  PROVE  IInv'
<1>0. /\ At(r, "look") /\ Op(r) = "rename" /\ Noted(r)
      /\ UNCHANGED <<rowVars, codes, lockVars, filterVars, welcome>>
  BY DEF RenameLook
<1>1. /\ Busy(r) /\ ~At(r, "unlock") /\ ~At(r, "lock") /\ users[r] = None /\ StepOK(r)
  BY <1>0, BeforeAccount DEF At
<1>2. CASE Answer(r, "refused")
  BY <1>0, <1>1, <1>2, AnswerStep DEF Creates
<1>3. CASE /\ Go(r, "store")
           /\ Named(req[r].name) \subseteq {req[r].who} \/ req[r].who \in Named(req[r].name)
  <2>1. PICK q \in Request :
           /\ req' = [req EXCEPT ![r] = q] /\ q.pc = "store" /\ q.op = Op(r)
           /\ q.at = req[r].at /\ q.out = req[r].out /\ q.who = req[r].who
           /\ q.name = req[r].name /\ q.address = req[r].address
    BY <1>3, GoRecord DEF Steps
  <2>2. req'[r] = q /\ users' = users
    BY <1>0, <2>1 DEF IInv, TypeOK, rowVars
  <2>3. ASSUME r \notin stale', NEW b \in Accounts \ {req[r].who}, users[b] # None,
               Lower[users[b].name] = Lower[req[r].name]
        PROVE  Lower[users[req[r].who].name] = Lower[req[r].name]
    <3>1. b \in Named(req[r].name)
      BY <1>0, <2>3, NotedFresh DEF Named
    <3>2. req[r].who \in Named(req[r].name)
      BY <1>3, <2>3, <3>1
    <3> QED
      BY <1>0, <2>3, <3>2, NotedFresh DEF Named
  <2>4. FoundOK(r)'
    BY <1>0, <2>1, <2>2, <2>3 DEF FoundOK, Op, At
  <2>5. q.who \in Accounts /\ users[q.who] # None
    BY <1>0, <1>1, <2>1 DEF StepOK
  <2>6. /\ Op(r) \in Takes[q.pc] /\ Op(r) \notin {"register", "social"}
        /\ q.pc \notin {"idle", "unlock", "done", "lock", "mark", "read", "greet"}
        /\ codes' \subseteq {"verify", "change", "reset"} \X Addresses
    BY <1>0, <2>1 DEF Takes, IInv, TypeOK
  <2> QED
    BY <1>0, <1>1, <2>1, <2>4, <2>5, <2>6, GoStep
<1> QED
  BY <1>2, <1>3 DEF RenameLook

LEMMA RenameOK ==
  ASSUME IInv, NEW r \in Requests, Rename(r)
  PROVE  IInv'
<1>0. /\ At(r, "store") /\ Op(r) = "rename"
      /\ UNCHANGED <<codes, lockVars, filterVars, welcome>>
  BY DEF Rename
<1>1. /\ Busy(r) /\ ~At(r, "unlock") /\ users[r] = None /\ StepOK(r) /\ ~Creates(r)
      /\ req[r].name \in Names
  BY <1>0, BeforeAccount, AddressIsAddress DEF At, Creates
<1>2. PICK a \in Accounts : a = req[r].who /\ users[a] # None
  BY <1>0, <1>1 DEF StepOK
<1>3. CASE Answer(r, "error") /\ UNCHANGED tableVars
  BY <1>0, <1>1, <1>3, AnswerStep DEF tableVars
<1>4. CASE /\ Write(r, a, [users[a] EXCEPT !.name = req[r].name, !.placeholder = FALSE])
           /\ Answer(r, "ok")
  <2> DEFINE row == [users[a] EXCEPT !.name = req[r].name, !.placeholder = FALSE]
  <2>1. users[a] \in Row
    BY <1>2 DEF IInv, TypeOK, Table
  <2>2. row \in Row /\ row.verified = users[a].verified
    BY <1>1, <2>1 DEF Row
  <2> QED
    BY <1>0, <1>1, <1>2, <1>4, <2>2, WrittenStep
<1> QED
  BY <1>2, <1>3, <1>4 DEF Rename

LEMMA ReaddressLookOK ==
  ASSUME IInv, NEW r \in Requests, ReaddressLook(r)
  PROVE  IInv'
<1>0. /\ At(r, "look") /\ Op(r) = "readdress" /\ Noted(r)
      /\ UNCHANGED <<rowVars, lockVars, filterVars, welcome>>
  BY DEF ReaddressLook
<1>1. /\ Busy(r) /\ ~At(r, "unlock") /\ ~At(r, "lock") /\ users[r] = None /\ StepOK(r)
  BY <1>0, BeforeAccount DEF At
<1>2. CASE Answer(r, "refused") /\ UNCHANGED codes
  BY <1>0, <1>1, <1>2, AnswerStep DEF Creates
<1>3. CASE /\ Reachable(req[r].address) /\ Go(r, "code")
           /\ codes' = codes \cup {Code(r)}
  <2>1. PICK q \in Request :
           /\ req' = [req EXCEPT ![r] = q] /\ q.pc = "code" /\ q.op = Op(r)
           /\ q.at = req[r].at /\ q.out = req[r].out /\ q.who = req[r].who
           /\ q.name = req[r].name /\ q.address = req[r].address
    BY <1>3, GoRecord DEF Steps
  <2>2. req'[r] = q /\ users' = users
    BY <1>0, <2>1 DEF IInv, TypeOK, rowVars
  <2>3. ASSUME r \notin stale', NEW b \in Accounts, users[b] # None
        PROVE  Lower[users[b].address] # Lower[req[r].address]
    BY <1>0, <1>3, <2>3, NotedFresh DEF Reachable, Addressed
  <2>4. FoundOK(r)'
    BY <1>0, <2>1, <2>2, <2>3 DEF FoundOK, Op, At
  <2>5. q.who \in Accounts /\ users[q.who] # None
    BY <1>0, <1>1, <2>1 DEF StepOK
  <2>6. codes' \subseteq {"verify", "change", "reset"} \X Addresses
    BY <1>0, <1>3, AddressIsAddress DEF Code, Purpose, IInv, TypeOK
  <2>7. /\ Op(r) \in Takes[q.pc] /\ Op(r) \notin {"register", "social"}
        /\ q.pc \notin {"idle", "unlock", "done", "lock", "mark", "read", "greet"}
    BY <1>0, <2>1 DEF Takes
  <2> QED
    BY <1>0, <1>1, <2>1, <2>4, <2>5, <2>6, <2>7, GoStep
<1> QED
  BY <1>2, <1>3 DEF ReaddressLook

LEMMA ReaddressOK ==
  ASSUME IInv, NEW r \in Requests, Readdress(r)
  PROVE  IInv'
<1>0. /\ At(r, "store") /\ Op(r) = "readdress"
      /\ UNCHANGED <<codes, lockVars, filterVars, welcome>>
  BY DEF Readdress
<1>1. /\ Busy(r) /\ ~At(r, "unlock") /\ users[r] = None /\ StepOK(r) /\ ~Creates(r)
      /\ req[r].address \in Addresses
  BY <1>0, BeforeAccount, AddressIsAddress DEF At, Creates, Request
<1>2. PICK a \in Accounts : a = req[r].who /\ users[a] # None
  BY <1>0, <1>1 DEF StepOK
<1>3. CASE Answer(r, "error") /\ UNCHANGED tableVars
  BY <1>0, <1>1, <1>3, AnswerStep DEF tableVars
<1>4. CASE /\ Write(r, a, [users[a] EXCEPT !.address = req[r].address])
           /\ Answer(r, "ok")
  <2> DEFINE row == [users[a] EXCEPT !.address = req[r].address]
  <2>1. users[a] \in Row
    BY <1>2 DEF IInv, TypeOK, Table
  <2>2. row \in Row /\ row.verified = users[a].verified
    BY <1>1, <2>1 DEF Row
  <2> QED
    BY <1>0, <1>1, <1>2, <1>4, <2>2, WrittenStep
<1> QED
  BY <1>2, <1>3, <1>4 DEF Readdress

(***************************************************************************)
(* The reset of a password, finding an account, checking a name.           *)
(***************************************************************************)
LEMMA ResetLookOK ==
  ASSUME IInv, NEW r \in Requests, ResetLook(r)
  PROVE  IInv'
<1>0. /\ At(r, "look") /\ Op(r) = "reset"
      /\ UNCHANGED <<rowVars, stale, lockVars, filterVars, welcome>>
  BY DEF ResetLook, tableVars
<1>1. Busy(r) /\ ~At(r, "unlock") /\ ~At(r, "lock") /\ users[r] = None
  BY <1>0, BeforeAccount DEF At
<1>2. CASE Answer(r, "ok") /\ UNCHANGED codes
  BY <1>0, <1>1, <1>2, AnswerStep DEF Creates
<1>3. ASSUME NEW a \in Addressed(Address(r)), Go(r, "code"),
             codes' = codes \cup {<<"reset", Read[a].address>>}
      PROVE  IInv'
  <2>1. PICK q \in Request :
           /\ req' = [req EXCEPT ![r] = q] /\ q.pc = "code" /\ q.op = Op(r)
           /\ q.at = req[r].at /\ q.out = req[r].out /\ q.who = req[r].who
           /\ q.name = req[r].name /\ q.address = req[r].address
    BY <1>3, GoRecord DEF Steps
  <2>2. FoundOK(r)'
    <3>1. req'[r] = q
      BY <2>1 DEF IInv, TypeOK
    <3> QED
      BY <1>0, <2>1, <3>1 DEF FoundOK, Op, At
  <2>3. Read[a] \in Row
    BY <1>3, ReadRows DEF Addressed
  <2>4. codes' \subseteq {"verify", "change", "reset"} \X Addresses
    BY <1>3, <2>3 DEF IInv, TypeOK, Row
  <2>5. /\ Op(r) \in Takes[q.pc] /\ Op(r) \notin {"rename", "readdress", "verify", "register"}
        /\ q.pc \notin {"idle", "unlock", "done", "lock", "store", "mark", "read", "greet"}
    BY <1>0, <2>1 DEF Takes
  <2> QED
    BY <1>0, <1>1, <2>1, <2>2, <2>4, <2>5, GoStep
<1> QED
  BY <1>2, <1>3 DEF ResetLook

LEMMA FindOK ==
  ASSUME IInv, NEW r \in Requests, Find(r)
  PROVE  IInv'
<1>0. /\ At(r, "find") /\ Noted(r)
      /\ UNCHANGED <<rowVars, codes, lockVars, filterVars, welcome>>
  BY DEF Find
<1>1. /\ Busy(r) /\ ~At(r, "unlock") /\ ~At(r, "lock") /\ users[r] = None
      /\ Op(r) \in {"reset", "verify"} /\ req[r] \in Request
  BY <1>0, BeforeAccount DEF At, Takes, IInv, TypeOK
<1>2. CASE Answer(r, "refused")
  BY <1>0, <1>1, <1>2, AnswerStep DEF Creates
<1>3. ASSUME NEW a \in Addressed(Address(r)),
             req' = [req EXCEPT ![r].who = a, ![r].pc = AfterFind[Op(r)]]
      PROVE  IInv'
  <2> DEFINE q == [req[r] EXCEPT !.who = a, !.pc = AfterFind[Op(r)]]
  <2>1. a \in Accounts /\ Read[a] # None /\ Lower[Read[a].address] = Lower[Address(r)]
    BY <1>3 DEF Addressed
  <2>2. /\ AfterFind[Op(r)] \in {"store", "mark"}
        /\ AfterFind[Op(r)] = "store" <=> Op(r) = "reset"
    BY <1>1 DEF AfterFind
  <2>3. q \in Request
    BY <1>1, <2>1, <2>2 DEF Request, Steps
  <2>4. req' = [req EXCEPT ![r] = q]
    BY <1>1, <1>3 DEF IInv, TypeOK
  <2>5. /\ q.pc = AfterFind[Op(r)] /\ q.op = Op(r) /\ q.at = req[r].at
        /\ q.out = req[r].out /\ q.who = a /\ q.address = req[r].address
        /\ q.name = req[r].name
    BY <1>1 DEF Request, Op
  <2> HIDE DEF q
  <2>6. req'[r] = q /\ users' = users
    BY <1>0, <2>4 DEF IInv, TypeOK, rowVars
  <2>7. FoundOK(r)'
    BY <1>1, <2>2, <2>5, <2>6 DEF FoundOK, Op, At
  <2>8. q.who \in Accounts /\ users[q.who] # None
    BY <2>1, <2>5, ReadRows
  <2>9. /\ Op(r) \in Takes[q.pc] /\ Op(r) \notin {"rename", "readdress", "register", "social"}
        /\ q.pc \notin {"idle", "unlock", "done", "lock", "read", "greet"}
        /\ codes' \subseteq {"verify", "change", "reset"} \X Addresses
    BY <1>0, <1>1, <2>2, <2>5 DEF Takes, IInv, TypeOK
  <2> QED
    BY <1>0, <1>1, <2>3, <2>4, <2>5, <2>7, <2>8, <2>9, GoStep
<1> QED
  BY <1>2, <1>3 DEF Find

LEMMA ResetOK ==
  ASSUME IInv, NEW r \in Requests, Reset(r)
  PROVE  IInv'
<1>0. /\ At(r, "store") /\ Op(r) = "reset" /\ Answer(r, "ok")
      /\ UNCHANGED <<codes, lockVars, filterVars, welcome>>
  BY DEF Reset
<1>1. Busy(r) /\ StepOK(r) /\ ~Creates(r) /\ r \in Accounts
  BY <1>0, BeforeAccount DEF At, Creates
<1>2. PICK a \in Accounts : a = req[r].who /\ users[a] # None
  BY <1>0, <1>1 DEF StepOK, At
<1> DEFINE row == [users[a] EXCEPT !.password = r]
<1>3. users[a] \in Row
  BY <1>2 DEF IInv, TypeOK, Table
<1>4. row \in Row /\ row.verified = users[a].verified
  BY <1>1, <1>3 DEF Row
<1>5. Write(r, a, row)
  BY <1>2 DEF Reset
<1> QED
  BY <1>0, <1>1, <1>2, <1>4, <1>5, WrittenStep

LEMMA CheckOK ==
  ASSUME IInv, NEW r \in Requests, Check(r)
  PROVE  IInv'
<1>0. /\ req[r].pc \in {"filter", "look"}
      /\ UNCHANGED <<rowVars, codes, lockVars, filterVars, welcome>>
      /\ Noted(r) \/ UNCHANGED stale
  BY DEF Check, CheckFilter, CheckLook, At, tableVars
<1>1. /\ Busy(r) /\ ~At(r, "unlock") /\ ~At(r, "lock") /\ users[r] = None
      /\ Op(r) = "check"
  BY <1>0, BeforeAccount DEF At, Takes, Check, CheckFilter, CheckLook
<1>2. ASSUME NEW o \in {"ok", "refused"}, Answer(r, o)
      PROVE  IInv'
  BY <1>0, <1>1, <1>2, AnswerStep DEF Creates
<1>3. CASE Go(r, "look")
  <2>1. PICK q \in Request :
           /\ req' = [req EXCEPT ![r] = q] /\ q.pc = "look" /\ q.op = Op(r)
           /\ q.at = req[r].at /\ q.out = req[r].out /\ q.who = req[r].who
           /\ q.name = req[r].name /\ q.address = req[r].address
    BY <1>3, GoRecord DEF Steps
  <2>2. FoundOK(r)'
    <3>1. req'[r] = q
      BY <2>1 DEF IInv, TypeOK
    <3> QED
      BY <1>1, <2>1, <3>1 DEF FoundOK, Op, At
  <2>3. /\ Op(r) \in Takes[q.pc] /\ Op(r) \notin {"rename", "readdress", "verify", "register"}
        /\ q.pc \notin {"idle", "unlock", "done", "lock", "store", "mark", "read", "greet"}
        /\ codes' \subseteq {"verify", "change", "reset"} \X Addresses
    BY <1>0, <1>1, <2>1 DEF Takes, IInv, TypeOK
  <2> QED
    BY <1>0, <1>1, <2>1, <2>2, <2>3, GoStep
<1> QED
  BY <1>2, <1>3 DEF Check, CheckFilter, CheckLook

(***************************************************************************)
(* The beginning, time and faults.                                         *)
(***************************************************************************)
LEMMA BeginOK ==
  ASSUME IInv, NEW r \in Requests, Begin(r)
  PROVE  IInv'
<1>0. /\ At(r, "idle") /\ OneOK(r) /\ LeaseOK(r) /\ r \in Accounts
      /\ UNCHANGED <<rowVars, stale, lockVars, filterVars, welcome>>
  BY PerRequest DEF Begin, Accounts, tableVars
<1>1. users[r] = None /\ r \notin leases /\ ~InLock(r)
  BY <1>0 DEF OneOK, AccountOK, LeaseOK, InLock, Busy, At
<1>2. PICK o \in Does[r], n \in Names, d \in Addresses, p \in Processes,
           a \in Accounts \cup {None} :
        /\ IF o \in {"rename", "readdress"} THEN a # None /\ users[a] # None
                                            ELSE a = None
        /\ req' = [req EXCEPT ![r] = [pc |-> First(o), op |-> o, at |-> p,
                                      name |-> n, address |-> d, who |-> a,
                                      tries |-> 0, out |-> "none"]]
        /\ codes' = IF o \in {"register", "verify"} THEN codes \cup {<<"verify", d>>}
                                                    ELSE codes
  BY DEF Begin
<1> DEFINE q == [pc |-> First(o), op |-> o, at |-> p, name |-> n, address |-> d,
                 who |-> a, tries |-> 0, out |-> "none"]
<1>3. /\ o \in Ops /\ First(o) \in {"lock", "code", "filter", "look"}
      /\ o \in Takes[First(o)]
      /\ First(o) = "lock" <=> o = "register"
      /\ First(o) = "code" => o = "verify"
  BY <1>2, DoesAssumption DEF First, Takes, Ops
<1>4. q \in Request
  BY <1>3, AttemptsAssumption DEF Request, Steps
<1>5. req' = [req EXCEPT ![r] = q] /\ req'[r] = q
  BY <1>2 DEF IInv, TypeOK
<1>6. q.pc = First(o) /\ q.op = o /\ q.at = p /\ q.who = a /\ q.out = "none"
  OBVIOUS
<1> HIDE DEF q
<1>7. TableStep(r)
  BY <1>0, NotedTable
<1>8. UNCHANGED <<users, shared, leases, overrun, filter, unloaded, welcome>>
  BY <1>0 DEF rowVars, lockVars, filterVars
<1>9. OneOK(r)'
  <2>1. StepOK(r)'
    <3>1. /\ q.op \in Takes[q.pc] /\ q.at \in Processes /\ q.out # "ok"
          /\ q.pc \notin {"store", "mark"}
      BY <1>3, <1>6
    <3>2. q.op \in {"rename", "readdress"} => q.who \in Accounts /\ users[q.who] # None
      BY <1>2, <1>6
    <3> QED
      BY <1>5, <1>6, <1>8, <3>1, <3>2 DEF StepOK, Op, At, Busy, Creates
  <2>2. AccountOK(r)' /\ Answered(r)' /\ Known(r)'
    BY <1>1, <1>3, <1>5, <1>6, <1>8 DEF AccountOK, Answered, Known, Op, At, Creates
  <2>3. FoundOK(r)'
    BY <1>3, <1>5, <1>6 DEF FoundOK, Op, At
  <2> QED
    BY <2>1, <2>2, <2>3 DEF OneOK
<1>10. \A s \in Requests : LeaseOK(s)'
  BY <1>1, <1>3, <1>4, <1>5, <1>6, <1>8, LocksKept
<1>11. /\ codes' \subseteq {"verify", "change", "reset"} \X Addresses
       /\ leases' \subseteq Requests /\ overrun' \subseteq Requests
       /\ filter' \in [Processes -> SUBSET Filter!Bits]
       /\ r \in welcome' => users'[r] # None
  BY <1>0, <1>2, <1>8 DEF IInv, TypeOK, RowsStay
<1> QED
  BY <1>4, <1>5, <1>7, <1>8, <1>9, <1>10, <1>11, MoveOK

LEMMA ThrowOK ==
  ASSUME IInv, NEW r \in Requests, Throw(r)
  PROVE  IInv'
BY AnswerStep DEF Throw, tableVars

(* Nothing a request is judged by changes.                                  *)
LEMMA StillOK ==
  ASSUME NEW s \in Requests, OneOK(s),
         UNCHANGED <<users, renamed, stale, req, welcome, filter, unloaded>>
  PROVE  OneOK(s)'
<1>1. StepOK(s)' /\ AccountOK(s)' /\ Answered(s)'
  BY DEF OneOK, StepOK, AccountOK, Answered, Op, At, Busy, Creates
<1>2. FoundOK(s)' /\ Known(s)'
  BY DEF OneOK, FoundOK, Known, Op, At, Creates, Filter!Has, Filter!getHashes
<1> QED
  BY <1>1, <1>2 DEF OneOK

LEMMA LeaseEndsOK ==
  ASSUME IInv, NEW r \in Requests, LeaseEnds(r)
  PROVE  IInv'
<1>0. /\ r \in leases /\ leases' = leases \ {r}
      /\ overrun' = IF Busy(r) THEN overrun \cup {r} ELSE overrun
      /\ UNCHANGED <<users, replica, renamed, stale, codes, shared, filter, unloaded,
                     welcome, req>>
  BY DEF LeaseEnds, tableVars, rowVars, filterVars
<1>1. TypeOK' /\ RowsStay'
  BY <1>0 DEF IInv, TypeOK, RowsStay
<1>2. \A s \in Requests : OneOK(s)'
  BY <1>0, PerRequest, StillOK
<1>3. ASSUME NEW s \in Requests
      PROVE  LeaseOK(s)'
  <2>1. LeaseOK(s) /\ leases \subseteq Requests
    BY DEF IInv, TypeOK
  <2>2. \A t \in Requests : InLock(t)' <=> InLock(t)
    BY <1>0 DEF InLock, Busy, Op, At
  <2>3. (InLock(s) /\ s \notin overrun => s \in leases)'
    BY <1>0, <2>1, <2>2 DEF LeaseOK, InLock
  <2>4. (s \in leases => Op(s) = "register" /\ (InLock(s) \/ (shared /\ At(s, "done"))))'
    BY <1>0, <2>1, <2>2 DEF LeaseOK, Op, At
  <2>5. (\A t \in leases : s \in leases /\ SameLock(t, s) => t = s)'
    BY <1>0, <2>1 DEF LeaseOK, SameLock
  <2> QED
    BY <2>3, <2>4, <2>5 DEF LeaseOK
<1> QED
  BY <1>1, <1>2, <1>3 DEF IInv, OneOK, OwnNamesKnown, Known

LEMMA LocksStay ==
  ASSUME IInv, UNCHANGED <<shared, leases, overrun, req>>
  PROVE  \A s \in Requests : LeaseOK(s)'
<1>1. \A s \in Requests : LeaseOK(s)
  BY DEF IInv
<1> QED
  BY <1>1 DEF LeaseOK, InLock, SameLock, Op, At, Busy

LEMMA ReplicateOK ==
  ASSUME IInv, Replicate
  PROVE  IInv'
<1>0. /\ replica' = users
      /\ UNCHANGED <<users, renamed, stale, codes, shared, leases, overrun, filter,
                     unloaded, welcome, req>>
  BY DEF Replicate, lockVars, filterVars
<1>1. TypeOK' /\ RowsStay'
  BY <1>0 DEF IInv, TypeOK, RowsStay
<1>2. \A s \in Requests : OneOK(s)'
  BY <1>0, PerRequest, StillOK
<1> QED
  BY <1>0, <1>1, <1>2, LocksStay DEF IInv, OneOK, OwnNamesKnown, Known

LEMMA RestartOK ==
  ASSUME IInv, NEW p \in Processes, Restart(p)
  PROVE  IInv'
<1>0. /\ req' = [r \in Requests |->
                   IF req[r].at = p /\ Busy(r)
                   THEN [Reply(r, "error") EXCEPT !.pc = "done", !.at = None]
                   ELSE req[r]]
      /\ leases' = IF shared THEN leases ELSE {r \in leases : req[r].at # p}
      /\ UNCHANGED <<users, replica, renamed, stale, codes, shared, overrun, welcome>>
  BY DEF Restart, tableVars, rowVars
<1>1. ASSUME NEW s \in Requests, req[s].at = p, Busy(s)
      PROVE  /\ req'[s] \in Request /\ req'[s].pc = "done" /\ req'[s].op = Op(s)
             /\ req'[s].out = "error"
             /\ Creates(s) => req'[s].name = req[s].name
  <2>1. Reply(s, "error") \in Request
    BY ReplyIsRequest
  <2>2. req'[s] = [Reply(s, "error") EXCEPT !.pc = "done", !.at = None]
    BY <1>0, <1>1
  <2>3. /\ Reply(s, "error").op = Op(s) /\ Reply(s, "error").out = "error"
        /\ Creates(s) => Reply(s, "error").name = req[s].name
    BY DEF Reply
  <2> QED
    BY <2>1, <2>2, <2>3 DEF Request, Steps
<1>2. \A s \in Requests : ~(req[s].at = p /\ Busy(s)) => req'[s] = req[s]
  BY <1>0
<1>3. \A a \in Accounts : Read[a] # None => Lower[Read[a].name] \in Names
  BY ReadRows, LowerKeeps DEF Row
<1>4. Loadable \in SUBSET Names
  BY <1>3 DEF Loadable
<1>5. PICK f \in SUBSET Filter!Bits :
        /\ filter' = [filter EXCEPT ![p] = f]
        /\ unloaded' \in {unloaded \cup {p}, unloaded \ {p}}
        /\ p \notin unloaded' => f = Filter!Loaded(Loadable) /\ Read = users
  <2>1. Filter!Loaded(Loadable) \in SUBSET Filter!Bits
    BY <1>4, FilterLoads
  <2>2. CASE /\ filter' = [filter EXCEPT ![p] = Filter!Loaded(Loadable)]
             /\ unloaded' = IF Read = users THEN unloaded \ {p} ELSE unloaded \cup {p}
    BY <2>1, <2>2
  <2>3. CASE filter' = [filter EXCEPT ![p] = {}] /\ unloaded' = unloaded \cup {p}
    <3> WITNESS {} \in SUBSET Filter!Bits
    <3> QED
      BY <2>3
  <2> QED
    BY <2>2, <2>3 DEF Restart
<1>6. TypeOK'
  <2>1. req' \in [Requests -> Request]
    BY <1>0, <1>1, <1>2 DEF IInv, TypeOK
  <2> QED
    BY <1>0, <1>5, <2>1 DEF IInv, TypeOK
<1>7. RowsStay'
  BY <1>0 DEF IInv, RowsStay
<1>8. ASSUME NEW s \in Requests
      PROVE  OneOK(s)'
  <2>0. OneOK(s) /\ s \in Accounts /\ Op(s) \in Ops
    BY PerRequest DEF Accounts, IInv, TypeOK, Request, Op
  <2>1. CASE req[s].at = p /\ Busy(s)
    <3>1. StepOK(s)'
      BY <1>1, <2>0, <2>1 DEF StepOK, Op, At, Busy, Creates, Takes
    <3>2. AccountOK(s)'
      BY <1>0, <1>1, <2>0, <2>1 DEF OneOK, AccountOK, Op, At, Creates
    <3>3. Answered(s)' /\ FoundOK(s)' /\ Known(s)'
      BY <1>1, <2>1 DEF Answered, FoundOK, Known, Op, At, Creates
    <3> QED
      BY <3>1, <3>2, <3>3 DEF OneOK
  <2>2. CASE ~(req[s].at = p /\ Busy(s))
    <3>0. req'[s] = req[s]
      BY <1>2, <2>2
    <3>1. StepOK(s)' /\ AccountOK(s)' /\ Answered(s)'
      BY <1>0, <2>0, <3>0 DEF OneOK, StepOK, AccountOK, Answered, Op, At, Busy, Creates
    <3>2. FoundOK(s)'
      BY <1>0, <2>0, <3>0 DEF OneOK, FoundOK, Op, At
    <3>3. Known(s)'
      <4> SUFFICES ASSUME Creates(s), req[s].out = "ok", users[s] # None,
                          req[s].at \notin unloaded', s \notin renamed
                   PROVE  Filter!Has(filter'[req[s].at], Lower[users[s].name])
        BY <1>0, <3>0 DEF Known, Creates, Op, Filter!Has, Filter!getHashes
      <4>1. req[s].at \in Processes
        BY <2>0 DEF OneOK, StepOK
      <4>2. CASE req[s].at = p
        <5>1. filter'[p] = Filter!Loaded(Loadable) /\ Read = users
          BY <1>5, <4>2 DEF IInv, TypeOK
        <5>2. Lower[users[s].name] \in Loadable
          BY <2>0, <5>1 DEF Loadable
        <5> QED
          BY <1>4, <4>2, <5>1, <5>2, FilterLoads
      <4>3. CASE req[s].at # p
        <5>1. filter'[req[s].at] = filter[req[s].at] /\ req[s].at \notin unloaded
          BY <1>5, <4>1, <4>3 DEF IInv, TypeOK
        <5> QED
          BY <2>0, <5>1 DEF OneOK, Known
      <4> QED
        BY <4>2, <4>3
    <3> QED
      BY <3>1, <3>2, <3>3 DEF OneOK
  <2> QED
    BY <2>1, <2>2
<1>9. ASSUME NEW s \in Requests
      PROVE  LeaseOK(s)'
  <2>1. /\ leases \subseteq Requests /\ leases' \subseteq leases
        /\ \A t \in Requests : LeaseOK(t)
    BY <1>0 DEF IInv, TypeOK
  <2>2. ASSUME NEW t \in Requests, InLock(t)'
        PROVE  InLock(t) /\ req'[t] = req[t] /\ req[t].at # p
    <3>1. ~(req[t].at = p /\ Busy(t))
      BY <1>1, <2>2 DEF InLock, Busy
    <3> QED
      BY <1>2, <2>2, <3>1 DEF InLock, Busy, Op, At
  <2>3. ASSUME NEW t \in leases'
        PROVE  /\ Op(t) = "register" /\ req'[t].op = "register"
               /\ req'[t].name = req[t].name
               /\ shared \/ req'[t].at = req[t].at
               /\ InLock(t)' \/ (shared /\ req'[t].pc = "done")
    <3>1. LeaseOK(t) /\ t \in Requests /\ Op(t) = "register" /\ Creates(t)
      BY <2>1, <2>3 DEF LeaseOK, Creates
    <3>2. CASE req[t].at = p /\ Busy(t)
      BY <1>0, <1>1, <2>3, <3>1, <3>2
    <3>3. CASE ~(req[t].at = p /\ Busy(t))
      BY <1>2, <2>1, <2>3, <3>1, <3>3 DEF LeaseOK, InLock, Op, At, Busy
    <3> QED
      BY <3>2, <3>3
  <2>4. (InLock(s) /\ s \notin overrun => s \in leases)'
    BY <1>0, <2>1, <2>2 DEF LeaseOK
  <2>5. (s \in leases => Op(s) = "register" /\ (InLock(s) \/ (shared /\ At(s, "done"))))'
    BY <1>0, <2>3 DEF Op, At
  <2>6. ASSUME NEW t \in leases', s \in leases', SameLock(t, s)'
        PROVE  t = s
    <3>1. SameLock(t, s)
      BY <1>0, <2>3, <2>6 DEF SameLock
    <3> QED
      BY <2>1, <2>6, <3>1 DEF LeaseOK
  <2> QED
    BY <2>4, <2>5, <2>6 DEF LeaseOK
<1> QED
  BY <1>6, <1>7, <1>8, <1>9 DEF IInv, OneOK, OwnNamesKnown, Known

(***************************************************************************)
(* The theorems.                                                           *)
(***************************************************************************)
LEMMA InitOK == Init => IInv
<1> SUFFICES ASSUME Init PROVE IInv
  OBVIOUS
<1>1. FirstRow \in Row /\ FirstRow # None /\ Founder \in Accounts
  <2>1. Founder \in Accounts
    BY DEF Accounts
  <2>2. FirstRow \in Row
    BY <2>1, FirstAssumption DEF FirstRow, Row
  <2> QED
    BY <2>1, <2>2, RowAssumption
<1>2. users \in Table /\ \A r \in Requests : users[r] = None
  BY <1>1, NoneAssumption DEF Init, Table, Accounts
<1>3. \A p \in Processes : filter[p] \in SUBSET Filter!Bits
  <2>1. {Lower[FirstName]} \in SUBSET Names
    BY FirstAssumption, LowerKeeps
  <2> QED
    BY <2>1, FilterLoads DEF Init
<1>4. TypeOK
  BY <1>1, <1>2, <1>3, IdleIsRequest DEF Init, TypeOK
<1>5. RowsStay
  BY <1>1 DEF Init, RowsStay
<1>6. ASSUME NEW r \in Requests
      PROVE  OneOK(r) /\ LeaseOK(r)
  <2>1. /\ req[r].pc = "idle" /\ Op(r) = "check" /\ req[r].out = "none"
        /\ users[r] = None /\ leases = {}
    BY <1>2 DEF Init, Idle, Op
  <2>2. StepOK(r) /\ AccountOK(r) /\ Answered(r)
    BY <2>1 DEF StepOK, AccountOK, Answered, Busy, At, Creates, Takes, Ops
  <2>3. FoundOK(r) /\ Known(r) /\ LeaseOK(r)
    BY <2>1 DEF FoundOK, Known, LeaseOK, InLock, Busy, At, Creates
  <2> QED
    BY <2>2, <2>3 DEF OneOK
<1> QED
  BY <1>4, <1>5, <1>6, PerRequest

LEMMA NextOK == IInv /\ [Next]_vars => IInv'
<1> SUFFICES ASSUME IInv, [Next]_vars PROVE IInv'
  OBVIOUS
<1>1. ASSUME NEW r \in Requests, Begin(r) \/ LeaseEnds(r) \/ Throw(r)
      PROVE  IInv'
  BY <1>1, BeginOK, LeaseEndsOK, ThrowOK
<1>2. ASSUME NEW r \in Requests, SignUp(r)
      PROVE  IInv'
  BY <1>2, LockOK, VerifyOK, HashOK, RegisterOK, GreetOK, UnlockOK DEF SignUp
<1>3. ASSUME NEW r \in Requests, Social(r)
      PROVE  IInv'
  BY <1>3, SocialLookOK, SocialCreateOK, MarkOK, ReadBackOK DEF Social
<1>4. ASSUME NEW r \in Requests, Profile(r)
      PROVE  IInv'
  BY <1>4, RenameLookOK, RenameOK, ReaddressLookOK, ReaddressOK DEF Profile
<1>5. ASSUME NEW r \in Requests, Recovery(r) \/ Check(r)
      PROVE  IInv'
  BY <1>5, ResetLookOK, FindOK, ResetOK, CheckOK DEF Recovery
<1>6. ASSUME NEW p \in Processes, Restart(p)
      PROVE  IInv'
  BY <1>6, RestartOK
<1>7. CASE Replicate
  BY <1>7, ReplicateOK
<1>8. CASE UNCHANGED vars
  <2>1. TypeOK' /\ RowsStay'
    BY <1>8 DEF vars, IInv, TypeOK, RowsStay
  <2>2. \A s \in Requests : OneOK(s)'
    BY <1>8, PerRequest, StillOK DEF vars
  <2>3. \A s \in Requests : LeaseOK(s)'
    BY <1>8, LocksStay DEF vars
  <2> QED
    BY <2>1, <2>2, <2>3 DEF IInv, OneOK, OwnNamesKnown, Known
<1> QED
  BY <1>1, <1>2, <1>3, <1>4, <1>5, <1>6, <1>7, <1>8 DEF Next

(* IInv is an invariant, whatever people send and whatever fails.           *)
THEOREM InductiveInvariant == Spec => []IInv
<1> QED
  BY InitOK, NextOK, PTL DEF Spec

(* The twelve variables keep their types.                                   *)
THEOREM TypesHold == Spec => []TypeOK
<1>1. IInv => TypeOK
  BY DEF IInv
<1> QED
  BY <1>1, InductiveInvariant, PTL

(* What a sign-up or a social login answers is true of the table.           *)
THEOREM AnswersAreTrue == Spec => []AnswersHold
<1>1. IInv => AnswersHold
  BY DEF IInv, RowsStay, Answered, AnswersHold
<1> QED
  BY <1>1, InductiveInvariant, PTL

(* No two sign-ups for one name are within its lock at once.                *)
THEOREM NameLockWorks == Spec => []NameLockExcludes
<1>1. IInv => NameLockExcludes
  BY DEF IInv, LeaseOK, SameLock, NameLockExcludes
<1> QED
  BY <1>1, InductiveInvariant, PTL

(* A process knows the names of the accounts it made.                       *)
THEOREM FilterKnowsItsOwn == Spec => []OwnNamesKnown
<1>1. IInv => OwnNamesKnown
  BY DEF IInv
<1> QED
  BY <1>1, InductiveInvariant, PTL

(* A row is written by the request that is at the step, and answers "ok".   *)
LEMMA OthersStay ==
  ASSUME IInv, NEW s \in Requests, NEW r \in Requests \ {s},
         \/ Begin(s) \/ SignUp(s) \/ Social(s) \/ Profile(s) \/ Recovery(s) \/ Check(s)
         \/ LeaseEnds(s) \/ Throw(s)
  PROVE  req'[r] = req[r]
<1>1. ASSUME NEW q, req' = [req EXCEPT ![s] = q]
      PROVE  req'[r] = req[r]
  BY <1>1 DEF IInv, TypeOK
<1>2. ASSUME NEW o, Answer(s, o)
      PROVE  req'[r] = req[r]
  BY <1>2 DEF Answer, IInv, TypeOK
<1>3. ASSUME NEW p, Go(s, p)
      PROVE  req'[r] = req[r]
  BY <1>3 DEF Go, IInv, TypeOK
<1>4. CASE Begin(s)
  BY <1>1, <1>4 DEF Begin
<1>5. CASE SignUp(s)
  BY <1>2, <1>3, <1>5
     DEF SignUp, Lock, Verify, Breached, Hash, Register, Greet, Unlock
<1>6. CASE Social(s)
  <2>1. ASSUME NEW n, req' = [req EXCEPT ![s].tries = Tried(s), ![s].name = n]
        PROVE  req'[r] = req[r]
    BY <2>1 DEF IInv, TypeOK
  <2> QED
    BY <1>2, <1>3, <1>6, <2>1 DEF Social, SocialLook, SocialCreate, Mark, ReadBack
<1>7. CASE Profile(s)
  BY <1>2, <1>3, <1>7 DEF Profile, RenameLook, Rename, ReaddressLook, Readdress
<1>8. CASE Recovery(s)
  <2>1. ASSUME NEW a, req' = [req EXCEPT ![s].who = a, ![s].pc = AfterFind[Op(s)]]
        PROVE  req'[r] = req[r]
    BY <2>1 DEF IInv, TypeOK
  <2> QED
    BY <1>2, <1>3, <1>8, <2>1 DEF Recovery, ResetLook, Find, Reset
<1>9. CASE Check(s)
  BY <1>2, <1>3, <1>9 DEF Check, CheckFilter, CheckLook
<1>10. CASE LeaseEnds(s) \/ Throw(s)
  BY <1>2, <1>10 DEF LeaseEnds, Throw
<1> QED
  BY <1>4, <1>5, <1>6, <1>7, <1>8, <1>9, <1>10

LEMMA Writers ==
  ASSUME IInv, Next, NEW r \in Requests, req[r].pc \in {"store", "mark"},
         Op(r) # "social", req'[r].out = "ok"
  PROVE  Rename(r) \/ Readdress(r) \/ Reset(r) \/ Mark(r)
<1>1. req[r].out = "none"
  BY PerRequest DEF OneOK, StepOK
<1>2. PICK s \in Requests : \/ Begin(s) \/ SignUp(s) \/ Social(s) \/ Profile(s)
                            \/ Recovery(s) \/ Check(s) \/ LeaseEnds(s) \/ Throw(s)
  <2>1. ~Replicate
    BY <1>1 DEF Replicate
  <2>2. ASSUME NEW p \in Processes, Restart(p)
        PROVE  FALSE
    <3>1. CASE req[r].at = p /\ Busy(r)
      <4>1. req'[r] = [Reply(r, "error") EXCEPT !.pc = "done", !.at = None]
        BY <2>2, <3>1 DEF Restart
      <4>2. Reply(r, "error").out = "error" /\ Reply(r, "error") \in Request
        BY ReplyIsRequest DEF Reply
      <4> QED
        BY <4>1, <4>2 DEF Request
    <3>2. CASE ~(req[r].at = p /\ Busy(r))
      BY <1>1, <2>2, <3>2 DEF Restart
    <3> QED
      BY <3>1, <3>2
  <2> QED
    BY <2>1, <2>2 DEF Next
<1>3. s = r
  BY <1>1, <1>2, OthersStay
<1>4. ASSUME Answer(r, "error") \/ Answer(r, "refused")
      PROVE  FALSE
  <2>1. ASSUME NEW o, Answer(r, o)
        PROVE  req'[r].out = o
    BY <2>1 DEF Answer, Reply, IInv, TypeOK
  <2> QED
    BY <1>4, <2>1
<1>5. ~LeaseEnds(r) /\ ~Throw(r) /\ ~Begin(r)
  BY <1>1, <1>4 DEF LeaseEnds, Throw, Begin, At
<1>6. ~SignUp(r)
  BY <1>4 DEF SignUp, Lock, Verify, Hash, Register, Greet, Unlock, At
<1> QED
  BY <1>2, <1>3, <1>5, <1>6
     DEF Social, SocialLook, SocialCreate, ReadBack, Profile, RenameLook, ReaddressLook,
         Recovery, ResetLook, Find, Check, CheckFilter, CheckLook, At

(* A change that was checked against the table as it is makes no twins.     *)
THEOREM CheckedChangesMakeNoTwins == Spec => TwinsNeedStaleCheck
<1> DEFINE A == \A r \in Requests :
                  /\ Op(r) \in {"rename", "readdress"} /\ At(r, "store")
                  /\ req'[r].out = "ok" /\ r \notin stale
                  => Twins(users', req[r].who) \subseteq Twins(users, req[r].who)
<1>1. IInv /\ Next => A
  <2> SUFFICES ASSUME IInv, Next, NEW r \in Requests,
                      Op(r) \in {"rename", "readdress"}, At(r, "store"),
                      req'[r].out = "ok", r \notin stale
               PROVE  Twins(users', req[r].who) \subseteq Twins(users, req[r].who)
    OBVIOUS
  <2>1. Rename(r) \/ Readdress(r)
    BY Writers DEF At, Reset, Mark
  <2>2. PICK a \in Accounts : a = req[r].who /\ users[a] # None
    BY PerRequest DEF OneOK, StepOK, At
  <2>3. FoundOK(r) /\ users \in Table
    BY PerRequest DEF OneOK, IInv, TypeOK
  <2>4. ~Answer(r, "error")
    BY DEF Answer, Reply, IInv, TypeOK
  <2>5. users[a] \in Row
    BY <2>2, <2>3 DEF Table
  <2>6. CASE Rename(r)
    <3>1. users' = [users EXCEPT ![a] = [users[a] EXCEPT !.name = req[r].name,
                                                        !.placeholder = FALSE]]
      BY <2>2, <2>4, <2>6 DEF Rename, Write
    <3>2. /\ users'[a].name = req[r].name /\ users'[a].address = users[a].address
          /\ \A b \in Accounts \ {a} : users'[b] = users[b]
      BY <2>3, <2>5, <3>1 DEF Table, Row
    <3>3. \A b \in Accounts \ {a} :
            users[b] # None /\ Lower[users[b].name] = Lower[req[r].name] =>
              Lower[users[a].name] = Lower[req[r].name]
      BY <2>2, <2>3, <2>6 DEF FoundOK, Rename
    <3> QED
      BY <2>2, <3>2, <3>3 DEF Twins
  <2>7. CASE Readdress(r)
    <3>1. users' = [users EXCEPT ![a] = [users[a] EXCEPT !.address = req[r].address]]
      BY <2>2, <2>4, <2>7 DEF Readdress, Write
    <3>2. /\ users'[a].address = req[r].address /\ users'[a].name = users[a].name
          /\ \A b \in Accounts \ {a} : users'[b] = users[b]
      BY <2>3, <2>5, <3>1 DEF Table, Row
    <3>3. \A b \in Accounts :
            users[b] # None => Lower[users[b].address] # Lower[req[r].address]
      BY <2>3, <2>7 DEF FoundOK, Readdress, At
    <3> QED
      BY <2>2, <3>2, <3>3 DEF Twins
  <2> QED
    BY <2>1, <2>6, <2>7
<1>2. IInv /\ [Next]_vars => [A]_vars
  BY <1>1
<1>3. Spec => [][A]_vars
  BY <1>2, InductiveInvariant, PTL DEF Spec
<1> QED
  BY <1>3 DEF TwinsNeedStaleCheck
=============================================================================
