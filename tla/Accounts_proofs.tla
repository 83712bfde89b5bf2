---------------------------- MODULE Accounts_proofs ----------------------------
(***************************************************************************)
(* Proofs about Accounts for any finite set of sign-ins, any set of        *)
(* confirmations, any limit of the lockout and any faults.                 *)
(***************************************************************************)
EXTENDS Accounts, FiniteSetTheorems, TLAPS

LEMMA Bounds ==
  /\ MaxAttempts \in Nat \ {0}
  /\ Cardinality(Logins) \in Nat
  /\ MostGuesses \in Nat
  /\ MostGuesses = MaxAttempts + Cardinality(Logins) - 1
<1>1. MaxAttempts \in Nat \ {0} /\ Cardinality(Logins) \in Nat
  BY LimitAssumption, FS_CardinalityType
<1> QED
  BY <1>1 DEF MostGuesses

\* What the counters of one window become.
LEMMA Counters ==
  ASSUME attempts \in 0..MaxAttempts, guesses \in 0..(MostGuesses + 1)
  PROVE  /\ 0 \in 0..MaxAttempts /\ 0 \in 0..(MostGuesses + 1)
         /\ Misses \in 0..MaxAttempts
         /\ Locks(attempts + 1) \in BOOLEAN
         /\ guesses <= MostGuesses => guesses + 1 \in 0..(MostGuesses + 1)
BY Bounds DEF Misses, Locks

LEMMA InitOK == Init => IInv
<1> SUFFICES ASSUME Init PROVE IInv
  OBVIOUS
<1>2. TypeOK
  <2>1. guesses \in 0..(MostGuesses + 1) /\ attempts \in 0..MaxAttempts
    BY Bounds DEF Init
  <2> QED
    BY <2>1 DEF Init, TypeOK
<1>3. Missed = {} /\ Cardinality(Missed) = 0
  <2>1. Missed = {}
    BY DEF Init, Missed
  <2> QED BY <2>1, FS_EmptySet
<1>4. GuessesCounted
  BY <1>3, LimitAssumption DEF Init, GuessesCounted
<1>5. KeysFound /\ DeletionCounted /\ NoAccessLeft
  BY DEF Init, KeysFound, DeletionCounted, NoAccessLeft, Looked, Deleting, Underway
<1> QED
  BY <1>2, <1>4, <1>5 DEF IInv

LEMMA TypeStep == TypeOK /\ [Next]_vars => TypeOK'
<1> SUFFICES ASSUME TypeOK, [Next]_vars PROVE TypeOK'
  OBVIOUS
<1> USE DEF deletionVars, sessionVars, lockVars
<1>0. attempts \in 0..MaxAttempts /\ guesses \in 0..(MostGuesses + 1)
  BY DEF TypeOK
<1>c. /\ 0 \in 0..MaxAttempts /\ 0 \in 0..(MostGuesses + 1)
      /\ Misses \in 0..MaxAttempts
      /\ Locks(attempts + 1) \in BOOLEAN
      /\ guesses <= MostGuesses => guesses + 1 \in 0..(MostGuesses + 1)
  BY <1>0, Counters
<1>1. ASSUME NEW l \in Logins, SignIn(l) PROVE TypeOK'
  <2>1. CASE Check(l)
    BY <2>1 DEF TypeOK, Check, Step
  <2>2. CASE Wrong(l)
    <3>1. guesses' \in 0..(MostGuesses + 1)
      BY <1>0, <1>c, <2>2 DEF Wrong
    <3>2. login' = [login EXCEPT ![l] = "count"]
      BY <2>2 DEF TypeOK, Wrong, Step
    <3> QED
      BY <2>2, <3>1, <3>2 DEF TypeOK, Wrong
  <2>3. CASE Right(l)
    BY <2>3 DEF TypeOK, Right, Step
  <2>4. CASE Count(l)
    <3>1. attempts' \in 0..MaxAttempts
      BY <1>0, <1>c, <2>4 DEF Count
    <3>2. locked' \in BOOLEAN
      BY <1>c, <2>4 DEF Count, TypeOK
    <3>3. login' = [login EXCEPT ![l] = "idle"]
      BY <2>4 DEF TypeOK, Count, Step
    <3> QED
      BY <2>4, <3>1, <3>2, <3>3 DEF TypeOK, Count
  <2>5. CASE Reset(l)
    <3>1. guesses' \in 0..(MostGuesses + 1) /\ attempts' \in 0..MaxAttempts
      BY <1>0, <1>c, <2>5 DEF Reset
    <3>2. login' = [login EXCEPT ![l] = "insert"]
      BY <2>5 DEF TypeOK, Reset, Step
    <3> QED
      BY <2>5, <3>1, <3>2 DEF TypeOK, Reset
  <2>6. CASE Insert(l)
    BY <2>6 DEF TypeOK, Insert, Step
  <2>7. CASE Fallback(l)
    BY <2>7 DEF TypeOK, Fallback, Step
  <2>8. CASE Cache(l)
    BY <2>8 DEF TypeOK, Cache, Step
  <2>9. CASE Fail(l)
    BY <2>9 DEF TypeOK, Fail, Step
  <2> QED
    BY <1>1, <2>1, <2>2, <2>3, <2>4, <2>5, <2>6, <2>7, <2>8, <2>9 DEF SignIn
<1>2. ASSUME NEW c \in Confirms, Delete(c) PROVE TypeOK'
  <2>1. CASE Begin(c)
    BY <2>1 DEF TypeOK, Begin, Go
  <2>2. CASE Revoke(c)
    BY <2>2 DEF TypeOK, Revoke, Go
  <2>3. CASE Members(c)
    <3>1. PICK q \in {"purge", "erase"} :
            confirm' = [confirm EXCEPT ![c] = [pc |-> q, by |-> confirm[c].by,
                                               seen |-> index]]
      BY <2>3 DEF Members, Read
    <3>2. confirm[c].by \in Logins /\ index \in SUBSET Logins
      BY DEF TypeOK
    <3>3. UNCHANGED <<open, locked, attempts, rows, cache, index, blocked, jobs,
                      login, guesses, spared, doubled, straddled>>
      BY <2>3, <3>1 DEF TypeOK, Members
    <3> QED
      BY <3>1, <3>2, <3>3 DEF TypeOK
  <2>4. CASE Purge(c)
    BY <2>4 DEF TypeOK, Purge, Go, Unlisted
  <2>5. CASE Erase(c)
    BY <2>5 DEF TypeOK, Erase, Go, Unlisted
  <2>6. CASE Commit(c)
    BY <2>6 DEF TypeOK, Commit, Go, Deleted
  <2>7. CASE Block(c)
    BY <2>7 DEF TypeOK, Block, Go
  <2>8. CASE Abandon(c)
    BY <2>8 DEF TypeOK, Abandon, Go
  <2> QED
    BY <1>2, <2>1, <2>2, <2>3, <2>4, <2>5, <2>6, <2>7, <2>8 DEF Delete
<1>3. CASE LockEnds
  <2>1. guesses' \in 0..(MostGuesses + 1)
    BY <1>c, <1>3 DEF LockEnds
  <2> QED
    BY <1>3, <2>1 DEF TypeOK, LockEnds
<1>4. CASE Restart
  BY <1>4 DEF TypeOK, Restart
<1>5. CASE UNCHANGED vars
  BY <1>5 DEF TypeOK, vars
<1> QED
  BY <1>1, <1>2, <1>3, <1>4, <1>5 DEF Next

\* What a step of a deletion does to the confirmations.
LEMMA OnlyOneMoves ==
  ASSUME TypeOK, NEW c \in Confirms, Delete(c)
  PROVE  \A d \in Confirms \ {c} : confirm'[d] = confirm[d]
<1>1. ASSUME NEW p, NEW q, Go(c, p, q) \/ Read(c, p, q)
      PROVE  \A d \in Confirms \ {c} : confirm'[d] = confirm[d]
  BY <1>1 DEF TypeOK, Go, Read
<1>2. (\E p, q : Go(c, p, q)) \/ (\E p, q : Read(c, p, q))
  BY DEF Delete, Begin, Revoke, Members, Purge, Erase, Commit, Block, Abandon
<1> QED
  BY <1>1, <1>2

LEMMA ReadReads ==
  ASSUME TypeOK, NEW c \in Confirms, NEW p, NEW q, Read(c, p, q)
  PROVE  confirm'[c].pc = q /\ confirm'[c].seen = index
BY DEF TypeOK, Read

LEMMA DeletionStep == IInv /\ [Next]_vars => DeletionCounted'
<1> SUFFICES ASSUME IInv, [Next]_vars PROVE DeletionCounted'
  OBVIOUS
<1> USE DEF IInv, DeletionCounted
<1>1. ASSUME UNCHANGED deletionVars PROVE DeletionCounted'
  BY <1>1 DEF deletionVars, Deleting, Underway
<1>2. ASSUME NEW c \in Confirms, Delete(c) PROVE DeletionCounted'
  <2>0. \A d \in Confirms \ {c} : confirm'[d] = confirm[d]
    BY <1>2, OnlyOneMoves
  <2>1. CASE Begin(c)
    <3>1. UNCHANGED <<open, jobs>> /\ confirm[c].pc = "idle"
      BY <2>1 DEF Begin, Go
    <3>6. open <=> jobs = {}
      OBVIOUS
    <3>7. c \notin jobs /\ (~open => doubled')
      BY <2>1, <3>1 DEF Begin
    <3>2. \A d \in Confirms \ {c} : Underway(d) => doubled'
      BY <2>1 DEF Begin
    <3>3. doubled => doubled'
      BY <2>1 DEF Begin
    <3>4. open => \A d \in Confirms \ {c} : Deleting(d)' => Underway(d)
      BY <2>0, <3>1, <3>6 DEF Deleting, Underway
    <3>5. \A d, e \in Confirms : (Deleting(d)' /\ Deleting(e)' /\ d # e) => doubled'
      BY <3>2, <3>4, <3>7
    <3>8. \A d \in jobs' : confirm'[d].pc \in {"block", "done"}
      BY <2>0, <3>1, <3>7 DEF TypeOK
    <3> QED
      BY <3>1, <3>5, <3>6, <3>8
  <2>2. CASE Revoke(c) \/ Members(c) \/ Purge(c) \/ Erase(c)
    <3>1. /\ UNCHANGED <<open, jobs, doubled>>
          /\ confirm[c].pc \in {"revoke", "members", "purge", "rest", "erase"}
      BY <2>2 DEF Revoke, Members, Purge, Erase, Go, Read
    <3>2. confirm'[c].pc \in {"members", "purge", "rest", "erase", "commit"}
      <4>1. CASE Revoke(c)
        BY <4>1 DEF Revoke, Go, TypeOK
      <4>2. CASE Members(c)
        BY <4>2, ReadReads DEF Members
      <4>3. CASE Purge(c)
        BY <4>3 DEF Purge, Go, TypeOK
      <4>4. CASE Erase(c)
        BY <4>4 DEF Erase, Go, TypeOK
      <4> QED
        BY <2>2, <4>1, <4>2, <4>3, <4>4
    <3>3. c \notin jobs
      BY <3>1
    <3>4. \A d \in Confirms : Deleting(d)' => Deleting(d)
      <4>1. Underway(c)
        BY <3>1 DEF Underway
      <4> QED
        BY <2>0, <3>1, <4>1 DEF Deleting, Underway
    <3>5. \A d \in jobs' : confirm'[d].pc \in {"block", "done"}
      BY <2>0, <3>1, <3>3 DEF TypeOK
    <3> QED
      BY <3>1, <3>4, <3>5
  <2>3. CASE Commit(c)
    <3>1. /\ confirm[c].pc = "commit" /\ confirm'[c].pc = "block"
          /\ jobs' = jobs \cup {c} /\ open' = FALSE /\ doubled' = doubled
      BY <2>3 DEF Commit, Go, Deleted, TypeOK
    <3> QED
      BY <2>0, <3>1 DEF Deleting, Underway, TypeOK
  <2>4. CASE Block(c) \/ Abandon(c)
    <3>1. /\ Underway(c) /\ confirm'[c].pc = "done"
          /\ UNCHANGED <<open, jobs, doubled>>
      BY <2>4 DEF Block, Abandon, Go, Underway, TypeOK
    <3> QED
      BY <2>0, <3>1 DEF Deleting, Underway, TypeOK
  <2> QED
    BY <1>2, <2>1, <2>2, <2>3, <2>4 DEF Delete
<1>3. ASSUME NEW l \in Logins, SignIn(l) PROVE UNCHANGED deletionVars
  BY <1>3 DEF SignIn, Check, Wrong, Right, Count, Reset, Insert, Fallback, Cache, Fail
<1> QED
  BY <1>1, <1>2, <1>3 DEF Next, LockEnds, Restart, vars, deletionVars

\* A deleted account has been looked at for keys.
LEMMA DeletedLooked ==
  ASSUME DeletionCounted, TypeOK, ~open
  PROVE  \E c \in Confirms : Looked(c)
BY DEF DeletionCounted, TypeOK, Looked

LEMMA AccessStep == IInv /\ [Next]_vars => NoAccessLeft'
<1> SUFFICES ASSUME IInv, [Next]_vars PROVE NoAccessLeft'
  OBVIOUS
<1> USE DEF IInv, NoAccessLeft
<1>1. ASSUME NEW l \in Logins, SignIn(l) PROVE NoAccessLeft'
  <2>1. CASE Insert(l)
    BY <2>1 DEF Insert, deletionVars
  <2>2. CASE Cache(l)
    <3>1. ~open => \E c \in Confirms : Looked(c)
      BY DeletedLooked
    <3>2. straddled' = IF \E c \in Confirms : Looked(c) THEN straddled \cup {l}
                                                         ELSE straddled
      BY <2>2 DEF Cache
    <3> QED
      BY <2>2, <3>1, <3>2 DEF Cache, deletionVars
  <2>3. CASE Check(l) \/ Wrong(l) \/ Right(l) \/ Count(l) \/ Reset(l) \/ Fallback(l)
             \/ Fail(l)
    <3>1. UNCHANGED <<open, rows, cache, straddled>>
      BY <2>3 DEF Check, Wrong, Right, Count, Reset, Fallback, Fail, deletionVars,
                  sessionVars
    <3> QED
      BY <3>1
  <2> QED
    BY <1>1, <2>1, <2>2, <2>3 DEF SignIn
<1>2. ASSUME NEW c \in Confirms, Delete(c) PROVE NoAccessLeft'
  <2>1. CASE Commit(c)
    BY <2>1 DEF Commit, Go, Deleted, KeysFound
  <2>2. CASE Begin(c) \/ Revoke(c) \/ Members(c) \/ Block(c) \/ Abandon(c)
    <3>1. UNCHANGED <<open, cache, straddled>> /\ rows' \in {rows, {}}
      BY <2>2 DEF Begin, Revoke, Members, Block, Abandon, sessionVars
    <3> QED
      BY <3>1
  <2>3. CASE Purge(c) \/ Erase(c)
    <3>1. UNCHANGED <<open, rows, straddled>> /\ cache' \subseteq cache
      BY <2>3 DEF Purge, Erase, Unlisted
    <3> QED
      BY <3>1
  <2> QED
    BY <1>2, <2>1, <2>2, <2>3 DEF Delete
<1>3. CASE LockEnds \/ Restart \/ UNCHANGED vars
  <2>1. UNCHANGED <<open, rows, straddled>> /\ cache' \subseteq cache
    BY <1>3 DEF LockEnds, Restart, vars, deletionVars, sessionVars
  <2> QED
    BY <2>1
<1> QED
  BY <1>1, <1>2, <1>3 DEF Next

LEMMA KeysStep == IInv /\ [Next]_vars => KeysFound'
<1> SUFFICES ASSUME IInv, [Next]_vars PROVE KeysFound'
  OBVIOUS
<1> USE DEF IInv, KeysFound
<1>1. ASSUME NEW l \in Logins, SignIn(l) PROVE KeysFound'
  <2>1. CASE Cache(l)
    <3>1. /\ cache' = cache \cup {l} /\ index' = index \cup {l}
          /\ straddled \subseteq straddled' /\ UNCHANGED confirm
          /\ (\E c \in Confirms : Looked(c)) => l \in straddled'
      BY <2>1 DEF Cache, deletionVars
    <3>2. \A c \in Confirms :
            /\ Looked(c)' <=> Looked(c)
            /\ confirm[c].pc \in {"erase", "commit"} => Looked(c)
      BY <3>1 DEF Looked
    <3> QED
      BY <3>1, <3>2
  <2>2. CASE Check(l) \/ Wrong(l) \/ Right(l) \/ Count(l) \/ Reset(l) \/ Insert(l)
             \/ Fallback(l) \/ Fail(l)
    <3>1. UNCHANGED <<confirm, cache, index, straddled>>
      BY <2>2 DEF Check, Wrong, Right, Count, Reset, Insert, Fallback, Fail,
                  deletionVars, sessionVars
    <3> QED
      BY <3>1 DEF Looked
  <2> QED
    BY <1>1, <2>1, <2>2 DEF SignIn
<1>2. ASSUME NEW c \in Confirms, Delete(c) PROVE KeysFound'
  <2>0. \A d \in Confirms \ {c} : confirm'[d] = confirm[d]
    BY <1>2, OnlyOneMoves
  <2>1. CASE Begin(c) \/ Revoke(c) \/ Commit(c) \/ Block(c) \/ Abandon(c)
    <3>1. UNCHANGED <<cache, index, straddled>>
      BY <2>1 DEF Begin, Revoke, Commit, Block, Abandon, sessionVars
    <3>2. confirm'[c].pc \in {"revoke", "members", "block", "done"}
      BY <2>1 DEF Begin, Revoke, Commit, Block, Abandon, Go, TypeOK
    <3> QED
      BY <2>0, <3>1, <3>2 DEF Looked
  <2>2. CASE Members(c)
    <3>1. UNCHANGED <<cache, index, straddled>>
      BY <2>2 DEF Members, sessionVars
    <3>2. confirm'[c].pc \in {"purge", "erase"} /\ confirm'[c].seen = index
      BY <2>2, ReadReads DEF Members
    <3> QED
      BY <2>0, <3>1, <3>2 DEF Looked
  <2>3. CASE Purge(c) \/ Erase(c)
    <3>1. UNCHANGED straddled /\ confirm'[c].pc \in {"rest", "commit"}
      BY <2>3 DEF Purge, Erase, Go, TypeOK
    <3>2. /\ cache' \subseteq cache
          /\ cache' \subseteq index' \cup straddled
          /\ confirm'[c].pc = "commit" => cache' \subseteq straddled
      <4>1. CASE Purge(c) /\ confirm[c].seen = {}
        BY <4>1 DEF Purge, Go, TypeOK
      <4>2. CASE Erase(c) \/ (Purge(c) /\ confirm[c].seen # {})
        <5>1. Looked(c) /\ confirm[c].pc \in {"purge", "erase"} /\ Unlisted(c)
          BY <4>2 DEF Purge, Erase, Go, Looked
        <5> QED
          BY <5>1 DEF Unlisted
      <4> QED
        BY <2>3, <4>1, <4>2
    <3>3. \A d \in Confirms \ {c} : Looked(d)' <=> Looked(d)
      BY <2>0 DEF Looked
    <3> QED
      BY <2>0, <3>1, <3>2, <3>3
  <2> QED
    BY <1>2, <2>1, <2>2, <2>3 DEF Delete
<1>3. CASE LockEnds \/ UNCHANGED vars
  BY <1>3 DEF LockEnds, vars, deletionVars, sessionVars, Looked
<1>4. CASE Restart
  BY <1>4 DEF Restart, deletionVars, Looked
<1> QED
  BY <1>1, <1>2, <1>3, <1>4 DEF Next

(***************************************************************************)
(* The lockout.                                                            *)
(***************************************************************************)
LEMMA Sizes ==
  /\ IsFiniteSet(Trying) /\ Cardinality(Trying) \in Nat
  /\ IsFiniteSet(Missed) /\ Cardinality(Missed) \in Nat
  /\ Cardinality(Trying) + Cardinality(Missed) <= Cardinality(Logins)
<1>1. Trying \in SUBSET Logins /\ Missed \in SUBSET Logins /\ Trying \cap Missed = {}
  BY DEF Trying, Missed
<1>2. /\ IsFiniteSet(Trying) /\ IsFiniteSet(Missed) /\ IsFiniteSet(Trying \cup Missed)
      /\ Cardinality(Trying \cup Missed) <= Cardinality(Logins)
  BY <1>1, LimitAssumption, FS_Subset
<1>3. Cardinality(Trying) \in Nat /\ Cardinality(Missed) \in Nat
  BY <1>2, FS_CardinalityType
<1>4. Cardinality(Trying \cup Missed) =
        Cardinality(Trying) + Cardinality(Missed) - Cardinality(Trying \cap Missed)
  BY <1>2, FS_Union
<1>5. Cardinality(Trying \cap Missed) = 0
  BY <1>1, FS_EmptySet
<1> QED
  BY <1>2, <1>3, <1>4, <1>5

\* A sign-in moves from one step to another.
LEMMA Moved ==
  ASSUME TypeOK, NEW l \in Logins, NEW p, NEW q, Step(l, p, q), p # q
  PROVE  /\ Cardinality(Trying') = Cardinality(Trying)
              + (IF q = "verify" THEN 1 ELSE 0) - (IF p = "verify" THEN 1 ELSE 0)
         /\ Cardinality(Missed') = Cardinality(Missed)
              + (IF q = "count" THEN 1 ELSE 0) - (IF p = "count" THEN 1 ELSE 0)
<1> DEFINE In(r) == {k \in Logins : login[k] = r}
<1>1. ASSUME NEW r, IsFiniteSet(In(r)), Cardinality(In(r)) \in Nat
      PROVE  Cardinality(In(r)') = Cardinality(In(r))
                + (IF q = r THEN 1 ELSE 0) - (IF p = r THEN 1 ELSE 0)
  <2>1. CASE q = r
    <3>1. In(r)' = In(r) \cup {l} /\ l \notin In(r)
      BY <2>1 DEF Step, TypeOK
    <3>2. Cardinality(In(r)') = Cardinality(In(r)) + 1
      BY <1>1, <3>1, FS_AddElement
    <3> QED
      BY <1>1, <2>1, <3>2
  <2>2. CASE p = r
    <3>1. In(r)' = In(r) \ {l} /\ l \in In(r)
      BY <2>2 DEF Step, TypeOK
    <3>2. Cardinality(In(r)') = Cardinality(In(r)) - 1
      BY <1>1, <3>1, FS_RemoveElement
    <3> QED
      BY <1>1, <2>2, <3>2
  <2>3. CASE q # r /\ p # r
    <3>1. In(r)' = In(r)
      BY <2>3 DEF Step, TypeOK
    <3> QED
      BY <1>1, <2>3, <3>1
  <2> QED
    BY <2>1, <2>2, <2>3
<1>2. Trying = In("verify") /\ Missed = In("count")
  BY DEF Trying, Missed
<1>3. Trying' = In("verify")' /\ Missed' = In("count")'
  BY DEF Trying, Missed
<1> QED
  BY <1>1, <1>2, <1>3, Sizes

\* Where it goes, nobody tries a password or has missed.
LEMMA MovedOn ==
  ASSUME TypeOK, NEW l \in Logins, NEW p, NEW q, Step(l, p, q), p # q,
         q \notin {"verify", "count"}
  PROVE  /\ Cardinality(Trying') \in {Cardinality(Trying), Cardinality(Trying) - 1}
         /\ p # "count" => Cardinality(Missed') = Cardinality(Missed)
<1>1. /\ Cardinality(Trying') = Cardinality(Trying)
              + (IF q = "verify" THEN 1 ELSE 0) - (IF p = "verify" THEN 1 ELSE 0)
      /\ Cardinality(Missed') = Cardinality(Missed)
              + (IF q = "count" THEN 1 ELSE 0) - (IF p = "count" THEN 1 ELSE 0)
  BY Moved
<1> QED
  BY <1>1, Sizes

\* While the account is open and unlocked the last bound holds as well.
LEMMA StillFew ==
  ASSUME TypeOK, GuessesCounted, ~spared
  PROVE  guesses + Cardinality(Trying) <= MostGuesses
<1>0. attempts \in 0..MaxAttempts /\ guesses \in 0..(MostGuesses + 1)
  BY DEF TypeOK
<1>1. attempts \in 0..MaxAttempts /\ guesses \in Nat
  BY <1>0, Bounds
<1> QED
  BY <1>1, Bounds, Sizes DEF GuessesCounted

LEMMA GuessesStep == IInv /\ [Next]_vars => GuessesCounted'
<1> SUFFICES ASSUME IInv, [Next]_vars PROVE GuessesCounted'
  OBVIOUS
<1> USE DEF IInv
<1>0. /\ attempts \in 0..MaxAttempts /\ guesses \in 0..(MostGuesses + 1)
      /\ spared \in BOOLEAN /\ open \in BOOLEAN /\ locked \in BOOLEAN
  BY DEF TypeOK
<1>1. ASSUME UNCHANGED <<open, lockVars>>,
             Cardinality(Missed') = Cardinality(Missed),
             Cardinality(Trying') \in Nat, Cardinality(Trying') <= Cardinality(Trying)
      PROVE  GuessesCounted'
  BY <1>0, <1>1, Bounds, Sizes DEF GuessesCounted, lockVars
<1>2. ASSUME UNCHANGED login, UNCHANGED <<open, lockVars>> PROVE GuessesCounted'
  <2>1. Trying' = Trying /\ Missed' = Missed
    BY <1>2 DEF Trying, Missed
  <2> QED
    BY <2>1, <1>1, <1>2, Sizes
<1>3. ASSUME NEW l \in Logins, SignIn(l) PROVE GuessesCounted'
  <2>1. CASE Check(l)
    <3>1. /\ Cardinality(Missed') = Cardinality(Missed)
          /\ UNCHANGED <<open, attempts, locked, guesses>>
      BY <2>1, Moved, Sizes DEF Check, deletionVars
    <3>2. (open /\ ~locked /\ spared' = spared) \/ spared' = TRUE
      BY <2>1 DEF Check, Passes
    <3> QED
      BY <1>0, <3>1, <3>2 DEF GuessesCounted
  <2>2. CASE Wrong(l)
    <3>1. /\ Cardinality(Missed') = Cardinality(Missed) + 1
          /\ Cardinality(Trying') = Cardinality(Trying) - 1
      BY <2>2, Moved, Sizes DEF Wrong
    <3>2. /\ guesses' <= guesses + 1 /\ guesses' \in Nat
          /\ UNCHANGED <<open, attempts, locked, spared>>
      BY <2>2, <1>0, Bounds DEF Wrong, deletionVars
    <3> QED
      BY <1>0, <3>1, <3>2, Sizes, Bounds DEF GuessesCounted
  <2>3. CASE Right(l) \/ Insert(l) \/ Fallback(l) \/ Cache(l)
    <3>1. /\ Cardinality(Missed') = Cardinality(Missed)
          /\ Cardinality(Trying') \in {Cardinality(Trying), Cardinality(Trying) - 1}
      <4>1. CASE Right(l)
        <5>1. Step(l, "verify", "reset")
          BY <4>1 DEF Right
        <5> QED
          BY <5>1, MovedOn
      <4>2. CASE Insert(l)
        <5>1. Step(l, "insert", "cache") \/ Step(l, "insert", "idle")
          BY <4>2 DEF Insert
        <5> QED
          BY <5>1, MovedOn
      <4>3. CASE Fallback(l)
        <5>1. Step(l, "signedIn", "cache")
          BY <4>3 DEF Fallback
        <5> QED
          BY <5>1, MovedOn
      <4>4. CASE Cache(l)
        <5>1. Step(l, "cache", "signedIn")
          BY <4>4 DEF Cache
        <5> QED
          BY <5>1, MovedOn
      <4> QED
        BY <2>3, <4>1, <4>2, <4>3, <4>4
    <3>2. Cardinality(Trying') <= Cardinality(Trying)
      BY <3>1, Sizes
    <3>3. Cardinality(Trying') \in Nat
      <4>1. Trying' \in SUBSET Logins
        BY DEF Trying
      <4> QED
        BY <4>1, LimitAssumption, FS_Subset, FS_CardinalityType
    <3>4. UNCHANGED <<open, lockVars>>
      BY <2>3 DEF Right, Insert, Fallback, Cache, deletionVars
    <3> QED
      BY <1>1, <3>1, <3>2, <3>3, <3>4
  <2>4. CASE Count(l)
    <3>1. /\ Cardinality(Missed') = Cardinality(Missed) - 1
          /\ Cardinality(Trying') = Cardinality(Trying)
      BY <2>4, Moved, Sizes DEF Count
    <3>2. UNCHANGED <<open, guesses, spared>>
      BY <2>4 DEF Count, deletionVars
    <3>3. CASE ~open
      <4>1. UNCHANGED <<attempts, locked>>
        BY <2>4, <3>3 DEF Count
      <4> QED
        BY <1>0, <3>1, <3>2, <3>3, <4>1 DEF GuessesCounted
    <3>4. CASE open
      <4>1. /\ attempts' = IF attempts < MaxAttempts THEN attempts + 1 ELSE attempts
            /\ locked' <=> attempts + 1 >= MaxAttempts
        BY <2>4, <3>4 DEF Count, Misses, Locks
      <4>2. CASE attempts + 1 >= MaxAttempts
        <5>1. attempts' = MaxAttempts /\ locked'
          BY <1>0, <4>1, <4>2, Bounds
        <5>2. ~spared => guesses + Cardinality(Trying) <= MostGuesses
          BY StillFew
        <5> QED
          BY <3>1, <3>2, <5>1, <5>2 DEF GuessesCounted
      <4>3. CASE attempts + 1 < MaxAttempts
        <5>1. attempts' = attempts + 1 /\ ~locked' /\ ~locked
          BY <1>0, <4>1, <4>3, Bounds DEF GuessesCounted
        <5>2. ~spared => guesses <= attempts + Cardinality(Missed)
          BY <1>0, <3>4, <4>3, <5>1, Bounds DEF GuessesCounted
        <5> QED
          BY <1>0, <3>1, <3>2, <3>4, <4>3, <5>1, <5>2, Sizes DEF GuessesCounted
      <4> QED
        BY <1>0, <4>2, <4>3, Bounds
    <3> QED
      BY <3>3, <3>4
  <2>5. CASE Reset(l)
    <3>1. /\ Cardinality(Missed') = Cardinality(Missed)
          /\ Cardinality(Trying') = Cardinality(Trying)
          /\ UNCHANGED <<open, spared>>
      BY <2>5, Moved, Sizes DEF Reset, deletionVars
    <3>2. CASE open
      <4>1. attempts' = 0 /\ locked' = FALSE /\ guesses' = 0
        BY <2>5, <3>2 DEF Reset
      <4> QED
        BY <3>1, <3>2, <4>1, Sizes, Bounds DEF GuessesCounted
    <3>3. CASE ~open
      <4>1. UNCHANGED <<attempts, locked, guesses>>
        BY <2>5, <3>3 DEF Reset
      <4> QED
        BY <3>1, <3>3, <4>1 DEF GuessesCounted
    <3> QED
      BY <3>2, <3>3
  <2>6. CASE Fail(l)
    <3>1. \E p \in {"verify", "count", "reset", "insert"} : Step(l, p, "idle")
             \/ Step(l, "cache", "signedIn")
      BY <2>6 DEF Fail
    <3>2. /\ login[l] # "count" => Cardinality(Missed') = Cardinality(Missed)
          /\ Cardinality(Trying') \in {Cardinality(Trying), Cardinality(Trying) - 1}
      <4>1. ASSUME NEW p \in {"verify", "count", "reset", "insert", "cache"},
                   NEW q \in {"idle", "signedIn"}, Step(l, p, q)
            PROVE  /\ p # "count" => Cardinality(Missed') = Cardinality(Missed)
                   /\ Cardinality(Trying') \in {Cardinality(Trying), Cardinality(Trying) - 1}
                   /\ login[l] = p
        <5>1. p # q /\ q \notin {"verify", "count"}
          OBVIOUS
        <5>2. login[l] = p
          BY <4>1 DEF Step
        <5> QED
          BY <4>1, <5>1, <5>2, MovedOn
      <4> QED
        BY <3>1, <4>1
    <3>3. /\ UNCHANGED <<open, attempts, locked, guesses>>
          /\ spared' = (spared \/ login[l] = "count")
      BY <2>6 DEF Fail, deletionVars
    <3>4. CASE login[l] = "count"
      BY <3>3, <3>4 DEF GuessesCounted
    <3>5. CASE login[l] # "count"
      <4>1. UNCHANGED <<open, lockVars>>
        BY <1>0, <3>3, <3>5 DEF lockVars
      <4>2. Cardinality(Trying') \in Nat
        <5>1. Trying' \in SUBSET Logins
          BY DEF Trying
        <5> QED
          BY <5>1, LimitAssumption, FS_Subset, FS_CardinalityType
      <4>3. Cardinality(Trying') <= Cardinality(Trying)
        BY <3>2, Sizes
      <4> QED
        BY <1>1, <3>2, <3>5, <4>1, <4>2, <4>3
    <3> QED
      BY <3>4, <3>5
  <2> QED
    BY <1>3, <2>1, <2>2, <2>3, <2>4, <2>5, <2>6 DEF SignIn
<1>4. ASSUME NEW c \in Confirms, Commit(c) PROVE GuessesCounted'
  <2>1. UNCHANGED <<attempts, locked, guesses, spared>> /\ open' = FALSE
    BY <1>4 DEF Commit, Deleted, lockVars
  <2>2. Trying' = Trying
    BY <1>4 DEF Commit, Trying
  <2> QED
    BY <2>1, <2>2, StillFew DEF GuessesCounted
<1>5. ASSUME NEW c \in Confirms, Delete(c), ~Commit(c)
      PROVE  UNCHANGED login /\ UNCHANGED <<open, lockVars>>
  BY <1>5 DEF Delete, Begin, Revoke, Members, Purge, Erase, Block, Abandon
<1>6. CASE LockEnds
  <2>1. /\ attempts' = MaxAttempts /\ locked' = FALSE /\ guesses' = 0
        /\ UNCHANGED <<open, spared, login>>
    BY <1>6 DEF LockEnds, GuessesCounted, deletionVars
  <2>2. Trying' = Trying /\ Missed' = Missed
    BY <2>1 DEF Trying, Missed
  <2> QED
    BY <2>1, <2>2, Sizes, Bounds DEF GuessesCounted
<1>7. CASE Restart \/ UNCHANGED vars
  BY <1>7, <1>2 DEF Restart, vars, deletionVars, lockVars
<1> QED
  BY <1>2, <1>3, <1>4, <1>5, <1>6, <1>7 DEF Next

(***************************************************************************)
(* The theorems.                                                           *)
(***************************************************************************)
(* The inductive invariant holds in every reachable state.                 *)
THEOREM InductiveInvariant == Spec => []IInv
<1>1. IInv /\ [Next]_vars => IInv'
  BY TypeStep, GuessesStep, KeysStep, DeletionStep, AccessStep DEF IInv
<1> QED
  BY <1>1, InitOK, PTL DEF Spec

(* Every variable keeps its type.                                          *)
THEOREM TypeInvariant == Spec => []TypeOK
<1>1. IInv => TypeOK
  BY DEF IInv
<1> QED
  BY <1>1, InductiveInvariant, PTL

(* incrementFailedAttempts and the check bound the wrong passwords tried    *)
(* between two moments at which the lockout was lifted.                     *)
THEOREM GuessesAreBounded == Spec => []GuessesBounded
<1>1. IInv => GuessesBounded
  <2> SUFFICES ASSUME IInv, ~spared PROVE guesses <= MostGuesses
    BY DEF GuessesBounded
  <2>0. TypeOK /\ GuessesCounted /\ guesses \in 0..(MostGuesses + 1)
    BY DEF IInv, TypeOK
  <2>1. guesses + Cardinality(Trying) <= MostGuesses /\ guesses \in Nat
    BY <2>0, StillFew, Bounds
  <2> QED
    BY <2>1, Sizes, Bounds
<1> QED
  BY <1>1, InductiveInvariant, PTL

(* Only time and a right password lift the lockout, however late a wrong    *)
(* one is counted.                                                          *)
THEOREM LiftedOnlyWithReason == Spec => LiftedWithReason
<1> DEFINE Reason == (locked /\ ~locked') \/ attempts' < attempts =>
                       LockEnds \/ \E l \in Logins : login[l] = "reset"
<1>1. IInv /\ [Next]_vars => [Reason]_vars
  <2> SUFFICES ASSUME IInv, Next PROVE Reason
    OBVIOUS
  <2>0. attempts \in 0..MaxAttempts /\ (locked => attempts = MaxAttempts)
    BY DEF IInv, TypeOK, GuessesCounted
  <2>1. ASSUME NEW l \in Logins, Count(l) PROVE Reason
    <3>1. CASE ~open
      BY <2>0, <2>1, <3>1, Bounds DEF Count
    <3>2. CASE open
      <4>1. /\ attempts' = IF attempts < MaxAttempts THEN attempts + 1 ELSE attempts
            /\ locked' <=> attempts + 1 >= MaxAttempts
        BY <2>1, <3>2 DEF Count, Misses, Locks
      <4> QED
        BY <2>0, <4>1, Bounds
    <3> QED
      BY <3>1, <3>2
  <2>2. ASSUME NEW l \in Logins, Reset(l) PROVE Reason
    BY <2>2 DEF Reset, Step
  <2>3. ASSUME NEW l \in Logins, SignIn(l), ~Count(l), ~Reset(l)
        PROVE  UNCHANGED <<attempts, locked>>
    BY <2>3 DEF SignIn, Check, Wrong, Right, Insert, Fallback, Cache, Fail, lockVars
  <2>4. ASSUME NEW c \in Confirms, Delete(c) PROVE UNCHANGED <<attempts, locked>>
    BY <2>4 DEF Delete, Begin, Revoke, Members, Purge, Erase, Commit, Block, Abandon,
                lockVars
  <2>5. ASSUME Restart PROVE UNCHANGED <<attempts, locked>>
    BY <2>5 DEF Restart, lockVars
  <2>6. ASSUME UNCHANGED <<attempts, locked>> PROVE Reason
    BY <2>0, <2>6, Bounds
  <2> QED
    BY <2>1, <2>2, <2>3, <2>4, <2>5, <2>6 DEF Next
<1> QED
  BY <1>1, InductiveInvariant, PTL DEF Spec, LiftedWithReason

(* The phases of confirmAccountDeletion leave nothing that lets the user in *)
(* but what another request cached after one of their looks at the index.   *)
THEOREM DeletionEndsAccess == Spec => []NoAccessLeft
<1>1. IInv => NoAccessLeft
  BY DEF IInv
<1> QED
  BY <1>1, InductiveInvariant, PTL

(* A deleted account has a cleanup job, an open one none, and two need a    *)
(* confirmation that did not see another one end.                           *)
THEOREM OneJobForAnAccount == Spec => []OneJobPerAccount
<1>1. IInv => OneJobPerAccount
  <2> SUFFICES ASSUME IInv PROVE Cardinality(jobs) > 1 => doubled
    BY DEF IInv, DeletionCounted, OneJobPerAccount
  <2>1. CASE \E c, d \in jobs : c # d
    BY <2>1 DEF IInv, DeletionCounted, Deleting, TypeOK
  <2>2. CASE \A c, d \in jobs : c = d
    <3>1. jobs = {} \/ \E c \in jobs : jobs = {c}
      BY <2>2
    <3>2. Cardinality(jobs) \in {0, 1}
      BY <3>1, FS_EmptySet, FS_Singleton
    <3> QED
      BY <3>2
  <2> QED
    BY <2>1, <2>2
<1> QED
  BY <1>1, InductiveInvariant, PTL
=============================================================================
