------------------------------- MODULE Otp_proofs -------------------------------
(***************************************************************************)
(* Proofs about Otp for any number of sends and verifications, both stores *)
(* and any of the faults: IInv is an invariant, and from it the lock       *)
(* excludes, a code is used once, and only the newest one is accepted.     *)
(***************************************************************************)
EXTENDS Otp, SequenceTheorems, TLAPS

(***************************************************************************)
(* The stored codes.                                                       *)
(***************************************************************************)
Distinct(s) == \A i, j \in DOMAIN s : s[i] = s[j] => i = j

(* Appending adds one element.                                             *)
LEMMA AppendStored ==
  ASSUME NEW S, NEW s \in Seq(S), NEW c \in S
  PROVE  /\ Append(s, c) \in Seq(S)
         /\ ToSet(Append(s, c)) = ToSet(s) \cup {c}
         /\ Distinct(s) /\ c \notin ToSet(s) => Distinct(Append(s, c))
<1> DEFINE t == Append(s, c)
<1>1. /\ t \in Seq(S)
      /\ Len(s) \in Nat /\ DOMAIN s = 1..Len(s) /\ DOMAIN t = 1..(Len(s) + 1)
      /\ \A i \in 1..Len(s) : t[i] = s[i]
      /\ t[Len(s) + 1] = c
  BY AppendProperties, LenProperties
<1> HIDE DEF t
<1>2. ToSet(t) = ToSet(s) \cup {c}
  BY <1>1 DEF ToSet
<1>3. Distinct(s) /\ c \notin ToSet(s) => Distinct(t)
  BY <1>1 DEF ToSet, Distinct
<1> QED
  BY <1>1, <1>2, <1>3 DEF t

(* Removing the element at an index leaves the others, in their order.      *)
LEMMA RemoveAtProperties ==
  ASSUME NEW S, NEW s \in Seq(S), NEW k \in 1..Len(s)
  PROVE  /\ RemoveAt(s, k) \in Seq(S)
         /\ Len(RemoveAt(s, k)) = Len(s) - 1
         /\ \A i \in 1..(Len(s) - 1) :
              RemoveAt(s, k)[i] = IF i < k THEN s[i] ELSE s[i + 1]
<1> DEFINE a == SubSeq(s, 1, k - 1)
           b == SubSeq(s, k + 1, Len(s))
<1>1. Len(s) \in Nat /\ k \in Int
  BY LenProperties
<1>2. /\ a \in Seq(S) /\ Len(a) = k - 1
      /\ \A i \in 1..(k - 1) : a[i] = s[i]
  BY <1>1, ElementOfSeq, SubSeqProperties
<1>3. /\ b \in Seq(S) /\ Len(b) = Len(s) - k
      /\ \A i \in 1..(Len(s) - k) : b[i] = s[k + i]
  <2>1. \A i \in (k + 1)..Len(s) : s[i] \in S
    BY <1>1, ElementOfSeq
  <2>2. /\ b \in Seq(S)
        /\ Len(b) = IF k + 1 <= Len(s) THEN Len(s) - (k + 1) + 1 ELSE 0
        /\ \A i \in 1..(Len(s) - (k + 1) + 1) : b[i] = s[(k + 1) + i - 1]
    BY <1>1, <2>1, SubSeqProperties
  <2> QED
    BY <1>1, <2>2
<1> HIDE DEF a, b
<1>4. /\ a \o b \in Seq(S) /\ Len(a \o b) = Len(s) - 1
      /\ \A i \in 1..(Len(s) - 1) : (a \o b)[i] = IF i <= k - 1 THEN a[i] ELSE b[i - (k - 1)]
  <2>1. /\ a \o b \in Seq(S)
        /\ Len(a \o b) = Len(a) + Len(b)
        /\ \A i \in 1..(Len(a) + Len(b)) :
             (a \o b)[i] = IF i <= Len(a) THEN a[i] ELSE b[i - Len(a)]
    BY <1>2, <1>3, ConcatProperties
  <2>2. Len(a) = k - 1 /\ Len(a) + Len(b) = Len(s) - 1
    BY <1>1, <1>2, <1>3
  <2> QED
    BY <2>1, <2>2
<1>5. RemoveAt(s, k) = a \o b
  BY DEF RemoveAt, a, b
<1>6. ASSUME NEW i \in 1..(Len(s) - 1)
      PROVE  (a \o b)[i] = IF i < k THEN s[i] ELSE s[i + 1]
  <2>1. CASE i < k
    <3>1. i \in 1..(k - 1) /\ i <= k - 1
      BY <1>1, <2>1
    <3> QED
      BY <1>2, <1>4, <2>1, <3>1
  <2>2. CASE ~(i < k)
    <3>1. /\ i - (k - 1) \in 1..(Len(s) - k) /\ ~(i <= k - 1)
          /\ k + (i - (k - 1)) = i + 1
      BY <1>1, <2>2
    <3> QED
      BY <1>3, <1>4, <2>2, <3>1
  <2> QED
    BY <2>1, <2>2
<1> QED
  BY <1>4, <1>5, <1>6

(* Removing the place of a stored code from a table without repetitions.    *)
LEMMA RemoveStored ==
  ASSUME NEW S, NEW s \in Seq(S), Distinct(s), NEW k \in DOMAIN s
  PROVE  /\ RemoveAt(s, k) \in Seq(S)
         /\ ToSet(RemoveAt(s, k)) = ToSet(s) \ {s[k]}
         /\ Distinct(RemoveAt(s, k))
<1> DEFINE t == RemoveAt(s, k)
<1>1. Len(s) \in Nat /\ DOMAIN s = 1..Len(s)
  BY LenProperties
<1>2. /\ t \in Seq(S) /\ DOMAIN t = 1..(Len(s) - 1)
      /\ \A i \in 1..(Len(s) - 1) : t[i] = IF i < k THEN s[i] ELSE s[i + 1]
  BY <1>1, RemoveAtProperties, LenProperties
<1> HIDE DEF t
<1>3. ASSUME NEW i \in DOMAIN t
      PROVE  t[i] \in ToSet(s) \ {s[k]}
  <2> DEFINE j == IF i < k THEN i ELSE i + 1
  <2>1. j \in 1..Len(s) /\ j # k /\ i \in 1..(Len(s) - 1)
    BY <1>1, <1>2, <1>3
  <2>2. t[i] = s[j]
    BY <1>2, <2>1
  <2> HIDE DEF j
  <2>3. s[j] \in ToSet(s)
    BY <1>1, <2>1 DEF ToSet
  <2>4. s[j] # s[k]
    BY <1>1, <2>1 DEF Distinct
  <2> QED
    BY <2>2, <2>3, <2>4
<1>4. ASSUME NEW i \in DOMAIN s, i # k
      PROVE  s[i] \in ToSet(t)
  <2>1. CASE i < k
    <3>1. i \in DOMAIN t /\ t[i] = s[i]
      BY <1>1, <1>2, <2>1
    <3> QED
      BY <3>1 DEF ToSet
  <2>2. CASE i > k
    <3>1. i - 1 \in DOMAIN t /\ t[i - 1] = s[i]
      BY <1>1, <1>2, <2>2
    <3> QED
      BY <3>1 DEF ToSet
  <2> QED
    BY <1>1, <1>4, <2>1, <2>2
<1>5. ToSet(t) = ToSet(s) \ {s[k]}
  BY <1>3, <1>4 DEF ToSet
<1>6. ASSUME NEW i \in DOMAIN t, NEW j \in DOMAIN t, t[i] = t[j]
      PROVE  i = j
  <2> DEFINE up(n) == IF n < k THEN n ELSE n + 1
  <2>1. /\ up(i) \in DOMAIN s /\ t[i] = s[up(i)]
        /\ up(j) \in DOMAIN s /\ t[j] = s[up(j)]
    BY <1>1, <1>2
  <2>2. up(i) = up(j)
    BY <1>6, <2>1 DEF Distinct
  <2> QED
    BY <1>1, <1>2, <2>2
<1> QED
  BY <1>2, <1>5, <1>6 DEF t, Distinct

(***************************************************************************)
(* What is found in the store, and what a deletion leaves of it.           *)
(***************************************************************************)
LEMMA LatestProperties ==
  ASSUME TypeOK
  PROVE  /\ Stored \subseteq Sends
         /\ Latest = None <=> table = <<>>
         /\ Latest # None => Latest \in Stored
         /\ \A c \in Sends : table = <<c>> => Latest = c
<1>1. /\ Len(table) \in Nat /\ DOMAIN table = 1..Len(table)
      /\ \A i \in 1..Len(table) : table[i] \in Sends
  BY LenProperties, ElementOfSeq DEF TypeOK
<1>2. Stored \subseteq Sends
  BY <1>1 DEF Stored, ToSet
<1>3. ASSUME table # <<>>
      PROVE  Latest \in Stored /\ Latest # None
  <2>1. Len(table) \in 1..Len(table)
    BY <1>1, <1>3, EmptySeq DEF TypeOK
  <2>2. table[Len(table)] \in Stored
    BY <1>1, <2>1 DEF Stored, ToSet
  <2> QED
    BY <1>2, <1>3, <2>2, NoneAssumption DEF Latest, Last
<1>4. ASSUME NEW c \in Sends, table = <<c>>
      PROVE  Latest = c
  BY <1>4 DEF Latest, Last
<1> QED
  BY <1>2, <1>3, <1>4 DEF Latest

LEMMA WithoutProperties ==
  ASSUME TypeOK, StoreOK, NEW c
  PROVE  /\ Without(c) \in Seq(Sends)
         /\ ToSet(Without(c)) \subseteq Stored \ {c}
         /\ Distinct(Without(c))
         /\ table \in {<<>>, <<newest>>} => Without(c) \in {<<>>, <<newest>>}
<1>1. CASE backend = "redis"
  <2>1. Without(c) = <<>>
    BY <1>1 DEF Without
  <2> QED
    BY <2>1, EmptySeq DEF ToSet, Distinct
<1>2. CASE backend # "redis" /\ c \notin Stored
  BY <1>2 DEF Without, TypeOK, StoreOK, Distinct, Stored
<1>3. CASE backend # "redis" /\ c \in Stored
  <2> DEFINE k == CHOOSE i \in DOMAIN table : table[i] = c
  <2>1. k \in DOMAIN table /\ table[k] = c
    BY <1>3 DEF Stored, ToSet
  <2>2. Without(c) = RemoveAt(table, k)
    BY <1>3 DEF Without
  <2> HIDE DEF k
  <2>3. /\ Without(c) \in Seq(Sends)
        /\ ToSet(Without(c)) = Stored \ {c}
        /\ Distinct(Without(c))
    BY <2>1, <2>2, RemoveStored DEF TypeOK, StoreOK, Stored, Distinct
  <2>4. ASSUME table \in {<<>>, <<newest>>}
        PROVE  Without(c) = <<>>
    <3>1. Stored \ {c} = {}
      BY <1>3, <2>4 DEF Stored, ToSet
    <3>2. /\ Len(Without(c)) \in Nat
          /\ DOMAIN Without(c) = 1..Len(Without(c))
      BY <2>3, LenProperties
    <3>3. Len(Without(c)) = 0
      <4>1. \A i \in DOMAIN Without(c) : Without(c)[i] \in ToSet(Without(c))
        BY DEF ToSet
      <4>2. 1 \notin DOMAIN Without(c)
        BY <2>3, <3>1, <4>1
      <4> QED
        BY <3>2, <4>2
    <3> QED
      BY <2>3, <3>3, EmptySeq
  <2> QED
    BY <2>3, <2>4
<1> QED
  BY <1>1, <1>2, <1>3

(***************************************************************************)
(* Steps that leave the sends alone: the store may only lose codes, and    *)
(* one verification moves on, which reads from the store or keeps what it  *)
(* read before it writes back.                                             *)
(***************************************************************************)
Calm(v, r) ==
  /\ r.out = "accepted" =>
       /\ Accepted(v) /\ r.code = verify[v].code
       /\ r.pc \in {"release", "done"}
  /\ r.pc = "consume" => r.read = r.code /\ r.read \in Stored
  /\ r.pc \in {"ttl", "restore"} =>
       \/ r.read \in Stored
       \/ verify[v].pc \in {"ttl", "restore"} /\ r.read = verify[v].read
  /\ r.pc \in {"ttl", "restore"} => backend = "redis"

\* The holders still exclude each other, the mover holds its lock if it works,
\* and it crossed those who work beside it.
LockStep(v, r) ==
  /\ held' \in SUBSET Verifies /\ crossed' \in SUBSET SUBSET Verifies
  /\ crossed \subseteq crossed'
  /\ \A w \in Verifies \ {v} : w \in held => w \in held'
  /\ \A x \in held' : \A w \in held' \ {x} : backend = "postgres" /\ at[x] # at[w]
  /\ r.pc \notin {"idle", "done"} =>
       /\ v \in held' \/ v \in overrun
       /\ overrun = {} =>
            \A w \in Verifies \ {v} :
              Working(w) => /\ backend = "postgres" /\ at[v] # at[w]
                            /\ {v, w} \in crossed'

LEMMA SameLocks ==
  ASSUME IInv, NEW v \in Verifies, NEW r \in Verification, UNCHANGED lockVars,
         r.pc \notin {"idle", "done"} => Working(v)
  PROVE  LockStep(v, r)
BY DEF IInv, TypeOK, lockVars, LockExcludes, CrossedOK, Apart, LockStep

LEMMA VerifyStep ==
  ASSUME IInv, NEW v \in Verifies, NEW r \in Verification,
         verify' = [verify EXCEPT ![v] = r], Calm(v, r), LockStep(v, r),
         table' \in Seq(Sends), ToSet(table') \subseteq Stored, Distinct(table'),
         table \in {<<>>, <<newest>>} => table' \in {<<>>, <<newest>>},
         lasting' \in BOOLEAN,
         UNCHANGED <<backend, timeVars, mailed, at, send, pastVars, overrun>>
  PROVE  IInv'
<1> USE DEF IInv
<1>0. /\ verify'[v] = r
      /\ \A w \in Verifies \ {v} : verify'[w] = verify[w]
      /\ Stored' \subseteq Stored /\ Saved' = Saved /\ Stored \subseteq Saved
      /\ \A x, w \in Verifies : Apart(x, w) => Apart(x, w)'
  BY DEF TypeOK, StoreOK, Saved, Stored, LockStep, Apart
<1>1. TypeOK'
  BY DEF TypeOK, timeVars, pastVars, LockStep
<1>2. StoreOK'
  BY <1>0 DEF StoreOK, Distinct, Stored
<1>3. VerifyOK'
  <2>1. ASSUME NEW w \in Verifies, w # v
        PROVE  (/\ verify[w].pc = "consume" => verify[w].read = verify[w].code
                /\ verify[w].pc \in {"consume", "ttl", "restore"} => verify[w].read \in Saved
                /\ verify[w].pc \in {"ttl", "restore"} => backend = "redis"
                /\ Accepted(w) => verify[w].pc \in {"release", "done"} /\ verify[w].code \in Saved)'
    BY <1>0, <2>1 DEF VerifyOK, Accepted
  <2>2. /\ r.pc = "consume" => r.read = r.code
        /\ r.pc \in {"consume", "ttl", "restore"} => r.read \in Saved
        /\ r.pc \in {"ttl", "restore"} => backend = "redis"
        /\ r.out = "accepted" => r.pc \in {"release", "done"} /\ r.code \in Saved
    BY <1>0 DEF VerifyOK, Accepted, Calm
  <2> QED
    BY <1>0, <2>1, <2>2 DEF VerifyOK, Accepted
<1>4. LockExcludes'
  BY <1>0 DEF LockExcludes, Working, LockStep
<1>5. SingleUse'
  BY <1>0 DEF SingleUse, Accepted, Calm
<1>6. PendingUnused'
  <2> SUFFICES ASSUME overrun = {}, NEW x \in Verifies, NEW w \in Verifies,
                      verify'[w].out = "accepted",
                      verify'[w].code = verify'[x].read
               PROVE  /\ verify'[x].pc \notin {"ttl", "restore"}
                      /\ verify'[x].pc = "consume" => Apart(x, w)'
    BY DEF PendingUnused, Accepted
  <2>1. verify[w].out = "accepted" /\ verify'[w].code = verify[w].code
    BY <1>0 DEF Calm, Accepted
  <2>2. CASE x # v
    BY <1>0, <2>1, <2>2 DEF PendingUnused, Accepted
  <2>3. CASE x = v /\ r.read \in Stored
    BY <1>0, <2>1, <2>3 DEF SingleUse, Accepted
  <2>4. CASE x = v /\ verify[v].pc \in {"ttl", "restore"} /\ r.read = verify[v].read
    BY <1>0, <2>1, <2>4 DEF PendingUnused, Accepted
  <2> QED
    BY <1>0, <2>2, <2>3, <2>4 DEF Calm
<1>7. CrossedOK'
  <2> SUFFICES ASSUME overrun = {}, NEW x \in Verifies, NEW w \in Verifies \ {x},
                      Working(x)', Working(w)'
               PROVE  Apart(x, w)'
    BY DEF CrossedOK
  <2>1. CASE x # v /\ w # v
    BY <1>0, <2>1 DEF CrossedOK, Working
  <2>2. CASE x = v
    BY <1>0, <2>2 DEF LockStep, Working, Apart
  <2>3. CASE w = v
    <3>1. {v, x} = {x, w} /\ x # v
      BY <2>3
    <3> QED
      BY <1>0, <2>3, <3>1 DEF LockStep, Working, Apart
  <2> QED
    BY <2>1, <2>2, <2>3
<1>8. OnlyNewest'
  <2> SUFFICES ASSUME ~raced
               PROVE  (/\ table \in {<<>>, <<newest>>}
                       /\ \A w \in Verifies :
                            /\ verify[w].pc \in {"ttl", "restore"} => verify[w].read = newest
                            /\ verify[w].pc = "consume" =>
                                 w \in late \/ verify[w].read = newest
                       /\ \A s \in Sends :
                            backend = "postgres" /\ send[s] = "save" => table = <<>>)'
    BY DEF OnlyNewest, pastVars
  <2>1. table' \in {<<>>, <<newest>>} /\ newest' = newest /\ late' = late
    BY DEF OnlyNewest, pastVars
  <2>2. \A c \in Stored : c = newest
    BY DEF OnlyNewest, Stored, ToSet
  <2>3. \A w \in Verifies :
          /\ verify'[w].pc \in {"ttl", "restore"} => verify'[w].read = newest
          /\ verify'[w].pc = "consume" => w \in late \/ verify'[w].read = newest
    BY <1>0, <2>2 DEF OnlyNewest, Calm
  <2>4. table = <<>> => table' = <<>>
    <3>1. table = <<>> => \A c \in Sends : c \notin ToSet(table')
      BY DEF Stored, ToSet
    <3>2. table' = <<newest>> => newest \in ToSet(table')
      BY DEF ToSet
    <3>3. table' = <<newest>> => newest \in Sends
      BY ElementOfSeq, <3>2, LatestProperties
    <3> QED
      BY <2>1, <3>1, <3>2, <3>3
  <2> QED
    BY <2>1, <2>3, <2>4 DEF OnlyNewest
<1> QED
  BY <1>1, <1>2, <1>3, <1>4, <1>5, <1>6, <1>7, <1>8

(***************************************************************************)
(* The steps of a verification.                                            *)
(***************************************************************************)
LEMMA SameStore ==
  ASSUME IInv, UNCHANGED table
  PROVE  /\ table' \in Seq(Sends) /\ ToSet(table') \subseteq Stored /\ Distinct(table')
         /\ table \in {<<>>, <<newest>>} => table' \in {<<>>, <<newest>>}
BY DEF IInv, TypeOK, StoreOK, Stored, Distinct

LEMMA AcquireOK ==
  ASSUME IInv, NEW v \in Verifies, Acquire(v)
  PROVE  IInv'
<1> USE DEF IInv
<1>0. UNCHANGED <<backend, storeVars, timeVars, mailed, at, send, pastVars, overrun>>
  BY DEF Acquire
<1>1. ASSUME Free(v), held' = held \cup {v}, NEW c \in mailed \cup {None},
             verify' = [verify EXCEPT ![v].pc = "find", ![v].code = c],
             crossed' = crossed \cup {{v, w} : w \in {u \in Verifies \ {v} :
                                                    Working(u) /\ ~OneLock(v, u)}}
      PROVE  IInv'
  <2> DEFINE r == [verify[v] EXCEPT !.pc = "find", !.code = c]
  <2>0. verify \in [Verifies -> Verification] /\ mailed \subseteq Sends
    BY DEF TypeOK
  <2>1. r \in Verification /\ verify' = [verify EXCEPT ![v] = r] /\ r.pc = "find"
        /\ r.out = verify[v].out
    BY <1>1, <2>0 DEF Verification
  <2>2. r.out # "accepted"
    BY <2>1 DEF Acquire, VerifyOK, Accepted
  <2> HIDE DEF r
  <2>3. Calm(v, r)
    BY <2>1, <2>2 DEF Calm
  <2>4. LockStep(v, r)
    <3>1. held' \in SUBSET Verifies /\ crossed' \in SUBSET SUBSET Verifies
      BY <1>1 DEF TypeOK
    <3>2. backend \in {"postgres", "redis"}
      BY BackendsAssumption DEF TypeOK
    <3>3. \A x \in held' : \A w \in held' \ {x} : backend = "postgres" /\ at[x] # at[w]
      BY <1>1, <3>2 DEF LockExcludes, Free, OneLock
    <3>4. ASSUME overrun = {}, NEW w \in Verifies \ {v}, Working(w)
          PROVE  backend = "postgres" /\ at[v] # at[w] /\ {v, w} \in crossed'
      <4>1. ~OneLock(v, w)
        BY <1>1, <3>4 DEF LockExcludes, Free
      <4> QED
        BY <1>1, <3>2, <3>4, <4>1 DEF OneLock
    <3> QED
      BY <1>1, <3>1, <3>3, <3>4 DEF LockStep
  <2> QED
    BY <1>0, <2>1, <2>3, <2>4, SameStore, VerifyStep DEF storeVars, TypeOK
<1>2. ASSUME Refuse(v, "done"), UNCHANGED <<held, crossed>>
      PROVE  IInv'
  <2> DEFINE r == [Fresh EXCEPT !.pc = "done", !.out = "refused"]
  <2>1. r \in Verification /\ r.pc = "done" /\ r.out = "refused"
    BY DEF Fresh, Verification
  <2>2. verify' = [verify EXCEPT ![v] = r]
    BY <1>2 DEF Refuse
  <2> HIDE DEF r
  <2>3. LockStep(v, r)
    BY <1>0, <1>2, <2>1, SameLocks DEF lockVars
  <2> QED
    BY <1>0, <2>1, <2>2, <2>3, SameStore, VerifyStep DEF storeVars, TypeOK, Calm
<1> QED
  BY <1>1, <1>2 DEF Acquire

(* A refusal, with whatever the store lost before it.                       *)
LEMMA RefusalOK ==
  ASSUME IInv, NEW v \in Verifies, NEW p \in {"release", "done"}, Refuse(v, p),
         p = "release" => Working(v),
         table' \in Seq(Sends), ToSet(table') \subseteq Stored, Distinct(table'),
         table \in {<<>>, <<newest>>} => table' \in {<<>>, <<newest>>},
         lasting' \in BOOLEAN,
         UNCHANGED <<backend, timeVars, mailed, lockVars, send, pastVars>>
  PROVE  IInv'
<1> DEFINE r == [Fresh EXCEPT !.pc = p, !.out = "refused"]
<1>1. r \in Verification /\ r.pc = p /\ r.out = "refused"
  BY DEF Fresh, Verification
<1>2. verify' = [verify EXCEPT ![v] = r]
  BY DEF Refuse
<1> HIDE DEF r
<1>3. Calm(v, r)
  BY <1>1 DEF Calm
<1>4. LockStep(v, r)
  BY <1>1, SameLocks
<1> QED
  BY <1>1, <1>2, <1>3, <1>4, VerifyStep DEF IInv, TypeOK, lockVars

LEMMA FindOK ==
  ASSUME IInv, NEW v \in Verifies, Find(v)
  PROVE  IInv'
<1> USE DEF IInv
<1>0. /\ UNCHANGED <<backend, storeVars, timeVars, mailed, lockVars, send, pastVars>>
      /\ verify[v].pc = "find" /\ Working(v)
  BY DEF Find, Working
<1>1. CASE Latest = None
  BY <1>0, <1>1, SameStore, RefusalOK DEF Find, storeVars, TypeOK
<1>2. CASE Latest # None
  <2> DEFINE p == IF Latest \in expired THEN "drop"
                  ELSE IF Latest = verify[v].code THEN "consume" ELSE "count"
             r == [verify[v] EXCEPT !.read = Latest, !.pc = p]
  <2>0. p \in {"drop", "consume", "count"} /\ (p = "consume" => Latest = verify[v].code)
    OBVIOUS
  <2>1. verify' = [verify EXCEPT ![v] = r]
    BY <1>2 DEF Find, TypeOK, Verification
  <2> HIDE DEF p
  <2>2. /\ r \in Verification /\ r.pc = p /\ r.read = Latest /\ Latest \in Stored
        /\ r.code = verify[v].code /\ r.out = verify[v].out
    BY <1>2, <2>0, LatestProperties DEF TypeOK, Verification
  <2>3. r.out # "accepted"
    BY <1>0, <2>2 DEF VerifyOK, Accepted
  <2> HIDE DEF r
  <2>4. Calm(v, r)
    BY <2>0, <2>2, <2>3 DEF Calm
  <2>5. LockStep(v, r)
    BY <1>0, <2>2, SameLocks
  <2> QED
    BY <1>0, <2>1, <2>2, <2>4, <2>5, SameStore, VerifyStep
       DEF storeVars, lockVars, TypeOK
<1> QED
  BY <1>1, <1>2

LEMMA DropOK ==
  ASSUME IInv, NEW v \in Verifies, Drop(v)
  PROVE  IInv'
BY WithoutProperties, RefusalOK DEF IInv, Drop, Working, TypeOK

LEMMA CountOK ==
  ASSUME IInv, NEW v \in Verifies, Count(v)
  PROVE  IInv'
<1> USE DEF IInv
<1>0. /\ UNCHANGED <<backend, storeVars, timeVars, mailed, lockVars, send, pastVars>>
      /\ verify[v].pc = "count" /\ Working(v)
  BY DEF Count, Working
<1>1. CASE Refuse(v, "release")
  BY <1>0, <1>1, SameStore, RefusalOK DEF storeVars, TypeOK
<1>2. CASE /\ backend = "redis" /\ Latest # None
           /\ verify' = [verify EXCEPT ![v].pc = "ttl", ![v].read = Latest]
  <2> DEFINE r == [verify[v] EXCEPT !.pc = "ttl", !.read = Latest]
  <2>0. verify \in [Verifies -> Verification] /\ Latest \in Stored /\ Latest \in Sends
    BY <1>2, LatestProperties DEF TypeOK
  <2>1. /\ verify' = [verify EXCEPT ![v] = r]
        /\ r \in Verification /\ r.pc = "ttl" /\ r.read = Latest /\ Latest \in Stored
        /\ r.out = verify[v].out
    BY <1>2, <2>0 DEF Verification
  <2>2. r.out # "accepted"
    BY <1>0, <2>1 DEF VerifyOK, Accepted
  <2> HIDE DEF r
  <2>3. Calm(v, r)
    BY <1>2, <2>1, <2>2 DEF Calm
  <2>4. LockStep(v, r)
    BY <1>0, <2>1, SameLocks
  <2> QED
    BY <1>0, <2>1, <2>3, <2>4, SameStore, VerifyStep DEF storeVars, lockVars, TypeOK
<1> QED
  BY <1>1, <1>2 DEF Count

LEMMA TtlOK ==
  ASSUME IInv, NEW v \in Verifies, Ttl(v)
  PROVE  IInv'
<1> USE DEF IInv
<1>0. /\ UNCHANGED <<backend, storeVars, timeVars, mailed, lockVars, send, pastVars>>
      /\ verify[v].pc = "ttl" /\ Working(v)
  BY DEF Ttl, Working
<1> DEFINE r == [verify[v] EXCEPT !.pc = "restore", !.keep = lasting \/ Latest = None]
<1>1. /\ verify' = [verify EXCEPT ![v] = r]
      /\ r \in Verification /\ r.pc = "restore" /\ r.read = verify[v].read
      /\ r.out = verify[v].out
  <2>1. verify \in [Verifies -> Verification] /\ lasting \in BOOLEAN
    BY DEF TypeOK
  <2> QED
    BY <2>1 DEF Ttl, Verification
<1>2. r.out # "accepted" /\ backend = "redis"
  BY <1>0, <1>1 DEF VerifyOK, Accepted
<1> HIDE DEF r
<1>3. Calm(v, r)
  BY <1>0, <1>1, <1>2 DEF Calm
<1>4. LockStep(v, r)
  BY <1>0, <1>1, SameLocks
<1> QED
  BY <1>0, <1>1, <1>3, <1>4, SameStore, VerifyStep DEF storeVars, lockVars, TypeOK

LEMMA ReleaseOK ==
  ASSUME IInv, NEW v \in Verifies, Release(v)
  PROVE  IInv'
<1> USE DEF IInv
<1>0. /\ UNCHANGED <<backend, storeVars, timeVars, mailed, at, send, pastVars,
                     crossed, overrun>>
      /\ verify[v].pc = "release"
  BY DEF Release
<1> DEFINE r == [verify[v] EXCEPT !.pc = "done"]
<1>1. /\ verify' = [verify EXCEPT ![v] = r]
      /\ r \in Verification /\ r.pc = "done" /\ r.code = verify[v].code
      /\ r.out = verify[v].out
  <2>1. verify \in [Verifies -> Verification]
    BY DEF TypeOK
  <2> QED
    BY <2>1 DEF Release, Goto, Verification
<1> HIDE DEF r
<1>2. Calm(v, r)
  BY <1>1 DEF Calm, Accepted
<1>3. LockStep(v, r)
  BY <1>0, <1>1 DEF Release, Owned, TypeOK, LockExcludes, LockStep
<1> QED
  BY <1>0, <1>1, <1>2, <1>3, SameStore, VerifyStep DEF storeVars, TypeOK

(* A process that stops takes its locks with it, or leaves the Redis key.   *)
LEMMA StopOK ==
  ASSUME IInv, NEW p \in Processes, Stop(p)
  PROVE  IInv'
<1> USE DEF IInv
<1>0. /\ UNCHANGED <<backend, storeVars, timeVars, mailed, at, send, pastVars,
                     crossed, overrun>>
      /\ held' \in SUBSET held
      /\ \A v \in Verifies : at[v] # p => (v \in held => v \in held')
  BY DEF Stop
<1>1. ASSUME NEW v \in Verifies
      PROVE  /\ verify'[v] \in Verification
             /\ verify'[v] # verify[v] =>
                  /\ verify'[v].pc = "done"
                  /\ Accepted(v) => verify'[v].out = "accepted" /\ verify'[v].code = verify[v].code
                  /\ verify'[v].out = "accepted" => Accepted(v)
             /\ at[v] = p => verify'[v].pc \in {"idle", "done"}
             /\ at[v] # p => verify'[v] = verify[v]
  <2>1. verify[v] \in Verification /\ verify'[v] = IF at[v] = p THEN Stopped(verify[v]) ELSE verify[v]
    BY DEF TypeOK, Stop
  <2>2. CASE verify[v].pc \in {"idle", "done"} \/ at[v] # p
    BY <2>1, <2>2 DEF Stopped
  <2>3. CASE verify[v].pc \notin {"idle", "done"} /\ at[v] = p /\ verify[v].out = "accepted"
    <3>1. verify'[v] = [verify[v] EXCEPT !.pc = "done"]
      BY <2>1, <2>3 DEF Stopped
    <3> QED
      BY <2>1, <2>3, <3>1 DEF Verification, Accepted
  <2>4. CASE verify[v].pc \notin {"idle", "done"} /\ at[v] = p /\ verify[v].out # "accepted"
    <3>1. verify'[v] = [Fresh EXCEPT !.pc = "done", !.out = "refused"]
      BY <2>1, <2>4 DEF Stopped
    <3> QED
      BY <2>4, <3>1 DEF Fresh, Verification, Accepted
  <2> QED
    BY <2>2, <2>3, <2>4
<1>2. \A v \in Verifies : Working(v)' => verify'[v] = verify[v] /\ at[v] # p
  BY <1>1 DEF Working
<1>3. \A v \in Verifies :
        /\ Accepted(v)' <=> Accepted(v)
        /\ Accepted(v) => verify'[v].code = verify[v].code
  BY <1>1 DEF Accepted
<1>4. Stored' = Stored /\ Saved' = Saved
  BY <1>0 DEF storeVars, Stored, Saved
<1>5. TypeOK'
  <2>1. verify' \in [Verifies -> Verification]
    BY <1>1 DEF Stop
  <2> QED
    BY <1>0, <2>1 DEF TypeOK, storeVars, timeVars, pastVars
<1>6. StoreOK'
  BY <1>0, <1>4 DEF StoreOK, storeVars
<1>7. VerifyOK'
  BY <1>0, <1>1, <1>3, <1>4 DEF VerifyOK, Accepted
<1>8. LockExcludes' /\ CrossedOK'
  BY <1>0, <1>2 DEF LockExcludes, CrossedOK, Working, Apart
<1>9. SingleUse'
  BY <1>0, <1>3, <1>4 DEF SingleUse, Apart
<1>10. PendingUnused'
  BY <1>0, <1>1, <1>3 DEF PendingUnused, Apart
<1>11. OnlyNewest'
  BY <1>0, <1>1 DEF OnlyNewest, pastVars, storeVars
<1> QED
  BY <1>5, <1>6, <1>7, <1>8, <1>9, <1>10, <1>11

LEMMA ThrowOK ==
  ASSUME IInv, NEW v \in Verifies, Throw(v)
  PROVE  IInv'
BY SameStore, RefusalOK DEF IInv, Throw, storeVars, TypeOK

(* The code is deleted in the step that accepts it.                         *)
LEMMA ConsumeOK ==
  ASSUME IInv, NEW v \in Verifies, Consume(v)
  PROVE  IInv'
<1> USE DEF IInv
<1> DEFINE c == verify[v].read
           r == [verify[v] EXCEPT !.pc = "release", !.out = "accepted", !.read = None]
<1>0. /\ UNCHANGED <<backend, lasting, timeVars, mailed, lockVars, send, pastVars>>
      /\ verify[v].pc = "consume" /\ Working(v)
      /\ c = verify[v].code /\ c \in Saved /\ c \in Sends
  BY DEF Consume, Working, VerifyOK, Saved
<1>1. /\ table' \in Seq(Sends) /\ Stored' \subseteq Stored \ {c} /\ Distinct(table')
      /\ table \in {<<>>, <<newest>>} => table' \in {<<>>, <<newest>>}
  BY WithoutProperties DEF Consume, Stored
<1>2. /\ verify' = [verify EXCEPT ![v] = r]
      /\ r \in Verification /\ r.pc = "release" /\ r.out = "accepted" /\ r.code = c
  <2>1. verify[v] \in Verification
    BY DEF TypeOK
  <2> QED
    BY <1>0, <2>1 DEF Consume, Verification, TypeOK
<1> HIDE DEF c, r
<1>3. /\ verify'[v] = r /\ Saved' = Saved
      /\ \A w \in Verifies \ {v} : verify'[w] = verify[w]
  BY <1>0, <1>2 DEF TypeOK, Saved
<1>4. TypeOK'
  BY <1>0, <1>1, <1>2 DEF TypeOK, timeVars, pastVars, lockVars
<1>5. StoreOK'
  BY <1>0, <1>1, <1>3 DEF StoreOK, Distinct
<1>6. VerifyOK'
  BY <1>0, <1>2, <1>3 DEF VerifyOK, Accepted
<1>7. LockExcludes' /\ CrossedOK'
  BY <1>0, <1>2, <1>3 DEF LockExcludes, CrossedOK, Working, Apart, lockVars
<1>8. overrun = {} =>
        \A w \in Verifies \ {v} : Accepted(w) /\ verify[w].code = c => Apart(v, w) /\ Apart(w, v)
  <2>1. \A w \in Verifies : Apart(v, w) => Apart(w, v)
    <3>1. \A w \in Verifies : {v, w} = {w, v}
      OBVIOUS
    <3> QED
      BY <3>1 DEF Apart
  <2> QED
    BY <1>0, <2>1 DEF PendingUnused, c
<1>9. SingleUse'
  <2> SUFFICES ASSUME overrun = {}, NEW x \in Verifies, verify'[x].out = "accepted"
               PROVE  /\ verify'[x].code \notin Stored'
                      /\ \A w \in Verifies \ {x} :
                           verify'[w].out = "accepted" /\ verify'[w].code = verify'[x].code
                             => Apart(x, w)
    BY <1>0 DEF SingleUse, Accepted, Apart, lockVars
  <2>1. CASE x = v
    BY <1>1, <1>2, <1>3, <1>8, <2>1 DEF Accepted
  <2>2. CASE x # v
    <3>1. verify[x].out = "accepted" /\ verify'[x] = verify[x]
      BY <1>3, <2>2
    <3>2. verify[x].code \notin Stored'
      BY <1>1, <3>1 DEF SingleUse, Accepted
    <3>3. ASSUME NEW w \in Verifies \ {x}, verify'[w].out = "accepted",
                 verify'[w].code = verify[x].code
          PROVE  Apart(x, w)
      <4>1. CASE w = v
        BY <1>2, <1>3, <1>8, <2>2, <3>1, <3>3, <4>1 DEF Accepted
      <4>2. CASE w # v
        BY <1>3, <3>1, <3>3, <4>2 DEF SingleUse, Accepted
      <4> QED
        BY <4>1, <4>2
    <3> QED
      BY <3>1, <3>2, <3>3
  <2> QED
    BY <2>1, <2>2
<1>10. PendingUnused'
  <2> SUFFICES ASSUME overrun = {}, NEW x \in Verifies, NEW w \in Verifies,
                      verify'[w].out = "accepted",
                      verify'[w].code = verify'[x].read
               PROVE  /\ verify'[x].pc \notin {"ttl", "restore"}
                      /\ verify'[x].pc = "consume" => Apart(x, w)
    BY <1>0 DEF PendingUnused, Accepted, Apart, lockVars
  <2>1. CASE x = v
    BY <1>2, <1>3, <2>1
  <2>2. CASE x # v /\ w # v
    BY <1>3, <2>2 DEF PendingUnused, Accepted
  <2>3. CASE x # v /\ w = v
    <3>1. Working(x) => Apart(x, v)
      BY <1>0, <2>3 DEF CrossedOK
    <3>2. verify[x].pc \notin {"ttl", "restore"}
      <4>1. verify[x].pc \in {"ttl", "restore"} => Working(x) /\ backend = "redis"
        BY DEF VerifyOK, Working
      <4> QED
        BY <3>1, <4>1 DEF Apart
    <3> QED
      BY <1>3, <2>3, <3>1, <3>2 DEF Working
  <2> QED
    BY <2>1, <2>2, <2>3
<1>11. OnlyNewest'
  <2>1. table = <<>> => table' = <<>>
    <3>1. table = <<>> => Stored' = {}
      BY <1>1 DEF Stored, ToSet
    <3>2. table' # <<>> => Stored' # {}
      <4>1. table' # <<>> => 1 \in DOMAIN table'
        BY <1>1, LenProperties, EmptySeq
      <4> QED
        BY <4>1 DEF Stored, ToSet
    <3> QED
      BY <3>1, <3>2
  <2> QED
    BY <1>0, <1>1, <1>2, <1>3, <2>1 DEF OnlyNewest, pastVars
<1> QED
  BY <1>4, <1>5, <1>6, <1>7, <1>9, <1>10, <1>11

(* The record written back was accepted by nobody, for the lock was held.   *)
LEMMA RestoreOK ==
  ASSUME IInv, NEW v \in Verifies, Restore(v)
  PROVE  IInv'
<1> USE DEF IInv
<1> DEFINE c == verify[v].read
           r == [Fresh EXCEPT !.pc = "release", !.out = "refused"]
<1>0. /\ UNCHANGED <<backend, timeVars, mailed, lockVars, send, pastVars>>
      /\ verify[v].pc = "restore" /\ Working(v)
      /\ c \in Saved /\ c \in Sends /\ backend = "redis"
  BY DEF Restore, Working, VerifyOK, Saved
<1>1. /\ table' = <<c>> /\ Stored' = {c} /\ table' \in Seq(Sends) /\ Distinct(table')
  BY <1>0 DEF Restore, Stored, ToSet, Distinct
<1>2. /\ verify' = [verify EXCEPT ![v] = r]
      /\ r \in Verification /\ r.pc = "release" /\ r.out = "refused"
  BY DEF Restore, Refuse, Fresh, Verification
<1>3. lasting' \in BOOLEAN
  BY DEF Restore, TypeOK, Verification
<1>4. ~raced => c = newest
  BY <1>0 DEF OnlyNewest
<1>5. overrun = {} => \A w \in Verifies : Accepted(w) => verify[w].code # c
  BY <1>0 DEF PendingUnused
<1> HIDE DEF c, r
<1>6. /\ verify'[v] = r /\ Saved' = Saved
      /\ \A w \in Verifies \ {v} : verify'[w] = verify[w]
  BY <1>0, <1>2 DEF TypeOK, Saved
<1>7. TypeOK'
  BY <1>0, <1>1, <1>2, <1>3 DEF TypeOK, timeVars, pastVars, lockVars
<1>8. StoreOK' /\ VerifyOK'
  BY <1>0, <1>1, <1>2, <1>6 DEF StoreOK, Distinct, VerifyOK, Accepted
<1>9. LockExcludes' /\ CrossedOK'
  BY <1>0, <1>2, <1>6 DEF LockExcludes, CrossedOK, Working, Apart, lockVars
<1>10. SingleUse' /\ PendingUnused'
  BY <1>0, <1>1, <1>2, <1>5, <1>6 DEF SingleUse, PendingUnused, Accepted, Apart, lockVars
<1>11. OnlyNewest'
  BY <1>0, <1>1, <1>2, <1>4, <1>6 DEF OnlyNewest, pastVars
<1> QED
  BY <1>7, <1>8, <1>9, <1>10, <1>11

(***************************************************************************)
(* The steps of a send.                                                    *)
(***************************************************************************)
LEMMA SendStep ==
  ASSUME IInv, NEW s \in Sends, NEW p \in {"clear", "save", "mail", "done"},
         send' = [send EXCEPT ![s] = p],
         p = "save" /\ backend = "postgres" => table' = <<>>,
         send[s] \in {"mail", "done"} => p = "done",
         UNCHANGED table \/ table' = <<>>,
         mailed' \in SUBSET Sends,
         UNCHANGED <<backend, lasting, timeVars, lockVars, verify, pastVars>>
  PROVE  IInv'
<1> USE DEF IInv
<1>1. Saved \subseteq Saved' /\ Stored' \subseteq Stored
  BY DEF Saved, TypeOK, Stored, ToSet
<1>2. TypeOK'
  BY EmptySeq DEF TypeOK, timeVars, pastVars, lockVars
<1>3. StoreOK' /\ VerifyOK'
  BY <1>1 DEF StoreOK, VerifyOK, Accepted
<1>4. LockExcludes' /\ CrossedOK' /\ SingleUse' /\ PendingUnused'
  BY <1>1 DEF LockExcludes, CrossedOK, SingleUse, PendingUnused, Working, Accepted,
              Apart, lockVars
<1>5. OnlyNewest'
  BY DEF OnlyNewest, pastVars, TypeOK
<1> QED
  BY <1>2, <1>3, <1>4, <1>5

LEMMA AskOK ==
  ASSUME IInv, NEW s \in Sends, Ask(s)
  PROVE  IInv'
<1>1. CASE GoSend(s, "done")
  BY <1>1, SendStep DEF Ask, GoSend, storeVars, IInv, TypeOK
<1>2. CASE GoSend(s, IF backend = "postgres" THEN "clear" ELSE "save")
  BY <1>2, SendStep DEF Ask, GoSend, storeVars, IInv, TypeOK
<1> QED
  BY <1>1, <1>2 DEF Ask

LEMMA ClearOK ==
  ASSUME IInv, NEW s \in Sends, Clear(s)
  PROVE  IInv'
BY SendStep DEF Clear, Cleared, GoSend, IInv, TypeOK

LEMMA MailOK ==
  ASSUME IInv, NEW s \in Sends, Mail(s)
  PROVE  IInv'
BY SendStep DEF Mail, GoSend, storeVars, IInv, TypeOK

LEMMA StopSendOK ==
  ASSUME IInv, NEW s \in Sends, StopSend(s)
  PROVE  IInv'
BY SendStep DEF StopSend, GoSend, storeVars, IInv, TypeOK

(* A code that is saved was stored and accepted never before.               *)
LEMMA SaveOK ==
  ASSUME IInv, NEW s \in Sends, Save(s)
  PROVE  IInv'
<1> USE DEF IInv
<1>0. /\ UNCHANGED <<backend, timeVars, mailed, lockVars, verify>>
      /\ send[s] = "save" /\ send' = [send EXCEPT ![s] = "mail"]
      /\ newest' = s /\ raced' \in BOOLEAN /\ lasting' = FALSE
      /\ s \notin Saved
      /\ late' = late \cup {v \in Verifies : verify[v].pc = "consume"}
  BY DEF Save, GoSend, Saved, TypeOK
<1>1. /\ table' \in Seq(Sends) /\ Stored' \subseteq Stored \cup {s} /\ Distinct(table')
  <2>1. CASE backend = "postgres"
    BY <1>0, <2>1, AppendStored DEF Save, TypeOK, StoreOK, Stored, Distinct
  <2>2. CASE backend # "postgres"
    BY <2>2 DEF Save, Stored, ToSet, Distinct
  <2> QED
    BY <2>1, <2>2
<1>2. Saved' = Saved \cup {s}
  BY <1>0 DEF Saved, TypeOK
<1>3. TypeOK'
  BY <1>0, <1>1 DEF TypeOK, timeVars, lockVars
<1>4. StoreOK' /\ VerifyOK'
  BY <1>0, <1>1, <1>2 DEF StoreOK, VerifyOK, Accepted, Distinct
<1>5. LockExcludes' /\ CrossedOK' /\ PendingUnused'
  BY <1>0 DEF LockExcludes, CrossedOK, PendingUnused, Working, Accepted, Apart, lockVars
<1>6. SingleUse'
  BY <1>0, <1>1 DEF SingleUse, Accepted, VerifyOK, Apart, lockVars
<1>7. OnlyNewest'
  <2> SUFFICES ASSUME ~raced'
               PROVE  /\ table' \in {<<>>, <<newest'>>}
                      /\ \A v \in Verifies :
                           /\ verify'[v].pc \in {"ttl", "restore"} => verify'[v].read = newest'
                           /\ verify'[v].pc = "consume" =>
                                v \in late' \/ verify'[v].read = newest'
                      /\ \A t \in Sends :
                           backend' = "postgres" /\ send'[t] = "save" => table' = <<>>
    BY DEF OnlyNewest
  <2>1. /\ ~raced
        /\ \A t \in Sends \ {s} : send[t] \notin {"clear", "save"}
        /\ \A v \in Verifies : verify[v].pc \notin {"ttl", "restore"}
    BY DEF Save
  <2>2. table' = <<s>>
    <3>1. backend = "postgres" => table = <<>>
      BY <1>0, <2>1 DEF OnlyNewest
    <3>2. Append(<<>>, s) = <<s>>
      BY AppendIsConcat, ConcatEmptySeq, EmptySeq
    <3> QED
      BY <3>1, <3>2 DEF Save
  <2> QED
    BY <1>0, <2>1, <2>2 DEF TypeOK
<1> QED
  BY <1>3, <1>4, <1>5, <1>6, <1>7

(***************************************************************************)
(* Time.                                                                   *)
(***************************************************************************)
LEMMA AgingOK ==
  ASSUME IInv, expired' \in SUBSET Sends, cooled' \in SUBSET Sends,
         UNCHANGED table \/ table' = <<>>,
         UNCHANGED <<backend, lasting, mailed, lockVars, send, verify, pastVars>>
  PROVE  IInv'
<1> USE DEF IInv
<1>1. Saved' = Saved /\ Stored' \subseteq Stored
  BY DEF Saved, Stored, ToSet
<1>2. TypeOK'
  BY EmptySeq DEF TypeOK, pastVars, lockVars
<1>3. StoreOK' /\ VerifyOK'
  BY <1>1 DEF StoreOK, VerifyOK, Accepted
<1>4. LockExcludes' /\ CrossedOK' /\ SingleUse' /\ PendingUnused' /\ OnlyNewest'
  BY <1>1 DEF LockExcludes, CrossedOK, SingleUse, PendingUnused, OnlyNewest, Working,
              Accepted, Apart, pastVars, lockVars
<1> QED
  BY <1>2, <1>3, <1>4

LEMMA LeaseEndsOK ==
  ASSUME IInv, NEW v \in Verifies, LeaseEnds(v)
  PROVE  IInv'
<1> USE DEF IInv
<1>1. /\ UNCHANGED <<backend, storeVars, timeVars, mailed, at, send, verify, pastVars,
                     crossed>>
      /\ held' = held \ {v} /\ overrun \subseteq overrun'
      /\ overrun' \in SUBSET Verifies
      /\ Working(v) => v \in overrun'
  BY DEF LeaseEnds, TypeOK
<1>2. TypeOK'
  BY <1>1 DEF TypeOK, storeVars, timeVars, pastVars
<1>3. StoreOK' /\ VerifyOK'
  BY <1>1 DEF StoreOK, VerifyOK, Stored, Saved, Accepted, storeVars
<1>4. LockExcludes'
  BY <1>1 DEF LockExcludes, Working
<1>5. SingleUse' /\ PendingUnused' /\ CrossedOK' /\ OnlyNewest'
  BY <1>1 DEF SingleUse, PendingUnused, CrossedOK, OnlyNewest, Stored, Working, Accepted,
              Apart, storeVars, pastVars
<1> QED
  BY <1>2, <1>3, <1>4, <1>5

(***************************************************************************)
(* The theorems.                                                           *)
(***************************************************************************)
LEMMA InitOK == Init => IInv
<1> SUFFICES ASSUME Init PROVE IInv
  OBVIOUS
<1>1. Fresh \in Verification /\ Fresh.pc = "idle" /\ Fresh.out = "none"
  BY DEF Fresh, Verification
<1>2. TypeOK
  BY <1>1, EmptySeq DEF Init, TypeOK
<1>3. \A v \in Verifies : verify[v].pc = "idle" /\ verify[v].out = "none"
  BY <1>1 DEF Init
<1>4. StoreOK /\ VerifyOK /\ SingleUse /\ PendingUnused /\ LockExcludes /\ CrossedOK
  BY <1>3 DEF Init, StoreOK, VerifyOK, SingleUse, PendingUnused, LockExcludes, CrossedOK,
              Stored, ToSet, Accepted, Working
<1>5. OnlyNewest
  BY <1>3 DEF Init, OnlyNewest
<1> QED
  BY <1>2, <1>4, <1>5 DEF IInv

LEMMA NextOK == IInv /\ [Next]_vars => IInv'
<1> SUFFICES ASSUME IInv, [Next]_vars PROVE IInv'
  OBVIOUS
<1>1. ASSUME NEW s \in Sends, Ask(s) \/ Clear(s) \/ Save(s) \/ Mail(s) \/ StopSend(s)
      PROVE  IInv'
  BY <1>1, AskOK, ClearOK, SaveOK, MailOK, StopSendOK
<1>2. ASSUME NEW v \in Verifies, Serve(v)
      PROVE  IInv'
  BY <1>2, FindOK, ConsumeOK, DropOK, CountOK, TtlOK, RestoreOK, ReleaseOK DEF Serve
<1>3. ASSUME NEW v \in Verifies, Acquire(v) \/ LeaseEnds(v) \/ Throw(v)
      PROVE  IInv'
  BY <1>3, AcquireOK, LeaseEndsOK, ThrowOK
<1>4. ASSUME NEW c \in Sends, CoolDown(c) \/ TimeUp(c)
      PROVE  IInv'
  BY <1>4, AgingOK DEF CoolDown, TimeUp, storeVars, IInv, TypeOK
<1>5. CASE KeyGone
  BY <1>5, AgingOK DEF KeyGone, timeVars, IInv, TypeOK
<1>6. ASSUME NEW p \in Processes, Stop(p)
      PROVE  IInv'
  BY <1>6, StopOK
<1>7. CASE UNCHANGED vars
  BY <1>7, AgingOK DEF vars, IInv, TypeOK, pastVars, lockVars
<1> QED
  BY <1>1, <1>2, <1>3, <1>4, <1>5, <1>6, <1>7 DEF Next

(* IInv is an invariant, whichever store, faults and interleavings.         *)
THEOREM InductiveInvariant == Spec => []IInv
<1> QED
  BY InitOK, NextOK, PTL DEF Spec

(* A code is accepted once and is gone from the store then, as long as no   *)
(* verification outlives the lease of its lock; twice only by two that      *)
(* worked at once under the locks of two processes, without Redis.          *)
THEOREM CodesAreUsedOnce == Spec => []SingleUse
<1>1. IInv => SingleUse
  BY DEF IInv
<1> QED
  BY <1>1, InductiveInvariant, PTL

(* Only the step that deletes a code accepts it.                            *)
LEMMA OnlyConsumeAccepts ==
  ASSUME IInv, [Next]_vars, NEW v \in Verifies, ~Accepted(v), Accepted(v)'
  PROVE  Consume(v)
<1> USE DEF IInv
<1>0. verify[v] \in Verification /\ verify[v].out # "accepted"
  BY DEF TypeOK, Accepted
<1>1. ASSUME NEW w \in Verifies, Refuse(w, "release") \/ Refuse(w, "done")
      PROVE  FALSE
  BY <1>0, <1>1 DEF Refuse, Fresh, Accepted, TypeOK
<1>2. ASSUME NEW w \in Verifies, w # v, Serve(w)
      PROVE  FALSE
  BY <1>0, <1>1, <1>2 DEF Serve, Find, Consume, Drop, Count, Ttl, Restore, Release, Goto,
                          Accepted, TypeOK, Verification
<1>3. ASSUME Find(v) \/ Drop(v) \/ Count(v) \/ Ttl(v) \/ Restore(v) \/ Release(v)
      PROVE  FALSE
  BY <1>0, <1>1, <1>3 DEF Find, Drop, Count, Ttl, Restore, Release, Goto, Accepted,
                          TypeOK, Verification
<1>4. ASSUME NEW w \in Verifies, Acquire(w) \/ LeaseEnds(w) \/ Throw(w)
      PROVE  FALSE
  BY <1>0, <1>1, <1>4 DEF Acquire, LeaseEnds, Throw, Accepted, TypeOK, Verification
<1>5. ASSUME NEW p \in Processes, Stop(p)
      PROVE  FALSE
  <2>1. verify'[v] = verify[v] \/ verify'[v] = Stopped(verify[v])
    BY <1>5 DEF Stop
  <2> QED
    BY <1>0, <2>1 DEF Stopped, Fresh, Accepted
<1>6. ~(UNCHANGED verify)
  BY <1>0 DEF Accepted
<1> QED
  BY <1>2, <1>3, <1>4, <1>5, <1>6
     DEF Next, vars, Serve, Ask, Clear, Save, Mail, StopSend, CoolDown, TimeUp, KeyGone

(* The code accepted is the newest, unless a newer one was saved after this *)
(* verification had read the store, or saves raced.                         *)
THEOREM NewestCodeOnly == Spec => NewestOnly
<1>1. IInv /\ [Next]_vars =>
        [\A v \in Verifies :
           ~Accepted(v) /\ Accepted(v)' =>
             raced \/ v \in late \/ verify[v].code = newest]_vars
  <2> SUFFICES ASSUME IInv, [Next]_vars, NEW v \in Verifies, ~Accepted(v), Accepted(v)',
                      ~raced, v \notin late
               PROVE  verify[v].code = newest
    OBVIOUS
  <2>1. verify[v].pc = "consume"
    BY OnlyConsumeAccepts DEF Consume
  <2> QED
    BY <2>1 DEF IInv, OnlyNewest, VerifyOK
<1> QED
  BY <1>1, InductiveInvariant, PTL DEF Spec, NewestOnly

(* Whoever works inside its lease holds its lock, so nobody works beside it *)
(* under that lock, and no one who lost it frees that of the next holder.   *)
THEOREM OneVerificationAtATime == Spec => []LockExcludes
<1>1. IInv => LockExcludes
  BY DEF IInv
<1> QED
  BY <1>1, InductiveInvariant, PTL
=============================================================================
