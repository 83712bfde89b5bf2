---------------------------------- MODULE Otp ----------------------------------
(***************************************************************************)
(* One-time codes for one e-mail address and one purpose: sendOTP with its *)
(* cooldown, verifyOTP under its lock, the Postgres and the Redis store.   *)
(* Every await is a step, so sends and verifications interleave.  The lock  *)
(* is one key for everybody on Redis; without Redis lockService is a Map of *)
(* each process, so that verifications in two processes do not meet there.  *)
(*                                                                         *)
(* A code is named by the send that generated it (six digits of two sends  *)
(* are taken to differ).  The attempt counter is written by both stores    *)
(* and read by nobody, so it has no state here; the rewriting of the whole *)
(* record that counting means on Redis is modelled.                        *)
(***************************************************************************)
EXTENDS Sequences, SequencesExt

CONSTANTS
  Sends,     \* requests that send a code, each served once
  Verifies,  \* requests that verify a code, each served once
  Processes, \* the API processes; each request is served by one
  None,      \* no code
  Backends,  \* "postgres" and "redis"
  Faults     \* "stop": a process stops; "error": a statement throws;
             \* "slow": a verification outlives the lease of its lock

ASSUME NoneAssumption == None \notin Sends
ASSUME BackendsAssumption == Backends \subseteq {"postgres", "redis"}
ASSUME FaultsAssumption == Faults \subseteq {"stop", "error", "slow"}

VARIABLES
  backend,  \* the store, and the lock service, of this deployment
  table,    \* the stored codes, oldest first; on Redis the key's one value
  lasting,  \* Redis only: the key was written without a TTL
  expired,  \* the codes sent more than 15 minutes ago
  cooled,   \* the codes sent more than a minute ago
  mailed,   \* the codes whose e-mail was queued
  at,       \* the process that serves a verification
  held,     \* the verifications that hold lock:otp:<email>:<purpose>
  send,     \* how far each send is
  verify,   \* how far each verification is
  newest,   \* history: the code saved last
  raced,    \* history: a save met another send or a count in progress
  late,     \* history: verifications that a save overtook before their delete
  crossed,  \* history: pairs at work together under the locks of two processes
  overrun   \* history: verifications whose lock expired under them

vars == <<backend, table, lasting, expired, cooled, mailed, at, held, send,
          verify, newest, raced, late, crossed, overrun>>

Verification ==
  [pc : {"idle", "find", "consume", "drop", "count", "ttl", "restore",
         "release", "done"},
   code : Sends \cup {None},      \* the code presented; None is a wrong one
   read : Sends \cup {None},      \* the record it read
   keep : BOOLEAN,                \* it found no TTL on the key
   out : {"none", "accepted", "refused"}]

Fresh == [pc |-> "idle", code |-> None, read |-> None, keep |-> FALSE, out |-> "none"]

(* One type invariant for all the variables. *)
TypeOK ==
  /\ backend \in Backends
  /\ table \in Seq(Sends)
  /\ lasting \in BOOLEAN
  /\ expired \in SUBSET Sends /\ cooled \in SUBSET Sends
  /\ mailed \in SUBSET Sends
  /\ at \in [Verifies -> Processes]
  /\ held \in SUBSET Verifies
  /\ send \in [Sends -> {"idle", "clear", "save", "mail", "done"}]
  /\ verify \in [Verifies -> Verification]
  /\ newest \in Sends \cup {None} /\ raced \in BOOLEAN
  /\ late \in SUBSET Verifies /\ overrun \in SUBSET Verifies
  /\ crossed \in SUBSET SUBSET Verifies

Init ==
  /\ backend \in Backends
  /\ table = <<>> /\ lasting = FALSE
  /\ expired = {} /\ cooled = {} /\ mailed = {}
  /\ at \in [Verifies -> Processes] /\ held = {}
  /\ send = [s \in Sends |-> "idle"]
  /\ verify = [v \in Verifies |-> Fresh]
  /\ newest = None /\ raced = FALSE
  /\ late = {} /\ crossed = {} /\ overrun = {}

storeVars == <<table, lasting>>
timeVars == <<expired, cooled>>
pastVars == <<newest, raced, late>>
lockVars == <<at, held, crossed, overrun>>

Stored == ToSet(table)
Latest == IF table = <<>> THEN None ELSE Last(table)

GoSend(s, p) == send' = [send EXCEPT ![s] = p]

(***************************************************************************)
(* sendOTP.                                                                *)
(***************************************************************************)
CoolingDown == Latest # None /\ Latest \notin cooled

\* The cooldown check; on Postgres the save begins with a DELETE.
Ask(s) ==
  /\ send[s] = "idle"
  /\ \/ CoolingDown /\ GoSend(s, "done")
     \/ /\ ~CoolingDown
        /\ GoSend(s, IF backend = "postgres" THEN "clear" ELSE "save")
  /\ UNCHANGED <<backend, storeVars, timeVars, mailed, lockVars, verify,
                 pastVars>>

Cleared_Not == table
Cleared == <<>>

\* deleteOTPsForEmail
Clear(s) ==
  /\ send[s] = "clear"
  /\ table' = Cleared
  /\ GoSend(s, "save")
  /\ UNCHANGED <<backend, lasting, timeVars, mailed, lockVars, verify,
                 pastVars>>

\* INSERT, or SET with EX.
Save(s) ==
  /\ send[s] = "save"
  /\ table' = IF backend = "postgres" THEN Append(table, s) ELSE <<s>>
  /\ lasting' = FALSE
  /\ newest' = s
  /\ raced' = \/ raced
              \/ \E t \in Sends \ {s} : send[t] \in {"clear", "save"}
              \/ \E v \in Verifies : verify[v].pc \in {"ttl", "restore"}
  /\ late' = late \cup {v \in Verifies : verify[v].pc = "consume"}
  /\ GoSend(s, "mail")
  /\ UNCHANGED <<backend, timeVars, mailed, lockVars, verify>>

Mail(s) ==
  /\ send[s] = "mail"
  /\ mailed' = mailed \cup {s}
  /\ GoSend(s, "done")
  /\ UNCHANGED <<backend, storeVars, timeVars, lockVars, verify, pastVars>>

(***************************************************************************)
(* verifyOTP.                                                              *)
(***************************************************************************)
Goto(v, p) == verify' = [verify EXCEPT ![v].pc = p]

\* Any answer but success: 429, one of the 400s, or an error.
Refuse(v, p) == verify' = [verify EXCEPT ![v] = [Fresh EXCEPT !.pc = p, !.out = "refused"]]

Accepted(v) == verify[v].out = "accepted"
Working(v) == verify[v].pc \notin {"idle", "done"}

\* One lock for all on Redis, one in each process without it.
OneLock(v, w) == backend = "redis" \/ at[v] = at[w]
Free(v) == \A w \in held : ~OneLock(v, w)

\* SET NX PX 5000, or the entry of the process's Map.
Acquire(v) ==
  /\ verify[v].pc = "idle"
  /\ \/ /\ Free(v)
        /\ held' = held \cup {v}
        /\ \E c \in mailed \cup {None} :
             verify' = [verify EXCEPT ![v].pc = "find", ![v].code = c]
        /\ crossed' = crossed \cup {{v, w} : w \in {u \in Verifies \ {v} :
                                                  Working(u) /\ ~OneLock(v, u)}}
     \/ /\ ~Free(v)
        /\ Refuse(v, "done")
        /\ UNCHANGED <<held, crossed>>
  /\ UNCHANGED <<backend, storeVars, timeVars, mailed, at, send, pastVars,
                 overrun>>

\* findLatestOTP, and the checks on what it returned.
Find(v) ==
  LET c == Latest
  IN /\ verify[v].pc = "find"
     /\ \/ /\ c = None
           /\ Refuse(v, "release")
        \/ /\ c # None
           /\ verify' = [verify EXCEPT
                 ![v].read = c,
                 ![v].pc = IF c \in expired THEN "drop"
                           ELSE IF c = verify[v].code THEN "consume" ELSE "count"]
     /\ UNCHANGED <<backend, storeVars, timeVars, mailed, lockVars, send,
                    pastVars>>

Without_Kept(c) == table
\* deleteOTP: the row with that id, or the key whatever it holds by now.
Without(c) == IF backend = "redis" THEN <<>>
              ELSE IF c \notin Stored THEN table
              ELSE RemoveAt(table, CHOOSE i \in DOMAIN table : table[i] = c)

Consume(v) ==
  /\ verify[v].pc = "consume"
  /\ table' = Without(verify[v].read)
  /\ verify' = [verify EXCEPT ![v] = [@ EXCEPT !.pc = "release", !.out = "accepted",
                                              !.read = None]]
  /\ UNCHANGED <<backend, lasting, timeVars, mailed, lockVars, send,
                 pastVars>>

Drop(v) ==
  /\ verify[v].pc = "drop"
  /\ table' = Without(verify[v].read)
  /\ Refuse(v, "release")
  /\ UNCHANGED <<backend, lasting, timeVars, mailed, lockVars, send,
                 pastVars>>

\* incrementAttempts: one UPDATE on Postgres; on Redis GET, TTL and SET.
Count(v) ==
  /\ verify[v].pc = "count"
  /\ \/ /\ backend = "postgres" \/ Latest = None
        /\ Refuse(v, "release")
     \/ /\ backend = "redis" /\ Latest # None
        /\ verify' = [verify EXCEPT ![v].pc = "ttl", ![v].read = Latest]
  /\ UNCHANGED <<backend, storeVars, timeVars, mailed, lockVars, send,
                 pastVars>>

Ttl(v) ==
  /\ verify[v].pc = "ttl"
  /\ verify' = [verify EXCEPT ![v].pc = "restore",
                              ![v].keep = lasting \/ Latest = None]
  /\ UNCHANGED <<backend, storeVars, timeVars, mailed, lockVars, send,
                 pastVars>>

Restore(v) ==
  /\ verify[v].pc = "restore"
  /\ table' = <<verify[v].read>>
  /\ lasting' = verify[v].keep
  /\ Refuse(v, "release")
  /\ UNCHANGED <<backend, timeVars, mailed, lockVars, send, pastVars>>

Owned_Anyones(v) == {w \in held : OneLock(v, w)}
Owned(v) == held \cap {v}

\* finally: releaseLock, which compares the token first.
Release(v) ==
  /\ verify[v].pc = "release"
  /\ held' = held \ Owned(v)
  /\ Goto(v, "done")
  /\ UNCHANGED <<backend, storeVars, timeVars, mailed, at, send, pastVars,
                 crossed, overrun>>

(***************************************************************************)
(* Time and faults.                                                        *)
(***************************************************************************)
CoolDown(c) ==
  /\ c \in Stored \ cooled
  /\ cooled' = cooled \cup {c}
  /\ UNCHANGED <<backend, storeVars, expired, mailed, lockVars, send, verify,
                 pastVars>>

TimeUp(c) ==
  /\ c \in (Stored \cap cooled) \ expired
  /\ expired' = expired \cup {c}
  /\ UNCHANGED <<backend, storeVars, cooled, mailed, lockVars, send, verify,
                 pastVars>>

\* The TTL of the key ends, unless the key was written back without one.
KeyGone ==
  /\ backend = "redis" /\ ~lasting
  /\ Latest \in expired
  /\ table' = <<>>
  /\ UNCHANGED <<backend, lasting, timeVars, mailed, lockVars, send, verify,
                 pastVars>>

LeaseOver_Never(v) == FALSE
\* The lock has a lease of five seconds, so a holder that is gone loses it.
LeaseOver(v) == v \in held

LeaseEnds(v) ==
  /\ LeaseOver(v)
  /\ Working(v) => "slow" \in Faults
  /\ held' = held \ {v}
  /\ overrun' = IF Working(v) THEN overrun \cup {v} ELSE overrun
  /\ UNCHANGED <<backend, storeVars, timeVars, mailed, at, send, verify,
                 pastVars, crossed>>

\* A statement of a verification throws: the finally block still runs.
Throw(v) ==
  /\ "error" \in Faults
  /\ Working(v) /\ verify[v].pc # "release"
  /\ Refuse(v, "release")
  /\ UNCHANGED <<backend, storeVars, timeVars, mailed, lockVars, send,
                 pastVars>>

\* What is left of a verification when its process stops.
Stopped(r) ==
  IF r.pc \in {"idle", "done"} THEN r
  ELSE IF r.out = "accepted" THEN [r EXCEPT !.pc = "done"]
  ELSE [Fresh EXCEPT !.pc = "done", !.out = "refused"]

\* A process stops: its verifications end, and its Map of locks is gone.
Stop(p) ==
  /\ "stop" \in Faults
  /\ \E v \in Verifies : at[v] = p /\ Working(v)
  /\ verify' = [v \in Verifies |-> IF at[v] = p THEN Stopped(verify[v]) ELSE verify[v]]
  /\ held' = IF backend = "redis" THEN held ELSE {v \in held : at[v] # p}
  /\ UNCHANGED <<backend, storeVars, timeVars, mailed, at, send, pastVars,
                 crossed, overrun>>

\* A send ends early: its process stops, or a statement throws.
StopSend(s) ==
  /\ Faults \cap {"stop", "error"} # {}
  /\ send[s] \notin {"idle", "done"}
  /\ GoSend(s, "done")
  /\ UNCHANGED <<backend, storeVars, timeVars, mailed, lockVars, verify,
                 pastVars>>

Serve(v) ==
  \/ Find(v) \/ Consume(v) \/ Drop(v) \/ Count(v) \/ Ttl(v) \/ Restore(v)
  \/ Release(v)

Next ==
  \/ \E s \in Sends : Ask(s) \/ Clear(s) \/ Save(s) \/ Mail(s) \/ StopSend(s)
  \/ \E v \in Verifies : \/ Acquire(v) \/ Serve(v)
                         \/ LeaseEnds(v) \/ Throw(v)
  \/ \E p \in Processes : Stop(p)
  \/ \E c \in Sends : CoolDown(c) \/ TimeUp(c)
  \/ KeyGone

\* A request that was begun goes on, and leases end.
Fairness ==
  \A v \in Verifies : WF_vars(Serve(v)) /\ WF_vars(LeaseEnds(v))

Spec == Init /\ [][Next]_vars /\ Fairness

(***************************************************************************)
(* Properties.                                                             *)
(***************************************************************************)
\* Two verifications that worked at once under the locks of two processes.
Apart(v, w) == backend = "postgres" /\ at[v] # at[w] /\ {v, w} \in crossed

(* A code is accepted once, and is gone then ("delete OTP immediately       *)
(* (single-use)" in verifyOTP), whatever sends do meanwhile, as long as no  *)
(* verification outlives the lease of its lock.  Two verifications accept   *)
(* one code only if they worked on it at the same time under the locks of   *)
(* two processes, which happens without Redis alone.                        *)
SingleUse ==
  overrun = {} =>
    \A v \in Verifies :
      Accepted(v) =>
        /\ verify[v].code \notin Stored
        /\ \A w \in Verifies \ {v} :
             Accepted(w) /\ verify[w].code = verify[v].code => Apart(v, w)

(* The code that is accepted is at that moment the one saved last, unless   *)
(* the newer one was saved after this verification had read the store, or   *)
(* a save met another send of a code or, on Redis, a count in progress.     *)
NewestOnly ==
  [][\A v \in Verifies :
       ~Accepted(v) /\ Accepted(v)' =>
         raced \/ v \in late \/ verify[v].code = newest]_vars

(* A verification that has not outlived its lease holds its lock until it    *)
(* gives it back: no other one under the same lock works meanwhile, and one *)
(* whose lease is over does not free the lock of the next holder.           *)
LockExcludes ==
  /\ \A v \in Verifies \ overrun : Working(v) => v \in held
  /\ \A v \in held : \A w \in held \ {v} : backend = "postgres" /\ at[v] # at[w]

(***************************************************************************)
(* What they rest on.                                                      *)
(***************************************************************************)
Saved == {s \in Sends : send[s] \in {"mail", "done"}}

\* Every stored code was saved, once, by a send that will not save again.
StoreOK ==
  /\ Stored \subseteq Saved
  /\ \A i, j \in DOMAIN table : table[i] = table[j] => i = j

\* What a verification carries from one await to the next.
VerifyOK ==
  \A v \in Verifies :
    /\ verify[v].pc = "consume" => verify[v].read = verify[v].code
    /\ verify[v].pc \in {"consume", "ttl", "restore"} => verify[v].read \in Saved
    /\ verify[v].pc \in {"ttl", "restore"} => backend = "redis"
    /\ Accepted(v) => verify[v].pc \in {"release", "done"} /\ verify[v].code \in Saved

\* Nobody is about to write back a code that was accepted, and who is about to
\* accept one crossed whoever did.
PendingUnused ==
  overrun = {} =>
    \A v, w \in Verifies :
      Accepted(w) /\ verify[w].code = verify[v].read =>
        /\ verify[v].pc \notin {"ttl", "restore"}
        /\ verify[v].pc = "consume" => Apart(v, w)

\* Two that work at once crossed.
CrossedOK ==
  overrun = {} =>
    \A v \in Verifies : \A w \in Verifies \ {v} :
      Working(v) /\ Working(w) => Apart(v, w)

\* Nothing but the newest code is stored, about to be accepted or about to be
\* written back, and a save on Postgres finds the table cleared.
OnlyNewest ==
  ~raced =>
    /\ table \in {<<>>, <<newest>>}
    /\ \A v \in Verifies :
         /\ verify[v].pc \in {"ttl", "restore"} => verify[v].read = newest
         /\ verify[v].pc = "consume" => v \in late \/ verify[v].read = newest
    /\ \A s \in Sends : backend = "postgres" /\ send[s] = "save" => table = <<>>

\* The conjunction is inductive.
IInv ==
  /\ TypeOK /\ StoreOK /\ VerifyOK /\ LockExcludes
  /\ SingleUse /\ PendingUnused /\ CrossedOK /\ OnlyNewest

(* The lock is never held for ever, even by a process that stopped.         *)
LockComesFree == \A v \in Verifies : v \in held ~> v \notin held
=============================================================================
