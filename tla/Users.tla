---------------------------------- MODULE Users ----------------------------------
(***************************************************************************)
(* The users table and the requests that write it: sign-up, the account a  *)
(* social login makes, a new user name, a new e-mail address, a forgotten  *)
(* password, the verification of an address, and the check of a user name  *)
(* against the filter of one server process.                               *)
(*                                                                         *)
(* A request stands for what one person does with a form, the sending of   *)
(* the code it needs included; every awaited call is a step.  An account   *)
(* is named by the request that makes it.  Lockout and deletion are in     *)
(* Accounts, sessions in Sessions, cooldown, expiry and the lock of a code *)
(* in Otp: here a code is stored under an address, or is not.              *)
(***************************************************************************)
EXTENDS Naturals, FiniteSets

CONSTANTS
  Requests,     \* what people do, each once
  Does,         \* the operations a request may be
  Founder,      \* an account that exists from the start
  Processes,    \* processes of the API
  Names,        \* user names
  Addresses,    \* e-mail addresses
  Lower,        \* toLowerCase, of names and of addresses
  FirstName, FirstAddress,  \* of the founder
  None,         \* no account, no row
  Size, NumHashes, fnv1a, djb2,  \* see BloomFilter
  MaxAttempts,  \* names a social login tries: 5 in the code
  Faults        \* "error": a statement throws; "stop": a process stops;
                \* "slow": a sign-up outlives the lease of its lock;
                \* "lag": a read replica is behind; "busy": hashing is full

Ops == {"register", "social", "rename", "readdress", "reset", "verify", "check"}
Accounts == Requests \cup {Founder}

ASSUME NoneAssumption == Founder \notin Requests /\ None \notin Accounts
ASSUME DoesAssumption == Does \in [Requests -> SUBSET Ops]
ASSUME LowerAssumption ==
  /\ Lower \in [Names \cup Addresses -> Names \cup Addresses]
  /\ \A n \in Names : Lower[n] \in Names /\ Lower[Lower[n]] = Lower[n]
  /\ \A a \in Addresses : Lower[a] \in Addresses /\ Lower[Lower[a]] = Lower[a]
ASSUME FirstAssumption == FirstName \in Names /\ FirstAddress \in Addresses
ASSUME AttemptsAssumption == MaxAttempts \in Nat \ {0}
ASSUME SizeAssumption == Size \in Nat \ {0} /\ NumHashes \in Nat \ {0}
ASSUME HashAssumption == fnv1a \in [Names -> Nat] /\ djb2 \in [Names -> Nat]
ASSUME FaultsAssumption == Faults \subseteq {"error", "stop", "slow", "lag", "busy"}

Filter == INSTANCE BloomFilter WITH Values <- Names

VARIABLES
  users,    \* the rows of the primary
  replica,  \* the rows of the read replica
  codes,    \* codes not yet used: what for, and the address they are stored under
  shared,   \* the lock service is Redis, not one in each process
  leases,   \* sign-ups that hold the lock of their name
  filter,   \* the bits of usernameBloomFilter, per process
  welcome,  \* accounts whose WELCOME e-mail was queued
  req,      \* how far each request is
  stale,    \* history: requests since whose reading the table has changed
  renamed,  \* history: accounts that changed their name, not only its case
  overrun,  \* history: sign-ups whose lease ended under them
  unloaded  \* history: processes whose filter did not get all the names

vars == <<users, replica, codes, shared, leases, filter, welcome, req, stale,
          renamed, overrun, unloaded>>

Row == [name : Names, address : Addresses, verified : BOOLEAN,
        placeholder : BOOLEAN,    \* the phone number is "0000000000"
        password : Accounts]      \* who set it
Table == [Accounts -> Row \cup {None}]

ASSUME RowAssumption == None \notin Row

Steps == {"idle", "lock", "code", "create", "mark", "read",
          "greet", "unlock", "look", "find", "store", "filter", "done"}

Request == [pc : Steps, op : Ops, at : Processes \cup {None}, name : Names,
            address : Addresses,
            who : Accounts \cup {None},  \* the account it is about
            tries : 0..(MaxAttempts - 1),
            out : {"none", "ok", "refused", "error"}]

(* One type invariant for the twelve variables. *)
TypeOK ==
  /\ users \in Table /\ replica \in Table
  /\ codes \subseteq {"verify", "change", "reset"} \X Addresses
  /\ shared \in BOOLEAN
  /\ leases \subseteq Requests
  /\ filter \in [Processes -> SUBSET Filter!Bits]
  /\ welcome \subseteq Accounts
  /\ req \in [Requests -> Request]
  /\ stale \subseteq Requests /\ overrun \subseteq Requests
  /\ renamed \subseteq Accounts
  /\ unloaded \subseteq Processes

FirstRow == [name |-> FirstName, address |-> FirstAddress, verified |-> TRUE,
             placeholder |-> FALSE, password |-> Founder]

Idle == [pc |-> "idle", op |-> "check", at |-> None,
         name |-> FirstName, address |-> FirstAddress, who |-> None,
         tries |-> 0, out |-> "none"]

Init ==
  /\ users = [a \in Accounts |-> IF a = Founder THEN FirstRow ELSE None]
  /\ replica = users
  /\ codes = {}
  /\ shared \in BOOLEAN
  /\ leases = {}
  /\ filter = [p \in Processes |-> Filter!Loaded({Lower[FirstName]})]
  /\ welcome = {Founder}
  /\ req = [r \in Requests |-> Idle]
  /\ stale = {} /\ renamed = {} /\ overrun = {} /\ unloaded = {}

lockVars == <<shared, leases, overrun>>
filterVars == <<filter, unloaded>>
rowVars == <<users, replica, renamed>>
tableVars == <<rowVars, stale>>

Busy(r) == req[r].pc \notin {"idle", "done"}
Op(r) == req[r].op

Creates(r) == Op(r) \in {"register", "social"}

At(r, p) == req[r].pc = p
Go(r, p) == req' = [req EXCEPT ![r].pc = p]

\* An answer; a sign-up releases its lock first.  What the request carried is
\* forgotten, but for the name of an account it may have made.
Reply(r, o) ==
  [pc |-> IF Op(r) = "register" /\ ~At(r, "lock") THEN "unlock" ELSE "done",
   op |-> Op(r), at |-> IF Creates(r) THEN req[r].at ELSE None,
   name |-> IF Creates(r) THEN req[r].name ELSE FirstName,
   address |-> FirstAddress, who |-> None, tries |-> 0, out |-> o]

Answer(r, o) == req' = [req EXCEPT ![r] = Reply(r, o)]

(***************************************************************************)
(* Reading and writing the table.                                          *)
(***************************************************************************)
\* findUserBy...: readQuery goes to the replica, if there is one.
Read == IF "lag" \in Faults THEN replica ELSE users

Named(n) == {a \in Accounts : Read[a] # None /\ Lower[Read[a].name] = Lower[n]}
Addressed(d) ==
  {a \in Accounts : Read[a] # None /\ Lower[Read[a].address] = Lower[d]}

Noted(r) == stale' = IF Read = users THEN stale \ {r} ELSE stale \cup {r}

\* The unique columns are compared as they are written.
NameTaken(a, n) == \E b \in Accounts \ {a} : users[b] # None /\ users[b].name = n
AddressTaken(a, d) ==
  \E b \in Accounts \ {a} : users[b] # None /\ users[b].address = d
PhoneTaken(a) == \E b \in Accounts \ {a} : users[b] # None /\ users[b].placeholder

Write(r, a, row) ==
  /\ users' = [users EXCEPT ![a] = row]
  /\ replica' = IF "lag" \in Faults THEN replica ELSE users'
  /\ stale' = stale \cup {q \in Requests \ {r} : Busy(q)}
  /\ renamed' = IF users[a] # None /\ Lower[users[a].name] # Lower[row.name]
                THEN renamed \cup {a} ELSE renamed

Replicate ==
  /\ replica # users
  /\ replica' = users
  /\ UNCHANGED <<users, renamed, stale, codes, lockVars, filterVars, welcome, req>>

(***************************************************************************)
(* What a request begins with.                                             *)
(***************************************************************************)
First(o) == CASE o = "register" -> "lock"
              [] o = "verify" -> "code"
              [] o = "check" -> "filter"
              [] OTHER -> "look"

\* The form is sent.  For a sign-up and a verification that is /send-otp, which
\* stores the code under the address as it was typed.
Begin(r) ==
  /\ At(r, "idle")
  /\ \E o \in Does[r], n \in Names, d \in Addresses, p \in Processes,
        a \in Accounts \cup {None} :
       /\ o \notin {"register", "social", "rename", "check"} => n = FirstName
       /\ o \in {"rename", "check"} => d = FirstAddress
       /\ IF o \in {"rename", "readdress"} THEN a # None /\ users[a] # None
                                           ELSE a = None
       /\ o = "social" => d = Lower[d]
       /\ req' = [req EXCEPT ![r] = [pc |-> First(o), op |-> o, at |-> p,
                                     name |-> n, address |-> d, who |-> a,
                                     tries |-> 0, out |-> "none"]]
       /\ codes' = IF o \in {"register", "verify"} THEN codes \cup {<<"verify", d>>}
                                                   ELSE codes
  /\ UNCHANGED <<tableVars, lockVars, filterVars, welcome>>

(***************************************************************************)
(* register                                                                *)
(***************************************************************************)
\* The address as the validator leaves it.
Address(r) == IF Op(r) \in {"register", "reset"} THEN Lower[req[r].address]
                                                 ELSE req[r].address

SameLock_Typed(q, r) ==
  /\ req[q].name = req[r].name
  /\ shared \/ req[q].at = req[r].at
\* lock:register:<name> in Redis, or in the memory of one process.
SameLock(q, r) ==
  /\ Lower[req[q].name] = Lower[req[r].name]
  /\ shared \/ req[q].at = req[r].at

\* acquireLock
Lock(r) ==
  /\ At(r, "lock")
  /\ IF \E q \in leases : SameLock(q, r)
     THEN Answer(r, "refused") /\ UNCHANGED leases
     ELSE Go(r, "code") /\ leases' = leases \cup {r}
  /\ UNCHANGED <<tableVars, codes, shared, overrun, filterVars, welcome>>

\* isPasswordBreached: a list that cannot be asked says no.
Breached(r) == Op(r) \in {"register", "reset"} /\ Answer(r, "refused")

Purpose(o) == CASE o = "readdress" -> "change"
                [] o = "reset" -> "reset"
                [] OTHER -> "verify"
Code(r) == <<Purpose(Op(r)), Address(r)>>

AfterCode == [register |-> "create", readdress |-> "store", reset |-> "find",
              verify |-> "find"]

\* verifyOTP: the right code is used up; any other is refused and stays.
Verify(r) ==
  /\ At(r, "code")
  /\ \/ Code(r) \in codes /\ codes' = codes \ {Code(r)} /\ Go(r, AfterCode[Op(r)])
     \/ Answer(r, "refused") /\ UNCHANGED codes
     \/ Breached(r) /\ UNCHANGED codes
  /\ UNCHANGED <<tableVars, lockVars, filterVars, welcome>>

\* hashPassword throws when its queue is full; the code is used up by then.
Hash(r) ==
  /\ "busy" \in Faults
  /\ At(r, "create") \/ (At(r, "store") /\ Op(r) = "reset")
  /\ req[r].tries = 0
  /\ Answer(r, "refused")
  /\ UNCHANGED <<tableVars, codes, lockVars, filterVars, welcome>>

\* The row of createUser; sign-up sets is_verified in the same transaction.
NewRow_Unverified(r) ==
  [name |-> req[r].name, address |-> Address(r), verified |-> FALSE,
   placeholder |-> Op(r) = "social", password |-> r]
NewRow(r) == [name |-> req[r].name, address |-> Address(r),
              verified |-> Op(r) = "register",
              placeholder |-> Op(r) = "social", password |-> r]

Clash(r) ==
  \/ NameTaken(r, req[r].name) \/ AddressTaken(r, Address(r))
  \/ Op(r) = "social" /\ PhoneTaken(r)

\* BEGIN to COMMIT.  Somebody else's phone number may be in the way as well.
Register(r) ==
  /\ At(r, "create") /\ Op(r) = "register"
  /\ \/ ~Clash(r) /\ Write(r, r, NewRow(r)) /\ Go(r, "greet")
     \/ Answer(r, "refused") /\ UNCHANGED tableVars
  /\ UNCHANGED <<codes, lockVars, filterVars, welcome>>

Learned_Typed(r) == Filter!Added(filter[req[r].at], req[r].name)
Learned(r) == Filter!Added(filter[req[r].at], Lower[req[r].name])

\* The e-mail is queued and the filter updated, by a social login in the other
\* order.  An error is answered although the account exists.
Greet(r) ==
  /\ At(r, "greet")
  /\ \/ /\ welcome' = welcome \cup {r}
        /\ filter' = [filter EXCEPT ![req[r].at] = Learned(r)]
        /\ Answer(r, "ok")
     \/ /\ "error" \in Faults
        /\ filter' = IF Op(r) = "social"
                     THEN [filter EXCEPT ![req[r].at] = Learned(r)] ELSE filter
        /\ Answer(r, "error")
        /\ UNCHANGED welcome
  /\ UNCHANGED <<tableVars, codes, lockVars, unloaded>>

\* releaseLock, in the finally block; it compares the token.
Unlock(r) ==
  /\ At(r, "unlock")
  /\ leases' = leases \ {r} /\ overrun' = overrun \ {r}
  /\ Go(r, "done")
  /\ UNCHANGED <<tableVars, codes, shared, filterVars, welcome>>

(***************************************************************************)
(* socialLogin, until somebody is signed in.                               *)
(***************************************************************************)
SocialLook(r) ==
  /\ At(r, "look") /\ Op(r) = "social"
  /\ IF Addressed(req[r].address) # {} THEN Answer(r, "ok") ELSE Go(r, "create")
  /\ Noted(r)
  /\ UNCHANGED <<rowVars, codes, lockVars, filterVars, welcome>>

Tried(r) == req[r].tries + 1

Exhausted_Late(r) == Tried(r) > MaxAttempts
Exhausted(r) == Tried(r) = MaxAttempts

\* createUser, again under a name with a random suffix when the name is taken.
\* Which of several violated constraints is reported is up to the database.
SocialCreate(r) ==
  /\ At(r, "create") /\ Op(r) = "social"
  /\ \/ ~Clash(r) /\ Write(r, r, NewRow(r)) /\ Go(r, "mark")
     \/ /\ NameTaken(r, req[r].name)
        /\ IF Exhausted(r) THEN Answer(r, "refused")
           ELSE \E n \in Names :
                  req' = [req EXCEPT ![r].tries = Tried(r), ![r].name = n]
        /\ UNCHANGED tableVars
     \/ /\ AddressTaken(r, Address(r)) \/ PhoneTaken(r)
        /\ Answer(r, "refused")
        /\ UNCHANGED tableVars
  /\ UNCHANGED <<codes, lockVars, filterVars, welcome>>

Whose(r) == IF Op(r) = "social" THEN r ELSE req[r].who

\* verifyUser
Mark(r) ==
  /\ At(r, "mark")
  /\ Write(r, Whose(r), [users[Whose(r)] EXCEPT !.verified = TRUE])
  /\ IF Op(r) = "social" THEN Go(r, "read") ELSE Answer(r, "ok")
  /\ UNCHANGED <<codes, lockVars, filterVars, welcome>>

\* findUserById reads the new row, perhaps from a replica that lacks it.
ReadBack(r) ==
  /\ At(r, "read")
  /\ IF Read[r] = None THEN Answer(r, "error") ELSE Go(r, "greet")
  /\ UNCHANGED <<tableVars, codes, lockVars, filterVars, welcome>>

(***************************************************************************)
(* updateUserProfile                                                       *)
(***************************************************************************)
RenameLook(r) ==
  /\ At(r, "look") /\ Op(r) = "rename"
  /\ IF Named(req[r].name) \subseteq {req[r].who}
     THEN Go(r, "store")
     ELSE \/ Answer(r, "refused")
          \/ req[r].who \in Named(req[r].name) /\ Go(r, "store")
  /\ Noted(r)
  /\ UNCHANGED <<rowVars, codes, lockVars, filterVars, welcome>>

\* The name and a phone number; a unique violation is nobody's error here.
Rename(r) ==
  LET a == req[r].who
  IN /\ At(r, "store") /\ Op(r) = "rename"
     /\ IF NameTaken(a, req[r].name)
        THEN Answer(r, "error") /\ UNCHANGED tableVars
        ELSE /\ Write(r, a, [users[a] EXCEPT !.name = req[r].name,
                                             !.placeholder = FALSE])
             /\ Answer(r, "ok")
     /\ UNCHANGED <<codes, lockVars, filterVars, welcome>>

(***************************************************************************)
(* sendEmailChangeOTP and verifyAndChangeEmail                             *)
(***************************************************************************)
Reachable_Anything(d) == TRUE
Reachable(d) == Addressed(d) = {}

ReaddressLook(r) ==
  /\ At(r, "look") /\ Op(r) = "readdress"
  /\ IF Reachable(req[r].address)
     THEN Go(r, "code") /\ codes' = codes \cup {Code(r)}
     ELSE Answer(r, "refused") /\ UNCHANGED codes
  /\ Noted(r)
  /\ UNCHANGED <<rowVars, lockVars, filterVars, welcome>>

Readdress(r) ==
  LET a == req[r].who
  IN /\ At(r, "store") /\ Op(r) = "readdress"
     /\ IF AddressTaken(a, req[r].address)
        THEN Answer(r, "error") /\ UNCHANGED tableVars
        ELSE /\ Write(r, a, [users[a] EXCEPT !.address = req[r].address])
             /\ Answer(r, "ok")
     /\ UNCHANGED <<codes, lockVars, filterVars, welcome>>

(***************************************************************************)
(* forgotPassword, resetPassword, verifyEmail                              *)
(***************************************************************************)
\* forgotPassword sends the code to the address as it is stored, and answers
\* the same when there is nobody.
ResetLook(r) ==
  /\ At(r, "look") /\ Op(r) = "reset"
  /\ \/ \E a \in Addressed(Address(r)) :
          /\ codes' = codes \cup {<<"reset", Read[a].address>>}
          /\ Go(r, "code")
     \/ Addressed(Address(r)) = {} /\ Answer(r, "ok") /\ UNCHANGED codes
  /\ UNCHANGED <<tableVars, lockVars, filterVars, welcome>>

AfterFind == [reset |-> "store", verify |-> "mark"]

\* findUserByEmail, once the code is used up.
Find(r) ==
  /\ At(r, "find")
  /\ \/ \E a \in Addressed(Address(r)) :
          req' = [req EXCEPT ![r].who = a, ![r].pc = AfterFind[Op(r)]]
     \/ Addressed(Address(r)) = {} /\ Answer(r, "refused")
  /\ Noted(r)
  /\ UNCHANGED <<rowVars, codes, lockVars, filterVars, welcome>>

\* updateUserPassword
Reset(r) ==
  LET a == req[r].who
  IN /\ At(r, "store") /\ Op(r) = "reset"
     /\ Write(r, a, [users[a] EXCEPT !.password = r])
     /\ Answer(r, "ok")
     /\ UNCHANGED <<codes, lockVars, filterVars, welcome>>

(***************************************************************************)
(* checkUsername                                                           *)
(***************************************************************************)
Maybe(r) == Filter!Has(filter[req[r].at], Lower[req[r].name])

\* "ok": the name is free.
CheckFilter(r) ==
  /\ At(r, "filter")
  /\ IF Maybe(r) THEN Go(r, "look") ELSE Answer(r, "ok")
  /\ UNCHANGED <<tableVars, codes, lockVars, filterVars, welcome>>

CheckLook(r) ==
  /\ At(r, "look") /\ Op(r) = "check"
  /\ Answer(r, IF Named(req[r].name) = {} THEN "ok" ELSE "refused")
  /\ Noted(r)
  /\ UNCHANGED <<rowVars, codes, lockVars, filterVars, welcome>>

(***************************************************************************)
(* Time and faults.                                                        *)
(***************************************************************************)
\* Five seconds are over.
LeaseEnds(r) ==
  /\ r \in leases
  /\ Busy(r) => "slow" \in Faults
  /\ leases' = leases \ {r}
  /\ overrun' = IF Busy(r) THEN overrun \cup {r} ELSE overrun
  /\ UNCHANGED <<tableVars, codes, shared, filterVars, welcome, req>>

\* A statement of a request throws.
Throw(r) ==
  /\ "error" \in Faults
  /\ Busy(r) /\ ~At(r, "unlock")
  /\ Answer(r, "error")
  /\ UNCHANGED <<tableVars, codes, lockVars, filterVars, welcome>>

Loadable == {Lower[Read[a].name] : a \in {b \in Accounts : Read[b] # None}}

\* A process stops and starts again: initializeUsernameBloomFilter reads all the
\* names, or fails and leaves the filter empty.  In Redis the locks stay.
Restart(p) ==
  /\ "stop" \in Faults
  /\ req' = [r \in Requests |->
               IF req[r].at = p /\ Busy(r)
               THEN [Reply(r, "error") EXCEPT !.pc = "done", !.at = None]
               ELSE req[r]]
  /\ leases' = IF shared THEN leases ELSE {r \in leases : req[r].at # p}
  /\ \/ /\ filter' = [filter EXCEPT ![p] = Filter!Loaded(Loadable)]
        /\ unloaded' = IF Read = users THEN unloaded \ {p} ELSE unloaded \cup {p}
     \/ /\ "error" \in Faults
        /\ filter' = [filter EXCEPT ![p] = {}]
        /\ unloaded' = unloaded \cup {p}
  /\ UNCHANGED <<tableVars, codes, shared, overrun, welcome>>

SignUp(r) == Lock(r) \/ Verify(r) \/ Hash(r) \/ Register(r)
             \/ Greet(r) \/ Unlock(r)
Social(r) == SocialLook(r) \/ SocialCreate(r) \/ Mark(r) \/ ReadBack(r)
Profile(r) == RenameLook(r) \/ Rename(r) \/ ReaddressLook(r) \/ Readdress(r)
Recovery(r) == ResetLook(r) \/ Find(r) \/ Reset(r)
Check(r) == CheckFilter(r) \/ CheckLook(r)

Next ==
  \/ \E r \in Requests :
       \/ Begin(r) \/ SignUp(r) \/ Social(r) \/ Profile(r) \/ Recovery(r) \/ Check(r)
       \/ LeaseEnds(r) \/ Throw(r)
  \/ \E p \in Processes : Restart(p)
  \/ Replicate

Spec == Init /\ [][Next]_vars

(***************************************************************************)
(* Properties.                                                             *)
(***************************************************************************)
(* What a sign-up or a social login answers is true of the table: after a   *)
(* success there is a verified account whose welcome is queued (or, for a   *)
(* social login, there was one for the address), a refusal has left no      *)
(* account, and nobody is welcomed to an account that does not exist.       *)
AnswersHold ==
  /\ \A r \in Requests : Creates(r) =>
       /\ req[r].out = "refused" => users[r] = None
       /\ (req[r].out = "ok" /\ users[r] # None) =>
            users[r].verified /\ r \in welcome
       /\ (req[r].out = "ok" /\ Op(r) = "register") => users[r] # None
  /\ \A a \in welcome : users[a] # None

(* Two sign-ups for names that differ at most in case are never between     *)
(* taking and giving back the lock of the name at once, within the reach of *)
(* one lock service, unless one of them outlived its lease.                 *)
InLock(r) == Op(r) = "register" /\ Busy(r) /\ ~At(r, "lock")

NameLockExcludes ==
  \A q, r \in Requests \ overrun :
    /\ InLock(q) /\ InLock(r)
    /\ Lower[req[q].name] = Lower[req[r].name]
    /\ shared \/ req[q].at = req[r].at
    => q = r

(* The filter of a process knows every name it has made an account for:     *)
(* checkUsername answers "available" for a taken name only when the account *)
(* was made by another process or was ever renamed, its request failed late,*)
(* or the filter was loaded from a replica that was behind, or not at all.  *)
OwnNamesKnown ==
  \A r \in Requests :
    /\ Creates(r) /\ req[r].out = "ok" /\ users[r] # None
    /\ req[r].at \notin unloaded /\ r \notin renamed
    => Filter!Has(filter[req[r].at], Lower[users[r].name])

Twins(t, a) ==
  {b \in Accounts \ {a} :
     /\ t[a] # None /\ t[b] # None
     /\ \/ Lower[t[a].name] = Lower[t[b].name]
        \/ Lower[t[a].address] = Lower[t[b].address]}

(* A change of name or address that was checked against the table as it is  *)
(* gives nobody a second owner of a name or an address, in any spelling:    *)
(* such twins come from sign-ups, which compare spellings, or from a change *)
(* whose check had become old.                                              *)
TwinsNeedStaleCheck ==
  [][\A r \in Requests :
       /\ Op(r) \in {"rename", "readdress"} /\ At(r, "store")
       /\ req'[r].out = "ok" /\ r \notin stale
       => Twins(users', req[r].who) \subseteq Twins(users, req[r].who)]_vars

(***************************************************************************)
(* What the properties rest on.                                            *)
(***************************************************************************)
\* No row is deleted here, and a replica shows no row that was never written.
RowsStay ==
  /\ \A a \in Accounts : replica[a] # None => users[a] # None
  /\ \A a \in welcome : users[a] # None

\* Which operations take a step, and what a request carries at it.
Takes == [lock |-> {"register"}, code |-> {"register", "readdress", "reset", "verify"},
          create |-> {"register", "social"}, mark |-> {"social", "verify"},
          read |-> {"social"}, greet |-> {"register", "social"}, unlock |-> {"register"},
          look |-> {"social", "rename", "readdress", "reset", "check"},
          find |-> {"reset", "verify"}, store |-> {"rename", "readdress", "reset"},
          filter |-> {"check"}, idle |-> Ops, done |-> Ops]

StepOK(r) ==
  /\ Op(r) \in Takes[req[r].pc]
  /\ Busy(r) => req[r].at \in Processes
  /\ req[r].pc \notin {"unlock", "done"} => req[r].out = "none"
  /\ (Creates(r) /\ req[r].out = "ok") => req[r].at \in Processes
  /\ \/ Busy(r) /\ Op(r) \in {"rename", "readdress"}
     \/ req[r].pc = "store" \/ (Op(r) = "verify" /\ At(r, "mark"))
     => req[r].who \in Accounts /\ users[req[r].who] # None

\* How far a sign-up or a social login is tells of the account it makes.
AccountOK(r) ==
  /\ users[r] # None => Creates(r) /\ req[r].pc \in {"mark", "read", "greet", "unlock", "done"}
  /\ req[r].pc \in {"read", "greet"} \/ (Op(r) = "social" /\ At(r, "mark")) => users[r] # None
  /\ req[r].pc \in {"read", "greet"} => users[r].verified
  /\ users[r] # None /\ r \notin renamed => Lower[users[r].name] = Lower[req[r].name]

Answered(r) == Creates(r) =>
  /\ req[r].out = "refused" => users[r] = None
  /\ req[r].out = "ok" /\ users[r] # None => users[r].verified /\ r \in welcome
  /\ req[r].out = "ok" /\ Op(r) = "register" => users[r] # None

\* The lock is held until it is given back or its lease ends, also by the lost
\* sign-up of a process that stopped.
LeaseOK(r) ==
  /\ InLock(r) /\ r \notin overrun => r \in leases
  /\ r \in leases => Op(r) = "register" /\ (InLock(r) \/ (shared /\ At(r, "done")))
  /\ \A q \in leases : r \in leases /\ SameLock(q, r) => q = r

\* What was found is still so, unless the table has changed since.
FoundOK(r) ==
  LET a == req[r].who
  IN r \notin stale =>
       /\ Op(r) = "rename" /\ At(r, "store") =>
            \A b \in Accounts \ {a} :
              users[b] # None /\ Lower[users[b].name] = Lower[req[r].name] =>
                Lower[users[a].name] = Lower[req[r].name]
       /\ Op(r) = "readdress" /\ req[r].pc \in {"code", "store"} =>
            \A b \in Accounts :
              users[b] # None => Lower[users[b].address] # Lower[req[r].address]

\* The conjunction is inductive.
IInv ==
  /\ TypeOK /\ RowsStay
  /\ \A r \in Requests : StepOK(r) /\ AccountOK(r) /\ Answered(r) /\ LeaseOK(r) /\ FoundOK(r)
  /\ OwnNamesKnown

(* A code that was sent and not used is found by the request it was sent    *)
(* for: what the page tells the person who is asked to enter it.            *)
SentCodeIsFound ==
  \A r \in Requests :
    At(r, "code") =>
      \A c \in codes :
        (c[1] = Purpose(Op(r)) /\ Lower[c[2]] = Lower[req[r].address]) =>
          Code(r) \in codes
=============================================================================
