--------------------------- MODULE WebClient_proofs ---------------------------
(***************************************************************************)
(* Proofs about WebClient for any tabs, calls and number of tokens: IInv is *)
(* an invariant, and from it a "user" has a cookie, the alarm for a reused  *)
(* token is never false, a logout ends the session, and a person is not    *)
(* sent to the login page while the session lives.                         *)
(***************************************************************************)
EXTENDS WebClient, TLAPS

(***************************************************************************)
(* What the operators of the model do.                                     *)
(***************************************************************************)
LEMMA IdsType == No \notin Ids /\ Ids \subseteq Nat
  BY BoundAssumption DEF Ids, No

LEMMA RequestFields ==
  ASSUME NEW t \in Tabs, NEW o \in AllOps
  PROVE  /\ Request(t, o).pc = "sent" /\ Request(t, o).op = o
         /\ Request(t, o).ans = "none" /\ Request(t, o).id = No
         /\ Request(t, o).dead = FALSE
  BY DEF Request, Idle

LEMMA RequestFrom ==
  ASSUME NEW t \in Tabs, NEW o \in AllOps
  PROVE  Request(t, o).from = t
  BY DEF Request, Idle

LEMMA RequestType ==
  ASSUME TypeOK, NEW t \in Tabs, NEW o \in AllOps
  PROVE  /\ Request(t, o) \in Call
         /\ Request(t, o).ck = (IF o \in {"restore", "logout"} THEN cookie ELSE No)
         /\ Request(t, o).jwt = (IF o \in Guarded THEN tab[t].access ELSE No)
<1>1. tab[t] \in Tab
  BY DEF TypeOK
<1>2. tab[t].access \in Ids \cup {No} /\ cookie \in Ids \cup {No}
  BY <1>1 DEF Tab, TypeOK
<1> DEFINE j == IF o \in Guarded THEN tab[t].access ELSE No
           p == o \in {"password", "email"} /\ tab[t].proof = "good"
           k == IF o \in {"restore", "logout"} THEN cookie ELSE No
<1>3. j \in Ids \cup {No} /\ k \in Ids \cup {No} /\ p \in BOOLEAN
  BY <1>2
<1>4. Request(t, o) = [Idle EXCEPT !.pc = "sent", !.op = o, !.from = t, !.jwt = j,
                                   !.proof = p, !.ck = k]
  BY DEF Request
<1> HIDE DEF j, p, k
<1>5. Request(t, o) = [pc |-> "sent", op |-> o, from |-> t, jwt |-> j, proof |-> p, ck |-> k,
                       ans |-> "none", id |-> No, dead |-> FALSE]
  BY <1>4 DEF Idle
<1>6. Request(t, o) \in Call
  BY <1>3, <1>5 DEF Call, Steps, Answers
<1> QED
  BY <1>5, <1>6 DEF j, k

LEMMA IdleType == Idle \in Call /\ Blank \in Tab
  BY DEF Idle, Call, Steps, AllOps, Answers, Blank, Tab, No

LEMMA CallFields ==
  ASSUME TypeOK, NEW c \in Calls
  PROVE  /\ call[c] \in Call
         /\ call[c].pc \in Steps /\ call[c].op \in AllOps /\ call[c].from \in Tabs \cup {None}
         /\ call[c].jwt \in Ids \cup {No} /\ call[c].ck \in Ids \cup {No}
         /\ call[c].id \in Ids \cup {No} /\ call[c].ans \in Answers
         /\ call[c].dead \in BOOLEAN /\ call[c].proof \in BOOLEAN
<1>1. call[c] \in Call
  BY DEF TypeOK
<1> QED
  BY <1>1 DEF Call

LEMMA RowFields ==
  ASSUME TypeOK, NEW i \in Ids
  PROVE  /\ token[i] \in Row
         /\ token[i].state \in {"none", "live", "ended"} /\ token[i].next \in Ids \cup {No}
         /\ token[i].grace \in BOOLEAN /\ token[i].concurrent \in BOOLEAN
<1>1. token[i] \in Row
  BY DEF TypeOK
<1> QED
  BY <1>1 DEF Row

(* An answer moves its call one step on and touches no other.               *)
LEMMA AnswerEffect ==
  ASSUME TypeOK, NEW c \in Calls, NEW a \in Answers, NEW i \in Ids \cup {No},
         Answer(c, a, i), call[c].pc \in {"sent", "refresh", "again"}
  PROVE  /\ call' \in [Calls -> Call]
         /\ \A d \in Calls \ {c} : call'[d] = call[d]
         /\ call'[c].pc = IF call[c].pc = "sent" THEN "answered"
                          ELSE IF call[c].pc = "refresh" THEN "refreshed" ELSE "answeredAgain"
         /\ call'[c].op = call[c].op /\ call'[c].from = call[c].from
         /\ call'[c].ck = call[c].ck /\ call'[c].dead = call[c].dead
         /\ call'[c].ans = a /\ call'[c].id = i /\ call'[c].jwt = No
<1> DEFINE p == IF call[c].pc = "sent" THEN "answered"
                ELSE IF call[c].pc = "refresh" THEN "refreshed" ELSE "answeredAgain"
<1>1. call[c] \in Call /\ call \in [Calls -> Call]
  BY CallFields DEF TypeOK
<1>2. p = CASE call[c].pc = "sent" -> "answered" [] call[c].pc = "refresh" -> "refreshed"
            [] call[c].pc = "again" -> "answeredAgain"
  OBVIOUS
<1>3. call' = [call EXCEPT ![c].ans = a, ![c].id = i, ![c].jwt = No, ![c].pc = p]
  BY <1>1, <1>2 DEF Answer, Call
<1>4. p \in Steps
  BY DEF Steps
<1> HIDE DEF p
<1>5. call'[c] = [call[c] EXCEPT !.ans = a, !.id = i, !.jwt = No, !.pc = p]
  BY <1>1, <1>3 DEF Call
<1>6. call'[c] \in Call
  BY <1>1, <1>4, <1>5 DEF Call
<1>7. \A d \in Calls \ {c} : call'[d] = call[d]
  BY <1>1, <1>3
<1>8. call' \in [Calls -> Call]
  BY <1>1, <1>3, <1>6, <1>7
<1> QED
  BY <1>1, <1>5, <1>7, <1>8 DEF p, Call

(* A row that ends.                                                         *)
LEMMA EndEffect ==
  ASSUME NEW r \in Row, NEW b \in BOOLEAN
  PROVE  /\ End(r, b) \in Row /\ End(r, b).state # "live" /\ End(r, b).next = r.next
         /\ r.state # "none" => /\ End(r, b).state = "ended" /\ End(r, b).grace
                                /\ End(r, b).concurrent = b
         /\ r.state = "none" => End(r, b) = r
  BY DEF End, Row

(* refresh_tokens after it is stored.                                       *)
LEMMA StoreEffect ==
  ASSUME NEW f \in [Ids -> Row], Store(f)
  PROVE  /\ token' \in [Ids -> Row]
         /\ \A i \in Ids : /\ token'[i].state = f[i].state
                           /\ token'[i].concurrent = f[i].concurrent
         /\ \A i \in Ids : f[i].next # No /\ f[f[i].next].state = "live" => token'[i] = f[i]
         /\ \A i \in Ids : ~(f[i].next # No /\ f[f[i].next].state = "live")
                             => token'[i].next = No /\ ~token'[i].grace
<1>1. ASSUME NEW i \in Ids
      PROVE  /\ token'[i] = IF f[i].next # No /\ f[f[i].next].state = "live" THEN f[i]
                            ELSE [f[i] EXCEPT !.next = No, !.grace = FALSE]
             /\ f[i] \in Row
  BY DEF Store
<1>2. ASSUME NEW i \in Ids
      PROVE  /\ token'[i] \in Row /\ token'[i].state = f[i].state
             /\ token'[i].concurrent = f[i].concurrent
  <2>1. f[i] \in Row
    BY <1>1
  <2>2. [f[i] EXCEPT !.next = No, !.grace = FALSE] \in Row
    BY <2>1 DEF Row
  <2>3. CASE f[i].next # No /\ f[f[i].next].state = "live"
    BY <1>1, <2>1, <2>3
  <2>4. CASE ~(f[i].next # No /\ f[f[i].next].state = "live")
    BY <1>1, <2>1, <2>2, <2>4 DEF Row
  <2> QED
    BY <2>3, <2>4
<1>3. token' \in [Ids -> Row]
  BY <1>2 DEF Store
<1>4. ASSUME NEW i \in Ids, ~(f[i].next # No /\ f[f[i].next].state = "live")
      PROVE  token'[i].next = No /\ ~token'[i].grace
  BY <1>1, <1>4 DEF Row
<1> QED
  BY <1>1, <1>2, <1>3, <1>4

(* When every session ends.                                                 *)
LEMMA RevokeAllEffect ==
  ASSUME TypeOK, NEW b \in BOOLEAN, RevokeAll(b)
  PROVE  /\ token' \in [Ids -> Row] /\ cached' = {} /\ elsewhere' = FALSE
         /\ NoneLive' /\ RowsOK'
<1> DEFINE f == [i \in Ids |-> End(token[i], b)]
<1>1. f \in [Ids -> Row] /\ \A i \in Ids : f[i].state # "live"
  BY RowFields, EndEffect
<1>2. Store(f)
  BY DEF RevokeAll
<1> HIDE DEF f
<1>3. /\ token' \in [Ids -> Row]
      /\ \A i \in Ids : token'[i].state # "live"
  BY <1>1, <1>2, StoreEffect
<1>4. \A i \in Ids : token'[i].next = No
  BY <1>1, <1>2, StoreEffect DEF Row
<1>5. NoneLive' /\ cached' = {} /\ elsewhere' = FALSE
  BY <1>3 DEF NoneLive, Live, RevokeAll
<1> QED
  BY <1>3, <1>4, <1>5 DEF RowsOK, NoneLive, Live

(* What somebody holds is not free.                                         *)
LEMMA HeldHas ==
  /\ cookie # No => cookie \in Held
  /\ \A c \in Calls : /\ call[c].jwt # No => call[c].jwt \in Held
                      /\ call[c].ck # No => call[c].ck \in Held
                      /\ call[c].id # No => call[c].id \in Held
  /\ \A i \in Ids : Live(i) => i \in Held
<1> DEFINE carried == ({cookie} \cup {tab[t].access : t \in Tabs}
                  \cup UNION {{call[c].jwt, call[c].ck, call[c].id} : c \in Calls}) \ {No}
<1>1. carried \subseteq Held /\ {i \in Ids : Live(i)} \subseteq Held
  BY DEF Held
<1>2. cookie # No => cookie \in carried
  OBVIOUS
<1>3. ASSUME NEW c \in Calls
      PROVE  /\ call[c].jwt # No => call[c].jwt \in carried
             /\ call[c].ck # No => call[c].ck \in carried
             /\ call[c].id # No => call[c].id \in carried
  OBVIOUS
<1> QED
  BY <1>1, <1>2, <1>3

(* A new row i in the place of old, or of whatever lived here.              *)
LEMMA IssueEffect ==
  ASSUME TypeOK, RowsOK, NEW i \in Free, NEW old \in Ids \cup {No}, old # No => Live(old),
         Issue(i, old, Free)
  PROVE  /\ token' \in [Ids -> Row] /\ cached' \subseteq Ids
         /\ \A j \in Ids : Live(j)' <=> j = i
         /\ \A j \in Ids \ {old} : token'[j].next = No
         /\ old # No => /\ token'[old].state = "ended" /\ token'[old].next = i
                        /\ token'[old].grace /\ ~token'[old].concurrent
         /\ Redis => i \in cached'
         /\ \A j \in Ids \ {i} : j \in cached' => j \in cached
         /\ \A j \in Held : j \in cached => j \in cached'
<1> DEFINE f == [j \in Ids |->
       CASE j = i -> LiveRow
         [] j \in Free \ {i} -> NoRow
         [] j = old -> [End(token[j], FALSE) EXCEPT !.next = i]
         [] old = No /\ Live(j) -> End(token[j], FALSE)
         [] OTHER -> token[j]]
<1>1. /\ i \in Ids /\ i \notin Held /\ Free \subseteq Ids /\ i # No /\ ~Live(i)
      /\ \A j \in Ids : Live(j) => j \notin Free
  BY HeldHas, IdsType DEF Free
<1>2. NoRow \in Row /\ LiveRow \in Row /\ LiveRow.next = No /\ LiveRow.state = "live"
      /\ NoRow.next = No /\ NoRow.state = "none"
  BY DEF NoRow, LiveRow, Row
<1>3. /\ f[i] = LiveRow
      /\ \A j \in Free \ {i} : f[j] = NoRow
      /\ old # No => f[old] = [End(token[old], FALSE) EXCEPT !.next = i]
      /\ \A j \in Ids \ Free : j # old => f[j] = IF old = No /\ Live(j) THEN End(token[j], FALSE)
                                                 ELSE token[j]
  <2>1. f[i] = LiveRow
    BY <1>1
  <2>2. ASSUME NEW j \in Free \ {i} PROVE f[j] = NoRow
    <3>1. j \in Ids /\ j # i /\ j # old /\ ~Live(j)
      BY <1>1, <2>2, IdsType
    <3> QED
      BY <2>2, <3>1
  <2>3. ASSUME old # No PROVE f[old] = [End(token[old], FALSE) EXCEPT !.next = i]
    BY <1>1, <2>3
  <2>4. ASSUME NEW j \in Ids \ Free, j # old
        PROVE f[j] = IF old = No /\ Live(j) THEN End(token[j], FALSE) ELSE token[j]
    BY <1>1, <2>4
  <2> QED
    BY <2>1, <2>2, <2>3, <2>4
<1>4. Store(f) /\ cached' = (cached \ Free) \cup (IF Redis THEN {i} ELSE {})
  BY DEF Issue
<1>5. DOMAIN f = Ids /\ f = [j \in Ids |-> f[j]]
  OBVIOUS
<1> HIDE DEF f
<1>6. ASSUME NEW j \in Ids
      PROVE  /\ f[j] \in Row
             /\ j # i => f[j].state # "live"
             /\ j # i /\ j # old => f[j].next = No \/ (f[j].next = token[j].next /\ j \notin Free)
  <2>1. CASE j \in Free
    BY <1>1, <1>2, <1>3, <2>1
  <2>2. CASE j = old
    <3>1. End(token[j], FALSE) \in Row /\ End(token[j], FALSE).state # "live"
      BY RowFields, EndEffect
    <3> QED
      BY <1>1, <1>3, <2>2, <3>1, IdsType DEF Row
  <2>3. CASE j \notin Free /\ j # old
    <3>1. End(token[j], FALSE) \in Row /\ End(token[j], FALSE).state # "live"
          /\ End(token[j], FALSE).next = token[j].next
      BY RowFields, EndEffect
    <3>2. Live(j) => old = No
      BY <2>3, IdsType DEF RowsOK
    <3> QED
      BY <1>1, <1>3, <2>3, <3>1, <3>2, RowFields, IdsType DEF Live
  <2> QED
    BY <2>1, <2>2, <2>3
<1>7. f \in [Ids -> Row]
  BY <1>5, <1>6
<1>8. ASSUME NEW j \in Ids \ {old}
      PROVE  token'[j].next = No
  <2>1. ~(f[j].next # No /\ f[f[j].next].state = "live")
    <3>1. CASE j = i
      BY <1>2, <1>3, <3>1
    <3>2. CASE j # i
      <4>1. ASSUME f[j].next # No PROVE f[j].next \in Ids /\ f[j].next # i
        BY <1>1, <1>6, <3>2, <4>1, RowFields DEF RowsOK
      <4> QED
        BY <1>6, <4>1
    <3> QED
      BY <3>1, <3>2
  <2> QED
    BY <1>4, <1>7, <2>1, StoreEffect
<1>9. ASSUME old # No
      PROVE  /\ token'[old].state = "ended" /\ token'[old].next = i
             /\ token'[old].grace /\ ~token'[old].concurrent
  <2>1. old \in Ids /\ token[old].state = "live"
    BY <1>9 DEF Live
  <2>2. /\ End(token[old], FALSE) \in Row /\ End(token[old], FALSE).state = "ended"
        /\ End(token[old], FALSE).grace /\ End(token[old], FALSE).concurrent = FALSE
    BY <2>1, RowFields, EndEffect
  <2>3. /\ f[old].state = "ended" /\ f[old].next = i /\ f[old].grace
        /\ f[old].concurrent = FALSE
    BY <1>3, <1>9, <2>2 DEF Row
  <2>4. token'[old] = f[old]
    BY <1>1, <1>2, <1>3, <1>4, <1>7, <2>1, <2>3, StoreEffect
  <2> QED
    BY <2>3, <2>4
<1>10. ASSUME NEW j \in Ids
       PROVE  Live(j)' <=> j = i
  BY <1>2, <1>3, <1>4, <1>6, <1>7, StoreEffect, IdsType DEF Live
<1>11. /\ cached' \subseteq Ids
       /\ Redis => i \in cached'
       /\ \A j \in Ids \ {i} : j \in cached' => j \in cached
       /\ \A j \in Held : j \in cached => j \in cached'
  BY <1>1, <1>4 DEF Free, TypeOK
<1> QED
  BY <1>4, <1>7, <1>8, <1>9, <1>10, <1>11, StoreEffect

(***************************************************************************)
(* Whatever crosses: types, rows and answers.                              *)
(***************************************************************************)
LEMMA CallOKForms ==
  /\ CallOK(Idle)
  /\ \A t \in Tabs, o \in AllOps : CallOK(Request(t, o))
  /\ \A r \in Call : CallOK(r) => /\ [r EXCEPT !.dead = TRUE] \in Call
                                  /\ CallOK([r EXCEPT !.dead = TRUE])
<1>1. CallOK(Idle)
  BY DEF CallOK, Idle
<1>2. ASSUME NEW t \in Tabs, NEW o \in AllOps
      PROVE  CallOK(Request(t, o))
  <2>1. Request(t, o).from \in Tabs
    BY RequestFrom
  <2> QED
    BY <2>1, RequestFields DEF CallOK
<1>3. ASSUME NEW r \in Call, CallOK(r)
      PROVE  /\ [r EXCEPT !.dead = TRUE] \in Call
             /\ CallOK([r EXCEPT !.dead = TRUE])
  <2> DEFINE q == [r EXCEPT !.dead = TRUE]
  <2>1. q.pc = r.pc /\ q.op = r.op /\ q.ans = r.ans /\ q.id = r.id /\ q.from = r.from
        /\ q.ck = r.ck
    BY DEF Call
  <2>2. q \in Call
    BY DEF Call
  <2> HIDE DEF q
  <2>3. CallOK(q)
    BY <1>3, <2>1 DEF CallOK
  <2> QED
    BY <2>2, <2>3 DEF q
<1> QED
  BY <1>1, <1>2, <1>3

(* What becomes of the calls of a page that is left.                        *)
Dead(r) == [r EXCEPT !.dead = TRUE]

LEMMA LeftEffect ==
  ASSUME TypeOK, NEW t, NEW d \in Calls
  PROVE  /\ Left(t) \in [Calls -> Call]
         /\ Mine(d) # t => Left(t)[d] = call[d]
         /\ Mine(d) = t => IF Renewing(d) \/ (Flying(d) /\ Op(d) \in Ending)
                           THEN Left(t)[d] = Dead(call[d]) ELSE Left(t)[d] = Idle
<1>1. \A c \in Calls : Dead(call[c]) \in Call /\ call[c] \in Call
  BY CallFields DEF Dead, Call
<1> QED
  BY <1>1, IdleType DEF Left, Dead

\* An answer a with token i to the call r that is where its step is answered.
Fits(r, a, i) ==
  /\ i # No <=> /\ a = "ok"
                /\ (r.pc = "sent" /\ r.op \in Starts \cup {"restore"}) \/ r.pc = "refresh"
  /\ i # No => i # r.ck
  /\ r.pc = "sent" /\ r.op = "logout" => a \in {"ok", "busy", "lost"}
  /\ r.pc = "refresh" \/ (r.pc = "sent" /\ r.op = "restore")
       => a \in {"ok", "refused", "concurrent", "security", "busy", "lost"}
  /\ r.pc = "again" => a \in {"ok", "refused", "concurrent", "reauth", "failed", "forbidden",
                              "busy", "lost"}
  /\ a = "revoked" => r.op = "force"

LEMMA AnswerSound ==
  ASSUME Sound, NEW c \in Calls, NEW a \in Answers, NEW i \in Ids \cup {No},
         Answer(c, a, i), call[c].pc \in {"sent", "refresh", "again"}, Fits(call[c], a, i),
         token' \in [Ids -> Row], cached' \subseteq Ids, elsewhere' \in BOOLEAN, RowsOK',
         UNCHANGED <<cookie, user, tab>>, UNCHANGED upset \/ upset' = TRUE
  PROVE  Sound'
<1>0. upset' \in BOOLEAN
  BY DEF Sound, TypeOK
<1>1. TypeOK'
  BY <1>0, AnswerEffect DEF Sound, TypeOK
<1>2. CallOK(call'[c])
  BY AnswerEffect DEF Sound, CallOK, Fits
<1>3. \A d \in Calls : CallOK(call'[d])
  BY <1>2, AnswerEffect DEF Sound
<1> QED
  BY <1>1, <1>3 DEF Sound

\* Without a change on the server.
LEMMA PlainAnswerSound ==
  ASSUME Sound, NEW c \in Calls, NEW a \in Answers, NEW i \in Ids \cup {No},
         Answer(c, a, i), call[c].pc \in {"sent", "refresh", "again"}, Fits(call[c], a, i),
         UNCHANGED <<serverVars, cookie, user, tab, upset>>
  PROVE  Sound'
<1>1. /\ token' \in [Ids -> Row] /\ cached' \subseteq Ids /\ elsewhere' \in BOOLEAN
      /\ UNCHANGED <<token, cached, elsewhere>>
  BY DEF Sound, TypeOK, serverVars
<1>2. RowsOK'
  BY <1>1 DEF Sound, RowsOK, NoneLive, Live
<1> QED
  BY <1>1, <1>2, AnswerSound

LEMMA RevokeAllSound ==
  ASSUME Sound, NEW c \in Calls, NEW a \in Answers, NEW b \in BOOLEAN,
         RevokeAll(b), Answer(c, a, No), call[c].pc \in {"sent", "refresh", "again"},
         Fits(call[c], a, No), UNCHANGED <<cookie, user, tab, upset>>
  PROVE  Sound'
<1>1. /\ token' \in [Ids -> Row] /\ cached' \subseteq Ids /\ elsewhere' \in BOOLEAN
      /\ RowsOK'
  BY RevokeAllEffect DEF Sound
<1> QED
  BY <1>1, AnswerSound, IdsType

LEMMA IssueSound ==
  ASSUME Sound, NEW c \in Calls, NEW i \in Free, NEW old \in Ids \cup {No},
         old # No => Live(old), ~elsewhere,
         Issue(i, old, Free), Answer(c, "ok", i), call[c].pc \in {"sent", "refresh"},
         call[c].pc = "sent" => Op(c) \in Starts \cup {"restore"},
         UNCHANGED <<elsewhere, cookie, user, tab, upset>>
  PROVE  Sound'
<1>1. /\ token' \in [Ids -> Row] /\ cached' \subseteq Ids /\ elsewhere' \in BOOLEAN
  BY IssueEffect DEF Sound, TypeOK
<1>2. i \in Ids /\ i # No
  BY IdsType DEF Free
<1>3. RowsOK'
  <2>1. \A j \in Ids : Live(j)' <=> j = i
    BY IssueEffect DEF Sound
  <2>2. \A j \in Ids : token'[j].next # No => /\ j = old /\ token'[j].state = "ended"
                                              /\ token'[j].next = i
    <3>1. \A j \in Ids \ {old} : token'[j].next = No
      BY IssueEffect DEF Sound
    <3>2. old \in Ids => token'[old].state = "ended" /\ token'[old].next = i
      BY IssueEffect, IdsType DEF Sound
    <3> QED
      BY <3>1, <3>2
  <2>3. Redis => i \in cached'
    BY IssueEffect DEF Sound
  <2> QED
    BY <1>2, <2>1, <2>2, <2>3 DEF RowsOK
<1>5. i # call[c].ck
  BY <1>2, HeldHas DEF Free
<1>4. Fits(call[c], "ok", i) /\ "ok" \in Answers
  BY <1>2, <1>5 DEF Fits, Starts, Answers, Op
<1> QED
  BY <1>1, <1>2, <1>3, <1>4, AnswerSound

LEMMA RenewSound ==
  ASSUME Sound, NEW c \in Calls, Renew(c)
  PROVE  Sound'
<1> DEFINE i == call[c].ck
<1>1. call[c].pc \in {"sent", "refresh"} /\ (call[c].pc = "sent" => Op(c) = "restore")
      /\ i \in Ids \cup {No} /\ No \notin Ids
  BY CallFields, IdsType DEF Renew, Renews, At, Sound
<1>2. UNCHANGED <<cookie, user, tab, upset>>
  BY DEF Renew
<1>3. Fits(call[c], "refused", No) /\ Fits(call[c], "concurrent", No)
      /\ Fits(call[c], "security", No)
  BY <1>1 DEF Fits, Starts, Op
<1>4. CASE Answer(c, "refused", No) /\ UNCHANGED serverVars
  BY <1>1, <1>2, <1>3, <1>4, PlainAnswerSound DEF Answers
<1>5. CASE Answer(c, "concurrent", No) /\ UNCHANGED serverVars
  BY <1>1, <1>2, <1>3, <1>5, PlainAnswerSound DEF Answers
<1>6. CASE Successor(i) # No /\ Answer(c, "ok", Successor(i)) /\ UNCHANGED serverVars
  <2>1. Successor(i) \in Ids \cup {No}
    BY <1>1, RowFields DEF Successor, Sound
  <2>2. Fits(call[c], "ok", Successor(i))
    BY <1>1, <1>6 DEF Fits, Op, Successor, Live
  <2> QED
    BY <1>1, <1>2, <1>6, <2>1, <2>2, PlainAnswerSound DEF Answers
<1>7. CASE RevokeAll(FALSE) /\ Answer(c, "security", No)
  BY <1>1, <1>2, <1>3, <1>7, RevokeAllSound DEF Answers
<1>8. CASE /\ Live(i)
           /\ \E free \in {Free} : \E j \in Lowest(free) :
                Issue(j, i, free) /\ Answer(c, "ok", j)
           /\ UNCHANGED elsewhere
  <2>1. PICK j \in Free : Issue(j, i, Free) /\ Answer(c, "ok", j)
    BY <1>8 DEF Lowest
  <2>2. ~elsewhere
    BY <1>1, <1>8 DEF Sound, RowsOK, NoneLive, Live
  <2> QED
    BY <1>1, <1>2, <1>8, <2>1, <2>2, IssueSound DEF Starts
<1> QED
  BY <1>4, <1>5, <1>6, <1>7, <1>8 DEF Renew

LEMMA LoginSound ==
  ASSUME Sound, NEW c \in Calls, Login(c)
  PROVE  Sound'
<1>1. call[c].pc = "sent" /\ Op(c) \in Starts /\ No \notin Ids
  BY IdsType DEF Login, Waits, Sound, CallOK, Guarded, Op, Starts
<1>2. UNCHANGED <<cookie, user, tab, upset>>
  BY DEF Login
<1>3. Fits(call[c], "refused", No) /\ Fits(call[c], "conflict", No)
      /\ (Op(c) = "force" => Fits(call[c], "revoked", No))
  BY <1>1 DEF Fits, Starts, Op
<1>4. CASE Answer(c, "refused", No) /\ UNCHANGED serverVars
  BY <1>1, <1>2, <1>3, <1>4, PlainAnswerSound DEF Answers
<1>5. CASE Answer(c, "conflict", No) /\ UNCHANGED serverVars
  BY <1>1, <1>2, <1>3, <1>5, PlainAnswerSound DEF Answers
<1>6. CASE Op(c) = "force" /\ RevokeAll(TRUE) /\ Answer(c, "revoked", No)
  BY <1>1, <1>2, <1>3, <1>6, RevokeAllSound DEF Answers
<1>7. CASE /\ ~elsewhere
           /\ \E free \in {Free} : \E j \in Lowest(free) :
                Issue(j, No, free) /\ Answer(c, "ok", j)
           /\ UNCHANGED elsewhere
  <2>1. PICK j \in Free : Issue(j, No, Free) /\ Answer(c, "ok", j)
    BY <1>7 DEF Lowest
  <2> QED
    BY <1>1, <1>2, <1>7, <2>1, IssueSound
<1> QED
  BY <1>4, <1>5, <1>6, <1>7 DEF Login

(* One row ends.                                                            *)
LEMMA RevokeEffect ==
  ASSUME Sound, NEW c \in Calls, Revoke(call[c].ck)
  PROVE  /\ token' \in [Ids -> Row]
         /\ \A j \in Ids : Live(j)' <=> Live(j) /\ j # call[c].ck
         /\ \A j \in Ids : token[j].state = "ended" => token'[j].state = "ended"
         /\ \A j \in Ids : token'[j].next # No =>
              /\ token'[j].next = token[j].next /\ token'[j].next # call[c].ck
              /\ token[j].grace => token'[j].grace
              /\ j # call[c].ck => token'[j] = token[j]
         /\ \A j \in Ids : token[j].next # No /\ token[j].next # call[c].ck
              => token'[j].next = token[j].next
<1> DEFINE i == call[c].ck
           f == [j \in Ids |-> IF j = i THEN End(token[j], FALSE) ELSE token[j]]
<1>2. ASSUME NEW j \in Ids
      PROVE  /\ f[j] \in Row /\ (j = i => f[j].state # "live") /\ (j # i => f[j] = token[j])
             /\ f[j].next = token[j].next
             /\ token[j].grace => f[j].grace
             /\ token[j].state = "ended" => f[j].state = "ended"
  BY RowFields, EndEffect DEF Sound, End, Row
<1>3. f \in [Ids -> Row]
  BY <1>2
<1>4. Store(f)
  BY DEF Revoke
<1> HIDE DEF f
<1>5. \A j \in Ids : Live(j)' <=> Live(j) /\ j # i
  BY <1>2, <1>3, <1>4, StoreEffect DEF Live
<1>6. ASSUME NEW j \in Ids, token'[j].next # No
      PROVE  token'[j] = f[j] /\ f[j].next # i
  <2>1. f[j].next # No /\ f[f[j].next].state = "live"
    BY <1>3, <1>4, <1>6, StoreEffect
  <2>2. token'[j] = f[j]
    BY <1>3, <1>4, <2>1, StoreEffect
  <2>3. f[j].next \in Ids
    BY <1>2, <2>1, RowFields DEF Sound
  <2> QED
    BY <1>2, <2>1, <2>2, <2>3
<1>7. ASSUME NEW j \in Ids, token[j].next # No, token[j].next # i
      PROVE  token'[j].next = token[j].next
  <2>1. token[j].next \in Ids /\ token[token[j].next].state = "live"
    BY <1>7, RowFields DEF Sound, RowsOK, Live
  <2>2. f[j].next # No /\ f[f[j].next].state = "live"
    BY <1>2, <1>7, <2>1
  <2> QED
    BY <1>2, <1>3, <1>4, <2>2, StoreEffect
<1>8. token' \in [Ids -> Row]
  BY <1>3, <1>4, StoreEffect
<1>9. \A j \in Ids : token[j].state = "ended" => token'[j].state = "ended"
  BY <1>2, <1>3, <1>4, StoreEffect
<1> QED
  BY <1>2, <1>5, <1>6, <1>7, <1>8, <1>9

(* What a logout does, carried out or not.                                  *)
LEMMA LogoutEffect ==
  ASSUME Sound, NEW c \in Calls, Logout(c)
  PROVE  /\ call[c].pc = "sent" /\ Op(c) = "logout"
         /\ \/ UNCHANGED <<token, cached>>
            \/ Revoke(call[c].ck) /\ cached \ {call[c].ck} \subseteq cached'
         /\ cached' \subseteq cached /\ elsewhere' = elsewhere
         /\ ~upset' => Revoke(call[c].ck)
<1>1. call[c].pc = "sent" /\ Op(c) = "logout"
  BY DEF Logout, Waits, Sound, CallOK, Guarded, Op
<1> QED
  BY <1>1 DEF Logout, Note

LEMMA RevokeRows ==
  ASSUME Sound, NEW c \in Calls, Revoke(call[c].ck),
         cached' \subseteq cached, cached \ {call[c].ck} \subseteq cached',
         elsewhere' = elsewhere
  PROVE  RowsOK' /\ token' \in [Ids -> Row]
<1> DEFINE i == call[c].ck
<1>1. /\ \A j \in Ids : Live(j)' <=> Live(j) /\ j # i
      /\ \A j \in Ids : token[j].state = "ended" => token'[j].state = "ended"
      /\ \A j \in Ids : token'[j].next # No => /\ token'[j].next = token[j].next
                                               /\ token'[j].next # i
      /\ elsewhere' = elsewhere /\ token' \in [Ids -> Row]
  BY RevokeEffect
<1>2. ASSUME NEW j \in Ids, token'[j].next # No
      PROVE  token'[j].state = "ended" /\ Live(token[j].next)'
  <2>1. token[j].next \in Ids /\ Live(token[j].next) /\ token[j].state = "ended"
    BY <1>1, <1>2, RowFields DEF Sound, RowsOK
  <2>2. token'[j].next \in Ids /\ Live(token'[j].next) /\ token'[j].next # i
    BY <1>1, <1>2, <2>1
  <2>3. \A k \in Ids : Live(k) /\ k # i => token'[k].state = "live"
    BY <1>1 DEF Live
  <2>4. token'[token'[j].next].state = "live" /\ token'[j].next # No
    BY <1>2, <2>2, <2>3
  <2> QED
    BY <1>1, <2>1, <2>4 DEF Live
<1>3. ASSUME NEW j \in Ids, NEW k \in Ids,
             token'[j].next # No, token'[j].next = token'[k].next
      PROVE  j = k
  BY <1>1, <1>3 DEF Sound, RowsOK
<1>4. \A j, k \in Ids : Live(j)' /\ Live(k)' => j = k
  BY <1>1 DEF Sound, RowsOK
<1>5. elsewhere' => NoneLive'
  BY <1>1 DEF Sound, RowsOK, NoneLive
<1>6. \A j \in Ids : Redis /\ Live(j)' => j \in cached'
  BY <1>1 DEF Sound, RowsOK
<1> QED
  BY <1>1, <1>2, <1>3, <1>4, <1>5, <1>6 DEF RowsOK

LEMMA LogoutSound ==
  ASSUME Sound, NEW c \in Calls, Logout(c)
  PROVE  Sound'
<1>1. /\ call[c].pc = "sent" /\ Op(c) = "logout"
      /\ elsewhere' = elsewhere /\ cached' \subseteq cached
  BY LogoutEffect
<1>2. RowsOK' /\ token' \in [Ids -> Row]
  <2>1. CASE UNCHANGED <<token, cached>>
    BY <1>1, <2>1 DEF Sound, TypeOK, RowsOK, NoneLive, Live
  <2>2. CASE Revoke(call[c].ck) /\ cached \ {call[c].ck} \subseteq cached'
    BY <1>1, <2>2, RevokeRows
  <2> QED
    BY <2>1, <2>2, LogoutEffect
<1>3. Fits(call[c], "ok", No)
  BY <1>1, IdsType DEF Fits, Op, Starts
<1>4. elsewhere' \in BOOLEAN /\ cached' \subseteq Ids
  BY <1>1 DEF Sound, TypeOK
<1>5. /\ Answer(c, "ok", No) /\ UNCHANGED <<cookie, user, tab>>
      /\ UNCHANGED upset \/ upset' = TRUE
  BY DEF Logout, Note
<1> QED
  BY <1>1, <1>2, <1>3, <1>4, <1>5, AnswerSound DEF Answers

LEMMA GuardedSound ==
  ASSUME Sound, NEW c \in Calls,
         Refuse(c) \/ WantProof(c) \/ SessionStatus(c) \/ GetSessions(c) \/ GetProfile(c)
           \/ Reauth(c) \/ ChangeEmail(c)
  PROVE  Sound'
<1>1. /\ call[c].pc \in {"sent", "again"} /\ Op(c) \in Guarded /\ No \notin Ids
      /\ UNCHANGED <<serverVars, cookie, user, tab, upset>>
  BY IdsType DEF Refuse, WantProof, SessionStatus, GetSessions, GetProfile, Reauth, ChangeEmail,
                 Handle, Waits, Guarded, AllOps
<1>2. PICK a \in {"refused", "concurrent", "reauth", "ok", "forbidden", "failed"} :
        Answer(c, a, No)
  BY DEF Refuse, WantProof, SessionStatus, GetSessions, GetProfile, Reauth, ChangeEmail, Handle
<1>3. Fits(call[c], a, No)
  BY <1>1 DEF Fits, Guarded, Starts, Op
<1> QED
  BY <1>1, <1>2, <1>3, PlainAnswerSound DEF Answers

LEMMA ChangePasswordSound ==
  ASSUME Sound, NEW c \in Calls, ChangePassword(c)
  PROVE  Sound'
<1>1. /\ call[c].pc \in {"sent", "again"} /\ Op(c) = "password" /\ No \notin Ids
      /\ UNCHANGED <<cookie, user, tab, upset>>
  BY IdsType DEF ChangePassword, Waits
<1>2. Fits(call[c], "ok", No) /\ Fits(call[c], "failed", No)
  BY <1>1 DEF Fits, Starts, Op
<1>3. CASE Answer(c, "failed", No) /\ UNCHANGED serverVars
  BY <1>1, <1>2, <1>3, PlainAnswerSound DEF Answers
<1>4. CASE Answer(c, "ok", No) /\ RevokeAll(FALSE)
  BY <1>1, <1>2, <1>4, RevokeAllSound DEF Answers
<1> QED
  BY <1>3, <1>4 DEF ChangePassword

LEMMA DeleteAccountSound ==
  ASSUME Sound, NEW c \in Calls, DeleteAccount(c)
  PROVE  Sound'
<1>1. /\ call[c].pc \in {"sent", "again"} /\ Op(c) = "delete" /\ No \notin Ids
      /\ UNCHANGED <<cookie, user, tab, upset>>
  BY IdsType DEF DeleteAccount, Waits
<1>2. Fits(call[c], "ok", No) /\ Fits(call[c], "failed", No)
  BY <1>1 DEF Fits, Starts, Op
<1>3. CASE Answer(c, "failed", No) /\ UNCHANGED serverVars
  BY <1>1, <1>2, <1>3, PlainAnswerSound DEF Answers
<1>4. CASE /\ Answer(c, "ok", No)
           /\ token' = [i \in Ids |-> NoRow] /\ cached' = {} /\ elsewhere' = FALSE
  <2>1. NoRow \in Row /\ NoRow.next = No /\ NoRow.state = "none"
    BY DEF NoRow, Row
  <2>2. token' \in [Ids -> Row] /\ cached' \subseteq Ids /\ elsewhere' \in BOOLEAN
    BY <1>4, <2>1
  <2>3. RowsOK'
    BY <1>4, <2>1 DEF RowsOK, NoneLive, Live
  <2> QED
    BY <1>1, <1>2, <1>4, <2>2, <2>3, AnswerSound DEF Answers
<1> QED
  BY <1>3, <1>4 DEF DeleteAccount

LEMMA BusySound ==
  ASSUME Sound, NEW c \in Calls, Busy(c)
  PROVE  Sound'
<1>1. call[c].pc \in {"sent", "refresh", "again"} /\ Answer(c, "busy", No)
  BY DEF Busy
<1>2. Fits(call[c], "busy", No)
  BY <1>1 DEF Fits, Starts
<1> QED
  BY <1>1, <1>2, PlainAnswerSound DEF Busy, Answers

LEMMA ServeSound ==
  ASSUME Sound, NEW c \in Calls, Serve(c)
  PROVE  Sound'
  BY RenewSound, LoginSound, LogoutSound, GuardedSound, ChangePasswordSound,
     DeleteAccountSound DEF Serve

(* A tab that changes in one field is a tab.                                *)
LEMMA TabForms ==
  ASSUME tab \in [Tabs -> Tab], NEW t
  PROVE  /\ [tab EXCEPT ![t] = Blank] \in [Tabs -> Tab]
         /\ \A i \in Ids \cup {No} : [tab EXCEPT ![t].access = i] \in [Tabs -> Tab]
         /\ \A i \in Ids \cup {No} :
              [tab EXCEPT ![t].access = i, ![t].loading = FALSE] \in [Tabs -> Tab]
         /\ \A i \in Ids \cup {No} :
              [tab EXCEPT ![t] = [Blank EXCEPT !.page = "app", !.access = i]] \in [Tabs -> Tab]
         /\ [tab EXCEPT ![t] = [Blank EXCEPT !.page = "app", !.loading = TRUE]]
              \in [Tabs -> Tab]
         /\ \A b \in BOOLEAN : [tab EXCEPT ![t].asks = b] \in [Tabs -> Tab]
         /\ \A p \in {"none", "good", "old"} : [tab EXCEPT ![t].proof = p] \in [Tabs -> Tab]
         /\ [tab EXCEPT ![t].page = "login", ![t].proof = "none"] \in [Tabs -> Tab]
<1>1. Blank \in Tab
  BY IdleType
<1>2. ASSUME NEW r \in Tab
      PROVE  [tab EXCEPT ![t] = r] \in [Tabs -> Tab]
  OBVIOUS
<1>3. ASSUME NEW i \in Ids \cup {No}
      PROVE  /\ [Blank EXCEPT !.page = "app", !.access = i] \in Tab
             /\ [Blank EXCEPT !.page = "app", !.loading = TRUE] \in Tab
  BY DEF Blank, Tab, No
<1>4. ASSUME NEW i \in Ids \cup {No}
      PROVE  [tab EXCEPT ![t].access = i] \in [Tabs -> Tab]
  BY DEF Tab
<1>5. ASSUME NEW i \in Ids \cup {No}
      PROVE  [tab EXCEPT ![t].access = i, ![t].loading = FALSE] \in [Tabs -> Tab]
  BY DEF Tab
<1>6. ASSUME NEW b \in BOOLEAN
      PROVE  [tab EXCEPT ![t].asks = b] \in [Tabs -> Tab]
  BY DEF Tab
<1>7. ASSUME NEW p \in {"none", "good", "old"}
      PROVE  [tab EXCEPT ![t].proof = p] \in [Tabs -> Tab]
  BY DEF Tab
<1>8. [tab EXCEPT ![t].page = "login", ![t].proof = "none"] \in [Tabs -> Tab]
  BY DEF Tab
<1> QED
  BY <1>1, <1>2, <1>3, <1>4, <1>5, <1>6, <1>7, <1>8

\* A step of the browser: the server's part and the histories aside, what is left
\* to show.
LEMMA BrowserSound ==
  ASSUME Sound, UNCHANGED serverVars, cookie' \in Ids \cup {No}, user' \in BOOLEAN,
         upset' \in BOOLEAN, tab' \in [Tabs -> Tab], call' \in [Calls -> Call],
         \A d \in Calls : CallOK(call'[d])
  PROVE  Sound'
<1>1. TypeOK'
  BY DEF Sound, TypeOK, serverVars
<1>2. RowsOK'
  BY DEF Sound, RowsOK, NoneLive, Live, serverVars
<1> QED
  BY <1>1, <1>2 DEF Sound

LEMMA NoteType ==
  ASSUME Sound, NEW b
  PROVE  Note(b) => upset' \in BOOLEAN
  BY DEF Note, Sound, TypeOK

LEMMA LoseEffect ==
  ASSUME Sound, NEW c \in Calls, Lose(c)
  PROVE  /\ call' \in [Calls -> Call] /\ \A d \in Calls \ {c} : call'[d] = call[d]
         /\ call'[c].pc \in {"answered", "refreshed", "answeredAgain"}
         /\ call'[c].pc = "answered" <=> call[c].pc \in {"sent", "answered"}
         /\ call'[c].pc = "refreshed" <=> call[c].pc \in {"refresh", "refreshed"}
         /\ call'[c].ans = "lost" /\ call'[c].id = No
         /\ call'[c].op = call[c].op /\ call'[c].from = call[c].from
         /\ call'[c].ck = call[c].ck /\ call'[c].jwt = call[c].jwt
         /\ call'[c].dead = call[c].dead
         /\ call[c].pc \notin {"idle", "soon"}
<1> DEFINE p == CASE call[c].pc = "sent" -> "answered" [] call[c].pc = "refresh" -> "refreshed"
                  [] call[c].pc = "again" -> "answeredAgain" [] OTHER -> call[c].pc
<1>1. call[c] \in Call /\ call \in [Calls -> Call] /\ call[c].pc \in Steps
  BY CallFields DEF Sound, TypeOK
<1>2. /\ p \in {"answered", "refreshed", "answeredAgain"}
      /\ (p = "answered" <=> call[c].pc \in {"sent", "answered"})
      /\ (p = "refreshed" <=> call[c].pc \in {"refresh", "refreshed"})
  BY <1>1 DEF Lose, Flying, Steps
<1>3. call' = [call EXCEPT ![c].ans = "lost", ![c].id = No, ![c].pc = p]
  BY <1>1 DEF Lose, Call
<1> HIDE DEF p
<1>4. call'[c] = [call[c] EXCEPT !.ans = "lost", !.id = No, !.pc = p]
  BY <1>1, <1>3 DEF Call
<1>5. call'[c] \in Call
  BY <1>1, <1>2, <1>4, IdsType DEF Call, Answers, Steps
<1>6. \A d \in Calls \ {c} : call'[d] = call[d]
  BY <1>1, <1>3
<1>7. call' \in [Calls -> Call]
  BY <1>1, <1>3, <1>5, <1>6
<1>8. /\ call'[c].ans = "lost" /\ call'[c].id = No /\ call'[c].pc = p
      /\ call'[c].op = call[c].op /\ call'[c].from = call[c].from
      /\ call'[c].ck = call[c].ck /\ call'[c].jwt = call[c].jwt
      /\ call'[c].dead = call[c].dead
  BY <1>1, <1>4 DEF Call
<1>9. call[c].pc \notin {"idle", "soon"}
  BY DEF Lose, Flying
<1> QED
  BY <1>2, <1>6, <1>7, <1>8, <1>9

LEMMA LoseSound ==
  ASSUME Sound, NEW c \in Calls, Lose(c)
  PROVE  Sound'
<1>1. CallOK(call[c]) /\ call[c].pc \in Steps
  BY CallFields DEF Sound
<1>2. CallOK(call'[c])
  BY <1>1, LoseEffect DEF CallOK, Steps
<1>3. call' \in [Calls -> Call] /\ \A d \in Calls : CallOK(call'[d])
  BY <1>2, LoseEffect DEF Sound
<1> QED
  BY <1>3, BrowserSound, NoteType DEF Lose, Sound, TypeOK

LEMMA SendSound ==
  ASSUME Sound, NEW c \in Calls, NEW t \in Tabs, NEW o \in AllOps, Send(c, t, o)
  PROVE  Sound'
<1>1. Request(t, o) \in Call /\ CallOK(Request(t, o))
  BY RequestType, CallOKForms DEF Sound
<1>2. call' \in [Calls -> Call] /\ \A d \in Calls : CallOK(call'[d])
  BY <1>1 DEF Send, Sound, TypeOK
<1>3. tab' \in [Tabs -> Tab]
  <2>1. tab \in [Tabs -> Tab]
    BY DEF Sound, TypeOK
  <2>2. tab[t].asks \in BOOLEAN
    BY <2>1 DEF Tab
  <2>3. (tab[t].asks /\ o # "login") \in BOOLEAN
    OBVIOUS
  <2>4. tab' = [tab EXCEPT ![t].asks = tab[t].asks /\ o # "login"]
    BY <2>1 DEF Send
  <2> QED
    BY <2>1, <2>3, <2>4, TabForms
<1> QED
  BY <1>2, <1>3, BrowserSound, NoteType DEF Send, Sound, TypeOK

LEMMA LeftSound ==
  ASSUME Sound, NEW t
  PROVE  Left(t) \in [Calls -> Call] /\ \A d \in Calls : CallOK(Left(t)[d])
<1>1. ASSUME NEW d \in Calls
      PROVE  CallOK(Left(t)[d])
  <2>1. Left(t)[d] \in {call[d], Dead(call[d]), Idle}
    BY LeftEffect DEF Sound
  <2>2. CallOK(call[d]) /\ call[d] \in Call
    BY CallFields DEF Sound
  <2>3. CallOK(Dead(call[d])) /\ CallOK(Idle)
    BY <2>2, CallOKForms DEF Dead
  <2> QED
    BY <2>1, <2>2, <2>3
<1>2. Left(t) \in [Calls -> Call]
  BY IdleType, CallFields, CallOKForms DEF Left, Sound
<1> QED
  BY <1>1, <1>2

LEMMA LoadSound ==
  ASSUME Sound, NEW t \in Tabs, Load(t)
  PROVE  Sound'
<1>1. tab \in [Tabs -> Tab]
  BY DEF Sound, TypeOK
<1>2. UNCHANGED <<serverVars, cookie, user>> /\ cookie \in Ids \cup {No} /\ user \in BOOLEAN
  BY DEF Load, Sound, TypeOK
<1>3. CASE user
  <2>1. PICK c \in Calls : call' = [Left(t) EXCEPT ![c] = Request(t, "restore")]
    BY <1>3 DEF Load
  <2>2. Request(t, "restore") \in Call /\ CallOK(Request(t, "restore"))
    BY RequestType, CallOKForms DEF Sound, AllOps
  <2>3. call' \in [Calls -> Call] /\ \A d \in Calls : CallOK(call'[d])
    BY <2>1, <2>2, LeftSound
  <2>4. tab' \in [Tabs -> Tab]
    BY <1>1, <1>3, TabForms DEF Load
  <2>5. upset' \in BOOLEAN
    BY <1>3, NoteType DEF Load
  <2> QED
    BY <1>2, <2>3, <2>4, <2>5, BrowserSound
<1>4. CASE ~user
  <2>1. call' = Left(t) /\ tab' = [tab EXCEPT ![t] = Blank] /\ UNCHANGED upset
    BY <1>4 DEF Load
  <2>2. tab' \in [Tabs -> Tab]
    BY <1>1, <2>1, TabForms
  <2>3. upset' \in BOOLEAN
    BY <2>1 DEF Sound, TypeOK
  <2> QED
    BY <1>2, <2>1, <2>2, <2>3, LeftSound, BrowserSound
<1> QED
  BY <1>3, <1>4

LEMMA TabOnlySound ==
  ASSUME Sound, NEW t \in Tabs, Turn(t) \/ ExpireAccess(t) \/ ExpireProof(t)
  PROVE  Sound'
<1>1. tab \in [Tabs -> Tab]
  BY DEF Sound, TypeOK
<1>2. UNCHANGED <<serverVars, cookie, user, call, upset>>
  BY DEF Turn, ExpireAccess, ExpireProof
<1>3. tab' \in [Tabs -> Tab]
  <2>1. CASE Turn(t)
    BY <1>1, <2>1, TabForms DEF Turn
  <2>2. CASE ExpireAccess(t)
    BY <1>1, <2>2, TabForms DEF ExpireAccess
  <2>3. CASE ExpireProof(t)
    BY <1>1, <2>3, TabForms DEF ExpireProof
  <2> QED
    BY <2>1, <2>2, <2>3
<1> QED
  BY <1>2, <1>3, BrowserSound DEF Sound, TypeOK

LEMMA GraceEndsSound ==
  ASSUME Sound, NEW i \in Ids, GraceEnds(i)
  PROVE  Sound'
<1>1. /\ token' = [token EXCEPT ![i].grace = FALSE]
      /\ token \in [Ids -> Row]
      /\ UNCHANGED <<cached, elsewhere, cookie, user, tab, call>> /\ upset' \in BOOLEAN
  BY NoteType DEF GraceEnds, Sound, TypeOK
<1>2. token' \in [Ids -> Row]
      /\ \A j \in Ids : token'[j].state = token[j].state /\ token'[j].next = token[j].next
  BY <1>1 DEF Row
<1>3. TypeOK'
  BY <1>1, <1>2 DEF Sound, TypeOK
<1>4. \A j \in Ids : Live(j)' <=> Live(j)
  BY <1>2 DEF Live
<1>5. \A j \in Ids : token[j].next # No => token[j].next \in Ids
  BY RowFields DEF Sound
<1>6. RowsOK'
  <2>1. ASSUME NEW j \in Ids, token'[j].next # No
        PROVE  token'[j].state = "ended" /\ Live(token[j].next)'
    <3>1. token[j].state = "ended" /\ Live(token[j].next) /\ token[j].next \in Ids
      BY <1>2, <1>5, <2>1 DEF Sound, RowsOK
    <3>2. token'[token'[j].next].state = "live"
      BY <1>2, <3>1 DEF Live
    <3> QED
      BY <1>2, <2>1, <3>1, <3>2 DEF Live
  <2> QED
    BY <1>1, <1>2, <1>4, <2>1 DEF Sound, RowsOK, NoneLive
<1> QED
  BY <1>1, <1>3, <1>6 DEF Sound

LEMMA OtherDeviceSound ==
  ASSUME Sound, OtherDevice
  PROVE  Sound'
<1>1. UNCHANGED <<cookie, user, tab, call, upset>>
  BY DEF OtherDevice
<1>2. CASE UNCHANGED <<token, cached>> /\ elsewhere' \in BOOLEAN /\ (elsewhere' => NoneLive)
  <2>1. TypeOK'
    BY <1>1, <1>2 DEF Sound, TypeOK
  <2>2. RowsOK'
    BY <1>2 DEF Sound, RowsOK, NoneLive, Live
  <2> QED
    BY <1>1, <2>1, <2>2 DEF Sound
<1>3. CASE RevokeAll(TRUE)
  <2>1. /\ token' \in [Ids -> Row] /\ cached' = {} /\ elsewhere' = FALSE /\ RowsOK'
    BY <1>3, RevokeAllEffect DEF Sound
  <2> QED
    BY <1>1, <2>1 DEF Sound, TypeOK
<1> QED
  BY <1>2, <1>3 DEF OtherDevice

LEMMA SoonForm ==
  ASSUME NEW t \in Tabs
  PROVE  LET r == [Idle EXCEPT !.pc = "soon", !.op = "password", !.from = t] IN
         r \in Call /\ CallOK(r) /\ r.pc = "soon" /\ r.op = "password" /\ r.id = No
  BY DEF Idle, Call, Steps, AllOps, Answers, CallOK, No

(* A call that is replaced by a sound one.                                  *)
LEMMA ReplaceSound ==
  ASSUME Sound, NEW c \in Calls, NEW r \in Call, CallOK(r), call' = [call EXCEPT ![c] = r]
  PROVE  call' \in [Calls -> Call] /\ \A d \in Calls : CallOK(call'[d])
  BY DEF Sound, TypeOK

LEMMA DoneSound ==
  ASSUME Sound, NEW c \in Calls, Done(c)
  PROVE  call' \in [Calls -> Call] /\ \A d \in Calls : CallOK(call'[d])
  BY ReplaceSound, IdleType, CallOKForms DEF Done

(* What a caller makes of a good answer, and of an error.                   *)
LEMMA SucceedSound ==
  ASSUME Sound, NEW c \in Calls, Flying(c), Succeed(c)
  PROVE  /\ tab' \in [Tabs -> Tab] /\ user' \in BOOLEAN
         /\ call' \in [Calls -> Call] /\ \A d \in Calls : CallOK(call'[d])
<1>1. /\ tab \in [Tabs -> Tab] /\ user \in BOOLEAN /\ Mine(c) \in Tabs
      /\ call[c].id \in Ids \cup {No} /\ tab[Mine(c)] \in Tab
  BY CallFields DEF Sound, TypeOK, CallOK, Mine, Flying
<1>2. CASE SignedIn(c)
  BY <1>1, <1>2, DoneSound, TabForms DEF SignedIn
<1>3. CASE OthersLoggedOut(c)
  BY <1>1, <1>3, DoneSound, TabForms DEF OthersLoggedOut
<1>4. CASE Restored(c)
  BY <1>1, <1>4, DoneSound, TabForms DEF Restored
<1>5. CASE Shown(c) \/ ProfileShown(c)
  BY <1>1, <1>5, DoneSound DEF Shown, ProfileShown
<1>6. CASE Proved(c)
  <2>1. tab' = [tab EXCEPT ![Mine(c)].proof =
                  IF tab[Mine(c)].page = "app" THEN "good" ELSE tab[Mine(c)].proof]
    BY <1>1, <1>6 DEF Proved
  <2>2. tab[Mine(c)].proof \in {"none", "good", "old"}
    BY <1>1 DEF Tab
  <2>3. tab' \in [Tabs -> Tab]
    BY <1>1, <2>1, <2>2, TabForms
  <2> QED
    BY <1>1, <1>6, <2>3, DoneSound DEF Proved
<1>7. CASE PasswordChanged(c)
  <2>1. tab' \in [Tabs -> Tab] /\ user' \in BOOLEAN
    BY <1>1, <1>7, TabForms DEF PasswordChanged
  <2> QED
    BY <1>1, <1>7, <2>1, SoonForm, ReplaceSound DEF PasswordChanged
<1>8. CASE EmailChanged(c)
  <2>1. tab' \in [Tabs -> Tab] /\ user' \in BOOLEAN
    <3>1. tab' = tab \/ tab' = [tab EXCEPT ![Mine(c)].proof = "none"]
      BY <1>8 DEF EmailChanged
    <3>2. [tab EXCEPT ![Mine(c)].proof = "none"] \in [Tabs -> Tab]
      BY <1>1, TabForms
    <3> QED
      BY <1>1, <1>8, <3>1, <3>2 DEF EmailChanged
  <2>2. Request(Mine(c), "profile") \in Call /\ CallOK(Request(Mine(c), "profile"))
    BY <1>1, RequestType, CallOKForms DEF Sound, AllOps
  <2> QED
    BY <1>8, <2>1, <2>2, ReplaceSound, DoneSound DEF EmailChanged
<1>9. CASE SignOut(Mine(c)) /\ Done(c)
  <2>1. tab' \in [Tabs -> Tab] /\ user' \in BOOLEAN
    BY <1>1, <1>9, TabForms DEF SignOut
  <2> QED
    BY <1>9, <2>1, DoneSound
<1>10. CASE Deleted(c) \/ (LoggedOut(c) /\ Done(c))
  BY <1>9, <1>10 DEF Deleted, LoggedOut
<1> QED
  BY <1>2, <1>3, <1>4, <1>5, <1>6, <1>7, <1>8, <1>10 DEF Succeed

LEMMA ReloadSound ==
  ASSUME Sound, NEW c \in Calls, Reload(c)
  PROVE  /\ tab' \in [Tabs -> Tab] /\ user' \in BOOLEAN
         /\ call' \in [Calls -> Call] /\ \A d \in Calls : CallOK(call'[d])
<1>1. tab \in [Tabs -> Tab] /\ user' = FALSE
  BY DEF Sound, TypeOK, Reload, SignOut
<1>2. tab' \in [Tabs -> Tab]
  BY <1>1, TabForms DEF Reload, SignOut
<1>3. call' = [Left(Mine(c)) EXCEPT ![c] = Idle]
  BY DEF Reload
<1> QED
  BY <1>1, <1>2, <1>3, LeftSound, IdleType, CallOKForms

LEMMA FailSound ==
  ASSUME Sound, NEW c \in Calls, Fail(c)
  PROVE  tab' \in [Tabs -> Tab] /\ user' \in BOOLEAN
<1>1. tab \in [Tabs -> Tab] /\ user \in BOOLEAN
  BY DEF Sound, TypeOK
<1>2. CASE tab' = [tab EXCEPT ![Mine(c)].asks = tab[Mine(c)].page = "login"] /\ UNCHANGED user
  <2>1. (tab[Mine(c)].page = "login") \in BOOLEAN
    OBVIOUS
  <2> QED
    BY <1>1, <1>2, <2>1, TabForms
<1>3. CASE SignOut(Mine(c))
  BY <1>1, <1>3, TabForms DEF SignOut
<1> QED
  BY <1>1, <1>2, <1>3 DEF Fail, LoggedOut

(* The record of a call that asks for a new access token, and of one that is *)
(* repeated.                                                                *)
LEMMA RefreshForms ==
  ASSUME Sound, NEW c \in Calls
  PROVE  /\ At(c, "answered") /\ Expired(c) =>
              LET r == [call[c] EXCEPT !.pc = "refresh", !.ck = cookie, !.ans = "none"] IN
              /\ r \in Call /\ CallOK(r)
              /\ r.pc = "refresh" /\ r.op = call[c].op /\ r.ck = cookie /\ r.ans = "none"
              /\ r.id = No /\ r.dead = call[c].dead /\ r.jwt = call[c].jwt
         /\ At(c, "refreshed") =>
              /\ Retry(c) \in Call /\ CallOK(Retry(c))
              /\ Retry(c).pc = "again" /\ Retry(c).op = call[c].op
              /\ Retry(c).jwt = call[c].id /\ Retry(c).id = No /\ Retry(c).ans = "none"
              /\ Retry(c).dead = call[c].dead
<1>1. /\ call[c] \in Call /\ cookie \in Ids \cup {No} /\ call[c].id \in Ids \cup {No}
      /\ CallOK(call[c])
  BY CallFields DEF Sound, TypeOK
<1>2. ASSUME At(c, "answered"), Expired(c)
      PROVE  LET r == [call[c] EXCEPT !.pc = "refresh", !.ck = cookie, !.ans = "none"] IN
              /\ r \in Call /\ CallOK(r)
              /\ r.pc = "refresh" /\ r.op = call[c].op /\ r.ck = cookie /\ r.ans = "none"
              /\ r.id = No /\ r.dead = call[c].dead /\ r.jwt = call[c].jwt
  <2> DEFINE r == [call[c] EXCEPT !.pc = "refresh", !.ck = cookie, !.ans = "none"]
  <2>1. r \in Call
    BY <1>1 DEF Call, Steps, Answers
  <2>2. r.pc = "refresh" /\ r.op = call[c].op /\ r.ck = cookie /\ r.ans = "none"
        /\ r.id = call[c].id /\ r.dead = call[c].dead /\ r.jwt = call[c].jwt
        /\ r.from = call[c].from
    BY <1>1 DEF Call
  <2>3. call[c].id = No /\ call[c].op \in Guarded \ {"reauth"} /\ call[c].from \in Tabs
    BY <1>1, <1>2, CallFields DEF CallOK, At, Expired, Public, Op, Guarded, Sound
  <2> HIDE DEF r
  <2>4. CallOK(r)
    BY <2>2, <2>3 DEF CallOK
  <2> QED
    BY <2>1, <2>2, <2>3, <2>4 DEF r
<1>3. ASSUME At(c, "refreshed")
      PROVE  /\ Retry(c) \in Call /\ CallOK(Retry(c))
             /\ Retry(c).pc = "again" /\ Retry(c).op = call[c].op
             /\ Retry(c).jwt = call[c].id /\ Retry(c).id = No /\ Retry(c).ans = "none"
             /\ Retry(c).dead = call[c].dead
  <2> DEFINE r == Retry(c)
  <2>1. r \in Call
    BY <1>1 DEF Call, Steps, Answers, Retry
  <2>2. r.pc = "again" /\ r.op = call[c].op /\ r.ans = "none"
        /\ r.id = No /\ r.dead = call[c].dead /\ r.jwt = call[c].id
        /\ r.from = call[c].from
    BY <1>1 DEF Call, Retry
  <2>3. call[c].op \in Guarded \ {"reauth"} /\ call[c].from \in Tabs
    BY <1>1, <1>3 DEF CallOK, At
  <2> HIDE DEF r
  <2>4. CallOK(r)
    BY <2>2, <2>3 DEF CallOK
  <2> QED
    BY <2>1, <2>2, <2>4 DEF r
<1> QED
  BY <1>2, <1>3

LEMMA JarType ==
  ASSUME Sound, NEW c \in Calls
  PROVE  Jar(c) \in Ids \cup {No}
  BY CallFields DEF Jar, Sound, TypeOK

LEMMA ReceiveSound ==
  ASSUME Sound, NEW c \in Calls, Receive(c)
  PROVE  Sound'
<1>1. /\ cookie' \in Ids \cup {No} /\ upset' \in BOOLEAN /\ UNCHANGED serverVars
      /\ At(c, "answered") /\ Flying(c)
  BY JarType, NoteType DEF Receive, Here, At, Flying
<1>2. CASE Succeed(c)
  BY <1>1, <1>2, SucceedSound, BrowserSound
<1>3. CASE Reload(c)
  BY <1>1, <1>3, ReloadSound, BrowserSound
<1>4. CASE /\ Expired(c)
           /\ call' = [call EXCEPT ![c].pc = "refresh", ![c].ck = cookie, ![c].ans = "none"]
           /\ UNCHANGED <<tab, user>>
  <2> DEFINE r == [call[c] EXCEPT !.pc = "refresh", !.ck = cookie, !.ans = "none"]
  <2>1. r \in Call /\ CallOK(r)
    BY <1>1, <1>4, RefreshForms
  <2>2. call' = [call EXCEPT ![c] = r]
    BY <1>4, CallFields DEF Sound, TypeOK, Call
  <2> HIDE DEF r
  <2>3. call' \in [Calls -> Call] /\ \A d \in Calls : CallOK(call'[d])
    BY <2>1, <2>2, ReplaceSound
  <2> QED
    BY <1>1, <1>4, <2>3, BrowserSound DEF Sound, TypeOK
<1>5. CASE Fail(c) /\ Done(c)
  BY <1>1, <1>5, FailSound, DoneSound, BrowserSound
<1> QED
  BY <1>2, <1>3, <1>4, <1>5 DEF Receive

LEMMA RefreshedSound ==
  ASSUME Sound, NEW c \in Calls, Refreshed(c)
  PROVE  Sound'
<1>1. /\ cookie' \in Ids \cup {No} /\ upset' \in BOOLEAN /\ UNCHANGED serverVars
      /\ At(c, "refreshed") /\ call[c].id \in Ids \cup {No} /\ tab \in [Tabs -> Tab]
  BY JarType, CallFields DEF Refreshed, Here, Sound, TypeOK
<1>2. CASE Granted(Mine(c), call[c].id) /\ call' = [call EXCEPT ![c] = Retry(c)]
  <2>1. tab' \in [Tabs -> Tab] /\ user' \in BOOLEAN
    BY <1>1, <1>2, TabForms DEF Granted
  <2> QED
    BY <1>1, <1>2, <2>1, RefreshForms, ReplaceSound, BrowserSound
<1>3. CASE Reload(c)
  BY <1>1, <1>3, ReloadSound, BrowserSound
<1> QED
  BY <1>2, <1>3 DEF Refreshed

LEMMA ReceiveAgainSound ==
  ASSUME Sound, NEW c \in Calls, ReceiveAgain(c)
  PROVE  Sound'
<1>1. /\ cookie' \in Ids \cup {No} /\ upset' \in BOOLEAN /\ UNCHANGED serverVars
      /\ Flying(c)
  BY JarType DEF ReceiveAgain, Here, At, Flying, Sound, TypeOK
<1> QED
  BY <1>1, SucceedSound, ReloadSound, BrowserSound DEF ReceiveAgain

LEMMA DropSound ==
  ASSUME Sound, NEW c \in Calls, Drop(c)
  PROVE  Sound'
<1>1. /\ cookie' \in Ids \cup {No} /\ upset' \in BOOLEAN
      /\ UNCHANGED <<serverVars, user, tab>> /\ Done(c)
  BY JarType, NoteType DEF Drop, Sound, TypeOK
<1> QED
  BY <1>1, DoneSound, BrowserSound DEF Sound, TypeOK

LEMMA TimerSound ==
  ASSUME Sound, NEW c \in Calls, Timer(c)
  PROVE  Sound'
<1>1. tab \in [Tabs -> Tab] /\ SignOut(Mine(c)) /\ Done(c)
      /\ UNCHANGED <<serverVars, cookie, upset>>
  BY DEF Timer, Sound, TypeOK
<1>2. tab' \in [Tabs -> Tab] /\ user' = FALSE
  BY <1>1, TabForms DEF SignOut
<1> QED
  BY <1>1, <1>2, DoneSound, BrowserSound DEF Sound, TypeOK

(* Every step keeps the sound part, whatever crosses.                       *)
LEMMA NextSound ==
  ASSUME Sound, [Next]_vars
  PROVE  Sound'
<1>1. CASE UNCHANGED vars
  BY <1>1 DEF vars, Sound, TypeOK, RowsOK, NoneLive, Live
<1>2. CASE \E t \in Tabs : Load(t) \/ Turn(t) \/ ExpireAccess(t) \/ ExpireProof(t)
  BY <1>2, LoadSound, TabOnlySound
<1>3. CASE \E c \in Calls, t \in Tabs, o \in AllOps : Send(c, t, o)
  BY <1>3, SendSound
<1>4. CASE \E c \in Calls : Serve(c) \/ Busy(c) \/ Lose(c)
  BY <1>4, ServeSound, BusySound, LoseSound
<1>5. CASE \E c \in Calls : Receive(c) \/ Refreshed(c) \/ ReceiveAgain(c) \/ Drop(c) \/ Timer(c)
  BY <1>5, ReceiveSound, RefreshedSound, ReceiveAgainSound, DropSound, TimerSound
<1>6. CASE \E i \in Ids : GraceEnds(i)
  BY <1>6, GraceEndsSound
<1>7. CASE OtherDevice
  BY <1>7, OtherDeviceSound
<1> QED
  BY <1>1, <1>2, <1>3, <1>4, <1>5, <1>6, <1>7 DEF Next

(***************************************************************************)
(* While nothing crosses: the steps of the browser.                        *)
(***************************************************************************)
\* Call d goes on, its page there or not; or it was forgotten, and carried nothing.
GoesOn(d) ==
  \/ call'[d] = call[d]
  \/ call'[d] = Dead(call[d])
  \/ call'[d] = Idle /\ call[d].id = No

LEMMA GoesOnEffect ==
  ASSUME Sound, NEW d \in Calls, GoesOn(d)
  PROVE  /\ call[d].id # No => call'[d].id = call[d].id
         /\ call'[d].id # No => call'[d].id = call[d].id
         /\ call'[d].id # No \/ Flying(d)' =>
              /\ call'[d].pc = call[d].pc /\ call'[d].op = call[d].op
              /\ call'[d].ck = call[d].ck /\ call'[d].jwt = call[d].jwt
              /\ call'[d].ans = call[d].ans
              /\ Flying(d)' <=> Flying(d)
              /\ Renewing(d)' <=> Renewing(d)
              /\ Writing(d)' <=> Writing(d)
              /\ Op(d)' = Op(d)
<1>1. Idle.id = No /\ Idle.pc = "idle"
  BY DEF Idle
<1>2. /\ Dead(call[d]).id = call[d].id /\ Dead(call[d]).pc = call[d].pc
      /\ Dead(call[d]).op = call[d].op /\ Dead(call[d]).ck = call[d].ck
      /\ Dead(call[d]).jwt = call[d].jwt /\ Dead(call[d]).ans = call[d].ans
  BY CallFields DEF Dead, Call, Sound
<1>3. CASE call'[d] = Idle /\ call[d].id = No
  BY <1>1, <1>3 DEF Flying
<1>4. CASE call'[d] = call[d] \/ call'[d] = Dead(call[d])
  BY <1>2, <1>4 DEF Flying, Renewing, Writing, Op
<1> QED
  BY <1>3, <1>4 DEF GoesOn

\* An identity that an answer carries goes to the jar, the login page or a renewal.
LEMMA CarrierOp ==
  ASSUME Sound, NEW c \in Calls, call[c].id # No
  PROVE  Flying(c) /\ call[c].ans = "ok" /\ (Op(c) \in Starts \/ Renewing(c))
<1>1. CallOK(call[c])
  BY DEF Sound
<1> QED
  BY <1>1 DEF CallOK, Flying, Renewing, Op

LEMMA LeftGoesOn ==
  ASSUME Sound, NEW t, NEW d \in Calls, call'[d] = Left(t)[d]
  PROVE  /\ GoesOn(d)
         /\ Flying(d)' /\ call'[d] # call[d] => call[d].from = t
<1>1. Left(t)[d] \in {call[d], Dead(call[d]), Idle}
  BY LeftEffect DEF Sound
<1>2. CASE Left(t)[d] = Idle /\ Left(t)[d] # call[d] /\ Left(t)[d] # Dead(call[d])
  <2>1. ~(Renewing(d) \/ (Flying(d) /\ Op(d) \in Ending))
    BY <1>2, LeftEffect DEF Sound
  <2>2. call[d].id = No
    BY <2>1, CarrierOp DEF Starts, Ending
  <2>3. Idle.pc = "idle"
    BY DEF Idle
  <2> QED
    BY <1>2, <2>2, <2>3 DEF GoesOn, Flying
<1>3. CASE Left(t)[d] = call[d]
  BY <1>3 DEF GoesOn
<1>4. CASE Left(t)[d] = Dead(call[d])
  BY <1>4, LeftEffect DEF GoesOn, Sound, Mine
<1> QED
  BY <1>1, <1>2, <1>3, <1>4

\* What call c may begin, or go on with, beside the others.
Beside(c) ==
  \A d \in Calls \ {c} : Flying(d) =>
    /\ Op(c)' \in Ending => Op(d) \notin Ending /\ ~Writing(d)
    /\ Op(d) \in Ending => Op(c)' \notin Ending /\ ~Writing(c)'
    /\ Op(c)' \in Starts => call[d].pc \in {"sent", "answered"}
    /\ Op(d) \in Starts => call'[c].pc \in {"sent", "answered"}
    /\ Renewing(c)' /\ Renewing(d) /\ (Live(call'[c].ck) \/ Live(call[d].ck))
         => call'[c].ck = call[d].ck

\* What call c must be to begin, go on or come to its end.
Begun(c) ==
  /\ call'[c].id = No
  /\ call[c].id # No /\ Live(call[c].id) => cookie' = call[c].id
  /\ Flying(c)' => Beside(c)
  /\ Renewing(c)' => NoneLive \/ Renewable(call'[c].ck)
  /\ EndOK(c)'
  /\ Flying(c)' /\ Op(c)' \in {"profile", "email"}
       /\ (call'[c].ans = "ok" \/ call'[c].jwt \in cached) => cookie' # No
  /\ Flying(c)' /\ Op(c)' \in {"logout", "delete"} /\ call'[c].dead => ~user'

LEMMA BrowserQuiet ==
  ASSUME Sound, Sound', Quiet, UNCHANGED serverVars, NEW c,
         c \in Calls => Begun(c),
         \A d \in Calls \ {c} : GoesOn(d),
         cookie' = cookie \/ NoneLive \/ Live(cookie'),
         user' => cookie' # No,
         cookie' # No \/ cookie = No
           \/ \A d \in Calls \ {c} : Flying(d) => Op(d) \notin {"profile", "email"},
         \A d \in Calls \ {c} :
           Flying(d) /\ Op(d) \in {"logout", "delete"} /\ call'[d].dead => ~user'
  PROVE  Quiet'
<1>1. /\ \A i : Live(i)' <=> Live(i)
      /\ NoneLive' <=> NoneLive
      /\ \A i : Renewable(i)' <=> Renewable(i)
      /\ cached' = cached /\ token' = token
  BY DEF serverVars, Live, NoneLive, Renewable, Successor
<1>2. ASSUME NEW d \in Calls \ {c}, Flying(d)'
      PROVE  /\ call'[d].pc = call[d].pc /\ call'[d].op = call[d].op
             /\ call'[d].ck = call[d].ck /\ call'[d].jwt = call[d].jwt
             /\ call'[d].ans = call[d].ans
             /\ Flying(d)
             /\ Renewing(d)' <=> Renewing(d)
             /\ Writing(d)' <=> Writing(d)
             /\ Op(d)' = Op(d)
  BY <1>2, GoesOnEffect
<1>3. Apart'
  <2>1. ASSUME NEW d \in Calls, NEW e \in Calls \ {d}, Flying(d)', Flying(e)'
        PROVE  /\ Op(d)' \in Ending => Op(e)' \notin Ending /\ ~Writing(e)'
               /\ Op(d)' \in Starts => call'[e].pc \in {"sent", "answered"}
               /\ Renewing(d)' /\ Renewing(e)' /\ Live(call[d].ck)' => call'[e].ck = call'[d].ck
    <3>1. CASE d # c /\ e # c
      BY <1>1, <1>2, <2>1, <3>1 DEF Quiet, Apart
    <3>2. CASE d = c
      BY <1>1, <1>2, <2>1, <3>2 DEF Beside, Begun
    <3>3. CASE e = c
      BY <1>1, <1>2, <2>1, <3>3 DEF Beside, Begun
    <3> QED
      BY <3>1, <3>2, <3>3
  <2> QED
    BY <2>1 DEF Apart
<1>4. LiveIsKnown'
  <2>1. ASSUME NEW i \in Ids, Live(i)
        PROVE  OnItsWay(i)'
    <3>1. cookie' = cookie \/ cookie' = i
      BY <2>1 DEF Sound, RowsOK, NoneLive, Live, TypeOK
    <3>2. CASE cookie = i
      BY <3>1, <3>2 DEF OnItsWay
    <3>3. ASSUME NEW d \in Calls, call[d].id = i,
                 Op(d) \in Starts \/ (Renewing(d) /\ cookie = call[d].ck)
          PROVE  OnItsWay(i)'
      <4>2. CASE d = c
        BY <2>1, <3>3, <4>2 DEF Live, OnItsWay, Begun
      <4>3. CASE d # c
        <5>1. /\ call'[d].id = i /\ Op(d)' = Op(d) /\ (Renewing(d)' <=> Renewing(d))
              /\ call'[d].ck = call[d].ck
          BY <2>1, <3>3, <4>3, GoesOnEffect DEF Live
        <5> QED
          BY <3>1, <3>3, <5>1 DEF OnItsWay
      <4> QED
        BY <4>2, <4>3
    <3> QED
      BY <2>1, <3>2, <3>3 DEF Quiet, LiveIsKnown, OnItsWay
  <2>2. ASSUME NEW i \in Ids, Live(i), NEW d \in Calls
        PROVE  call'[d].id # No => call'[d].id = i
    BY <2>2, GoesOnEffect DEF Quiet, LiveIsKnown, Begun
  <2>3. ASSUME NEW i \in Ids, Live(i), NEW d \in Calls, Renewing(d)'
        PROVE  Renewable(call[d].ck)'
    <3>1. CASE d = c
      BY <1>1, <2>3, <3>1 DEF NoneLive, Begun
    <3>2. CASE d # c
      <4>1. Flying(d)'
        BY <2>3 DEF Renewing
      <4> QED
        BY <1>1, <1>2, <2>3, <3>2, <4>1 DEF Quiet, LiveIsKnown
    <3> QED
      BY <3>1, <3>2
  <2> QED
    BY <1>1, <2>1, <2>2, <2>3 DEF LiveIsKnown
<1>5. \A d \in Calls : EndOK(d)'
  <2>1. ASSUME NEW d \in Calls \ {c}
        PROVE  EndOK(d)'
    <3>1. CASE Flying(d)'
      BY <1>1, <1>2, <3>1 DEF Quiet, EndOK
    <3>2. CASE ~Flying(d)'
      BY <3>2 DEF EndOK, Flying, Renewing
    <3> QED
      BY <3>1, <3>2
  <2> QED
    BY <2>1 DEF Begun
<1>6. UserOK'
  <2>1. ASSUME NEW d \in Calls, Flying(d)'
        PROVE  /\ Op(d)' \in {"profile", "email"}
                    /\ (call'[d].ans = "ok" \/ call'[d].jwt \in cached') => cookie' # No
               /\ Op(d)' \in {"logout", "delete"} /\ call'[d].dead => ~user'
    <3>1. CASE d = c
      BY <1>1, <2>1, <3>1 DEF Begun
    <3>2. CASE d # c
      BY <1>1, <1>2, <2>1, <3>2 DEF Quiet, UserOK
    <3> QED
      BY <3>1, <3>2
  <2> QED
    BY <2>1 DEF UserOK
<1> QED
  BY <1>3, <1>4, <1>5, <1>6 DEF Quiet

(* The answer to c comes in, and c comes to an end.                         *)
LEMMA FinishQuiet ==
  ASSUME Sound, Sound', Quiet, UNCHANGED serverVars, NEW c \in Calls,
         call[c].pc \in {"answered", "refreshed", "answeredAgain"},
         call'[c].pc \in {"idle", "soon"}, call'[c].id = No, cookie' = Jar(c),
         \A d \in Calls \ {c} : GoesOn(d),
         \A d \in Calls \ {c} : Flying(d) /\ call'[d].dead => call[d].dead \/ ~user',
         user' => \/ user
                  \/ cookie' # No /\ (Writing(c) \/ Op(c) \in Starts),
         Op(c) \in {"logout", "delete"} /\ call[c].ans = "ok" /\ call[c].id = No => ~user'
  PROVE  Quiet'
<1>1. ~Flying(c)' /\ ~Renewing(c)' /\ Flying(c)
  BY DEF Flying, Renewing
<1>2. Begun(c)
  <2>1. EndOK(c)'
    BY <1>1 DEF EndOK
  <2> QED
    BY <1>1, <2>1 DEF Begun, Jar
<1>3. cookie' = cookie \/ NoneLive \/ Live(cookie')
  <2>1. CASE call[c].id # No
    BY <2>1 DEF Jar, Quiet, LiveIsKnown, NoneLive
  <2>2. CASE call[c].id = No /\ Op(c) \in {"logout", "delete"} /\ call[c].ans = "ok"
    <3>1. call[c].pc # "refreshed"
      BY <2>2 DEF Sound, CallOK
    <3>2. EndOK(c)
      BY DEF Quiet
    <3> QED
      BY <2>2, <3>1, <3>2 DEF EndOK, Op
  <2> QED
    BY <2>1, <2>2 DEF Jar
<1>4. user' => cookie' # No
  BY DEF Jar, Quiet, UserOK
<1>5. ASSUME cookie' = No, cookie # No, NEW d \in Calls \ {c}, Flying(d)
      PROVE  Op(d) \notin {"profile", "email"}
  <2>1. Op(c) \in {"logout", "delete"}
    BY <1>5 DEF Jar
  <2> QED
    BY <1>1, <1>5, <2>1 DEF Quiet, Apart, Ending, Writing
<1>6. ASSUME NEW d \in Calls \ {c}, Flying(d), Op(d) \in {"logout", "delete"}, call'[d].dead
      PROVE  ~user'
  <2>1. CASE call[d].dead
    <3>1. ~user
      BY <1>6, <2>1 DEF Quiet, UserOK
    <3>2. ~Writing(c) /\ Op(c) \notin Starts
      BY <1>1, <1>6 DEF Quiet, Apart, Ending, Starts
    <3> QED
      BY <3>1, <3>2
  <2> QED
    BY <1>6, <2>1
<1> QED
  BY <1>2, <1>3, <1>4, <1>5, <1>6, BrowserQuiet

LEMMA ReloadQuiet ==
  ASSUME Sound, Sound', Quiet, UNCHANGED serverVars, NEW c \in Calls,
         call[c].pc \in {"answered", "refreshed", "answeredAgain"},
         Reload(c), cookie' = Jar(c)
  PROVE  Quiet'
<1>1. call' = [Left(Mine(c)) EXCEPT ![c] = Idle] /\ ~user'
  BY DEF Reload, SignOut
<1>2. Left(Mine(c)) \in [Calls -> Call]
  BY LeftEffect DEF Sound
<1>3. \A d \in Calls \ {c} : GoesOn(d)
  BY <1>1, <1>2, LeftGoesOn
<1>4. call'[c].pc = "idle" /\ call'[c].id = No
  BY <1>1, <1>2 DEF Idle
<1> QED
  BY <1>1, <1>3, <1>4, FinishQuiet

\* The steps that only end call c, or set its timer.
LEMMA DoneGoesOn ==
  ASSUME Sound, NEW c \in Calls, NEW r, call' = [call EXCEPT ![c] = r]
  PROVE  call'[c] = r /\ \A d \in Calls \ {c} : GoesOn(d) /\ call'[d] = call[d]
  BY DEF Sound, TypeOK, GoesOn

LEMMA SucceedQuiet ==
  ASSUME Sound, Sound', Quiet, UNCHANGED serverVars, NEW c \in Calls,
         call[c].pc \in {"answered", "answeredAgain"}, ~call[c].dead,
         Good(c), Succeed(c), cookie' = Jar(c)
  PROVE  Quiet'
<1>1. CallOK(call[c]) /\ Flying(c) /\ Mine(c) \in Tabs
  BY DEF Sound, CallOK, Flying, Mine
<1>2. Idle.pc = "idle" /\ Idle.id = No
  BY DEF Idle
<1>3. ASSUME Done(c),
             user' => \/ user
                      \/ cookie' # No /\ (Writing(c) \/ Op(c) \in Starts),
             Op(c) \in {"logout", "delete"} => ~user'
      PROVE  Quiet'
  <2>1. call'[c] = Idle /\ \A d \in Calls \ {c} : GoesOn(d) /\ call'[d] = call[d]
    BY <1>3, DoneGoesOn DEF Done
  <2> QED
    BY <1>2, <1>3, <2>1, FinishQuiet
<1>4. CASE SignedIn(c)
  <2>1. call[c].id # No
    BY <1>1, <1>4 DEF SignedIn, CallOK, Op, Starts, Guarded
  <2> QED
    BY <1>3, <1>4, <2>1 DEF SignedIn, Jar, Starts
<1>5. CASE OthersLoggedOut(c)
  BY <1>3, <1>5 DEF OthersLoggedOut
<1>6. CASE Restored(c)
  <2>1. call[c].id # No /\ Writing(c)
    BY <1>1, <1>6 DEF Restored, CallOK, Op, Good, Guarded, Writing, Renewing
  <2> QED
    BY <1>3, <1>6, <2>1 DEF Restored, Jar
<1>7. CASE Shown(c)
  BY <1>3, <1>7 DEF Shown
<1>8. CASE ProfileShown(c)
  <2>1. Writing(c) /\ call[c].ans = "ok"
    BY <1>1, <1>8 DEF ProfileShown, CallOK, Op, Good, Writing
  <2>2. cookie # No
    BY <1>1, <1>8, <2>1 DEF ProfileShown, Quiet, UserOK
  <2>3. cookie' # No
    BY <1>8, <2>2 DEF ProfileShown, Jar
  <2> QED
    BY <1>3, <1>8, <2>1, <2>3 DEF ProfileShown
<1>9. CASE Proved(c)
  BY <1>3, <1>9 DEF Proved
<1>10. CASE PasswordChanged(c)
  <2> DEFINE r == [Idle EXCEPT !.pc = "soon", !.op = "password", !.from = Mine(c)]
  <2>1. r.pc = "soon" /\ r.id = No
    BY DEF Idle
  <2>2. call' = [call EXCEPT ![c] = r]
    BY <1>10 DEF PasswordChanged
  <2> HIDE DEF r
  <2>3. call'[c] = r /\ \A d \in Calls \ {c} : GoesOn(d) /\ call'[d] = call[d]
    BY <2>2, DoneGoesOn
  <2> QED
    BY <1>10, <2>1, <2>3, FinishQuiet DEF PasswordChanged
<1>11. CASE Op(c) = "email" /\ Done(c) /\ UNCHANGED user
  BY <1>3, <1>11
<1>12. CASE /\ Op(c) = "email" /\ UNCHANGED user
            /\ call' = [call EXCEPT ![c] = Request(Mine(c), "profile")]
  <2> DEFINE r == Request(Mine(c), "profile")
  <2>1. r.pc = "sent" /\ r.op = "profile" /\ r.ans = "none" /\ r.id = No /\ ~r.dead
    BY <1>1, RequestFields DEF AllOps
  <2>2. call[c].ans = "ok" /\ call[c].id = No
    BY <1>1, <1>12, CallFields DEF Good, CallOK, Op, Starts, Sound
  <2>3. cookie # No /\ cookie' = cookie
    BY <1>1, <1>12, <2>2 DEF Quiet, UserOK, Jar
  <2> HIDE DEF r
  <2>4. call'[c] = r /\ \A d \in Calls \ {c} : GoesOn(d) /\ call'[d] = call[d]
    BY <1>12, DoneGoesOn DEF r
  <2>5. Op(c)' = "profile" /\ Flying(c)' /\ ~Renewing(c)'
    BY <2>1, <2>4 DEF Op, Flying, Renewing
  <2>6. Beside(c)
    <3>1. \A d \in Calls \ {c} : Flying(d) => Op(d) \notin Ending
      BY <1>1, <1>12 DEF Quiet, Apart, Writing
    <3> QED
      BY <2>5, <3>1 DEF Beside, Ending, Starts
  <2>7. EndOK(c)'
    BY <2>1, <2>4, <2>5 DEF EndOK
  <2>8. Begun(c)
    BY <2>1, <2>2, <2>3, <2>4, <2>5, <2>6, <2>7 DEF Begun
  <2> QED
    BY <1>12, <2>3, <2>4, <2>8, BrowserQuiet DEF Quiet, UserOK
<1>13. CASE Deleted(c) \/ (LoggedOut(c) /\ Done(c))
  BY <1>3, <1>13 DEF Deleted, LoggedOut, SignOut
<1> QED
  BY <1>4, <1>5, <1>6, <1>7, <1>8, <1>9, <1>10, <1>11, <1>12, <1>13 DEF Succeed, EmailChanged

\* What a call reads in the jar.
LEMMA CookieRenewable ==
  ASSUME Sound, Quiet, NEW c \in Calls, call[c].id = No, ~Crosses(c, "restore", cookie)
  PROVE  NoneLive \/ Renewable(cookie)
<1> SUFFICES ASSUME NEW i \in Ids, Live(i)
             PROVE  Renewable(cookie)
  BY DEF NoneLive
<1>1. CASE cookie = i
  BY <1>1 DEF Renewable
<1>2. ASSUME NEW d \in Calls, call[d].id = i,
             Op(d) \in Starts \/ (Renewing(d) /\ cookie = call[d].ck)
      PROVE  Renewable(cookie)
  <2>1. d # c /\ Flying(d)
    BY <1>2, CarrierOp, IdsType
  <2>2. Op(d) \notin Starts
    BY <2>1 DEF Crosses, Starts, Ending
  <2> QED
    BY <1>2, <2>2 DEF Quiet, LiveIsKnown
<1> QED
  BY <1>1, <1>2 DEF Quiet, LiveIsKnown, OnItsWay

\* A call that crosses no other and may end tokens finds the live one in the jar.
LEMMA CookieLives ==
  ASSUME Sound, Quiet, NEW c \in Calls, NEW o \in Ending, call[c].id = No,
         ~Crosses(c, o, cookie), NEW i \in Ids, Live(i)
  PROVE  cookie = i
<1>1. ASSUME NEW d \in Calls, call[d].id = i, Op(d) \in Starts \/ Renewing(d)
      PROVE  FALSE
  <2>1. d # c /\ Flying(d)
    BY <1>1, CarrierOp, IdsType
  <2> QED
    BY <1>1, <2>1 DEF Crosses, Starts, Ending, Writing
<1> QED
  BY <1>1 DEF Quiet, LiveIsKnown, OnItsWay

\* Where a token lives the jar has one, if nobody signs in.
LEMMA JarNotEmpty ==
  ASSUME Sound, Quiet, NEW i \in Ids, Live(i),
         \A d \in Calls : Flying(d) => Op(d) \notin Starts
  PROVE  cookie # No
<1>1. CASE cookie = i
  BY <1>1, IdsType
<1>2. ASSUME NEW d \in Calls, call[d].id = i,
             Op(d) \in Starts \/ (Renewing(d) /\ cookie = call[d].ck)
      PROVE  cookie # No
  <2>1. Flying(d)
    BY <1>2, CarrierOp, IdsType
  <2>2. Renewable(cookie)
    BY <1>2, <2>1 DEF Quiet, LiveIsKnown
  <2> QED
    BY <2>2 DEF Renewable, Live, Successor
<1> QED
  BY <1>1, <1>2 DEF Quiet, LiveIsKnown, OnItsWay

\* A request that crosses no call.
LEMMA RequestBegun ==
  ASSUME Sound, Quiet, NEW c \in Calls, At(c, "idle"), NEW t \in Tabs, NEW o \in AllOps,
         ~Crosses(c, o, cookie), call'[c] = Request(t, o), UNCHANGED <<serverVars, cookie>>,
         o \in {"profile", "email"} => tab[t].access \notin {i \in cached : ~Live(i)}
  PROVE  Begun(c)
<1>1. /\ call'[c].pc = "sent" /\ call'[c].op = o /\ call'[c].ans = "none"
      /\ call'[c].id = No /\ call'[c].dead = FALSE
  <2> DEFINE r == Request(t, o)
  <2>1. /\ r.pc = "sent" /\ r.op = o /\ r.ans = "none" /\ r.id = No /\ r.dead = FALSE
    BY RequestFields
  <2>2. call'[c] = r
    OBVIOUS
  <2> HIDE DEF r
  <2> QED
    BY <2>1, <2>2
<1>2. /\ call'[c].ck = (IF o \in {"restore", "logout"} THEN cookie ELSE No)
      /\ call'[c].jwt = (IF o \in Guarded THEN tab[t].access ELSE No)
  BY RequestType DEF Sound
<1>3. /\ Op(c)' = o /\ Flying(c)' /\ (Renewing(c)' <=> o = "restore")
      /\ Writing(c)' <=> o \in {"restore", "profile", "email"}
  BY <1>1 DEF Op, Flying, Renewing, Writing
<1>4. call[c].id = No /\ ~Flying(c)
  BY CarrierOp DEF At, Flying
<1>5. Beside(c)
  <2> SUFFICES ASSUME NEW d \in Calls \ {c}, Flying(d)
               PROVE  /\ o \in Ending => Op(d) \notin Ending /\ ~Writing(d)
                      /\ Op(d) \in Ending => o \notin Ending /\ ~Writing(c)'
                      /\ o \in Starts => call[d].pc \in {"sent", "answered"}
                      /\ o = "restore" /\ Renewing(d) /\ (Live(cookie) \/ Live(call[d].ck))
                           => cookie = call[d].ck
    BY <1>1, <1>2, <1>3 DEF Beside
  <2> QED
    BY <1>3 DEF Crosses, Starts, Ending
<1>6. o = "restore" => NoneLive \/ Renewable(cookie)
  BY <1>4, CookieRenewable
<1>7. EndOK(c)'
  <2>1. o = "logout" => \A i \in Ids : Live(i) => cookie = i
    BY <1>4, CookieLives DEF Ending
  <2> QED
    BY <1>1, <1>2, <1>3, <2>1 DEF EndOK, Live, serverVars
<1>8. ASSUME o \in {"profile", "email"}, call'[c].jwt \in cached
      PROVE  cookie' # No
  <2>1. Live(call'[c].jwt) /\ call'[c].jwt \in Ids
    BY <1>2, <1>8 DEF Guarded, AllOps, Sound, TypeOK
  <2>2. \A d \in Calls : Flying(d) => Op(d) \notin Starts
    BY <1>4, <1>8 DEF Crosses, Starts, Ending
  <2> QED
    BY <2>1, <2>2, JarNotEmpty
<1>9. Renewable(cookie)' <=> Renewable(cookie)
  BY DEF Renewable, Successor, Live, serverVars
<1> QED
  BY <1>1, <1>2, <1>3, <1>4, <1>5, <1>6, <1>7, <1>8, <1>9 DEF Begun

LEMMA NoteQuiet ==
  ASSUME ~upset', NEW cause, Note(cause)
  PROVE  ~cause
  BY DEF Note

LEMMA SendQuiet ==
  ASSUME Sound, Sound', Quiet, ~upset', NEW c \in Calls, NEW t \in Tabs, NEW o \in AllOps,
         Send(c, t, o)
  PROVE  Quiet'
<1>1. /\ ~Crosses(c, o, cookie)
      /\ o \in {"profile", "email"} => tab[t].access \notin {i \in cached : ~Live(i)}
  BY DEF Send, Note
<1>2. call' = [call EXCEPT ![c] = Request(t, o)] /\ UNCHANGED <<serverVars, cookie, user>>
      /\ At(c, "idle")
  BY DEF Send
<1>3. call'[c] = Request(t, o) /\ \A d \in Calls \ {c} : GoesOn(d) /\ call'[d] = call[d]
  BY <1>2, DoneGoesOn
<1>4. Begun(c)
  BY <1>1, <1>2, <1>3, RequestBegun
<1> QED
  BY <1>2, <1>3, <1>4, BrowserQuiet DEF Quiet, UserOK

\* A step of the browser that no call takes.
LEMMA NobodyQuiet ==
  ASSUME Sound, Sound', Quiet, UNCHANGED <<serverVars, cookie>>, \A d \in Calls : GoesOn(d),
         user' => user,
         \A d \in Calls : Flying(d) /\ call'[d].dead => call[d].dead \/ ~user'
  PROVE  Quiet'
<1>1. PICK c : c \notin Calls
  BY NoSetContainsEverything
<1>2. Calls \ {c} = Calls
  BY <1>1
<1> QED
  BY <1>1, <1>2, BrowserQuiet DEF Quiet, UserOK

LEMMA LoadQuiet ==
  ASSUME Sound, Sound', Quiet, ~upset', NEW t \in Tabs, Load(t)
  PROVE  Quiet'
<1>3. UNCHANGED <<serverVars, cookie, user>>
  BY DEF Load
<1>1. CASE ~user
  <2>1. call' = Left(t)
    BY <1>1 DEF Load
  <2>2. \A d \in Calls : GoesOn(d)
    BY <2>1, LeftGoesOn
  <2> QED
    BY <1>3, <1>1, <2>2, NobodyQuiet
<1>2. CASE user
  <2>1. PICK c \in Calls : /\ At(c, "idle")
                           /\ call' = [Left(t) EXCEPT ![c] = Request(t, "restore")]
                           /\ Note(Crosses(c, "restore", cookie))
    BY <1>2 DEF Load
  <2>2. ~Crosses(c, "restore", cookie)
    BY <2>1 DEF Note
  <2>7. Left(t) \in [Calls -> Call]
    BY LeftEffect DEF Sound
  <2>3. call'[c] = Request(t, "restore") /\ \A d \in Calls \ {c} : call'[d] = Left(t)[d]
    BY <2>1, <2>7
  <2>4. \A d \in Calls \ {c} : GoesOn(d)
    BY <2>3, LeftGoesOn
  <2>5. Begun(c)
    BY <1>3, <2>1, <2>2, <2>3, RequestBegun DEF AllOps
  <2>6. \A d \in Calls \ {c} : Flying(d) => Op(d) \notin Ending
    BY <2>2 DEF Crosses
  <2> QED
    BY <1>3, <2>4, <2>5, <2>6, BrowserQuiet DEF Quiet, UserOK, Ending
<1> QED
  BY <1>1, <1>2

LEMMA TabOnlyQuiet ==
  ASSUME Sound, Sound', Quiet, UNCHANGED <<serverVars, cookie, user, call>>
  PROVE  Quiet'
<1>1. \A d \in Calls : GoesOn(d) /\ call'[d] = call[d]
  BY DEF GoesOn
<1> QED
  BY <1>1, NobodyQuiet

LEMMA ReceiveQuiet ==
  ASSUME Sound, Sound', Quiet, ~upset', NEW c \in Calls, Receive(c)
  PROVE  Quiet'
<1>1. /\ At(c, "answered") /\ call[c].pc = "answered" /\ ~call[c].dead /\ Flying(c)
      /\ cookie' = Jar(c) /\ UNCHANGED serverVars
      /\ CallOK(call[c])
      /\ ~(Expired(c) /\ Crosses(c, "restore", cookie))
  BY DEF Receive, Here, At, Note, Sound, Flying
<1>2. CASE Good(c) /\ Succeed(c)
  BY <1>1, <1>2, SucceedQuiet
<1>3. CASE Reload(c)
  BY <1>1, <1>3, ReloadQuiet
<1>4. CASE /\ Expired(c)
           /\ call' = [call EXCEPT ![c].pc = "refresh", ![c].ck = cookie, ![c].ans = "none"]
           /\ UNCHANGED <<tab, user>>
  <2> DEFINE r == [call[c] EXCEPT !.pc = "refresh", !.ck = cookie, !.ans = "none"]
  <2>1. /\ r.pc = "refresh" /\ r.op = call[c].op /\ r.ck = cookie /\ r.ans = "none"
        /\ r.id = No /\ r.dead = call[c].dead /\ r.jwt = call[c].jwt /\ CallOK(r)
    BY <1>1, <1>4, RefreshForms
  <2>2. call' = [call EXCEPT ![c] = r]
    BY <1>4
  <2> HIDE DEF r
  <2>3. call'[c] = r /\ \A d \in Calls \ {c} : GoesOn(d) /\ call'[d] = call[d]
    BY <2>2, DoneGoesOn
  <2>4. ~Crosses(c, "restore", cookie)
    BY <1>1, <1>4
  <2>5. call[c].id = No /\ cookie' = cookie
    BY <1>1, <1>4 DEF CallOK, Expired, Jar
  <2>6. /\ Op(c)' = Op(c) /\ Op(c) \in Guarded \ {"reauth"} /\ Flying(c)' /\ Renewing(c)'
    BY <1>1, <2>1, <2>3 DEF Op, Flying, Renewing, CallOK
  <2>7. Beside(c)
    <3>1. \A d \in Calls \ {c} : Flying(d) => Op(d) \notin Ending
      BY <2>4 DEF Crosses
    <3>2. ASSUME NEW d \in Calls \ {c}, Flying(d), Op(c) \in Ending
          PROVE  Op(d) \notin Ending /\ ~Writing(d)
      BY <1>1, <3>2 DEF Quiet, Apart
    <3>3. ASSUME NEW d \in Calls \ {c}, Renewing(d), Live(cookie) \/ Live(call[d].ck)
          PROVE  cookie = call[d].ck
      BY <2>4, <3>3 DEF Crosses
    <3> QED
      BY <2>1, <2>3, <2>6, <3>1, <3>2, <3>3 DEF Beside, Starts, Ending, Guarded
  <2>8. NoneLive \/ Renewable(cookie)
    BY <2>4, <2>5, CookieRenewable
  <2>9. Renewable(cookie)' <=> Renewable(cookie)
    BY <1>1, <2>5 DEF Renewable, Successor, Live, serverVars
  <2>10. EndOK(c)'
    BY <2>1, <2>3 DEF EndOK
  <2>11. Begun(c)
    BY <1>1, <2>1, <2>3, <2>5, <2>6, <2>7, <2>8, <2>9, <2>10 DEF Begun, Quiet, UserOK
  <2> QED
    BY <1>1, <1>4, <2>3, <2>5, <2>11, BrowserQuiet DEF Quiet, UserOK
<1>5. CASE ~Good(c) /\ Fail(c) /\ Done(c)
  <2>1. call'[c] = Idle /\ \A d \in Calls \ {c} : GoesOn(d) /\ call'[d] = call[d]
    BY <1>5, DoneGoesOn DEF Done
  <2>2. Idle.pc = "idle" /\ Idle.id = No
    BY DEF Idle
  <2>3. /\ call[c].ans # "ok"
        /\ user' => user
    BY <1>5 DEF Good, Fail, SignOut, LoggedOut
  <2> QED
    BY <1>1, <2>1, <2>2, <2>3, FinishQuiet
<1> QED
  BY <1>2, <1>3, <1>4, <1>5 DEF Receive

LEMMA RefreshedQuiet ==
  ASSUME Sound, Sound', Quiet, NEW c \in Calls, Refreshed(c)
  PROVE  Quiet'
<1>1. /\ At(c, "refreshed") /\ call[c].pc = "refreshed" /\ ~call[c].dead /\ Flying(c)
      /\ cookie' = Jar(c) /\ UNCHANGED serverVars
      /\ CallOK(call[c]) /\ Renewing(c) /\ Writing(c)
  BY DEF Refreshed, Here, At, Sound, Flying, Renewing, Writing
<1>2. CASE Reload(c)
  BY <1>1, <1>2, ReloadQuiet
<1>3. CASE /\ call[c].ans = "ok" /\ Granted(Mine(c), call[c].id)
           /\ call' = [call EXCEPT ![c] = Retry(c)]
  <2> DEFINE r == Retry(c)
  <2>1. /\ r.pc = "again" /\ r.op = call[c].op /\ r.ans = "none"
        /\ r.id = No /\ r.dead = call[c].dead /\ r.jwt = call[c].id
    BY <1>1, RefreshForms
  <2>2. call' = [call EXCEPT ![c] = r]
    BY <1>3
  <2> HIDE DEF r
  <2>3. call'[c] = r /\ \A d \in Calls \ {c} : GoesOn(d) /\ call'[d] = call[d]
    BY <2>2, DoneGoesOn
  <2>4. call[c].id # No /\ cookie' = call[c].id
    BY <1>1, <1>3 DEF CallOK, Jar
  <2>5. Op(c)' = Op(c) /\ Op(c) \in Guarded /\ Flying(c)' /\ ~Renewing(c)'
    BY <1>1, <2>1, <2>3 DEF Op, Flying, Renewing, CallOK, Guarded
  <2>6. ASSUME NEW d \in Calls \ {c}, Flying(d)
        PROVE  /\ Op(d) \notin Ending
               /\ Op(c) \in Ending => ~Writing(d)
    BY <1>1, <2>6 DEF Quiet, Apart
  <2>7. Beside(c)
    BY <2>5, <2>6 DEF Beside, Starts, Ending, Guarded
  <2>8. NoneLive \/ Live(cookie')
    BY <2>4 DEF Quiet, LiveIsKnown, NoneLive
  <2>9. Redis /\ call'[c].jwt \notin cached => NoneLive
    BY <2>1, <2>3, <2>4, <2>8 DEF Sound, RowsOK, TypeOK
  <2>10. EndOK(c)'
    BY <1>1, <2>1, <2>3, <2>5, <2>9 DEF EndOK, serverVars, NoneLive, Live
  <2>11. Begun(c)
    BY <1>1, <2>1, <2>3, <2>4, <2>5, <2>7, <2>10 DEF Begun
  <2> QED
    BY <1>1, <2>3, <2>4, <2>6, <2>8, <2>11, BrowserQuiet DEF Ending
<1> QED
  BY <1>2, <1>3 DEF Refreshed

LEMMA ReceiveAgainQuiet ==
  ASSUME Sound, Sound', Quiet, NEW c \in Calls, ReceiveAgain(c)
  PROVE  Quiet'
<1>1. /\ call[c].pc = "answeredAgain" /\ ~call[c].dead
      /\ cookie' = Jar(c) /\ UNCHANGED serverVars
  BY DEF ReceiveAgain, Here, At
<1> QED
  BY <1>1, SucceedQuiet, ReloadQuiet DEF ReceiveAgain

LEMMA DropQuiet ==
  ASSUME Sound, Sound', Quiet, ~upset', NEW c \in Calls, Drop(c)
  PROVE  Quiet'
<1>1. /\ call[c].pc \in {"answered", "refreshed", "answeredAgain"} /\ call[c].dead
      /\ UNCHANGED <<serverVars, user>> /\ Flying(c)
      /\ call' = [call EXCEPT ![c] = Idle]
  BY DEF Drop, Done, Flying
<1>2. call'[c] = Idle /\ \A d \in Calls \ {c} : GoesOn(d) /\ call'[d] = call[d]
  BY <1>1, DoneGoesOn
<1>3. Idle.pc = "idle" /\ Idle.id = No
  BY DEF Idle
<1>4. CASE cookie' = Jar(c)
  BY <1>1, <1>2, <1>3, <1>4, FinishQuiet DEF Quiet, UserOK
<1>5. CASE cookie' = cookie /\ Note(call[c].id # No)
  <2>1. call[c].id = No
    BY <1>5 DEF Note
  <2>2. ~Flying(c)' /\ ~Renewing(c)' /\ EndOK(c)'
    BY <1>2, <1>3 DEF Flying, Renewing, EndOK
  <2>3. Begun(c)
    BY <1>2, <1>3, <2>1, <2>2 DEF Begun
  <2> QED
    BY <1>1, <1>2, <1>5, <2>3, BrowserQuiet DEF Quiet, UserOK
<1> QED
  BY <1>4, <1>5 DEF Drop

LEMMA TimerQuiet ==
  ASSUME Sound, Sound', Quiet, NEW c \in Calls, Timer(c)
  PROVE  Quiet'
<1>1. /\ call[c].pc = "soon" /\ ~user' /\ UNCHANGED <<serverVars, cookie>>
      /\ call' = [call EXCEPT ![c] = Idle]
  BY DEF Timer, Done, At, SignOut
<1>2. call'[c] = Idle /\ \A d \in Calls \ {c} : GoesOn(d) /\ call'[d] = call[d]
  BY <1>1, DoneGoesOn
<1>3. Idle.pc = "idle" /\ Idle.id = No
  BY DEF Idle
<1>4. call[c].id = No
  BY <1>1, CarrierOp DEF Flying
<1>5. ~Flying(c)' /\ ~Renewing(c)' /\ EndOK(c)'
  BY <1>2, <1>3 DEF Flying, Renewing, EndOK
<1>6. Begun(c)
  BY <1>2, <1>3, <1>4, <1>5 DEF Begun
<1> QED
  BY <1>1, <1>2, <1>6, BrowserQuiet

LEMMA LoseQuiet ==
  ASSUME Sound, Sound', Quiet, ~upset', NEW c \in Calls, Lose(c)
  PROVE  Quiet'
<1>1. /\ UNCHANGED <<serverVars, cookie, user>> /\ Flying(c) /\ CallOK(call[c])
      /\ call[c].pc \in Steps \ {"idle", "soon", "answered", "refreshed"}
  BY CallFields DEF Lose, Note, At, Flying, Sound
<1>2. \A d \in Calls \ {c} : GoesOn(d) /\ call'[d] = call[d]
  BY LoseEffect DEF GoesOn
<1>3. call[c].id = No
  BY <1>1 DEF CallOK
<1>4. /\ Flying(c)' /\ Op(c)' = Op(c) /\ (Renewing(c)' <=> Renewing(c))
      /\ Writing(c)' <=> Writing(c)
  BY <1>1, LoseEffect DEF Flying, Op, Renewing, Writing
<1>5. Beside(c)
  <2> SUFFICES ASSUME NEW d \in Calls \ {c}, Flying(d)
               PROVE  /\ Op(c) \in Ending => Op(d) \notin Ending /\ ~Writing(d)
                      /\ Op(d) \in Ending => Op(c) \notin Ending /\ ~Writing(c)
                      /\ Op(c) \in Starts => call[d].pc \in {"sent", "answered"}
                      /\ Op(d) \in Starts => call'[c].pc \in {"sent", "answered"}
                      /\ Renewing(c) /\ Renewing(d) /\ (Live(call[c].ck) \/ Live(call[d].ck))
                           => call[c].ck = call[d].ck
    BY <1>4, LoseEffect DEF Beside
  <2> QED
    BY <1>1, LoseEffect DEF Quiet, Apart
<1>6. EndOK(c)'
  BY LoseEffect DEF EndOK
<1>7. Renewing(c)' => NoneLive \/ Renewable(call'[c].ck)
  BY <1>4, LoseEffect DEF Quiet, LiveIsKnown, NoneLive
<1>8. Begun(c)
  BY <1>1, <1>3, <1>4, <1>5, <1>6, <1>7, LoseEffect DEF Begun, Quiet, UserOK
<1> QED
  BY <1>1, <1>2, <1>8, BrowserQuiet DEF Quiet, UserOK

LEMMA GraceEndsQuiet ==
  ASSUME Sound, Sound', Quiet, ~upset', NEW i \in Ids, GraceEnds(i)
  PROVE  Quiet'
<1>1. /\ token' = [token EXCEPT ![i].grace = FALSE]
      /\ UNCHANGED <<cached, elsewhere, cookie, user, tab, call>>
      /\ \A c \in Calls : Renewing(c) => call[c].ck # i
  BY DEF GraceEnds, Note
<1>2. /\ \A j \in Ids : token'[j].state = token[j].state
      /\ \A j \in Ids \ {i} : token'[j] = token[j]
  BY <1>1 DEF Sound, TypeOK, Row
<1>3. /\ \A j \in Ids : Live(j)' <=> Live(j)
      /\ NoneLive' <=> NoneLive
  BY <1>2 DEF Live, NoneLive
<1>4. /\ \A c \in Calls : /\ Flying(c)' <=> Flying(c)
                          /\ Renewing(c)' <=> Renewing(c)
                          /\ Writing(c)' <=> Writing(c)
                          /\ Op(c)' = Op(c)
  BY <1>1 DEF Flying, Renewing, Writing, Op
<1>5. ASSUME NEW k \in Ids \cup {No}, k # i
      PROVE  /\ Live(k)' <=> Live(k)
             /\ Renewable(k) => Renewable(k)'
  <2>1. CASE k = No
    BY <2>1 DEF Live, Renewable, Successor
  <2>2. CASE k # No
    <3>1. token'[k] = token[k] /\ token[k].next \in Ids \cup {No}
      BY <1>2, <1>5, <2>2, RowFields DEF Sound
    <3>2. token[k].next # No => token'[token[k].next].state = token[token[k].next].state
      BY <1>2, <3>1
    <3> QED
      BY <3>1, <3>2 DEF Renewable, Live, Successor
  <2> QED
    BY <2>1, <2>2
<1>6. \A c \in Calls : Live(call[c].ck)' <=> Live(call[c].ck)
  BY <1>1, <1>2, CallFields DEF Sound, Live
<1>7. Apart'
  BY <1>1, <1>4, <1>6 DEF Quiet, Apart
<1>8. LiveIsKnown'
  <2>1. ASSUME NEW c \in Calls, Renewing(c), Renewable(call[c].ck)
        PROVE  Renewable(call[c].ck)'
    BY <1>1, <1>5, <2>1, CallFields DEF Sound
  <2> QED
    BY <1>1, <1>3, <1>4, <2>1 DEF Quiet, LiveIsKnown, OnItsWay
<1>9. \A c \in Calls : EndOK(c)'
  BY <1>1, <1>3, <1>4 DEF Quiet, EndOK
<1>10. UserOK'
  BY <1>1, <1>4 DEF Quiet, UserOK
<1> QED
  BY <1>7, <1>8, <1>9, <1>10 DEF Quiet

(***************************************************************************)
(* While nothing crosses: the steps of the server.                         *)
(***************************************************************************)
\* Call d keeps what it is and holds; it may have been answered.
Kept(d) ==
  /\ Flying(d)' <=> Flying(d)
  /\ Renewing(d)' <=> Renewing(d)
  /\ Writing(d)' <=> Writing(d)
  /\ Op(d)' = Op(d) /\ call'[d].ck = call[d].ck /\ call'[d].dead = call[d].dead
  /\ call[d].pc \in {"sent", "answered"} => call'[d].pc \in {"sent", "answered"}

LEMMA AnswerKeeps ==
  ASSUME Sound, NEW c \in Calls, NEW a \in Answers, NEW i \in Ids \cup {No},
         Answer(c, a, i), call[c].pc \in {"sent", "refresh", "again"}
  PROVE  /\ \A d \in Calls : Kept(d)
         /\ \A d \in Calls \ {c} : call'[d] = call[d]
         /\ Flying(c) /\ call[c].id = No /\ call[c].ans = "none"
         /\ call'[c].ans = a /\ call'[c].id = i /\ call'[c].jwt = No
         /\ call'[c].pc # "sent" /\ call'[c].pc # "again"
         /\ call'[c].pc = "answeredAgain" => call[c].pc = "again"
<1>1. CallOK(call[c]) /\ TypeOK
  BY DEF Sound
<1>2. call[c].id = No /\ call[c].ans = "none"
  BY <1>1 DEF CallOK
<1>3. \A d \in Calls \ {c} : call'[d] = call[d]
  BY <1>1, AnswerEffect
<1>4. /\ call'[c].pc = IF call[c].pc = "sent" THEN "answered"
                       ELSE IF call[c].pc = "refresh" THEN "refreshed" ELSE "answeredAgain"
      /\ call'[c].op = call[c].op
      /\ call'[c].ck = call[c].ck /\ call'[c].dead = call[c].dead
      /\ call'[c].ans = a /\ call'[c].id = i /\ call'[c].jwt = No
  BY <1>1, AnswerEffect
<1>5. Kept(c) /\ Flying(c)
  BY <1>4 DEF Kept, Flying, Renewing, Writing, Op
<1>6. \A d \in Calls \ {c} : Kept(d)
  BY <1>3 DEF Kept, Flying, Renewing, Writing, Op
<1> QED
  BY <1>2, <1>3, <1>4, <1>5, <1>6

LEMMA KeptApart ==
  ASSUME Quiet, \A d \in Calls : Kept(d),
         \A d \in Calls : Renewing(d) /\ Live(call[d].ck)' => Live(call[d].ck)
  PROVE  Apart'
<1> SUFFICES ASSUME NEW c \in Calls, NEW d \in Calls \ {c}, Flying(c)', Flying(d)'
             PROVE  /\ Op(c)' \in Ending => Op(d)' \notin Ending /\ ~Writing(d)'
                    /\ Op(c)' \in Starts => call'[d].pc \in {"sent", "answered"}
                    /\ Renewing(c)' /\ Renewing(d)' /\ Live(call[c].ck)'
                         => call'[d].ck = call'[c].ck
  BY DEF Apart
<1>1. Kept(c) /\ Kept(d)
  OBVIOUS
<1>2. call'[c].ck = call[c].ck
  BY <1>1 DEF Kept
<1> QED
  BY <1>1, <1>2 DEF Kept, Quiet, Apart, Live

\* When nothing lives any more.
LEMMA NoneLiveQuiet ==
  ASSUME Sound, Quiet, \A d \in Calls : Kept(d), UNCHANGED <<cookie, user>>, NoneLive',
         \A d \in Calls : Flying(d) /\ Op(d) \in {"profile", "email"}
              /\ (call'[d].ans = "ok" \/ call'[d].jwt \in cached') => cookie # No
  PROVE  Quiet'
<1>1. \A i \in Ids : ~Live(i)'
  BY DEF NoneLive
<1>2. \A d \in Calls : call'[d].ck \in Ids \cup {No}
  BY CallFields DEF Sound, Kept
<1>3. \A d \in Calls : ~Live(call[d].ck)'
  BY <1>1, <1>2 DEF Live, Kept
<1>4. Apart'
  BY <1>3, KeptApart
<1>5. LiveIsKnown'
  BY <1>1 DEF LiveIsKnown
<1>6. \A d \in Calls : EndOK(d)'
  BY <1>1 DEF EndOK
<1>7. UserOK'
  BY DEF UserOK, Quiet, Kept
<1> QED
  BY <1>4, <1>5, <1>6, <1>7 DEF Quiet

\* The server changes nothing; a call may be given the token that lives.
LEMMA AnsweredQuiet ==
  ASSUME Sound, Quiet, NEW c \in Calls, NEW a \in Answers, NEW i \in Ids \cup {No},
         Answer(c, a, i), call[c].pc \in {"sent", "refresh", "again"},
         UNCHANGED <<serverVars, cookie, user>>,
         i # No => Live(i), EndOK(c)',
         Op(c) \in {"profile", "email"} /\ a = "ok" => cookie # No
  PROVE  Quiet'
<1>1. /\ \A k : Live(k)' <=> Live(k)
      /\ NoneLive' <=> NoneLive
      /\ \A k : Renewable(k)' <=> Renewable(k)
      /\ cached' = cached /\ cookie' = cookie /\ user' = user
  BY DEF serverVars, Live, NoneLive, Renewable, Successor
<1>2. /\ \A d \in Calls : Kept(d)
      /\ \A d \in Calls \ {c} : call'[d] = call[d]
      /\ call[c].id = No /\ call'[c].id = i /\ call'[c].jwt = No /\ call'[c].ans = a
  BY AnswerKeeps
<1>3. Apart'
  <2>1. \A d \in Calls : Live(call[d].ck)' => Live(call[d].ck)
    BY <1>2 DEF serverVars, Live, Kept
  <2> QED
    BY <1>2, <2>1, KeptApart
<1>4. LiveIsKnown'
  <2>1. ASSUME NEW k \in Ids, Live(k)
        PROVE  OnItsWay(k)'
    <3>1. CASE cookie = k
      BY <1>1, <3>1 DEF OnItsWay
    <3>2. ASSUME NEW d \in Calls, call[d].id = k,
                 Op(d) \in Starts \/ (Renewing(d) /\ cookie = call[d].ck)
          PROVE  OnItsWay(k)'
      <4>1. d # c /\ call'[d].id = k /\ Kept(d)
        BY <1>2, <3>2, IdsType
      <4> QED
        BY <1>1, <3>2, <4>1 DEF OnItsWay, Kept
    <3> QED
      BY <2>1, <3>1, <3>2 DEF Quiet, LiveIsKnown, OnItsWay
  <2>2. ASSUME NEW k \in Ids, Live(k), NEW d \in Calls, call'[d].id # No
        PROVE  call'[d].id = k
    BY <1>2, <2>2 DEF Quiet, LiveIsKnown, Sound, RowsOK
  <2>3. ASSUME NEW k \in Ids, Live(k), NEW d \in Calls, Renewing(d)'
        PROVE  Renewable(call'[d].ck)
    BY <1>2, <2>3 DEF Quiet, LiveIsKnown, Kept
  <2>4. \A d \in Calls : Renewable(call[d].ck)' <=> Renewable(call'[d].ck)
    BY DEF serverVars, Renewable, Successor, Live
  <2> QED
    BY <1>1, <2>1, <2>2, <2>3, <2>4 DEF LiveIsKnown
<1>5. \A d \in Calls : EndOK(d)'
  <2>1. ASSUME NEW d \in Calls \ {c}
        PROVE  EndOK(d)'
    BY <1>1, <1>2 DEF Quiet, EndOK, Kept
  <2> QED
    BY <2>1
<1>6. UserOK'
  <2>1. ASSUME NEW d \in Calls, Flying(d)'
        PROVE  /\ Op(d)' \in {"profile", "email"}
                    /\ (call'[d].ans = "ok" \/ call'[d].jwt \in cached') => cookie' # No
               /\ Op(d)' \in {"logout", "delete"} /\ call'[d].dead => ~user'
    <3>1. Kept(d) /\ (d # c => call'[d] = call[d]) /\ No \notin cached
      BY <1>2, IdsType DEF Sound, TypeOK
    <3> QED
      BY <1>1, <1>2, <2>1, <3>1 DEF Kept, Quiet, UserOK
  <2> QED
    BY <1>1, <2>1 DEF UserOK, Quiet
<1> QED
  BY <1>3, <1>4, <1>5, <1>6 DEF Quiet

\* The answer after which nothing lives.
LEMMA EndedQuiet ==
  ASSUME Sound, Quiet, NEW c \in Calls, NEW a \in Answers,
         Answer(c, a, No), call[c].pc \in {"sent", "refresh", "again"},
         NoneLive', cached' \subseteq cached, UNCHANGED <<cookie, user>>,
         Op(c) \in {"profile", "email"} => a # "ok"
  PROVE  Quiet'
<1>1. /\ \A d \in Calls : Kept(d)
      /\ \A d \in Calls \ {c} : call'[d] = call[d]
      /\ call'[c].jwt = No /\ call'[c].ans = a
  BY AnswerKeeps
<1>2. No \notin cached'
  BY IdsType DEF Sound, TypeOK
<1>3. ASSUME NEW d \in Calls, Flying(d), Op(d) \in {"profile", "email"},
             call'[d].ans = "ok" \/ call'[d].jwt \in cached'
      PROVE  cookie # No
  <2>1. d # c
    BY <1>1, <1>2, <1>3
  <2> QED
    BY <1>1, <1>3, <2>1 DEF Quiet, UserOK
<1> QED
  BY <1>1, <1>3, NoneLiveQuiet

\* A call with the profile is let in only where there is a cookie.
LEMMA AdmittedHasCookie ==
  ASSUME Sound, Quiet, NEW c \in Calls, Flying(c), Op(c) \in {"profile", "email"}, Admitted(c)
  PROVE  cookie # No
<1>1. CASE call[c].jwt \in cached
  BY <1>1 DEF Quiet, UserOK
<1>2. CASE Live(call[c].jwt)
  <2>1. call[c].jwt \in Ids
    BY <1>2, CallFields DEF Live, Sound
  <2>2. \A d \in Calls : Flying(d) => Op(d) \notin Starts
    BY DEF Quiet, Apart, Starts, Ending, Writing
  <2> QED
    BY <1>2, <2>1, <2>2, JarNotEmpty
<1> QED
  BY <1>1, <1>2 DEF Admitted, Accepted

LEMMA GuardedQuiet ==
  ASSUME Sound, Quiet, NEW c \in Calls,
         Refuse(c) \/ WantProof(c) \/ SessionStatus(c) \/ GetSessions(c) \/ GetProfile(c)
           \/ Reauth(c) \/ ChangeEmail(c)
  PROVE  Quiet'
<1>1. /\ call[c].pc \in {"sent", "again"} /\ Op(c) \in Guarded /\ No \notin Ids
      /\ UNCHANGED <<serverVars, cookie, user, tab, upset>>
  BY IdsType DEF Refuse, WantProof, SessionStatus, GetSessions, GetProfile, Reauth, ChangeEmail,
                 Handle, Waits, Guarded, AllOps
<1>2. PICK a \in {"refused", "concurrent", "reauth", "ok", "forbidden", "failed"} :
        /\ Answer(c, a, No)
        /\ a = "ok" => Admitted(c) /\ Op(c) \notin {"logout", "delete"}
        /\ a = "refused" => ~Admitted(c)
  BY DEF Refuse, WantProof, SessionStatus, GetSessions, GetProfile, Reauth, ChangeEmail, Handle,
         Waits
<1>3. /\ call'[c].ans = a /\ call'[c].pc \notin {"sent", "again"}
      /\ call'[c].pc = "answeredAgain" => call[c].pc = "again"
      /\ Flying(c) /\ Kept(c)
  BY <1>1, <1>2, AnswerKeeps DEF Answers
<1>4. ~Renewing(c)' /\ Op(c)' = Op(c)
  BY <1>1, <1>3 DEF Renewing, Kept, Guarded
<1>5. EndOK(c)'
  <2>1. call[c].pc = "again" /\ a = "refused" /\ Redis => NoneLive
    BY <1>2 DEF Quiet, EndOK, Admitted, Accepted
  <2>2. call[c].pc = "again" /\ a = "refused" /\ Redis => NoneLive'
    BY <1>1, <2>1 DEF NoneLive, Live, serverVars
  <2> QED
    BY <1>2, <1>3, <1>4, <2>2 DEF EndOK, Op
<1>6. Op(c) \in {"profile", "email"} /\ a = "ok" => cookie # No
  BY <1>2, <1>3, AdmittedHasCookie
<1> QED
  BY <1>1, <1>2, <1>5, <1>6, AnsweredQuiet DEF Answers

\* An error that is no refusal of a token ends nothing.
LEMMA FailedQuiet ==
  ASSUME Sound, Quiet, NEW c \in Calls, NEW a \in {"failed", "busy", "conflict", "concurrent"},
         Answer(c, a, No), call[c].pc \in {"sent", "refresh", "again"},
         UNCHANGED <<serverVars, cookie, user>>
  PROVE  Quiet'
<1>1. a \in Answers /\ No \in Ids \cup {No}
  BY DEF Answers
<1>2. call'[c].ans = a /\ call'[c].pc \notin {"sent", "again"}
  BY <1>1, AnswerKeeps
<1>3. EndOK(c)'
  BY <1>2 DEF EndOK
<1> QED
  BY <1>1, <1>3, AnsweredQuiet

LEMMA RevokeAllQuiet ==
  ASSUME Sound, Quiet, NEW c \in Calls, NEW a \in Answers, NEW b \in BOOLEAN,
         RevokeAll(b), Answer(c, a, No), call[c].pc \in {"sent", "refresh", "again"},
         UNCHANGED <<cookie, user>>, Op(c) \in {"profile", "email"} => a # "ok"
  PROVE  Quiet'
<1>1. NoneLive' /\ cached' \subseteq cached
  BY RevokeAllEffect DEF Sound
<1> QED
  BY <1>1, EndedQuiet

LEMMA ChangePasswordQuiet ==
  ASSUME Sound, Quiet, NEW c \in Calls, ChangePassword(c)
  PROVE  Quiet'
<1>1. /\ call[c].pc \in {"sent", "again"} /\ Op(c) = "password"
      /\ UNCHANGED <<cookie, user>>
  BY DEF ChangePassword, Waits
<1>2. CASE Answer(c, "failed", No) /\ UNCHANGED serverVars
  BY <1>1, <1>2, FailedQuiet
<1>3. CASE Answer(c, "ok", No) /\ RevokeAll(FALSE)
  BY <1>1, <1>3, RevokeAllQuiet DEF Answers
<1> QED
  BY <1>2, <1>3 DEF ChangePassword

LEMMA DeleteAccountQuiet ==
  ASSUME Sound, Quiet, NEW c \in Calls, DeleteAccount(c)
  PROVE  Quiet'
<1>1. /\ call[c].pc \in {"sent", "again"} /\ Op(c) = "delete"
      /\ UNCHANGED <<cookie, user>>
  BY DEF DeleteAccount, Waits
<1>2. CASE Answer(c, "failed", No) /\ UNCHANGED serverVars
  BY <1>1, <1>2, FailedQuiet
<1>3. CASE Answer(c, "ok", No) /\ token' = [i \in Ids |-> NoRow] /\ cached' = {}
  <2>1. NoneLive'
    BY <1>3 DEF NoneLive, Live, NoRow
  <2> QED
    BY <1>1, <1>3, <2>1, EndedQuiet DEF Answers
<1> QED
  BY <1>2, <1>3 DEF DeleteAccount

\* A request to log out carries the token that lives.
LEMMA LogoutQuiet ==
  ASSUME Sound, Quiet, ~upset', NEW c \in Calls, Logout(c)
  PROVE  Quiet'
<1>1. /\ call[c].pc = "sent" /\ Op(c) = "logout" /\ cached' \subseteq cached
      /\ \A j \in Ids : Live(j)' <=> Live(j) /\ j # call[c].ck
  BY LogoutEffect, RevokeEffect
<1>2. \A j \in Ids : Live(j) => call[c].ck = j
  BY <1>1 DEF Quiet, EndOK, Op
<1>3. NoneLive'
  BY <1>1, <1>2 DEF NoneLive
<1>4. Answer(c, "ok", No) /\ UNCHANGED <<cookie, user>>
  BY DEF Logout
<1> QED
  BY <1>1, <1>3, <1>4, EndedQuiet DEF Answers

\* A new token j, and what the calls then hold of it.
LEMMA IssueKeeps ==
  ASSUME Sound, NEW c \in Calls, NEW j \in Free, NEW old \in Ids \cup {No},
         old # No => Live(old), Issue(j, old, Free), Answer(c, "ok", j),
         call[c].pc \in {"sent", "refresh"}
  PROVE  /\ j \in Ids /\ j # No /\ \A k \in Ids : Live(k)' <=> k = j
         /\ \A d \in Calls : Kept(d)
         /\ \A d \in Calls \ {c} : call'[d] = call[d]
         /\ Flying(c) /\ call[c].id = No /\ call'[c].id = j /\ call'[c].ans = "ok"
         /\ call'[c].pc \in {"answered", "refreshed"}
         /\ \A d \in Calls : ~Live(call[d].ck)'
         /\ \A d \in Calls : call[d].jwt \in cached' <=> call[d].jwt \in cached
         /\ call'[c].jwt \notin cached'
<1>1. j \in Ids /\ j # No /\ j \notin Held
  BY IdsType DEF Free
<1>2. /\ \A k \in Ids : Live(k)' <=> k = j
      /\ cached' \subseteq Ids
      /\ \A k \in Ids \ {j} : k \in cached' => k \in cached
      /\ \A k \in Held : k \in cached => k \in cached'
  BY IssueEffect DEF Sound
<1>3. /\ \A d \in Calls : Kept(d)
      /\ \A d \in Calls \ {c} : call'[d] = call[d]
      /\ Flying(c) /\ call[c].id = No /\ call'[c].id = j /\ call'[c].ans = "ok"
      /\ call'[c].jwt = No
  BY <1>1, AnswerKeeps DEF Answers
<1>4. call'[c].pc \in {"answered", "refreshed"}
  BY <1>1, AnswerEffect DEF Answers, Sound
<1>5. \A d \in Calls : ~Live(call[d].ck)'
  <2>1. \A d \in Calls : call'[d].ck = call[d].ck /\ call[d].ck \in Ids \cup {No}
    BY <1>3, CallFields DEF Kept, Sound
  <2>2. \A d \in Calls : call[d].ck # j
    BY <1>1, HeldHas
  <2> QED
    BY <1>2, <2>1, <2>2 DEF Live
<1>6. \A d \in Calls : call[d].jwt \in cached' <=> call[d].jwt \in cached
  <2>1. ASSUME NEW d \in Calls
        PROVE  /\ call[d].jwt \in Ids \cup {No}
               /\ call[d].jwt # No => call[d].jwt \in Held
    BY CallFields, HeldHas DEF Sound
  <2>2. No \notin cached /\ No \notin cached'
    BY <1>2, IdsType DEF Sound, TypeOK
  <2> QED
    BY <1>1, <1>2, <2>1, <2>2
<1>7. call'[c].jwt \notin cached'
  BY <1>2, <1>3, IdsType
<1> QED
  BY <1>1, <1>2, <1>3, <1>4, <1>5, <1>6, <1>7

\* A refresh: every refresh under way carries the token that is replaced.
LEMMA RotateQuiet ==
  ASSUME Sound, Quiet, NEW c \in Calls, NEW j \in Free, Live(call[c].ck), Renews(c),
         Issue(j, call[c].ck, Free), Answer(c, "ok", j), UNCHANGED <<cookie, user>>
  PROVE  Quiet'
<1> DEFINE i == call[c].ck
<1>1. /\ call[c].pc \in {"sent", "refresh"} /\ Renewing(c) /\ Writing(c)
      /\ i \in Ids /\ i # No
  BY CallFields DEF Renews, At, Renewing, Writing, Flying, Sound, Live
<1>2. /\ j \in Ids /\ j # No /\ \A k \in Ids : Live(k)' <=> k = j
      /\ \A d \in Calls : Kept(d)
      /\ \A d \in Calls \ {c} : call'[d] = call[d]
      /\ Flying(c) /\ call[c].id = No /\ call'[c].id = j /\ call'[c].ans = "ok"
      /\ call'[c].pc \in {"answered", "refreshed"}
      /\ \A d \in Calls : ~Live(call[d].ck)'
      /\ \A d \in Calls : call[d].jwt \in cached' <=> call[d].jwt \in cached
      /\ call'[c].jwt \notin cached'
  BY <1>1, IssueKeeps
<1>3. ASSUME NEW d \in Calls \ {c}, Flying(d)
      PROVE  /\ Op(d) \notin Ending
             /\ Renewing(d) => call[d].ck = i
  BY <1>1, <1>2, <1>3 DEF Quiet, Apart
<1>4. ASSUME NEW d \in Calls, call[d].id # No
      PROVE  FALSE
  <2>1. d # c /\ Flying(d) /\ (Op(d) \in Starts \/ Renewing(d)) /\ call[d].id = i
    BY <1>1, <1>2, <1>4, CarrierOp DEF Quiet, LiveIsKnown
  <2>2. call[d].ck = i
    BY <1>3, <2>1 DEF Starts, Ending
  <2> QED
    BY <1>1, <2>1, <2>2 DEF Sound, CallOK
<1>5. cookie = i
  BY <1>1, <1>4 DEF Quiet, LiveIsKnown, OnItsWay
<1>6. Apart'
  BY <1>2, KeptApart
<1>7. LiveIsKnown'
  <2>1. OnItsWay(j)'
    BY <1>1, <1>2, <1>5 DEF OnItsWay, Kept
  <2>2. \A d \in Calls : call'[d].id # No => call'[d].id = j
    BY <1>2, <1>4
  <2>3. /\ token'[i].state = "ended" /\ token'[i].next = j
        /\ token'[i].grace /\ ~token'[i].concurrent
    BY <1>1, IssueEffect DEF Sound
  <2>4. token'[token'[i].next].state = "live" /\ token'[i].next # No
    BY <1>2, <2>3 DEF Live
  <2>5. ASSUME NEW d \in Calls, Renewing(d)'
        PROVE  Renewable(call[d].ck)'
    <3>1. call'[d].ck = i
      BY <1>2, <1>3, <2>5 DEF Kept, Renewing
    <3> QED
      BY <1>1, <1>2, <2>3, <2>4, <3>1 DEF Renewable, Successor, Live
  <2> QED
    BY <1>2, <2>1, <2>2, <2>5 DEF LiveIsKnown
<1>8. \A d \in Calls : EndOK(d)'
  <2>1. ASSUME NEW d \in Calls \ {c}
        PROVE  EndOK(d)'
    <3>1. call'[d] = call[d] /\ (Flying(d) => Op(d) \notin Ending) /\ ~NoneLive
      BY <1>1, <1>2, <1>3 DEF NoneLive
    <3>2. EndOK(d) /\ (Renewing(d)' <=> Renewing(d))
      BY <1>2 DEF Quiet, Kept
    <3> QED
      BY <1>2, <3>1, <3>2 DEF EndOK, Flying, Op, Ending
  <2>2. EndOK(c)'
    <3>1. call'[c].pc = "answered" => Op(c)' = "restore"
      BY <1>1, <1>2, AnswerEffect DEF Kept, Renewing, Renews, At, Op, Answers, Sound
    <3> QED
      BY <1>2, <3>1 DEF EndOK, Op
  <2> QED
    BY <2>1, <2>2
<1>9. UserOK'
  <2>1. cookie' # No
    BY <1>1, <1>5
  <2> QED
    BY <1>2, <2>1 DEF UserOK, Quiet, Kept
<1> QED
  BY <1>6, <1>7, <1>8, <1>9 DEF Quiet

\* A sign-in: no other call is under way that has to do with tokens.
LEMMA SignInQuiet ==
  ASSUME Sound, Quiet, NEW c \in Calls, NEW j \in Free, Op(c) \in Starts,
         call[c].pc = "sent", Issue(j, No, Free), Answer(c, "ok", j),
         UNCHANGED <<cookie, user>>
  PROVE  Quiet'
<1>1. /\ j \in Ids /\ j # No /\ \A k \in Ids : Live(k)' <=> k = j
      /\ \A d \in Calls : Kept(d)
      /\ \A d \in Calls \ {c} : call'[d] = call[d]
      /\ Flying(c) /\ call[c].id = No /\ call'[c].id = j /\ call'[c].ans = "ok"
      /\ call'[c].pc \in {"answered", "refreshed"}
      /\ \A d \in Calls : ~Live(call[d].ck)'
  BY IssueKeeps
<1>2. ASSUME NEW d \in Calls \ {c}, Flying(d)
      PROVE  /\ Op(d) \notin Ending /\ ~Writing(d) /\ ~Renewing(d)
             /\ call[d].pc \in {"sent", "answered"}
  BY <1>1, <1>2 DEF Quiet, Apart, Starts, Ending, Writing
<1>3. ~Renewing(c) /\ ~Writing(c)
  BY DEF Renewing, Writing, Starts
<1>4. Apart'
  BY <1>1, KeptApart
<1>5. LiveIsKnown'
  <2>1. OnItsWay(j)'
    BY <1>1 DEF OnItsWay, Kept
  <2>2. ASSUME NEW d \in Calls, call'[d].id # No
        PROVE  call'[d].id = j
    BY <1>1, <1>2, <2>2, CarrierOp DEF Starts, Ending
  <2>3. \A d \in Calls : ~Renewing(d)'
    BY <1>1, <1>2, <1>3 DEF Kept, Renewing
  <2> QED
    BY <1>1, <2>1, <2>2, <2>3 DEF LiveIsKnown
<1>6. \A d \in Calls : EndOK(d)'
  <2>1. ASSUME NEW d \in Calls \ {c}
        PROVE  EndOK(d)'
    BY <1>1, <1>2 DEF EndOK, Kept, Flying, Renewing, Op, Ending
  <2>2. EndOK(c)'
    <3>1. ~Renewing(c)' /\ Op(c)' \in Starts
      BY <1>1, <1>3 DEF Kept
    <3> QED
      BY <1>1, <3>1 DEF EndOK, Op, Starts
  <2> QED
    BY <2>1, <2>2
<1>7. UserOK'
  <2>1. ASSUME NEW d \in Calls, Flying(d)'
        PROVE  /\ Op(d)' \notin {"profile", "email"}
               /\ Op(d)' \in {"logout", "delete"} /\ call'[d].dead => ~user'
    BY <1>1, <1>2, <2>1 DEF Kept, Writing, Starts, Ending
  <2> QED
    BY <2>1 DEF UserOK, Quiet
<1> QED
  BY <1>4, <1>5, <1>6, <1>7 DEF Quiet

LEMMA RenewQuiet ==
  ASSUME Sound, Quiet, NEW c \in Calls, Renew(c)
  PROVE  Quiet'
<1> DEFINE i == call[c].ck
<1>1. /\ call[c].pc \in {"sent", "refresh"} /\ (call[c].pc = "sent" => Op(c) = "restore")
      /\ Renewing(c) /\ Renews(c) /\ i \in Ids \cup {No} /\ No \notin Ids
      /\ UNCHANGED <<cookie, user>>
  BY CallFields, IdsType DEF Renew, Renews, At, Renewing, Flying, Sound
<1>2. CASE i = No \/ (i # No /\ token[i].state = "none")
  <2>1. Answer(c, "refused", No) /\ UNCHANGED serverVars
    BY <1>2 DEF Renew, Successor, Reused, Live
  <2>2. ~Renewable(i)
    BY <1>2 DEF Renewable, Successor, Live
  <2>3. NoneLive
    BY <1>1, <2>2 DEF Quiet, LiveIsKnown, NoneLive
  <2>4. NoneLive'
    BY <2>1, <2>3 DEF NoneLive, Live, serverVars
  <2> QED
    BY <1>1, <2>1, <2>4, EndedQuiet DEF serverVars, Answers
<1>3. CASE Answer(c, "concurrent", No) /\ UNCHANGED serverVars
  BY <1>1, <1>3, FailedQuiet
<1>4. CASE /\ Successor(i) # No
           /\ Answer(c, "ok", Successor(i)) /\ UNCHANGED serverVars
  <2>1. Live(Successor(i)) /\ Successor(i) \in Ids \cup {No} /\ i # No
    BY <1>1, <1>4, RowFields DEF Successor, Sound
  <2>2. /\ call'[c].ans = "ok" /\ Kept(c) /\ call[c].id = No
        /\ call'[c].pc \notin {"sent", "again"}
    BY <1>1, <1>4, <2>1, AnswerKeeps DEF Answers
  <2>3. call'[c].pc = "answered" => Op(c)' = "restore"
    BY <1>1, <1>4, <2>1, <2>2, AnswerEffect DEF Kept, Answers, Sound
  <2>4. call'[c].pc # "answeredAgain"
    BY <1>1, <1>4, <2>1, AnswerEffect DEF Answers, Sound
  <2>5. EndOK(c)'
    BY <2>2, <2>3, <2>4 DEF EndOK, Op
  <2>6. cookie # No
    <3>1. PICK k \in Ids : Live(k)
      BY <1>4, <2>1
    <3>2. \A d \in Calls : Flying(d) => Op(d) \notin Starts
      BY <1>1 DEF Quiet, Apart, Starts, Ending, Writing, Renewing, Guarded, Sound, CallOK, Op
    <3> QED
      BY <3>1, <3>2, JarNotEmpty
  <2> QED
    BY <1>1, <1>4, <2>1, <2>5, <2>6, AnsweredQuiet DEF Answers
<1>5. CASE RevokeAll(FALSE) /\ Answer(c, "security", No)
  BY <1>1, <1>5, RevokeAllQuiet DEF Answers
<1>6. CASE /\ Live(i)
           /\ \E free \in {Free} : \E j \in Lowest(free) :
                Issue(j, i, free) /\ Answer(c, "ok", j)
  <2>1. PICK j \in Free : Issue(j, i, Free) /\ Answer(c, "ok", j)
    BY <1>6 DEF Lowest
  <2> QED
    BY <1>1, <1>6, <2>1, RotateQuiet
<1> QED
  BY <1>2, <1>3, <1>4, <1>5, <1>6 DEF Renew

LEMMA LoginQuiet ==
  ASSUME Sound, Quiet, NEW c \in Calls, Login(c)
  PROVE  Quiet'
<1>1. call[c].pc = "sent" /\ Op(c) \in Starts /\ UNCHANGED <<cookie, user>>
  BY DEF Login, Waits, Sound, CallOK, Guarded, Op, Starts
<1>2. CASE Answer(c, "refused", No) /\ UNCHANGED serverVars
  <2>1. /\ call'[c].ans = "refused" /\ Kept(c)
        /\ call'[c].pc \notin {"sent", "again", "answeredAgain"}
    BY <1>1, <1>2, AnswerKeeps DEF Answers
  <2>2. ~Renewing(c)
    BY <1>1 DEF Renewing, Starts
  <2>3. EndOK(c)'
    BY <1>1, <2>1, <2>2 DEF EndOK, Kept, Op, Starts
  <2> QED
    BY <1>1, <1>2, <2>3, AnsweredQuiet DEF Answers
<1>3. CASE Answer(c, "conflict", No) /\ UNCHANGED serverVars
  BY <1>1, <1>3, FailedQuiet
<1>4. CASE RevokeAll(TRUE) /\ Answer(c, "revoked", No)
  BY <1>1, <1>4, RevokeAllQuiet DEF Answers
<1>5. CASE \E free \in {Free} : \E j \in Lowest(free) :
             Issue(j, No, free) /\ Answer(c, "ok", j)
  <2>1. PICK j \in Free : Issue(j, No, Free) /\ Answer(c, "ok", j)
    BY <1>5 DEF Lowest
  <2> QED
    BY <1>1, <2>1, SignInQuiet
<1> QED
  BY <1>2, <1>3, <1>4, <1>5 DEF Login

LEMMA ServeQuiet ==
  ASSUME Sound, Quiet, ~upset', NEW c \in Calls, Serve(c) \/ Busy(c)
  PROVE  Quiet'
<1>1. CASE Busy(c)
  BY <1>1, FailedQuiet DEF Busy
<1>2. CASE Serve(c)
  BY <1>2, RenewQuiet, LoginQuiet, LogoutQuiet, GuardedQuiet, ChangePasswordQuiet,
     DeleteAccountQuiet DEF Serve
<1> QED
  BY <1>1, <1>2

LEMMA OtherDeviceQuiet ==
  ASSUME Sound, Quiet, OtherDevice
  PROVE  Quiet'
<1>1. UNCHANGED <<cookie, user, call>>
  BY DEF OtherDevice
<1>2. CASE UNCHANGED <<token, cached>>
  <2>1. Apart'
    BY <1>1, <1>2 DEF Quiet, Apart, Flying, Op, Writing, Renewing, Live
  <2>2. LiveIsKnown'
    BY <1>1, <1>2 DEF Quiet, LiveIsKnown, OnItsWay, Renewable, Successor, Live, Flying, Op,
                      Renewing
  <2>3. \A c \in Calls : EndOK(c)'
    BY <1>1, <1>2 DEF Quiet, EndOK, NoneLive, Live, Flying, Op, Renewing
  <2>4. UserOK'
    BY <1>1, <1>2 DEF Quiet, UserOK, Flying, Op
  <2> QED
    BY <2>1, <2>2, <2>3, <2>4 DEF Quiet
<1>3. CASE RevokeAll(TRUE)
  <2>1. NoneLive' /\ cached' = {}
    BY <1>3, RevokeAllEffect DEF Sound
  <2>2. \A d \in Calls : Kept(d)
    BY <1>1 DEF Kept, Flying, Renewing, Writing, Op
  <2> QED
    BY <1>1, <2>1, <2>2, NoneLiveQuiet DEF Quiet, UserOK
<1> QED
  BY <1>2, <1>3 DEF OtherDevice

LEMMA NextQuiet ==
  ASSUME Sound, Sound', Quiet, ~upset', [Next]_vars
  PROVE  Quiet'
<1>1. CASE UNCHANGED vars
  BY <1>1, TabOnlyQuiet DEF vars, serverVars
<1>2. CASE \E t \in Tabs : Load(t) \/ Turn(t) \/ ExpireAccess(t) \/ ExpireProof(t)
  <2>1. PICK t \in Tabs : Load(t) \/ Turn(t) \/ ExpireAccess(t) \/ ExpireProof(t)
    BY <1>2
  <2>2. CASE Load(t)
    BY <2>2, LoadQuiet
  <2>3. CASE Turn(t) \/ ExpireAccess(t) \/ ExpireProof(t)
    BY <2>3, TabOnlyQuiet DEF Turn, ExpireAccess, ExpireProof
  <2> QED
    BY <2>1, <2>2, <2>3
<1>3. CASE \E c \in Calls, t \in Tabs, o \in AllOps : Send(c, t, o)
  BY <1>3, SendQuiet
<1>4. CASE \E c \in Calls : Serve(c) \/ Busy(c) \/ Lose(c)
  BY <1>4, ServeQuiet, LoseQuiet
<1>5. CASE \E c \in Calls : Receive(c) \/ Refreshed(c) \/ ReceiveAgain(c) \/ Drop(c) \/ Timer(c)
  BY <1>5, ReceiveQuiet, RefreshedQuiet, ReceiveAgainQuiet, DropQuiet, TimerQuiet
<1>6. CASE \E i \in Ids : GraceEnds(i)
  BY <1>6, GraceEndsQuiet
<1>7. CASE OtherDevice
  BY <1>7, OtherDeviceQuiet
<1> QED
  BY <1>1, <1>2, <1>3, <1>4, <1>5, <1>6, <1>7 DEF Next

(***************************************************************************)
(* The theorems.                                                           *)
(***************************************************************************)
LEMMA InitIInv == Init => IInv
<1> SUFFICES ASSUME Init
             PROVE  IInv
  OBVIOUS
<1>1. /\ token = [i \in Ids |-> NoRow] /\ NoRow \in Row /\ NoRow.state = "none"
      /\ NoRow.next = No
  BY DEF Init, NoRow, Row
<1>2. \A i \in Ids : ~Live(i)
  BY <1>1 DEF Live
<1>3. /\ \A c \in Calls : call[c] = Idle /\ CallOK(Idle)
      /\ Idle.pc = "idle" /\ Idle.id = No
  BY CallOKForms DEF Init, Idle
<1>4. TypeOK
  BY <1>1, IdleType DEF Init, TypeOK, No
<1>5. RowsOK
  BY <1>1, <1>2 DEF RowsOK, NoneLive
<1>6. \A c \in Calls : ~Flying(c) /\ ~Renewing(c)
  BY <1>3 DEF Flying, Renewing
<1>7. Apart /\ LiveIsKnown /\ UserOK
  BY <1>2, <1>6 DEF Apart, LiveIsKnown, UserOK, Init
<1>8. \A c \in Calls : EndOK(c)
  BY <1>2 DEF EndOK, NoneLive
<1> QED
  BY <1>3, <1>4, <1>5, <1>7, <1>8 DEF IInv, Sound, Quiet

\* What crossed stays noted.
LEMMA UpsetStays ==
  ASSUME [Next]_vars, upset
  PROVE  upset'
<1>1. ASSUME NEW cause, Note(cause)
      PROVE  upset'
  BY <1>1 DEF Note
<1>2. CASE UNCHANGED vars
  BY <1>2 DEF vars
<1>3. CASE \E t \in Tabs : Load(t) \/ Turn(t) \/ ExpireAccess(t) \/ ExpireProof(t)
  BY <1>3 DEF Load, Turn, ExpireAccess, ExpireProof, Note
<1>4. CASE \E c \in Calls, t \in Tabs, o \in AllOps : Send(c, t, o)
  BY <1>4 DEF Send, Note
<1>5. CASE \E c \in Calls : Serve(c) \/ Busy(c)
  BY <1>5 DEF Serve, Renew, Login, Logout, Refuse, WantProof, SessionStatus, GetSessions,
              GetProfile, Reauth, ChangeEmail, ChangePassword, DeleteAccount, Busy, Handle,
              Note
<1>6. CASE \E c \in Calls : Lose(c) \/ Receive(c) \/ Refreshed(c)
                              \/ ReceiveAgain(c) \/ Drop(c) \/ Timer(c)
  BY <1>6 DEF Lose, Receive, Refreshed, ReceiveAgain, Drop, Timer, Note
<1>7. CASE (\E i \in Ids : GraceEnds(i)) \/ OtherDevice
  BY <1>7 DEF GraceEnds, OtherDevice, Note
<1> QED
  BY <1>2, <1>3, <1>4, <1>5, <1>6, <1>7 DEF Next

LEMMA NextIInv ==
  ASSUME IInv, [Next]_vars
  PROVE  IInv'
<1>1. Sound'
  BY NextSound DEF IInv
<1>2. CASE ~upset'
  <2>1. Quiet
    BY <1>2, UpsetStays DEF IInv
  <2> QED
    BY <1>1, <1>2, <2>1, NextQuiet DEF IInv
<1> QED
  BY <1>1, <1>2 DEF IInv

(* The inductive invariant: what the rows, the answers and the types are     *)
(* whatever happens, and where the live token is while no calls cross.       *)
THEOREM Invariance == Spec => []IInv
<1>1. Init => IInv
  BY InitIInv
<1>2. IInv /\ [Next]_vars => IInv'
  BY NextIInv
<1> QED
  BY <1>1, <1>2, PTL DEF Spec

(* Every variable keeps its type.                                           *)
THEOREM TypeCorrect == Spec => []TypeOK
<1>1. IInv => TypeOK
  BY DEF IInv, Sound
<1> QED
  BY <1>1, Invariance, PTL

(* One token lives at most, it took the place of one at most, and none while *)
(* another device is signed in (the single-device rule of login).            *)
THEOREM OneTokenLives == Spec => []RowsOK
<1>1. IInv => RowsOK
  BY DEF IInv, Sound
<1> QED
  BY <1>1, Invariance, PTL

(* The two stores agree once the calls have come to an end: a "user" in      *)
(* localStorage has a cookie.                                               *)
THEOREM StoresAgree == Spec => []UserHasCookie
<1>1. IInv => UserHasCookie
  BY DEF IInv, Quiet, UserOK, UserHasCookie
<1> QED
  BY <1>1, Invariance, PTL

(* However many tabs renew the token at once, the alarm for a reused token   *)
(* (auth.service.ts) never ends a session that lives.                        *)
THEOREM NoFalseAlarm == Spec => AlarmExplained
<1>1. IInv /\ [Next]_vars =>
        [\A c \in Calls : Renew(c) /\ Reused(call[c].ck) => upset \/ NoneLive]_vars
  <2> SUFFICES ASSUME IInv, ~upset, NEW c \in Calls, Renew(c), Reused(call[c].ck)
               PROVE  NoneLive
    OBVIOUS
  <2>1. Renewing(c)
    BY DEF Renew, Renews, Renewing, Flying, At
  <2>2. ~Renewable(call[c].ck)
    BY DEF Reused, Renewable, Live
  <2> QED
    BY <2>1, <2>2 DEF IInv, Quiet, LiveIsKnown, NoneLive
<1> QED
  BY <1>1, Invariance, PTL DEF Spec, AlarmExplained

(* After "Logged out successfully." no refresh token lives, unless calls     *)
(* crossed, an answer with a cookie was lost or the logout failed.           *)
THEOREM LogoutIsFinal == Spec => LogoutEnds
<1>1. IInv /\ [Next]_vars =>
        [\A c \in Calls :
           Receive(c) /\ Op(c) = "logout" /\ call[c].ans = "ok" => upset \/ NoneLive]_vars
  BY DEF IInv, Quiet, EndOK, Receive, Here, At, Op
<1> QED
  BY <1>1, Invariance, PTL DEF Spec, LogoutEnds

\* A token is refused only when none lives; for the repeated call, where sessions
\* are cached.
LEMMA RefusedMeansNone ==
  ASSUME Sound, Quiet, NEW c \in Calls, Live(cookie), call[c].ans \in {"refused", "security"}
  PROVE  ~Renewing(c) /\ (Redis => call[c].pc # "answeredAgain")
<1>1. cookie \in Ids
  BY DEF Sound, TypeOK, Live
<1>2. ~NoneLive
  BY <1>1 DEF NoneLive
<1>3. call[c].pc = "answeredAgain" => call[c].ans # "security"
  BY DEF Sound, CallOK
<1> QED
  BY <1>2, <1>3 DEF Quiet, EndOK

\* Why a page that is left for the login page was left.
Reason(c) ==
  /\ call'[c] = Idle /\ call[c] # Idle
  /\ \/ Op(c) \in {"logout", "delete", "password"}
     \/ call[c].ans \in {"busy", "lost", "failed", "forbidden", "reauth", "concurrent"}

LEMMA SucceedKeeps ==
  ASSUME Sound, NEW c \in Calls, call[c].pc \in {"answered", "answeredAgain"}, Succeed(c),
         NEW t \in Tabs, tab[t].page = "app", tab'[t].page = "login"
  PROVE  Mine(c) = t /\ Reason(c)
<1>1. /\ tab \in [Tabs -> Tab] /\ tab[t] \in Tab /\ call \in [Calls -> Call]
      /\ Mine(c) \in Tabs /\ call[c] # Idle
  BY DEF Sound, TypeOK, CallOK, Mine, Idle
<1>2. ASSUME SignOut(Mine(c)), Done(c), Op(c) \in {"logout", "delete"}
      PROVE  Mine(c) = t /\ Reason(c)
  BY <1>1, <1>2 DEF SignOut, Done, Reason
<1>3. CASE SignedIn(c)
  <2> DEFINE r == [Blank EXCEPT !.page = "app", !.access = call[c].id]
  <2>1. r.page = "app"
    BY DEF Blank
  <2>2. tab' = [tab EXCEPT ![Mine(c)] = r]
    BY <1>3 DEF SignedIn
  <2> HIDE DEF r
  <2> QED
    BY <1>1, <2>1, <2>2
<1>4. CASE OthersLoggedOut(c)
  BY <1>1, <1>4 DEF OthersLoggedOut, Tab
<1>5. CASE Restored(c)
  BY <1>1, <1>5 DEF Restored, Tab
<1>6. CASE Shown(c) \/ ProfileShown(c)
  BY <1>6 DEF Shown, ProfileShown
<1>7. CASE Proved(c)
  BY <1>1, <1>7 DEF Proved, Tab
<1>8. CASE PasswordChanged(c)
  BY <1>1, <1>8 DEF PasswordChanged, Tab
<1>9. CASE EmailChanged(c)
  BY <1>1, <1>9 DEF EmailChanged, Tab
<1>10. CASE Deleted(c) \/ (LoggedOut(c) /\ Done(c))
  BY <1>2, <1>10 DEF Deleted, LoggedOut
<1> QED
  BY <1>3, <1>4, <1>5, <1>6, <1>7, <1>8, <1>9, <1>10 DEF Succeed

LEMMA ReloadKeeps ==
  ASSUME Sound, NEW c \in Calls, call[c].pc \in {"answered", "refreshed", "answeredAgain"},
         Reload(c), NEW t \in Tabs, tab[t].page = "app", tab'[t].page = "login",
         call[c].ans \in {"busy", "lost", "failed", "forbidden", "reauth", "concurrent"}
  PROVE  Mine(c) = t /\ Reason(c)
<1>1. tab \in [Tabs -> Tab] /\ Mine(c) \in Tabs /\ call[c] # Idle
  BY DEF Sound, TypeOK, CallOK, Mine, Idle
<1>3. Left(Mine(c)) \in [Calls -> Call]
  BY LeftEffect DEF Sound
<1>2. tab' = [tab EXCEPT ![Mine(c)] = Blank] /\ call' = [Left(Mine(c)) EXCEPT ![c] = Idle]
  BY DEF Reload, SignOut
<1> QED
  BY <1>1, <1>2, <1>3 DEF Reason

(* A person is not sent to the login page while the token in the jar lives,  *)
(* unless for one of the listed reasons.  Without Redis it is not so:         *)
(* another tab may rotate the token between a refresh and the repeated call.  *)
THEOREM StaysSignedIn ==
  ASSUME Redis
  PROVE  Spec => KeptSignedIn
<1>1. IInv /\ [Next]_vars =>
        [\A t \in Tabs :
           tab[t].page = "app" /\ tab'[t].page = "login" /\ Live(cookie) /\ user =>
             \/ upset
             \/ \E c \in Calls :
                  /\ Mine(c) = t /\ call'[c] = Idle /\ call[c] # Idle
                  /\ \/ Op(c) \in {"logout", "delete", "password"}
                     \/ call[c].ans \in {"busy", "lost", "failed", "forbidden", "reauth",
                                         "concurrent"}]_vars
  <2> SUFFICES ASSUME Sound, Quiet, Next, NEW t \in Tabs, tab[t].page = "app",
                      tab'[t].page = "login", Live(cookie), user
               PROVE  \E c \in Calls : Mine(c) = t /\ Reason(c)
    BY DEF IInv, Reason
  <2>0. tab \in [Tabs -> Tab]
    BY DEF Sound, TypeOK
  <2>1. CASE \E s \in Tabs : Load(s) \/ Turn(s) \/ ExpireAccess(s) \/ ExpireProof(s)
    <3>1. PICK s \in Tabs : Load(s) \/ Turn(s) \/ ExpireAccess(s) \/ ExpireProof(s)
      BY <2>1
    <3>2. CASE Load(s)
      <4> DEFINE r == [Blank EXCEPT !.page = "app", !.loading = TRUE]
      <4>1. r.page = "app"
        BY DEF Blank
      <4>2. tab' = [tab EXCEPT ![s] = r]
        BY <3>2 DEF Load
      <4> HIDE DEF r
      <4> QED
        BY <2>0, <4>1, <4>2
    <3>3. CASE Turn(s) \/ ExpireAccess(s) \/ ExpireProof(s)
      BY <2>0, <3>3 DEF Turn, ExpireAccess, ExpireProof, Tab
    <3> QED
      BY <3>1, <3>2, <3>3
  <2>2. CASE \E c \in Calls, s \in Tabs, o \in AllOps : Send(c, s, o)
    BY <2>0, <2>2 DEF Send, Tab
  <2>3. CASE \/ \E c \in Calls : Serve(c) \/ Busy(c) \/ Lose(c) \/ Drop(c)
             \/ \E i \in Ids : GraceEnds(i)
             \/ OtherDevice
    <3>1. UNCHANGED tab
      BY <2>3 DEF Serve, Renew, Login, Logout, Refuse, WantProof, SessionStatus, GetSessions,
                  GetProfile, Reauth, ChangeEmail, ChangePassword, DeleteAccount, Handle,
                  Busy, Lose, Drop, GraceEnds, OtherDevice
    <3> QED
      BY <3>1
  <2>4. CASE \E c \in Calls : Receive(c)
    <3>1. PICK c \in Calls : Receive(c)
      BY <2>4
    <3>2. call[c].pc = "answered" /\ CallOK(call[c]) /\ Flying(c) /\ call[c].ans \in Answers
          /\ Mine(c) \in Tabs /\ call[c] # Idle
      BY <3>1, CallFields DEF Receive, Here, At, Sound, Flying, CallOK, Mine, Idle
    <3>3. CASE Succeed(c)
      BY <3>2, <3>3, SucceedKeeps
    <3>4. CASE call[c].ans = "concurrent" /\ Reload(c)
      BY <3>2, <3>4, ReloadKeeps
    <3>5. CASE UNCHANGED <<tab, user>>
      BY <3>5
    <3>6. CASE ~Good(c) /\ call[c].ans # "concurrent" /\ Fail(c) /\ Done(c)
      <4>1. CASE Op(c) = "restore" /\ SignOut(Mine(c))
        <5>1. call[c].ans \in {"busy", "lost"}
          <6>1. Renewing(c)
            BY <3>2, <4>1 DEF Renewing
          <6> QED
            BY <3>2, <3>6, <4>1, <6>1, RefusedMeansNone DEF CallOK, Op, Good
        <5> QED
          BY <2>0, <3>2, <3>6, <4>1, <5>1 DEF SignOut, Done, Reason, Sound, TypeOK
      <4>2. CASE LoggedOut(c)
        BY <2>0, <3>2, <3>6, <4>2 DEF LoggedOut, SignOut, Done, Reason, Sound, TypeOK
      <4>3. CASE tab' = [tab EXCEPT ![Mine(c)].asks = tab[Mine(c)].page = "login"]
        BY <2>0, <4>3 DEF Tab
      <4> QED
        BY <3>5, <3>6, <4>1, <4>2, <4>3 DEF Fail
    <3> QED
      BY <3>1, <3>3, <3>4, <3>5, <3>6 DEF Receive
  <2>5. CASE \E c \in Calls : Refreshed(c)
    <3>1. PICK c \in Calls : Refreshed(c)
      BY <2>5
    <3>2. call[c].pc = "refreshed" /\ CallOK(call[c]) /\ Renewing(c)
      BY <3>1 DEF Refreshed, Here, At, Sound, Flying, Renewing
    <3>3. CASE Granted(Mine(c), call[c].id)
      BY <2>0, <3>3 DEF Granted, Tab
    <3>4. CASE call[c].ans # "ok" /\ Reload(c)
      <4>1. call[c].ans \in {"concurrent", "busy", "lost"}
        BY <3>2, <3>4, RefusedMeansNone DEF CallOK
      <4> QED
        BY <3>2, <3>4, <4>1, ReloadKeeps
    <3> QED
      BY <3>1, <3>3, <3>4 DEF Refreshed
  <2>6. CASE \E c \in Calls : ReceiveAgain(c)
    <3>1. PICK c \in Calls : ReceiveAgain(c)
      BY <2>6
    <3>2. call[c].pc = "answeredAgain" /\ CallOK(call[c])
      BY <3>1 DEF ReceiveAgain, Here, At, Sound
    <3>3. CASE Succeed(c)
      BY <3>2, <3>3, SucceedKeeps
    <3>4. CASE ~Good(c) /\ Reload(c)
      <4>1. call[c].ans \in {"busy", "lost", "failed", "forbidden", "reauth", "concurrent"}
        BY <3>2, <3>4, RefusedMeansNone DEF CallOK, Good
      <4> QED
        BY <3>2, <3>4, <4>1, ReloadKeeps
    <3> QED
      BY <3>1, <3>3, <3>4 DEF ReceiveAgain
  <2>7. CASE \E c \in Calls : Timer(c)
    <3>1. PICK c \in Calls : Timer(c)
      BY <2>7
    <3>2. /\ call[c].pc = "soon" /\ Op(c) = "password" /\ Mine(c) \in Tabs /\ call[c] # Idle
          /\ SignOut(Mine(c)) /\ Done(c)
      BY <3>1 DEF Timer, At, Sound, CallOK, Op, Mine, Idle
    <3> QED
      BY <2>0, <3>2 DEF SignOut, Done, Reason, Sound, TypeOK
  <2> QED
    BY <2>1, <2>2, <2>3, <2>4, <2>5, <2>6, <2>7 DEF Next
<1> QED
  BY <1>1, Invariance, PTL DEF Spec, KeptSignedIn
=============================================================================
