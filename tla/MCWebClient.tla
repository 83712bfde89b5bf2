------------------------------- MODULE MCWebClient -------------------------------
(* Instances of WebClient for TLC. *)
EXTENDS WebClient, TLC

CONSTANTS Main,             \* the tab where anything may be done
          MainOps, SideOps  \* what is done there, and in the others

TabOps == [t \in Tabs |-> IF t = Main THEN MainOps ELSE SideOps]

CallsAlike == Permutations(Calls)

\* Every property excuses a browser that is upset.
Calm == ~upset

\* All that the server tells apart in a token.  One row is live at most, and at
\* most one was replaced by it.
Kind(i) ==
  IF i = No THEN <<>>
  ELSE <<token[i].state, token[i].next # No, token[i].grace, token[i].concurrent,
         i \in cached>>

Seen == <<elsewhere, NoneLive, Kind(cookie), user, upset,
          [t \in Tabs |-> [tab[t] EXCEPT !.access = Kind(@)]],
          [c \in Calls |-> [call[c] EXCEPT !.jwt = Kind(@), !.ck = Kind(@), !.id = Kind(@)]]>>
=============================================================================
