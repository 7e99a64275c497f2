---------------------------- MODULE Sessions_proofs ----------------------------
(***************************************************************************)
(* Proofs about module Sessions, for any number of clients, any length of  *)
(* a lock and any life of a refresh token.                                 *)
(*                                                                         *)
(* That a session never forks is stated in the model by counting; the      *)
(* invariant compares in pairs: two tokens that work, two requests on      *)
(* their way to the next token, and one of each.                           *)
(***************************************************************************)
EXTENDS Sessions, FiniteSetTheorems, TLAPS

Places   == {"idle", "insert", "verify", "failure", "reset", "save", "user"}
Requests == [pc : Places, good : BOOLEAN, login : Nat, token : Nat]
Tokens   == [login : Nat, exp : Nat]

TypeOK ==
  /\ clock \in Nat /\ users \in {0, 1} /\ served \in Nat
  /\ failed \in [count : Nat, until : Nat]
  /\ tokens \in Seq(Tokens) /\ Len(tokens) <= MaxTokens
  /\ store \in [Token -> Nat]
  /\ answered \subseteq DOMAIN tokens /\ spent \subseteq DOMAIN tokens
  /\ req \in [Req -> Requests]

\* A token that works, and a request about to issue the next token of its login.
Works(t) == store[t] > 0
Holds(r) == req[r].pc \in {"user", "save"}

\* Only tokens that were made have a key; the logins they stem from are known.
KeysOfTokens == \A t \in Token : Works(t) => t \in DOMAIN tokens
LoginsKnown ==
  /\ \A t \in DOMAIN tokens : tokens[t].login \in 1..Len(tokens)
  /\ \A r \in Req : Holds(r) => req[r].login \in 1..Len(tokens)

\* A request about to save its token holds one of its own login, not older than itself.
Saving ==
  \A r \in Req : req[r].pc = "save" =>
    /\ req[r].token \in DOMAIN tokens
    /\ tokens[req[r].token].login = req[r].login
    /\ tokens[req[r].token].exp <= clock + TokenLife

\* The three ways in which a session could fork.
OneWorks == \A t, u \in DOMAIN tokens :
              Works(t) /\ Works(u) /\ tokens[t].login = tokens[u].login => t = u
OneHolds == \A r, s \in Req : Holds(r) /\ Holds(s) /\ req[r].login = req[s].login => r = s
NotBoth  == \A t \in DOMAIN tokens, r \in Req :
              Works(t) /\ Holds(r) => tokens[t].login # req[r].login

\* The key of a token in use lives for as long as the token says.
KeyOutlivesToken ==
  \A t \in answered \ spent : clock < tokens[t].exp => tokens[t].exp <= store[t]

SInv == /\ TypeOK /\ KeysOfTokens /\ LoginsKnown /\ Saving
        /\ OneWorks /\ OneHolds /\ NotBoth /\ KeyOutlivesToken

\* The requests that may still count up the attempts.
Trying == {r \in Req : req[r].pc \in {"verify", "failure"}}
AInv   == failed.count + Cardinality(Trying) <= MaxAttempts - 1 + Cardinality(Req)

-----------------------------------------------------------------------------
(* Records of requests.                                                    *)

LEMMA Constants ==
  /\ MaxAttempts \in Nat \ {0} /\ Lockout \in Nat /\ TokenLife \in Nat \ {0} /\ MaxTokens \in Nat
  /\ IsFiniteSet(Req)
BY SessionsAssumption

LEMMA PlaceNames ==
  /\ "idle" \in Places /\ "insert" \in Places /\ "verify" \in Places /\ "failure" \in Places
  /\ "reset" \in Places /\ "save" \in Places /\ "user" \in Places
BY DEF Places

LEMMA IdleType == Idle \in Requests /\ Idle.pc = "idle" /\ Idle.login = 0 /\ Idle.token = 0
BY PlaceNames DEF Idle, Requests

LEMMA RequestType ==
  ASSUME NEW q \in Requests, NEW p \in Places, NEW b \in BOOLEAN, NEW n \in Nat, NEW m \in Nat
  PROVE  /\ [q EXCEPT !.pc = p] \in Requests
         /\ [q EXCEPT !.pc = p, !.good = b] \in Requests
         /\ [q EXCEPT !.pc = p, !.login = n] \in Requests
         /\ [q EXCEPT !.pc = p, !.login = n, !.token = m] \in Requests
<1>1. [q EXCEPT !.pc = p] \in Requests /\ [q EXCEPT !.pc = p, !.good = b] \in Requests
  BY DEF Requests
<1>2. [q EXCEPT !.pc = p, !.login = n] \in Requests
  BY DEF Requests
<1>3. [q EXCEPT !.pc = p, !.login = n, !.token = m] \in Requests
  BY DEF Requests
<1> QED BY <1>1, <1>2, <1>3

LEMMA TokenDomain ==
  ASSUME TypeOK
  PROVE  DOMAIN tokens = 1..Len(tokens) /\ Len(tokens) \in Nat /\ DOMAIN tokens \subseteq Token
BY Constants DEF TypeOK, Token

LEMMA TokenFields ==
  ASSUME TypeOK, NEW t \in DOMAIN tokens
  PROVE  tokens[t] \in Tokens /\ tokens[t].login \in Nat /\ tokens[t].exp \in Nat
<1>1. tokens[t] \in Tokens
  BY DEF TypeOK
<1> QED BY <1>1 DEF Tokens

\* Where Move and the requests of a login lead, and the first token of a login.
LEMMA Moved ==
  ASSUME TypeOK, NEW r \in Req, NEW p \in Places, Move(r, p)
  PROVE  \E q \in Requests : q.pc = p /\ req' = [req EXCEPT ![r] = q]
<1> DEFINE q == [req[r] EXCEPT !.pc = p]
<1>1. \A x \in Places : [req[r] EXCEPT !.pc = x] \in Requests
  BY RequestType, IdleType DEF TypeOK
<1>2. q \in Requests /\ q.pc = p
  BY <1>1 DEF TypeOK, Requests
<1>3. req' = [req EXCEPT ![r] = q]
  BY DEF Move, TypeOK
<1> QED BY <1>2, <1>3

-----------------------------------------------------------------------------
(* Sessions.                                                               *)

\* A step after which request r holds no token disturbs no session.
LEMMA Quiet ==
  ASSUME SInv, NEW r \in Req, NEW q \in Requests, req' = [req EXCEPT ![r] = q],
         q.pc \notin {"user", "save"}, UNCHANGED <<clock, tokens, store, answered, spent>>,
         users' \in {0, 1}, served' \in Nat, failed' \in [count : Nat, until : Nat]
  PROVE  SInv'
<1>1. req' \in [Req -> Requests] /\ req'[r] = q /\ \A s \in Req \ {r} : req'[s] = req[s]
  BY DEF SInv, TypeOK
<1>2. TypeOK'
  BY <1>1 DEF SInv, TypeOK
<1>3. KeysOfTokens' /\ LoginsKnown' /\ Saving' /\ KeyOutlivesToken'
  BY <1>1 DEF SInv, KeysOfTokens, LoginsKnown, Saving, KeyOutlivesToken, Works, Holds
<1>4. OneWorks' /\ OneHolds' /\ NotBoth'
  BY <1>1 DEF SInv, OneWorks, OneHolds, NotBoth, Works, Holds
<1> QED BY <1>2, <1>3, <1>4 DEF SInv

\* Keys that go disturb no session, if only used tokens or expired ones lose theirs.
LEMMA KeysGo ==
  ASSUME SInv, store' \in [Token -> Nat], \A t \in Token : store'[t] \in {store[t], 0},
         clock' \in Nat, clock <= clock', answered' = answered,
         spent \subseteq spent', spent' \subseteq DOMAIN tokens,
         \A t \in answered \ spent' : clock' < tokens[t].exp => store'[t] = store[t],
         UNCHANGED <<users, tokens, req>>, served' \in Nat, failed' \in [count : Nat, until : Nat]
  PROVE  SInv'
<1>1. DOMAIN tokens \subseteq Token
  BY TokenDomain DEF SInv
<1>2. \A t \in Token : Works(t)' => Works(t)
  <2> SUFFICES ASSUME NEW t \in Token, store'[t] > 0 PROVE store[t] > 0
    BY DEF Works
  <2>1. store'[t] \in {store[t], 0} /\ ~(0 > 0)
    OBVIOUS
  <2> QED BY <2>1
<1>3. TypeOK'
  BY DEF SInv, TypeOK
<1>4. KeysOfTokens' /\ LoginsKnown'
  BY <1>2 DEF SInv, KeysOfTokens, LoginsKnown, Holds
<1>5. Saving'
  <2> SUFFICES ASSUME NEW s \in Req, req[s].pc = "save"
               PROVE  /\ req[s].token \in DOMAIN tokens /\ tokens[req[s].token].login = req[s].login
                      /\ tokens[req[s].token].exp <= clock' + TokenLife
    BY DEF Saving
  <2>1. /\ req[s].token \in DOMAIN tokens /\ tokens[req[s].token].login = req[s].login
        /\ tokens[req[s].token].exp <= clock + TokenLife
    BY DEF SInv, Saving
  <2>2. tokens[req[s].token].exp \in Nat
    BY <2>1, TokenFields DEF SInv
  <2> QED BY <2>1, <2>2, Constants DEF SInv, TypeOK
<1>6. OneWorks' /\ OneHolds' /\ NotBoth'
  BY <1>1, <1>2 DEF SInv, OneWorks, OneHolds, NotBoth, Holds
<1>7. KeyOutlivesToken'
  <2> SUFFICES ASSUME NEW t \in answered \ spent', clock' < tokens[t].exp
               PROVE  tokens[t].exp <= store'[t]
    BY DEF KeyOutlivesToken
  <2>1. t \in answered \ spent /\ tokens[t].exp \in Nat
    BY TokenFields DEF SInv, TypeOK
  <2>2. clock < tokens[t].exp
    BY <2>1 DEF SInv, TypeOK
  <2> QED BY <2>1, <2>2 DEF SInv, KeyOutlivesToken
<1> QED BY <1>3, <1>4, <1>5, <1>6, <1>7 DEF SInv

\* A request at none of the places that hold a token makes the next one of a login.
LEMMA IssueKeeps ==
  ASSUME SInv, NEW r \in Req, NEW login \in Nat, Issue(r, login),
         \/ login = Len(tokens) + 1
         \/ Holds(r) /\ req[r].login = login,
         UNCHANGED <<clock, store, answered, spent>>,
         users' \in {0, 1}, served' \in Nat, failed' \in [count : Nat, until : Nat]
  PROVE  SInv'
<1> DEFINE n == Len(tokens) + 1
           q == [Idle EXCEPT !.pc = "save", !.login = login, !.token = n]
<1>1. /\ DOMAIN tokens = 1..Len(tokens) /\ Len(tokens) \in Nat /\ n <= MaxTokens /\ n \in Nat
      /\ clock \in Nat /\ tokens \in Seq(Tokens)
  BY TokenDomain, Constants DEF SInv, TypeOK, Issue
<1>2. [login |-> login, exp |-> clock + TokenLife] \in Tokens
  BY <1>1, Constants DEF Tokens
<1>3. /\ tokens' \in Seq(Tokens) /\ Len(tokens') = n /\ DOMAIN tokens' = 1..n
      /\ tokens'[n] = [login |-> login, exp |-> clock + TokenLife]
      /\ \A t \in DOMAIN tokens : tokens'[t] = tokens[t]
  BY <1>1, <1>2 DEF Issue
<1>4. n \notin DOMAIN tokens /\ n \in Token /\ ~Works(n)
  <2>1. n \notin DOMAIN tokens /\ n \in Token
    BY <1>1, Constants DEF Token
  <2> QED BY <2>1 DEF SInv, KeysOfTokens, Works
<1>5. q \in Requests /\ q.pc = "save" /\ q.login = login /\ q.token = n
  <2>1. \A p \in Places, a, b \in Nat : [Idle EXCEPT !.pc = p, !.login = a, !.token = b] \in Requests
    BY IdleType, RequestType
  <2> QED BY <1>1, <2>1, PlaceNames DEF Idle
<1> HIDE DEF q
<1>6. req' = [req EXCEPT ![r] = q]
  BY DEF Issue, q
<1>7. req' \in [Req -> Requests] /\ req'[r] = q /\ \A s \in Req \ {r} : req'[s] = req[s]
  BY <1>5, <1>6 DEF SInv, TypeOK
<1>8. login \in 1..n
  BY <1>1 DEF SInv, LoginsKnown
<1> HIDE DEF n
<1>9. DOMAIN tokens' = DOMAIN tokens \cup {n} /\ Len(tokens) <= n /\ n \in DOMAIN tokens'
  BY <1>1, <1>3 DEF n
<1>10. TypeOK'
  BY <1>1, <1>3, <1>7, <1>9 DEF SInv, TypeOK
<1>11. KeysOfTokens'
  BY <1>9 DEF SInv, KeysOfTokens, Works
<1>12. LoginsKnown'
  <2>1. \A t \in DOMAIN tokens' : tokens'[t].login \in 1..n
    <3>1. \A t \in DOMAIN tokens : tokens'[t].login \in 1..Len(tokens)
      BY <1>3 DEF SInv, LoginsKnown
    <3>2. tokens'[n].login = login /\ n \in Nat
      BY <1>1, <1>3 DEF n
    <3> QED BY <1>1, <1>8, <1>9, <3>1, <3>2
  <2>2. \A s \in Req : Holds(s)' => req'[s].login \in 1..n
    BY <1>1, <1>5, <1>7, <1>8, <1>9 DEF SInv, LoginsKnown, Holds
  <2> QED BY <1>3, <2>1, <2>2 DEF LoginsKnown
<1>13. Saving'
  <2>1. tokens'[n].exp <= clock + TokenLife /\ tokens'[n].login = login
    BY <1>1, <1>3, Constants
  <2> QED BY <1>3, <1>5, <1>7, <1>9, <2>1 DEF SInv, Saving
<1>14. \A t \in DOMAIN tokens : Works(t) => tokens[t].login # login
  <2>1. CASE login = Len(tokens) + 1
    BY <1>1, <2>1 DEF SInv, LoginsKnown
  <2>2. CASE Holds(r) /\ req[r].login = login
    BY <2>2 DEF SInv, NotBoth
  <2> QED BY <2>1, <2>2
<1>15. \A s \in Req \ {r} : Holds(s) => req[s].login # login
  <2>1. CASE login = Len(tokens) + 1
    BY <1>1, <2>1 DEF SInv, LoginsKnown
  <2>2. CASE Holds(r) /\ req[r].login = login
    BY <2>2 DEF SInv, OneHolds
  <2> QED BY <2>1, <2>2
<1>16. OneWorks'
  BY <1>3, <1>4, <1>9 DEF SInv, OneWorks, Works
<1>17. OneHolds'
  BY <1>5, <1>7, <1>15 DEF SInv, OneHolds, Holds
<1>18. NotBoth'
  <2> SUFFICES ASSUME NEW t \in DOMAIN tokens', NEW s \in Req, Works(t)', Holds(s)'
               PROVE  tokens'[t].login # req'[s].login
    BY DEF NotBoth
  <2>1. t \in DOMAIN tokens /\ Works(t) /\ tokens'[t] = tokens[t]
    BY <1>3, <1>4, <1>9 DEF Works
  <2>2. CASE s = r
    BY <1>5, <1>7, <1>14, <2>1, <2>2
  <2>3. CASE s # r
    BY <1>7, <2>1, <2>3 DEF SInv, NotBoth, Holds
  <2> QED BY <2>2, <2>3
<1>19. KeyOutlivesToken'
  BY <1>3 DEF SInv, TypeOK, KeyOutlivesToken
<1> QED BY <1>10, <1>11, <1>12, <1>13, <1>16, <1>17, <1>18, <1>19 DEF SInv

\* A token is saved: the request that held its login hands it over to the key.
LEMMA SaveKeeps == ASSUME SInv, NEW r \in Req, Save(r) PROVE SInv'
<1> DEFINE t == req[r].token
<1>1. /\ t \in DOMAIN tokens /\ tokens[t].login = req[r].login /\ tokens[t].exp <= clock + TokenLife
      /\ clock \in Nat /\ Holds(r)
  BY DEF SInv, Saving, Save, Holds, TypeOK
<1>2. /\ store' = [store EXCEPT ![t] = clock + TokenLife] /\ answered' = answered \cup {t}
      /\ req' = [req EXCEPT ![r] = Idle] /\ UNCHANGED <<clock, users, failed, tokens, spent, served>>
  BY DEF Save, Leave
<1> HIDE DEF t
<1>3. DOMAIN tokens \subseteq Token
  BY TokenDomain DEF SInv
<1>4. /\ store' \in [Token -> Nat] /\ store'[t] = clock + TokenLife
      /\ \A u \in Token \ {t} : store'[u] = store[u]
  BY <1>1, <1>2, <1>3, Constants DEF SInv, TypeOK
<1>5. /\ req' \in [Req -> Requests] /\ req'[r] = Idle /\ \A s \in Req \ {r} : req'[s] = req[s]
  BY <1>2, IdleType DEF SInv, TypeOK
<1>6. ~Holds(r)' /\ \A s \in Req : Holds(s)' => s # r /\ Holds(s)
  BY <1>5, IdleType DEF Holds
<1>7. TypeOK'
  BY <1>1, <1>2, <1>4, <1>5 DEF SInv, TypeOK
<1>8. KeysOfTokens'
  BY <1>1, <1>2, <1>4 DEF SInv, KeysOfTokens, Works
<1>9. LoginsKnown' /\ Saving'
  BY <1>2, <1>5, <1>6, IdleType DEF SInv, LoginsKnown, Saving, Holds
<1>10. \A u \in DOMAIN tokens : u # t /\ Works(u)' => Works(u) /\ tokens[u].login # tokens[t].login
  BY <1>1, <1>3, <1>4 DEF SInv, NotBoth, Works
<1>11. OneWorks'
  BY <1>2, <1>10 DEF SInv, OneWorks
<1>12. OneHolds'
  BY <1>5, <1>6 DEF SInv, OneHolds
<1>13. NotBoth'
  BY <1>1, <1>2, <1>5, <1>6, <1>10 DEF SInv, NotBoth, OneHolds
<1>14. KeyOutlivesToken'
  <2> SUFFICES ASSUME NEW u \in answered' \ spent, clock < tokens[u].exp
               PROVE  tokens[u].exp <= store'[u]
    BY <1>2 DEF KeyOutlivesToken
  <2>1. CASE u = t
    BY <1>1, <1>4, <2>1
  <2>2. CASE u # t
    BY <1>2, <1>3, <1>4, <2>2 DEF SInv, TypeOK, KeyOutlivesToken
  <2> QED BY <2>1, <2>2
<1> QED BY <1>7, <1>8, <1>9, <1>11, <1>12, <1>13, <1>14 DEF SInv

\* A shown token that still has its key is used up, and the request takes over its login.
LEMMA RefreshKeeps == ASSUME SInv, NEW r \in Req, Refresh(r) PROVE SInv'
<1>1. PICK t \in Shown :
        /\ store[t] > 0 /\ store' = [store EXCEPT ![t] = 0] /\ spent' = spent \cup {t}
        /\ req' = [req EXCEPT ![r] = [Idle EXCEPT !.pc = "user", !.login = tokens[t].login]]
  BY DEF Refresh
<1> DEFINE q == [Idle EXCEPT !.pc = "user", !.login = tokens[t].login]
<1>2. /\ t \in DOMAIN tokens /\ tokens[t].login \in Nat /\ Works(t)
      /\ UNCHANGED <<clock, users, failed, tokens, answered>> /\ served' \in Nat
      /\ req[r].pc = "idle" /\ ~Holds(r)
  <2>1. t \in DOMAIN tokens
    BY DEF Shown, SInv, TypeOK
  <2> QED BY <1>1, <2>1, TokenFields DEF SInv, TypeOK, Works, Refresh, Arrive, Holds
<1>3. q \in Requests /\ q.pc = "user" /\ q.login = tokens[t].login
  <2>1. \A p \in Places, a \in Nat : [Idle EXCEPT !.pc = p, !.login = a] \in Requests
    BY IdleType, RequestType
  <2> QED BY <1>2, <2>1, PlaceNames DEF Idle
<1>4. req' = [req EXCEPT ![r] = q]
  BY <1>1
<1> HIDE DEF q
<1>5. DOMAIN tokens \subseteq Token
  BY TokenDomain DEF SInv
<1>6. /\ store' \in [Token -> Nat] /\ store'[t] = 0 /\ \A u \in Token \ {t} : store'[u] = store[u]
  BY <1>1, <1>2, <1>5 DEF SInv, TypeOK
<1>7. /\ req' \in [Req -> Requests] /\ req'[r] = q /\ \A s \in Req \ {r} : req'[s] = req[s]
  BY <1>3, <1>4 DEF SInv, TypeOK
<1>8. ~Works(t)' /\ \A u \in Token : Works(u)' => u # t /\ Works(u)
  BY <1>2, <1>5, <1>6 DEF Works
<1>9. TypeOK'
  BY <1>1, <1>2, <1>6, <1>7 DEF SInv, TypeOK
<1>10. KeysOfTokens'
  BY <1>2, <1>8 DEF SInv, KeysOfTokens
<1>11. LoginsKnown' /\ Saving'
  BY <1>2, <1>3, <1>7 DEF SInv, LoginsKnown, Saving, Holds
<1>12. OneWorks'
  BY <1>2, <1>5, <1>8 DEF SInv, OneWorks
<1>13. OneHolds'
  <2>1. \A s \in Req \ {r} : Holds(s)' => Holds(s) /\ req[s].login # tokens[t].login
    BY <1>2, <1>7 DEF SInv, NotBoth, Holds
  <2> QED BY <1>3, <1>7, <2>1 DEF SInv, OneHolds
<1>14. NotBoth'
  <2> SUFFICES ASSUME NEW u \in DOMAIN tokens, NEW s \in Req, Works(u)', Holds(s)'
               PROVE  tokens[u].login # req'[s].login
    BY <1>2 DEF NotBoth
  <2>1. u # t /\ Works(u)
    BY <1>5, <1>8
  <2>2. CASE s = r
    BY <1>2, <1>3, <1>7, <2>1, <2>2 DEF SInv, OneWorks
  <2>3. CASE s # r
    BY <1>7, <2>1, <2>3 DEF SInv, NotBoth, Holds
  <2> QED BY <2>2, <2>3
<1>15. KeyOutlivesToken'
  BY <1>1, <1>2, <1>5, <1>6 DEF SInv, TypeOK, KeyOutlivesToken
<1> QED BY <1>9, <1>10, <1>11, <1>12, <1>13, <1>14, <1>15 DEF SInv

LEMMA LogoutKeeps == ASSUME SInv, NEW r \in Req, Logout(r) PROVE SInv'
<1>1. PICK t \in Shown : store' = [store EXCEPT ![t] = 0] /\ spent' = spent \cup {t}
  BY DEF Logout
<1>2. /\ t \in DOMAIN tokens /\ UNCHANGED <<clock, users, failed, tokens, answered, req>>
      /\ served' \in Nat /\ store \in [Token -> Nat] /\ answered \subseteq DOMAIN tokens
      /\ spent \subseteq DOMAIN tokens /\ clock \in Nat /\ users \in {0, 1}
      /\ failed \in [count : Nat, until : Nat]
  BY DEF Shown, SInv, TypeOK, Logout, Arrive
<1>3. DOMAIN tokens \subseteq Token
  BY TokenDomain DEF SInv
<1>4. store' \in [Token -> Nat] /\ \A u \in Token : store'[u] \in {store[u], 0}
  BY <1>1, <1>2, <1>3
<1>5. \A u \in answered \ spent' : store'[u] = store[u]
  BY <1>1, <1>2, <1>3
<1> QED BY <1>1, <1>2, <1>4, <1>5, KeysGo

LEMMA TickKeeps == ASSUME SInv, Tick PROVE SInv'
<1>1. /\ clock \in Nat /\ clock' = clock + 1 /\ UNCHANGED <<users, tokens, answered, spent, req, served>>
      /\ store \in [Token -> Nat] /\ store' = [t \in Token |-> IF store[t] <= clock + 1 THEN 0 ELSE store[t]]
      /\ users \in {0, 1} /\ served \in Nat /\ spent \subseteq DOMAIN tokens /\ answered \subseteq DOMAIN tokens
  BY DEF SInv, TypeOK, Tick
<1>2. failed' \in [count : Nat, until : Nat]
  BY DEF SInv, TypeOK, Tick
<1>3. store' \in [Token -> Nat] /\ \A t \in Token : store'[t] \in {store[t], 0}
  BY <1>1
<1>4. ASSUME NEW t \in answered \ spent', clock' < tokens[t].exp PROVE store'[t] = store[t]
  <2>1. t \in DOMAIN tokens /\ t \in Token /\ tokens[t].exp \in Nat
    BY <1>1, TokenDomain, TokenFields DEF SInv
  <2>2. tokens[t].exp <= store[t]
    BY <1>1, <1>4, <2>1 DEF SInv, KeyOutlivesToken
  <2> QED BY <1>1, <1>4, <2>1, <2>2
<1> QED BY <1>1, <1>2, <1>3, <1>4, KeysGo

\* A request arrives at a place that holds no token, moves to one or leaves.
LEMMA QuietSteps ==
  ASSUME SInv, NEW r \in Req,
         \/ Register(r) \/ InsertUser(r) \/ Login(r) \/ Verify(r) \/ RegisterFailure(r) \/ Die(r)
  PROVE  SInv'
<1>1. /\ UNCHANGED <<clock, tokens, store, answered, spent>> /\ users' \in {0, 1}
      /\ served' \in Nat /\ failed' \in [count : Nat, until : Nat]
  <2>1. CASE RegisterFailure(r)
    BY <2>1, Constants DEF RegisterFailure, SInv, TypeOK
  <2>2. CASE InsertUser(r)
    BY <2>2 DEF InsertUser, SInv, TypeOK
  <2>3. CASE Register(r) \/ Login(r) \/ Verify(r) \/ Die(r)
    <3>1. UNCHANGED <<clock, users, tokens, store, answered, spent, failed>> /\ served' \in {served, served + 1}
      BY <2>3 DEF Register, Login, Verify, Die, Arrive
    <3> QED BY <3>1 DEF SInv, TypeOK
  <2> QED BY <2>1, <2>2, <2>3
<1>2. CASE Leave(r)
  BY <1>1, <1>2, IdleType, Quiet DEF Leave
<1>3. ASSUME NEW p \in Places \ {"user", "save"}, Move(r, p) PROVE SInv'
  BY <1>1, <1>3, Moved, Quiet DEF SInv
<1>4. CASE Login(r)
  <2>1. PICK good \in BOOLEAN : req' = [req EXCEPT ![r] = [Idle EXCEPT !.pc = "verify", !.good = good]]
    BY <1>4 DEF Login
  <2> DEFINE q == [Idle EXCEPT !.pc = "verify", !.good = good]
  <2>2. \A p \in Places, b \in BOOLEAN : [Idle EXCEPT !.pc = p, !.good = b] \in Requests
    BY IdleType, RequestType
  <2>3. q \in Requests /\ q.pc = "verify"
    BY <2>2, PlaceNames DEF Idle
  <2> QED BY <1>1, <2>1, <2>3, Quiet
<1>5. CASE Register(r) \/ Verify(r)
  BY <1>3, <1>5, PlaceNames DEF Register, Verify
<1> QED BY <1>2, <1>4, <1>5 DEF InsertUser, RegisterFailure, Die

LEMMA InitSInv == Init => SInv
<1> SUFFICES ASSUME Init PROVE SInv
  OBVIOUS
<1>1. tokens = <<>> /\ DOMAIN tokens = {} /\ Len(tokens) = 0
  BY DEF Init
<1>2. \A r \in Req : req[r] = Idle
  BY DEF Init
<1>3. TypeOK
  BY <1>1, IdleType, Constants DEF Init, TypeOK
<1>4. KeysOfTokens /\ \A r \in Req : ~Holds(r) /\ req[r].pc # "save"
  BY <1>2, IdleType DEF Init, KeysOfTokens, Works, Holds
<1> QED BY <1>1, <1>3, <1>4 DEF Init, SInv, LoginsKnown, Saving, OneWorks, OneHolds, NotBoth, KeyOutlivesToken

LEMMA SInvInductive == SInv /\ [Next]_vars => SInv'
<1> SUFFICES ASSUME SInv, [Next]_vars PROVE SInv'
  OBVIOUS
<1>1. ASSUME NEW r \in Req,
             \/ Register(r) \/ InsertUser(r) \/ Login(r) \/ Verify(r) \/ RegisterFailure(r) \/ Die(r)
      PROVE  SInv'
  BY <1>1, QuietSteps
<1>2. ASSUME NEW r \in Req, Reset(r) PROVE SInv'
  <2>1. Len(tokens) + 1 \in Nat
    BY TokenDomain DEF SInv
  <2>2. /\ UNCHANGED <<clock, store, answered, spent>> /\ users' \in {0, 1} /\ served' \in Nat
        /\ failed' \in [count : Nat, until : Nat]
    BY <1>2 DEF Reset, SInv, TypeOK
  <2> QED BY <1>2, <2>1, <2>2, IssueKeeps DEF Reset
<1>3. ASSUME NEW r \in Req, Rotate(r) PROVE SInv'
  <2>1. req[r].login \in Nat /\ Holds(r)
    BY <1>3 DEF SInv, TypeOK, Requests, Rotate, Holds
  <2>2. /\ UNCHANGED <<clock, store, answered, spent>> /\ users' \in {0, 1} /\ served' \in Nat
        /\ failed' \in [count : Nat, until : Nat]
    BY <1>3 DEF Rotate, SInv, TypeOK
  <2> QED BY <1>3, <2>1, <2>2, IssueKeeps DEF Rotate
<1>4. ASSUME NEW r \in Req, Save(r) \/ Refresh(r) \/ Logout(r) PROVE SInv'
  BY <1>4, SaveKeeps, RefreshKeeps, LogoutKeeps
<1>5. CASE Tick
  BY <1>5, TickKeeps
<1>6. CASE UNCHANGED vars
  BY <1>6 DEF vars, SInv, TypeOK, KeysOfTokens, LoginsKnown, Saving, OneWorks, OneHolds,
              NotBoth, KeyOutlivesToken, Works, Holds
<1> QED BY <1>1, <1>2, <1>3, <1>4, <1>5, <1>6 DEF Next

LEMMA Sound == Spec => []SInv
BY InitSInv, SInvInductive, PTL DEF Spec

-----------------------------------------------------------------------------
(* Attempts.                                                               *)

LEMMA TryingFinite ==
  /\ IsFiniteSet(Trying) /\ Cardinality(Trying) \in Nat
  /\ Cardinality(Req) \in Nat /\ Cardinality(Trying) <= Cardinality(Req)
<1>1. Trying \in SUBSET Req
  BY DEF Trying
<1> QED BY <1>1, Constants, FS_Subset, FS_CardinalityType

\* A step that brings no request to where it may count, and counts nothing.
LEMMA FewerTry ==
  ASSUME TypeOK, AInv, Trying' \subseteq Trying, failed'.count \in {failed.count, 0}
  PROVE  AInv'
<1>1. Cardinality(Trying') \in Nat /\ Cardinality(Trying') <= Cardinality(Trying)
  <2>1. IsFiniteSet(Trying)
    BY TryingFinite
  <2> QED BY <2>1, FS_Subset, FS_CardinalityType
<1>2. failed.count \in Nat /\ failed'.count \in Nat /\ failed'.count <= failed.count
  BY DEF TypeOK
<1> QED BY <1>1, <1>2, Constants, TryingFinite DEF AInv

\* A login that finds the lock open leaves room for everyone who may try.
LEMMA LoginCounts == ASSUME TypeOK, AInv, NEW r \in Req, Login(r) PROVE AInv'
<1>1. failed' = failed /\ failed.count \in Nat /\ failed.count <= MaxAttempts - 1
  BY Constants DEF Login, TypeOK
<1>2. Trying' \in SUBSET Req
  BY DEF Trying
<1>3. Cardinality(Trying') \in Nat /\ Cardinality(Trying') <= Cardinality(Req)
  BY <1>2, Constants, FS_Subset, FS_CardinalityType
<1> QED BY <1>1, <1>3, Constants, TryingFinite DEF AInv

\* A failure that is counted takes its request out of those that may still count one.
LEMMA FailureCounts == ASSUME TypeOK, AInv, NEW r \in Req, RegisterFailure(r) PROVE AInv'
<1>1. failed'.count = failed.count + 1 /\ failed.count \in Nat
  BY DEF RegisterFailure, TypeOK
<1>2. r \in Trying /\ Trying' = Trying \ {r}
  <2>1. req' = [req EXCEPT ![r] = Idle] /\ req \in [Req -> Requests] /\ req[r].pc = "failure"
    BY DEF RegisterFailure, Leave, TypeOK
  <2> QED BY <2>1, IdleType DEF Trying
<1>3. Cardinality(Trying') = Cardinality(Trying) - 1
  BY <1>2, TryingFinite, FS_RemoveElement
<1> QED BY <1>1, <1>3, Constants, TryingFinite DEF AInv

LEMMA AInvInductive == TypeOK /\ AInv /\ [Next]_vars => AInv'
<1> SUFFICES ASSUME TypeOK, AInv, [Next]_vars PROVE AInv'
  OBVIOUS
<1>1. ASSUME NEW r \in Req, NEW q, q.pc \notin {"verify", "failure"}, req' = [req EXCEPT ![r] = q]
      PROVE  Trying' \subseteq Trying
  BY <1>1 DEF Trying, TypeOK
<1>2. ASSUME NEW r \in Req, Login(r) \/ RegisterFailure(r) PROVE AInv'
  BY <1>2, LoginCounts, FailureCounts
<1>3. ASSUME NEW r \in Req, Verify(r) PROVE AInv'
  <2>1. Trying' \subseteq Trying /\ failed' = failed
    BY <1>3 DEF Verify, Move, Trying, TypeOK, Requests
  <2> QED BY <2>1, FewerTry
<1>4. ASSUME NEW r \in Req, Register(r) PROVE AInv'
  <2>1. Trying' \subseteq Trying /\ failed' = failed
    BY <1>4 DEF Register, Move, Trying, TypeOK, Requests
  <2> QED BY <2>1, FewerTry
<1>5. ASSUME NEW r \in Req, InsertUser(r) \/ Save(r) \/ Die(r) PROVE AInv'
  <2>1. req' = [req EXCEPT ![r] = Idle] /\ failed' = failed
    BY <1>5 DEF InsertUser, Save, Die, Leave
  <2> QED BY <1>1, <2>1, IdleType, FewerTry
<1>6. ASSUME NEW r \in Req, Reset(r) \/ Rotate(r) PROVE AInv'
  <2>1. PICK login : /\ req' = [req EXCEPT ![r] = [Idle EXCEPT !.pc = "save", !.login = login, !.token = Len(tokens) + 1]]
                     /\ failed'.count \in {failed.count, 0}
    <3>1. CASE Reset(r)
      BY <3>1 DEF Reset, Issue
    <3>2. CASE Rotate(r)
      BY <3>2 DEF Rotate, Issue
    <3> QED BY <1>6, <3>1, <3>2
  <2>2. [Idle EXCEPT !.pc = "save", !.login = login, !.token = Len(tokens) + 1].pc = "save"
    BY DEF Idle
  <2> QED BY <1>1, <2>1, <2>2, FewerTry
<1>7. ASSUME NEW r \in Req, Refresh(r) PROVE AInv'
  <2>1. PICK t \in Shown : req' = [req EXCEPT ![r] = [Idle EXCEPT !.pc = "user", !.login = tokens[t].login]]
    BY <1>7 DEF Refresh
  <2>2. [Idle EXCEPT !.pc = "user", !.login = tokens[t].login].pc = "user" /\ failed' = failed
    BY <1>7 DEF Idle, Refresh
  <2> QED BY <1>1, <2>1, <2>2, FewerTry
<1>8. ASSUME NEW r \in Req, Logout(r) PROVE AInv'
  BY <1>8, FewerTry DEF Logout, Trying
<1>9. CASE Tick
  BY <1>9, FewerTry DEF Tick, Trying
<1>10. CASE UNCHANGED vars
  BY <1>10, FewerTry DEF vars, Trying
<1> QED BY <1>2, <1>3, <1>4, <1>5, <1>6, <1>7, <1>8, <1>9, <1>10 DEF Next

-----------------------------------------------------------------------------
(* The theorems.                                                           *)

\* The clock, the account, the tokens and their keys, and every request have their types.
THEOREM TypeCorrect == Spec => []TypeOK
<1>1. SInv => TypeOK
  BY DEF SInv
<1> QED BY <1>1, Sound, PTL

\* However many clients show the same token, or a token and its successor: a login has at
\* most one token that works or one request about to issue it.
THEOREM SessionsDoNotFork == Spec => []OneTokenPerLogin
<1>1. ASSUME NEW S, NEW x, S \subseteq {x} PROVE Cardinality(S) \in {0, 1} /\ (S = {} => Cardinality(S) = 0)
  <2>1. S = {} \/ S = {x}
    BY <1>1
  <2> QED BY <2>1, FS_EmptySet, FS_Singleton
<1>2. SInv => OneTokenPerLogin
  <2> SUFFICES ASSUME SInv, NEW login \in Token
               PROVE  Cardinality({t \in DOMAIN tokens : store[t] > 0 /\ tokens[t].login = login})
                        + Cardinality({r \in Req : req[r].pc \in {"user", "save"} /\ req[r].login = login}) <= 1
    BY DEF OneTokenPerLogin
  <2> DEFINE T == {t \in DOMAIN tokens : store[t] > 0 /\ tokens[t].login = login}
             R == {r \in Req : req[r].pc \in {"user", "save"} /\ req[r].login = login}
  <2>1. \A t \in T : T \subseteq {t}
    BY DEF SInv, OneWorks, Works
  <2>2. \A r \in R : R \subseteq {r}
    BY DEF SInv, OneHolds, Holds
  <2>3. T = {} \/ R = {}
    BY DEF SInv, NotBoth, Works, Holds
  <2>4. T \subseteq {0} \/ \E t \in T : T \subseteq {t}
    BY <2>1
  <2>5. R \subseteq {0} \/ \E r \in R : R \subseteq {r}
    BY <2>2
  <2> HIDE DEF T, R
  <2>6. Cardinality(T) \in {0, 1} /\ (T = {} => Cardinality(T) = 0)
    BY <1>1, <2>4
  <2>7. Cardinality(R) \in {0, 1} /\ (R = {} => Cardinality(R) = 0)
    BY <1>1, <2>5
  <2>8. Cardinality(T) + Cardinality(R) <= 1
    BY <2>3, <2>6, <2>7
  <2> QED BY <2>8 DEF T, R
<1> QED BY <1>2, Sound, PTL

\* A token given to a client keeps its key until the expiry it carries, unless it was used.
THEOREM GivenTokensWork == Spec => []AnsweredTokenWorks
<1>1. SInv => AnsweredTokenWorks
  <2> SUFFICES ASSUME SInv, NEW t \in answered \ spent, clock < tokens[t].exp PROVE store[t] > 0
    BY DEF AnsweredTokenWorks
  <2>1. t \in DOMAIN tokens /\ t \in Token /\ tokens[t].exp \in Nat /\ clock \in Nat
    BY TokenDomain, TokenFields DEF SInv, TypeOK
  <2>2. tokens[t].exp <= store[t] /\ store[t] \in Nat
    BY <2>1 DEF SInv, TypeOK, KeyOutlivesToken
  <2> QED BY <2>1, <2>2
<1> QED BY <1>1, Sound, PTL

\* The requests that were past the lock when it fell are all that can exceed the limit.
THEOREM LockHolds == Spec => []AttemptsBounded
<1>1. Init => AInv
  <2> SUFFICES ASSUME Init PROVE AInv
    OBVIOUS
  <2>1. failed.count = 0
    BY DEF Init
  <2> QED BY <2>1, TryingFinite, Constants DEF AInv
<1>2. TypeOK /\ AInv => AttemptsBounded
  <2> SUFFICES ASSUME TypeOK, AInv PROVE AttemptsBounded
    OBVIOUS
  <2>1. failed.count \in Nat
    BY DEF TypeOK
  <2> QED BY <2>1, TryingFinite, Constants DEF AInv, AttemptsBounded
<1> QED BY <1>1, <1>2, TypeCorrect, AInvInductive, PTL DEF Spec

-----------------------------------------------------------------------------
(* The life of a session.                                                  *)

\* A login that has a token, and that a request about to make one has a token already.
Known(l)   == \E t \in DOMAIN tokens : tokens[t].login = l
Successive == \A r \in Req : Holds(r) => Known(req[r].login)

\* What a step leaves: known logins stay known, and it begins no session but a new one.
Lives(l) ==
  /\ Known(l) => Known(l)'
  /\ Known(l) /\ ~Working(l) /\ ~Renewing(l) => ~Working(l)' /\ ~Renewing(l)'
  /\ ~Known(l) => ~Working(l)' /\ (Known(l)' => Renewing(l)')

LEMMA TokensGrow ==
  ASSUME SInv, NEW r \in Req, NEW login \in Nat, Issue(r, login)
  PROVE  /\ DOMAIN tokens' = DOMAIN tokens \cup {Len(tokens) + 1}
         /\ Len(tokens) + 1 \notin DOMAIN tokens /\ Len(tokens) + 1 \in Token
         /\ tokens'[Len(tokens) + 1].login = login
         /\ \A t \in DOMAIN tokens : tokens'[t] = tokens[t]
         /\ req'[r].pc = "save" /\ req'[r].login = login
         /\ \A s \in Req \ {r} : req'[s] = req[s]
<1>1. /\ DOMAIN tokens = 1..Len(tokens) /\ Len(tokens) \in Nat /\ tokens \in Seq(Tokens)
      /\ Len(tokens) + 1 <= MaxTokens /\ clock \in Nat
  BY TokenDomain, Constants DEF SInv, TypeOK, Issue
<1>2. [login |-> login, exp |-> clock + TokenLife] \in Tokens
  BY <1>1, Constants DEF Tokens
<1>3. /\ tokens' = Append(tokens, [login |-> login, exp |-> clock + TokenLife])
      /\ req' = [req EXCEPT ![r] = [Idle EXCEPT !.pc = "save", !.login = login, !.token = Len(tokens) + 1]]
  BY DEF Issue
<1>4. /\ DOMAIN tokens' = 1..(Len(tokens) + 1)
      /\ tokens'[Len(tokens) + 1] = [login |-> login, exp |-> clock + TokenLife]
      /\ \A t \in DOMAIN tokens : tokens'[t] = tokens[t]
  BY <1>1, <1>2, <1>3
<1>5. /\ [Idle EXCEPT !.pc = "save", !.login = login, !.token = Len(tokens) + 1].pc = "save"
      /\ [Idle EXCEPT !.pc = "save", !.login = login, !.token = Len(tokens) + 1].login = login
  BY DEF Idle
<1>6. /\ req'[r].pc = "save" /\ req'[r].login = login
      /\ \A s \in Req \ {r} : req'[s] = req[s]
  BY <1>3, <1>5 DEF SInv, TypeOK
<1>7. Len(tokens) + 1 \in Token
  BY <1>1, Constants DEF Token
<1> QED BY <1>1, <1>4, <1>6, <1>7

\* The next token of a login is made, which works only once it is saved.
LEMMA IssueLives ==
  ASSUME SInv, Successive, NEW r \in Req, NEW login \in Nat, Issue(r, login), store' = store,
         \/ login = Len(tokens) + 1 /\ ~Holds(r)
         \/ Holds(r) /\ req[r].login = login
  PROVE  Successive' /\ \A l \in Token : Lives(l)
<1> DEFINE n == Len(tokens) + 1
<1>1. /\ DOMAIN tokens' = DOMAIN tokens \cup {n} /\ n \notin DOMAIN tokens /\ n \in Token
      /\ tokens'[n].login = login /\ \A t \in DOMAIN tokens : tokens'[t] = tokens[t]
      /\ req'[r].pc = "save" /\ req'[r].login = login
      /\ \A s \in Req \ {r} : req'[s] = req[s]
  BY TokensGrow
<1>2. ~Works(n)
  BY <1>1 DEF SInv, KeysOfTokens
<1>3. ~Known(n)
  BY TokenDomain DEF SInv, LoginsKnown, Known
<1>4. \/ login = n /\ ~Holds(r)
      \/ Holds(r) /\ req[r].login = login
  BY DEF n
<1> HIDE DEF n
<1>5. \A l : Known(l)' <=> Known(l) \/ l = login
  BY <1>1 DEF Known
<1>6. \A l : Working(l)' <=> Working(l)
  BY <1>1, <1>2 DEF Working, Works
<1>7. \A l : Renewing(l)' <=> Renewing(l) \/ l = login
  BY <1>1, <1>4 DEF Renewing, Holds
<1>8. \A l : Working(l) => Known(l)
  BY DEF Working, Known
<1>9. \A l : Renewing(l) => Known(l)
  BY DEF Renewing, Successive, Holds
<1>10. Successive'
  <2>1. ASSUME NEW s \in Req, Holds(s)' PROVE Known(req[s].login)'
    <3>1. CASE s = r
      BY <1>1, <3>1 DEF Known
    <3>2. CASE s # r
      BY <1>1, <2>1, <3>2 DEF Successive, Holds, Known
    <3> QED BY <3>1, <3>2
  <2> QED BY <2>1 DEF Successive
<1>11. ASSUME NEW l \in Token PROVE Lives(l)
  <2>1. l = login => Renewing(l) \/ ~Known(l)
    BY <1>3, <1>4 DEF Renewing, Holds
  <2> QED BY <1>5, <1>6, <1>7, <1>8, <2>1 DEF Lives
<1> QED BY <1>10, <1>11

\* A step that makes no token; a key appears or a request takes over only where there was one.
LEMMA OldLives ==
  ASSUME Successive, tokens' = tokens,
         \A t \in DOMAIN tokens : store'[t] > 0 => store[t] > 0 \/ Renewing(tokens[t].login),
         \A r \in Req : Holds(r)' =>
            \/ Holds(r) /\ req'[r].login = req[r].login
            \/ Working(req'[r].login)
  PROVE  Successive' /\ \A l \in Token : Lives(l)
<1>1. \A l : Known(l)' <=> Known(l)
  BY DEF Known
<1>2. \A l : Working(l) => Known(l)
  BY DEF Working, Known
<1>3. \A l : Renewing(l) => Known(l)
  BY DEF Renewing, Successive, Holds
<1>4. \A l : Working(l)' => Working(l) \/ Renewing(l)
  BY DEF Working
<1>5. \A l : Renewing(l)' => Working(l) \/ Renewing(l)
  BY DEF Renewing, Holds
<1>6. ASSUME NEW r \in Req, Holds(r)' PROVE Known(req'[r].login)
  BY <1>2, <1>6 DEF Successive
<1>7. Successive'
  BY <1>6 DEF Successive, Known
<1> QED BY <1>1, <1>2, <1>3, <1>4, <1>5, <1>7 DEF Lives

LEMMA SessionLives ==
  ASSUME SInv, Successive, [Next]_vars
  PROVE  Successive' /\ \A l \in Token : Lives(l)
<1> USE DEF Holds
<1>0. DOMAIN tokens \subseteq Token /\ req \in [Req -> Requests] /\ store \in [Token -> Nat]
  BY TokenDomain DEF SInv, TypeOK
<1>1. ASSUME NEW r \in Req, Reset(r) PROVE Successive' /\ \A l \in Token : Lives(l)
  <2>1. Len(tokens) + 1 \in Nat
    BY TokenDomain DEF SInv
  <2> QED BY <1>1, <2>1, IssueLives DEF Reset
<1>2. ASSUME NEW r \in Req, Rotate(r) PROVE Successive' /\ \A l \in Token : Lives(l)
  <2>1. req[r].login \in Nat
    BY <1>0 DEF Requests
  <2> QED BY <1>2, <2>1, IssueLives DEF Rotate
<1>3. ASSUME NEW r \in Req, Save(r) PROVE Successive' /\ \A l \in Token : Lives(l)
  <2>1. tokens' = tokens /\ req[r].pc = "save" /\ req' = [req EXCEPT ![r] = Idle]
    BY <1>3 DEF Save, Leave
  <2>2. tokens[req[r].token].login = req[r].login /\ req[r].token \in DOMAIN tokens
    BY <2>1 DEF SInv, Saving
  <2>3. ASSUME NEW t \in DOMAIN tokens, store'[t] > 0 PROVE store[t] > 0 \/ Renewing(tokens[t].login)
    <3>1. CASE t = req[r].token
      BY <2>1, <2>2, <3>1 DEF Renewing
    <3>2. CASE t # req[r].token
      BY <1>0, <1>3, <2>3, <3>2 DEF Save
    <3> QED BY <3>1, <3>2
  <2>4. \A s \in Req : Holds(s)' => Holds(s) /\ req'[s].login = req[s].login
    BY <1>0, <2>1, IdleType
  <2> QED BY <2>1, <2>3, <2>4, OldLives
<1>4. ASSUME NEW r \in Req, Refresh(r) PROVE Successive' /\ \A l \in Token : Lives(l)
  <2>1. PICK t \in Shown :
          /\ store[t] > 0 /\ store' = [store EXCEPT ![t] = 0]
          /\ req' = [req EXCEPT ![r] = [Idle EXCEPT !.pc = "user", !.login = tokens[t].login]]
    BY <1>4 DEF Refresh
  <2>2. t \in DOMAIN tokens /\ tokens' = tokens
    BY <1>4 DEF Shown, SInv, TypeOK, Refresh
  <2>3. Working(tokens[t].login)
    BY <2>1, <2>2 DEF Working
  <2>4. [Idle EXCEPT !.pc = "user", !.login = tokens[t].login].login = tokens[t].login
    BY DEF Idle
  <2>5. \A s \in Req : Holds(s)' =>
           \/ Holds(s) /\ req'[s].login = req[s].login
           \/ Working(req'[s].login)
    BY <1>0, <2>1, <2>3, <2>4
  <2>6. \A u \in DOMAIN tokens : store'[u] > 0 => store[u] > 0
    BY <1>0, <2>1, <2>2
  <2> QED BY <2>2, <2>5, <2>6, OldLives
<1>5. ASSUME NEW r \in Req, Logout(r) PROVE Successive' /\ \A l \in Token : Lives(l)
  <2>1. tokens' = tokens /\ req' = req /\ \E t \in Shown : store' = [store EXCEPT ![t] = 0]
    BY <1>5 DEF Logout
  <2>2. \A u \in DOMAIN tokens : store'[u] > 0 => store[u] > 0
    BY <1>0, <2>1
  <2> QED BY <2>1, <2>2, OldLives
<1>6. ASSUME NEW r \in Req,
             \/ Register(r) \/ InsertUser(r) \/ Login(r) \/ Verify(r) \/ RegisterFailure(r) \/ Die(r)
      PROVE  Successive' /\ \A l \in Token : Lives(l)
  <2>1. tokens' = tokens /\ store' = store
    BY <1>6 DEF Register, InsertUser, Login, Verify, RegisterFailure, Die
  <2>2. \E q : req' = [req EXCEPT ![r] = q] /\ q.pc \notin {"user", "save"}
    <3>1. CASE InsertUser(r) \/ RegisterFailure(r) \/ Die(r)
      BY <3>1, IdleType DEF InsertUser, RegisterFailure, Die, Leave
    <3>2. CASE Register(r) \/ Verify(r)
      <4>1. \E p \in Places \ {"user", "save"} : Move(r, p)
        BY <3>2, PlaceNames DEF Register, Verify
      <4>2. PICK p \in Places \ {"user", "save"} : Move(r, p)
        BY <4>1
      <4> QED BY <4>2, Moved DEF SInv
    <3>3. CASE Login(r)
      <4>1. PICK good \in BOOLEAN : req' = [req EXCEPT ![r] = [Idle EXCEPT !.pc = "verify", !.good = good]]
        BY <3>3 DEF Login
      <4>2. [Idle EXCEPT !.pc = "verify", !.good = good].pc = "verify"
        BY DEF Idle
      <4> QED BY <4>1, <4>2
    <3> QED BY <1>6, <3>1, <3>2, <3>3
  <2>3. \A s \in Req : Holds(s)' => Holds(s) /\ req'[s].login = req[s].login
    BY <1>0, <2>2
  <2> QED BY <2>1, <2>3, OldLives
<1>7. CASE Tick
  <2>1. tokens' = tokens /\ req' = req
    BY <1>7 DEF Tick
  <2>2. \A u \in DOMAIN tokens : store'[u] > 0 => store[u] > 0
    BY <1>0, <1>7 DEF Tick
  <2> QED BY <2>1, <2>2, OldLives
<1>8. CASE UNCHANGED vars
  BY <1>8, OldLives DEF vars
<1> QED BY <1>1, <1>2, <1>3, <1>4, <1>5, <1>6, <1>7, <1>8 DEF Next

LEMMA SuccessiveInit == Init => Successive
<1>1. Init => \A r \in Req : req[r].pc = "idle"
  BY IdleType DEF Init
<1> QED BY <1>1 DEF Successive, Holds

LEMMA AlwaysSuccessive == Spec => []Successive
<1>1. SInv /\ Successive /\ [Next]_vars => Successive'
  BY SessionLives
<1> QED BY <1>1, SuccessiveInit, Sound, PTL DEF Spec

phases == [l \in Token |-> PhaseOf(l)]

LEMMA LifeInit == Init => Life!Init
<1> SUFFICES ASSUME Init PROVE \A l \in Token : PhaseOf(l) = "new"
  BY DEF Life!Init
<1>1. DOMAIN tokens = {} /\ \A r \in Req : req[r].pc = "idle"
  BY IdleType DEF Init
<1> QED BY <1>1 DEF PhaseOf, Working, Renewing

LEMMA LifeNext ==
  ASSUME SInv, Successive, [Next]_vars
  PROVE  [Life!Next]_phases
<1>1. \A l \in Token : Lives(l)
  BY SessionLives
<1>2. \A l : PhaseOf(l) = IF Working(l) THEN "open" ELSE IF Renewing(l) THEN "renewing"
                          ELSE IF Known(l) THEN "over" ELSE "new"
  BY DEF PhaseOf, Known
<1>3. \A l : PhaseOf(l)' = IF Working(l)' THEN "open" ELSE IF Renewing(l)' THEN "renewing"
                           ELSE IF Known(l)' THEN "over" ELSE "new"
  BY DEF PhaseOf, Known
<1>4. \A l : (Working(l) => Known(l)) /\ (Renewing(l) => Known(l))
  BY DEF Working, Renewing, Known, Successive, Holds
<1>5. /\ Life!Successor("new") = {"renewing"} /\ Life!Successor("renewing") = {"open", "over"}
      /\ Life!Successor("open") = {"renewing", "over"}
  BY DEF Life!Successor
<1>6. ASSUME NEW l \in Token
      PROVE  /\ PhaseOf(l)' \in Life!Phase
             /\ PhaseOf(l)' \in {PhaseOf(l)} \cup Life!Successor(PhaseOf(l))
  <2> DEFINE W == Working(l)
             R == Renewing(l)
             K == Known(l)
  <2>1. /\ K => K'
        /\ K /\ ~W /\ ~R => ~W' /\ ~R'
        /\ ~K => ~W' /\ (K' => R')
        /\ W => K
        /\ R => K
    BY <1>1, <1>4 DEF Lives
  <2>2. PhaseOf(l) = IF W THEN "open" ELSE IF R THEN "renewing" ELSE IF K THEN "over" ELSE "new"
    BY <1>2
  <2>3. PhaseOf(l)' = IF W' THEN "open" ELSE IF R' THEN "renewing" ELSE IF K' THEN "over" ELSE "new"
    BY <1>3
  <2> HIDE DEF W, R, K
  <2>4. PhaseOf(l)' \in Life!Phase
    BY <2>3 DEF Life!Phase
  <2>5. CASE W
    <3>1. PhaseOf(l) = "open" /\ K'
      BY <2>1, <2>2, <2>5
    <3>2. PhaseOf(l)' \in {"open", "renewing", "over"}
      BY <2>3, <3>1
    <3> QED BY <1>5, <2>4, <3>1, <3>2
  <2>6. CASE ~W /\ R
    <3>1. PhaseOf(l) = "renewing" /\ K'
      BY <2>1, <2>2, <2>6
    <3>2. PhaseOf(l)' \in {"open", "renewing", "over"}
      BY <2>3, <3>1
    <3> QED BY <1>5, <2>4, <3>1, <3>2
  <2>7. CASE ~W /\ ~R /\ K
    <3>1. PhaseOf(l) = "over" /\ K' /\ ~W' /\ ~R'
      BY <2>1, <2>2, <2>7
    <3>2. PhaseOf(l)' = "over"
      BY <2>3, <3>1
    <3> QED BY <2>4, <3>1, <3>2
  <2>8. CASE ~K
    <3>1. PhaseOf(l) = "new" /\ ~W' /\ (K' => R')
      BY <2>1, <2>2, <2>8
    <3>2. PhaseOf(l)' \in {"new", "renewing"}
      BY <2>3, <3>1
    <3> QED BY <1>5, <2>4, <3>1, <3>2
  <2> QED BY <2>5, <2>6, <2>7, <2>8
<1>7. phases' \in [Token -> Life!Phase]
  BY <1>6 DEF phases
<1>8. Life!Next
  BY <1>6, <1>7 DEF Life!Next, phases
<1> QED BY <1>8

\* A session that is over stays over: each step is, for every login, a step of SessionLife
\* or none, for any number of clients, lives of tokens and requests that die half-way.
THEOREM ImplementsSessionLife == Spec => SessionLifeSpec
<1>1. SInv /\ Successive /\ [Next]_vars => [Life!Next]_phases
  BY LifeNext
<1> QED BY <1>1, LifeInit, Sound, AlwaysSuccessive, PTL DEF Spec, SessionLifeSpec, Life!Spec, phases
===============================================================================
