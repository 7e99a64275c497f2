------------------------------- MODULE Sessions -------------------------------
(***************************************************************************)
(* One account seen from one address: registration, login with its         *)
(* throttle, and the rotation of refresh tokens                            *)
(* (app/domain/services/auth_service.py, app/infrastructure/security).     *)
(*                                                                         *)
(* Nothing here is in one transaction: the account is a row of PostgreSQL, *)
(* the counter of failed attempts and the refresh tokens are keys of Redis *)
(* with a time to live, and the expiry of a token is also written into the *)
(* token itself.  A step is one command of Redis or one transaction.       *)
(***************************************************************************)
EXTENDS Naturals, Sequences, FiniteSets

CONSTANTS
  Req,          \* clients, each with one request in flight
  MaxAttempts,  \* login_max_attempts
  Lockout,      \* login_lockout_seconds, in ticks
  TokenLife,    \* jwt_refresh_token_expire_days, in ticks
  MaxTokens,    \* bound on the refresh tokens issued
  MaxTime,      \* bound on the clock
  MaxRequests   \* bound on requests served

ASSUME SessionsAssumption ==
  /\ IsFiniteSet(Req)
  /\ MaxAttempts \in Nat \ {0} /\ Lockout \in Nat \ {0} /\ TokenLife \in Nat \ {0}
  /\ MaxTokens \in Nat /\ MaxTime \in Nat /\ MaxRequests \in Nat

VARIABLES
  clock,
  users,     \* rows of users with the address: the index on email is unique
  failed,    \* the counter login_attempts: its value, and when the key expires
  tokens,    \* refresh tokens made: the login they stem from and the expiry they carry
  store,     \* per token, when its key in Redis expires; 0 when there is none
  answered,  \* history: tokens a client has been given
  spent,     \* history: tokens used to refresh or to log out
  req,       \* per client, its request: its place and what it holds
  served     \* requests served so far

vars == <<clock, users, failed, tokens, store, answered, spent, req, served>>

Token == 1..MaxTokens
Idle  == [pc |-> "idle", good |-> FALSE, login |-> 0, token |-> 0]

Init ==
  /\ clock = 0 /\ users = 0
  /\ failed = [count |-> 0, until |-> 0]
  /\ tokens = <<>> /\ store = [t \in Token |-> 0]
  /\ answered = {} /\ spent = {}
  /\ req = [r \in Req |-> Idle] /\ served = 0

Arrive(r) == req[r].pc = "idle" /\ served < MaxRequests /\ served' = served + 1
Move(r, pc) == req' = [req EXCEPT ![r].pc = pc]
Leave(r) == req' = [req EXCEPT ![r] = Idle]

-----------------------------------------------------------------------------
(* Registration.                                                           *)

\* register looks for the address, then spends its time on the hash.
Register(r) ==
  /\ Arrive(r) /\ users = 0 /\ Move(r, "insert")
  /\ UNCHANGED <<clock, users, failed, tokens, store, answered, spent>>

\* Of two registrations the unique index lets one in; the other fails.
InsertUser(r) ==
  /\ req[r].pc = "insert" /\ Leave(r)
  /\ users' = IF users = 0 THEN 1 ELSE users
  /\ UNCHANGED <<clock, failed, tokens, store, answered, spent, served>>

-----------------------------------------------------------------------------
(* Login.                                                                  *)

\* is_locked: the counter is read, and counted up only after the password is checked.
Login_OneMore(r) ==
  /\ Arrive(r) /\ failed.count <= MaxAttempts
  /\ \E good \in BOOLEAN : req' = [req EXCEPT ![r] = [Idle EXCEPT !.pc = "verify", !.good = good]]
  /\ UNCHANGED <<clock, users, failed, tokens, store, answered, spent>>
Login(r) ==
  /\ Arrive(r) /\ failed.count < MaxAttempts
  /\ \E good \in BOOLEAN : req' = [req EXCEPT ![r] = [Idle EXCEPT !.pc = "verify", !.good = good]]
  /\ UNCHANGED <<clock, users, failed, tokens, store, answered, spent>>

\* The policy, the lookup of the user and the hash.
Verify(r) ==
  /\ req[r].pc = "verify"
  /\ Move(r, IF req[r].good /\ users = 1 THEN "reset" ELSE "failure")
  /\ UNCHANGED <<clock, users, failed, tokens, store, answered, spent, served>>

\* register_failure: INCR and EXPIRE NX in one transaction.
RegisterFailure(r) ==
  /\ req[r].pc = "failure" /\ Leave(r)
  /\ failed' = [count |-> failed.count + 1,
                until |-> IF failed.count = 0 THEN clock + Lockout ELSE failed.until]
  /\ UNCHANGED <<clock, users, tokens, store, answered, spent, served>>

\* create_refresh_token: a new jti, and the expiry in the token.
Issue(r, login) ==
  /\ Len(tokens) < MaxTokens
  /\ tokens' = Append(tokens, [login |-> login, exp |-> clock + TokenLife])
  /\ req' = [req EXCEPT ![r] = [Idle EXCEPT !.pc = "save", !.login = login, !.token = Len(tokens) + 1]]

\* The password is right: reset of the counter, and the first token of this login.
Reset(r) ==
  /\ req[r].pc = "reset" /\ Issue(r, Len(tokens) + 1)
  /\ failed' = [count |-> 0, until |-> 0]
  /\ UNCHANGED <<clock, users, store, answered, spent, served>>

-----------------------------------------------------------------------------
(* Refresh tokens.                                                         *)

\* RefreshTokenStore.save, with a time to live of its own, and the answer.
Save_LeftOfLogin(r) ==
  LET t == req[r].token IN
  /\ req[r].pc = "save" /\ Leave(r)
  /\ store' = [store EXCEPT ![t] = tokens[tokens[t].login].exp]
  /\ answered' = answered \cup {t}
  /\ UNCHANGED <<clock, users, failed, tokens, spent, served>>
Save(r) ==
  LET t == req[r].token IN
  /\ req[r].pc = "save" /\ Leave(r)
  /\ store' = [store EXCEPT ![t] = clock + TokenLife]
  /\ answered' = answered \cup {t}
  /\ UNCHANGED <<clock, users, failed, tokens, spent, served>>

\* A client shows a token it has been given, also an old one; decode_refresh_token
\* refuses it once it has expired.
Shown == {t \in answered : clock < tokens[t].exp}

\* revoke_if_valid: DELETE tells whether the key was there.
Refresh_ReadsFirst(r) ==
  /\ Arrive(r)
  /\ \E t \in Shown :
       /\ store[t] > 0 /\ spent' = spent \cup {t}
       /\ req' = [req EXCEPT ![r] = [Idle EXCEPT !.pc = "user", !.login = tokens[t].login]]
  /\ UNCHANGED <<clock, users, failed, tokens, store, answered>>
Refresh_IgnoresKey(r) ==
  /\ Arrive(r)
  /\ \E t \in Shown :
       /\ store' = [store EXCEPT ![t] = 0] /\ spent' = spent \cup {t}
       /\ req' = [req EXCEPT ![r] = [Idle EXCEPT !.pc = "user", !.login = tokens[t].login]]
  /\ UNCHANGED <<clock, users, failed, tokens, answered>>
Refresh(r) ==
  /\ Arrive(r)
  /\ \E t \in Shown :
       /\ store[t] > 0 /\ store' = [store EXCEPT ![t] = 0] /\ spent' = spent \cup {t}
       /\ req' = [req EXCEPT ![r] = [Idle EXCEPT !.pc = "user", !.login = tokens[t].login]]
  /\ UNCHANGED <<clock, users, failed, tokens, answered>>

\* The user is looked up, the next token made.
Rotate(r) ==
  /\ req[r].pc = "user" /\ Issue(r, req[r].login)
  /\ UNCHANGED <<clock, users, failed, store, answered, spent, served>>

\* logout answers the same whether there was something to revoke or not.
Logout(r) ==
  /\ Arrive(r)
  /\ \E t \in Shown : store' = [store EXCEPT ![t] = 0] /\ spent' = spent \cup {t}
  /\ UNCHANGED <<clock, users, failed, tokens, answered, req>>

-----------------------------------------------------------------------------
(* Time and failures.                                                      *)

\* Redis drops the keys whose time has come.
Tick ==
  /\ clock < MaxTime /\ clock' = clock + 1
  /\ store' = [t \in Token |-> IF store[t] <= clock + 1 THEN 0 ELSE store[t]]
  /\ failed' = IF failed.until <= clock + 1 THEN [count |-> 0, until |-> 0] ELSE failed
  /\ UNCHANGED <<users, tokens, answered, spent, req, served>>

\* The process dies or Redis does not answer: a revoked token has no successor then.
Die(r) ==
  /\ req[r].pc # "idle" /\ Leave(r)
  /\ UNCHANGED <<clock, users, failed, tokens, store, answered, spent, served>>

Next ==
  \/ \E r \in Req :
       \/ Register(r) \/ InsertUser(r)
       \/ Login(r) \/ Verify(r) \/ RegisterFailure(r) \/ Reset(r) \/ Save(r)
       \/ Refresh(r) \/ Rotate(r) \/ Logout(r) \/ Die(r)
  \/ Tick

Spec == Init /\ [][Next]_vars

-----------------------------------------------------------------------------
(* Properties.                                                             *)

\* The rotation never forks a session: at any time a login has one token that works or one
\* request about to issue it, also when two clients refresh with the same token.
OneTokenPerLogin ==
  \A login \in Token :
    Cardinality({t \in DOMAIN tokens : store[t] > 0 /\ tokens[t].login = login})
      + Cardinality({r \in Req : req[r].pc \in {"user", "save"} /\ req[r].login = login}) <= 1

\* A token a client was given works for as long as it says, unless it has been used: its
\* key in Redis never goes before the expiry written into the token.
AnsweredTokenWorks ==
  \A t \in answered \ spent : clock < tokens[t].exp => store[t] > 0

\* Requests that are past the check of the lock when it falls are still counted: between
\* two expiries of the counter no more than these can try a password in addition.
AttemptsBounded == failed.count < MaxAttempts + Cardinality(Req)

\* The session of a login in the words of SessionLife.
Working(login)  == \E t \in DOMAIN tokens : store[t] > 0 /\ tokens[t].login = login
Renewing(login) == \E r \in Req : req[r].pc \in {"user", "save"} /\ req[r].login = login
PhaseOf(login) ==
  IF Working(login) THEN "open"
  ELSE IF Renewing(login) THEN "renewing"
  ELSE IF \E t \in DOMAIN tokens : tokens[t].login = login THEN "over" ELSE "new"
Life == INSTANCE SessionLife WITH Session <- Token, phase <- [l \in Token |-> PhaseOf(l)]

\* A session that is over, by a logout, an expiry or a process that died while renewing it,
\* stays over: no old token shown again and no slow request brings it back to life.
SessionLifeSpec == Life!Spec

=============================================================================
