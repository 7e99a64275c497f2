------------------------------ MODULE Generation ------------------------------
(***************************************************************************)
(* Calls of the language model by the worker's processes, with the OAuth   *)
(* token they share (app/infrastructure/llm, and the guarded phase of      *)
(* _process_source in app/workers/tasks/analysis_tasks.py).                *)
(*                                                                         *)
(* A process of the prefork pool runs one subtask at a time and keeps its  *)
(* client, hence its token in memory, from one subtask to the next; the    *)
(* lock of GigaChatOAuth has nobody to wait for there.  Between processes  *)
(* there is only the token in Redis, read and written without one.  What a *)
(* process assumes of a token's expiry and when the OAuth server really    *)
(* stops honouring it are two things here, as they are in the system.      *)
(***************************************************************************)
EXTENDS Naturals, Sequences

CONSTANTS
  Proc,         \* processes of the worker
  MaxRetries,   \* llm_max_retries
  TokenLife,    \* how long the OAuth server honours a token
  DefaultLife,  \* DEFAULT_TOKEN_TTL_SECONDS, used when the server names no expiry
  Margin,       \* TOKEN_REFRESH_MARGIN_SECONDS
  SoftLimit,    \* _TASK_SOFT_TIME_LIMIT_SECONDS
  MaxTime,      \* bound on the clock
  MaxTokens,    \* bound on the tokens issued
  MaxCalls,     \* bound on the calls made
  MaxFaults     \* bound on revocations and on failures of Redis

\* 25 minutes are less than the 30 the server grants, and the margin is less than both.
ASSUME GenerationAssumption ==
  /\ {MaxRetries, MaxTime, MaxTokens, MaxCalls, MaxFaults} \subseteq Nat
  /\ TokenLife \in Nat /\ DefaultLife \in 0..TokenLife
  /\ Margin \in Nat /\ Margin < DefaultLife
  /\ SoftLimit \in Nat \ {0}

VARIABLES
  now,
  issued,   \* tokens the server has made: until when it honours each
  memory,   \* per process, _token and _expires_at
  cache,    \* the token in Redis, with the same two fields
  call,     \* per process, its call and how the last one ended
  made,     \* calls made so far
  faults    \* faults so far

vars == <<now, issued, memory, cache, call, made, faults>>

NoToken == [token |-> 0, expires |-> 0]

\* step: where the call is; forced: in the round after a 401; took: the clock _access_token
\* read; got: the server's last answer with a token; token: the one the request carries;
\* attempt: the loop's counter; began: for the soft limit.  History: trouble (temporary failures
\* since the loop began) and refusedAt (tokens issued when the first 401 came).
Idle == [step |-> "over", forced |-> FALSE, took |-> 0, token |-> 0, got |-> NoToken,
         attempt |-> 0, began |-> 0, trouble |-> 0, refusedAt |-> 0]

Init ==
  /\ now = 0 /\ issued = <<>> /\ cache = NoToken /\ made = 0 /\ faults = 0
  /\ memory = [p \in Proc |-> NoToken]
  /\ call = [p \in Proc |-> Idle]

Running      == {"headers", "cache", "fetch", "keep", "share", "sent"}
At(p, step)  == call[p].step = step
Go(p, step)  == call' = [call EXCEPT ![p].step = step]
Over(p)      == call' = [call EXCEPT ![p] = Idle]
Honoured(t)  == now < issued[t]
Faulty       == faults < MaxFaults /\ faults' = faults + 1

\* The request is sent: its loop has a counter of its own.
Sending(c) == [c EXCEPT !.step = "sent", !.attempt = 0, !.trouble = 0]

-----------------------------------------------------------------------------
(* The guarded phase.                                                      *)

\* The texts are loaded and the prompt is built, or that fails for good: a document that
\* cannot be parsed, a source that cannot be fetched, an input that is too large.
Begin(p) ==
  /\ call[p].step \notin Running /\ made < MaxCalls
  /\ made' = made + 1
  /\ \/ call' = [call EXCEPT ![p] = [Idle EXCEPT !.step = "headers", !.began = now]]
     \/ Over(p)
  /\ UNCHANGED <<now, issued, memory, cache, faults>>

-----------------------------------------------------------------------------
(* The token.                                                              *)

\* _fresh_token: the token a process holds, unless it is about to expire.
IsFresh(held, at) == held.token # 0 /\ at + Margin < held.expires

\* Where a call without a token in memory looks next: a forced refresh not even in Redis.
NextPlace_Cache(c) == "cache"
NextPlace(c) == IF c.forced THEN "fetch" ELSE "cache"

\* headers: the clock is read once, after the lock is taken.
Headers(p) ==
  /\ At(p, "headers")
  /\ LET c == [call[p] EXCEPT !.took = now, !.attempt = 0, !.trouble = 0] IN
     call' = [call EXCEPT ![p] =
                IF ~c.forced /\ IsFresh(memory[p], now)
                THEN Sending([c EXCEPT !.token = memory[p].token])
                ELSE [c EXCEPT !.step = NextPlace(c)]]
  /\ UNCHANGED <<now, issued, memory, cache, made, faults>>

\* RedisTokenCache.get: what it finds replaces the token in memory, fresh or not.
ReadCache(p) ==
  /\ At(p, "cache")
  /\ IF cache = NoToken
     THEN Go(p, "fetch") /\ UNCHANGED memory
     ELSE /\ memory' = [memory EXCEPT ![p] = cache]
          /\ IF IsFresh(cache, call[p].took)
             THEN call' = [call EXCEPT ![p] = Sending([@ EXCEPT !.token = cache.token])]
             ELSE Go(p, "fetch")
  /\ UNCHANGED <<now, issued, cache, made, faults>>

\* Redis is not available: the token is fetched.
CacheFails(p) ==
  /\ At(p, "cache") /\ Faulty
  /\ Go(p, "fetch")
  /\ UNCHANGED <<now, issued, memory, cache, made>>

\* A timeout, a broken connection, a 429 or a 5xx: the next attempt, or LLMTimeoutError.  The
\* pause in between is a time in which the clock may advance.
Retry(p) ==
  LET c == [call[p] EXCEPT !.trouble = @ + 1] IN
  call' = [call EXCEPT ![p] =
             IF c.attempt = MaxRetries
             THEN [Idle EXCEPT !.step = "unavailable", !.trouble = c.trouble]
             ELSE [c EXCEPT !.attempt = @ + 1]]

\* _fetch_token: the server issues a token and may or may not name its expiry; or trouble comes
\* back, also when a token was issued that now nobody knows; or an answer that is final.
Fetch(p) ==
  /\ At(p, "fetch")
  /\ \/ /\ Len(issued) < MaxTokens
        /\ issued' = Append(issued, now + TokenLife)
        /\ \E known \in {now + TokenLife, 0} :
             call' = [call EXCEPT ![p].step = "keep",
                                  ![p].got = [token |-> Len(issued'), expires |-> known]]
     \/ UNCHANGED issued /\ (Retry(p) \/ Over(p))
  /\ UNCHANGED <<now, memory, cache, made, faults>>

\* _parse_token: an expiry the server does not name is counted from the clock read before the
\* request.
Expiry_FromTheAnswer(p) == IF call[p].got.expires # 0 THEN call[p].got.expires
                                                      ELSE now + DefaultLife
Expiry(p) == IF call[p].got.expires # 0 THEN call[p].got.expires ELSE call[p].took + DefaultLife

Keep(p) ==
  /\ At(p, "keep")
  /\ memory' = [memory EXCEPT ![p] = [token |-> call[p].got.token, expires |-> Expiry(p)]]
  /\ call' = [call EXCEPT ![p].step = "share", ![p].got = NoToken,
                          ![p].token = call[p].got.token]
  /\ UNCHANGED <<now, issued, cache, made, faults>>

\* RedisTokenCache.set, with the rest of the token's life as time to live.
Share(p) ==
  /\ At(p, "share")
  /\ \/ /\ cache' = IF now < memory[p].expires THEN memory[p] ELSE cache
        /\ UNCHANGED faults
     \/ UNCHANGED cache /\ Faulty
  /\ call' = [call EXCEPT ![p] = Sending(@)]
  /\ UNCHANGED <<now, issued, memory, made>>

-----------------------------------------------------------------------------
(* The request.                                                            *)

\* A 401 of the first round refreshes the token; of the second it is final.
Refused(p) ==
  LET c == call[p] IN
  call' = [call EXCEPT ![p] =
             IF c.forced
             THEN [Idle EXCEPT !.step = "refused", !.token = c.token, !.refusedAt = c.refusedAt]
             ELSE [Idle EXCEPT !.step = "headers", !.began = c.began, !.forced = TRUE,
                               !.refusedAt = Len(issued)]]

\* What comes back: with a token the server honours, an answer that has suggestions or is of
\* no use, or another 4xx; without, a 401; and trouble in any case.
Answer(p) ==
  /\ At(p, "sent")
  /\ \/ Honoured(call[p].token) /\ Over(p)
     \/ ~Honoured(call[p].token) /\ Refused(p)
     \/ Retry(p)
  /\ UNCHANGED <<now, issued, memory, cache, made, faults>>

-----------------------------------------------------------------------------
(* The world.                                                              *)

\* The soft limit ends the call wherever it is, between the two assignments of a token as well.
TimeOut(p) ==
  /\ call[p].step \in Running /\ call[p].began + SoftLimit <= now
  /\ Over(p)
  /\ \/ UNCHANGED memory
     \/ At(p, "keep") /\ memory' = [memory EXCEPT ![p].token = call[p].got.token]
     \/ At(p, "cache") /\ cache # NoToken /\ memory' = [memory EXCEPT ![p].token = cache.token]
  /\ UNCHANGED <<now, issued, cache, made, faults>>

\* The server stops honouring a token before its time.
Revoke(t) ==
  /\ Honoured(t) /\ Faulty
  /\ issued' = [issued EXCEPT ![t] = 0]
  /\ UNCHANGED <<now, memory, cache, call, made>>

\* Redis drops the token when its time to live is over.
Tick ==
  /\ now < MaxTime
  /\ now' = now + 1
  /\ cache' = IF cache.expires <= now' THEN NoToken ELSE cache
  /\ UNCHANGED <<issued, memory, call, made, faults>>

Next ==
  \/ \E p \in Proc :
       \/ Begin(p) \/ Headers(p) \/ ReadCache(p) \/ CacheFails(p) \/ Fetch(p) \/ Keep(p)
       \/ Share(p) \/ Answer(p) \/ TimeOut(p)
  \/ \E t \in DOMAIN issued : Revoke(t)
  \/ Tick

Spec == Init /\ [][Next]_vars

-----------------------------------------------------------------------------
(* Properties.                                                             *)

\* A token is never used past its life by mistake: for as long as the margin after a call took
\* it, the server honours it (unless it has revoked it), whether the call fetched it, kept it
\* from an earlier call, found it in Redis, or was left with half of a token by a time limit.
TakenTokenIsAlive ==
  \A p \in Proc :
    At(p, "sent") /\ now <= call[p].took + Margin =>
      Honoured(call[p].token) \/ issued[call[p].token] = 0

\* A subtask fails on a 401 only after the request was repeated with a token that was issued
\* after the first 401, also when another process has just put the refused one into Redis.
\* (README.md:128.)
RefusedWithNewToken ==
  \A p \in Proc : At(p, "refused") => call[p].token > call[p].refusedAt

\* Each loop has its full number of attempts: a call answers that the model is unavailable
\* only after one and the same request has met trouble MaxRetries + 1 times.  (README.md:132.)
UnavailableAfterAllAttempts ==
  \A p \in Proc : At(p, "unavailable") => call[p].trouble = MaxRetries + 1
=============================================================================
