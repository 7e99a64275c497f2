-------------------------- MODULE Generation_proofs --------------------------
(***************************************************************************)
(* Proofs about module Generation, for any number of processes, any life   *)
(* of a token and any number of attempts.                                  *)
(*                                                                         *)
(* What makes a token in memory hard to trust is that a time limit may     *)
(* leave half of it: the new token beside the old expiry.  The invariant   *)
(* says why this does no harm: such an expiry is either no later than what *)
(* the new token lives, or so near that no later call takes it for fresh.  *)
(***************************************************************************)
EXTENDS Generation, TLAPS

Held == [token : Nat, expires : Nat]
Steps == Running \cup {"over", "refused", "unavailable"}
Calls == [step : Steps, forced : BOOLEAN, took : Nat, token : Nat, got : Held,
          attempt : Nat, began : Nat, trouble : Nat, refusedAt : Nat]

TypeOK ==
  /\ now \in Nat /\ issued \in Seq(Nat)
  /\ memory \in [Proc -> Held] /\ cache \in Held
  /\ call \in [Proc -> Calls]

\* The invariant of a process is stated about its call c, its memory m, the tokens issued,
\* and the time, so that it can be compared before and after a step.

\* A token that was issued and whose expiry, if it has not been revoked, is at least e.
Lasts(tokens, t, e) == t \in DOMAIN tokens /\ (tokens[t] = 0 \/ e <= tokens[t])

\* A token in memory: none, one whose expiry can be trusted, or one no call takes for fresh.
Memory(m, tokens, at) ==
  /\ m.token \in 0..Len(tokens) /\ m.expires <= at + TokenLife
  /\ m.token = 0 => m.expires = 0
  /\ m.token = 0 \/ Lasts(tokens, m.token, m.expires) \/ m.expires <= at + Margin

\* The token in Redis.
Shared(m, tokens, at) == m = NoToken \/ (Lasts(tokens, m.token, m.expires) /\ m.expires <= at + TokenLife)

\* What a call has taken, fetched or kept on its way to the request.
Token(c, m, tokens, at) ==
  /\ c.took <= at
  /\ c.step = "cache" => ~c.forced /\ m.expires <= c.took + Margin
  /\ c.step = "keep" =>
       /\ Lasts(tokens, c.got.token, c.took + DefaultLife) /\ Lasts(tokens, c.got.token, c.got.expires)
       /\ Lasts(tokens, c.got.token, m.expires) /\ c.got.expires <= at + TokenLife
  /\ c.step = "share" => c.token = m.token /\ Lasts(tokens, c.token, m.expires)
  /\ c.step \in {"share", "sent"} => Lasts(tokens, c.token, c.took + Margin + 1)

\* The round after a 401, and the attempts of a loop.
Rounds(c, tokens) ==
  /\ c.step \in Running /\ c.forced => c.refusedAt <= Len(tokens)
  /\ c.step = "keep" /\ c.forced => c.got.token > c.refusedAt
  /\ c.step \in {"share", "sent"} /\ c.forced => c.token > c.refusedAt
  /\ c.step = "refused" => c.token > c.refusedAt
  /\ c.step \in Running => c.trouble = c.attempt /\ c.attempt <= MaxRetries
  /\ c.step = "unavailable" => c.trouble = MaxRetries + 1

CallInv(c, m, tokens, at) == Memory(m, tokens, at) /\ Token(c, m, tokens, at) /\ Rounds(c, tokens)

IInv ==
  /\ TypeOK /\ Shared(cache, issued, now)
  /\ \A p \in Proc : CallInv(call[p], memory[p], issued, now)

-----------------------------------------------------------------------------
(* Records of calls.                                                       *)

LEMMA StepNames ==
  /\ "headers" \in Steps /\ "cache" \in Steps /\ "fetch" \in Steps /\ "keep" \in Steps
  /\ "share" \in Steps /\ "sent" \in Steps
  /\ "over" \in Steps /\ "refused" \in Steps /\ "unavailable" \in Steps
BY DEF Running, Steps

LEMMA IdleType ==
  /\ NoToken \in Held /\ Idle \in Calls /\ Idle.step = "over" /\ ~Idle.forced /\ Idle.took = 0
  /\ Idle.attempt = 0 /\ Idle.trouble = 0 /\ Idle.refusedAt = 0
<1>1. NoToken \in Held
  BY DEF NoToken, Held
<1> QED BY <1>1, StepNames DEF Idle, Calls

\* A call moves on to step s.
LEMMA MoveType ==
  ASSUME NEW c \in Calls, NEW s \in Steps, NEW n \in Nat, NEW m \in Nat, NEW h \in Held
  PROVE  /\ [c EXCEPT !.step = s] \in Calls
         /\ [c EXCEPT !.step = s, !.attempt = n, !.trouble = m] \in Calls
         /\ [c EXCEPT !.step = s, !.got = h] \in Calls
         /\ [c EXCEPT !.step = s, !.got = h, !.token = n] \in Calls
         /\ [c EXCEPT !.step = s, !.began = n] \in Calls
         /\ [c EXCEPT !.step = s, !.trouble = n] \in Calls
         /\ [c EXCEPT !.step = s, !.token = n, !.refusedAt = m] \in Calls
<1>1. [c EXCEPT !.step = s] \in Calls
  BY DEF Calls
<1>2. [c EXCEPT !.step = s, !.attempt = n, !.trouble = m] \in Calls
  BY DEF Calls
<1>3. [c EXCEPT !.step = s, !.got = h] \in Calls
  BY DEF Calls
<1>4. [c EXCEPT !.step = s, !.got = h, !.token = n] \in Calls
  BY DEF Calls
<1>5. [c EXCEPT !.step = s, !.began = n] \in Calls /\ [c EXCEPT !.step = s, !.trouble = n] \in Calls
  BY DEF Calls
<1>6. [c EXCEPT !.step = s, !.token = n, !.refusedAt = m] \in Calls
  BY DEF Calls
<1> QED BY <1>1, <1>2, <1>3, <1>4, <1>5, <1>6

\* A call begins its forced round.
LEMMA ForcedType ==
  ASSUME NEW c \in Calls, NEW s \in Steps, NEW n \in Nat, NEW b \in BOOLEAN, NEW k \in Nat
  PROVE  [c EXCEPT !.step = s, !.began = n, !.forced = b, !.refusedAt = k] \in Calls
BY ZenonT(30) DEF Calls

LEMMA SendingType ==
  ASSUME NEW c \in Calls
  PROVE  /\ Sending(c) \in Calls /\ Sending(c).step = "sent"
         /\ Sending(c).attempt = 0 /\ Sending(c).trouble = 0
         /\ Sending(c).token = c.token /\ Sending(c).took = c.took
         /\ Sending(c).forced = c.forced /\ Sending(c).refusedAt = c.refusedAt
<1>1. \A s \in Steps, n, m \in Nat : [c EXCEPT !.step = s, !.attempt = n, !.trouble = m] \in Calls
  BY MoveType, IdleType
<1>2. Sending(c) \in Calls
  BY <1>1, StepNames DEF Sending
<1> QED BY <1>2 DEF Sending, Calls

-----------------------------------------------------------------------------
(* What the other processes see of a step.                                 *)

LEMMA Constants ==
  TokenLife \in Nat /\ DefaultLife \in Nat /\ Margin \in Nat /\ Margin < DefaultLife
    /\ DefaultLife <= TokenLife /\ MaxRetries \in Nat
BY GenerationAssumption

\* Tokens are added and revoked.
Grows(tokens, later) ==
  /\ Len(tokens) <= Len(later)
  /\ \A t \in 1..Len(tokens) : later[t] \in {tokens[t], 0}

LEMMA LastsLater ==
  ASSUME NEW tokens \in Seq(Nat), NEW later \in Seq(Nat), Grows(tokens, later),
         NEW t, NEW e, Lasts(tokens, t, e)
  PROVE  Lasts(later, t, e)
<1>1. DOMAIN tokens = 1..Len(tokens) /\ DOMAIN later = 1..Len(later)
  OBVIOUS
<1>2. t \in 1..Len(tokens) /\ t \in 1..Len(later)
  BY <1>1 DEF Lasts, Grows
<1> QED BY <1>1, <1>2 DEF Lasts, Grows

\* A process that does not move keeps its invariant while the others move and time goes on.
LEMMA Frame ==
  ASSUME NEW tokens \in Seq(Nat), NEW later \in Seq(Nat), Grows(tokens, later),
         NEW at \in Nat, NEW then \in Nat, at <= then,
         NEW c \in Calls, NEW m \in Held
  PROVE  /\ Shared(m, tokens, at) => Shared(m, later, then)
         /\ CallInv(c, m, tokens, at) => CallInv(c, m, later, then)
<1>1. \A t, e : Lasts(tokens, t, e) => Lasts(later, t, e)
  BY LastsLater
<1>2. Len(tokens) \in Nat /\ Len(later) \in Nat /\ Len(tokens) <= Len(later)
  BY DEF Grows
<1>3. m.token \in Nat /\ m.expires \in Nat /\ c.took \in Nat /\ c.got.expires \in Nat /\ c.refusedAt \in Nat
  BY DEF Held, Calls
<1>4. Shared(m, tokens, at) => Shared(m, later, then)
  BY <1>1, <1>3, Constants DEF Shared
<1>5. Memory(m, tokens, at) => Memory(m, later, then)
  BY <1>1, <1>2, <1>3, Constants DEF Memory
<1>6. Token(c, m, tokens, at) => Token(c, m, later, then)
  BY <1>1, <1>3, Constants DEF Token
<1>7. Rounds(c, tokens) => Rounds(c, later)
  BY <1>2, <1>3 DEF Rounds
<1> QED BY <1>4, <1>5, <1>6, <1>7 DEF CallInv

\* What a step of process p leaves to prove: its own invariant, the rest follows.
Moves(p) ==
  /\ now' \in Nat /\ now <= now'
  /\ issued' \in Seq(Nat) /\ Grows(issued, issued')
  /\ call' \in [Proc -> Calls] /\ memory' \in [Proc -> Held]
  /\ \A q \in Proc \ {p} : call'[q] = call[q] /\ memory'[q] = memory[q]

LEMMA MovesKeeps ==
  ASSUME IInv, NEW p \in Proc, Moves(p), cache' \in Held,
         CallInv(call'[p], memory'[p], issued', now'), Shared(cache', issued', now')
  PROVE  IInv'
<1>1. ASSUME NEW q \in Proc \ {p} PROVE CallInv(call'[q], memory'[q], issued', now')
  BY <1>1, Frame DEF IInv, TypeOK, Moves
<1>2. TypeOK'
  BY DEF TypeOK, Moves
<1> QED BY <1>1, <1>2 DEF IInv

\* A step that only moves the call of p.
LEMMA CallMoves ==
  ASSUME IInv, NEW p \in Proc, NEW c \in Calls, call' = [call EXCEPT ![p] = c],
         UNCHANGED <<now, issued, memory, cache>>,
         Token(c, memory[p], issued, now), Rounds(c, issued)
  PROVE  IInv'
<1>1. Grows(issued, issued) /\ now <= now
  BY DEF Grows, IInv, TypeOK
<1>2. Moves(p) /\ call'[p] = c
  BY <1>1 DEF Moves, IInv, TypeOK
<1>3. CallInv(c, memory[p], issued, now)
  BY DEF IInv, CallInv
<1> QED BY <1>2, <1>3, MovesKeeps DEF IInv, TypeOK

-----------------------------------------------------------------------------
(* The steps of a process.                                                 *)

LEMMA RunningSteps ==
  /\ \A s \in {"headers", "cache", "fetch", "keep", "share", "sent"} : s \in Running
  /\ \A s \in {"over", "refused", "unavailable"} : s \notin Running
BY DEF Running

\* The call is over, and the memory is one the invariant allows.
LEMMA IdleKeeps ==
  ASSUME IInv, NEW p \in Proc, call' = [call EXCEPT ![p] = Idle],
         UNCHANGED <<now, issued, memory, cache>>
  PROVE  IInv'
<1>1. Token(Idle, memory[p], issued, now) /\ Rounds(Idle, issued)
  BY IdleType, RunningSteps DEF Token, Rounds, IInv, TypeOK
<1> QED BY <1>1, IdleType, CallMoves

LEMMA BeginKeeps == ASSUME IInv, NEW p \in Proc, Begin(p) PROVE IInv'
<1>1. CASE Over(p)
  BY <1>1, IdleKeeps DEF Begin, Over
<1>2. CASE call' = [call EXCEPT ![p] = [Idle EXCEPT !.step = "headers", !.began = now]]
  <2> DEFINE c == [Idle EXCEPT !.step = "headers", !.began = now]
  <2>1. \A s \in Steps, n \in Nat : [Idle EXCEPT !.step = s, !.began = n] \in Calls
    BY IdleType, MoveType
  <2>2. c \in Calls
    BY <2>1, StepNames DEF IInv, TypeOK
  <2>3. /\ c.step = "headers" /\ c.forced = FALSE /\ c.took = 0
        /\ c.attempt = 0 /\ c.trouble = 0
    BY DEF Idle
  <2> HIDE DEF c
  <2>4. Token(c, memory[p], issued, now) /\ Rounds(c, issued)
    BY <2>3, RunningSteps, Constants DEF Token, Rounds, IInv, TypeOK
  <2>5. call' = [call EXCEPT ![p] = c] /\ UNCHANGED <<now, issued, memory, cache>>
    BY <1>2 DEF Begin, c
  <2> QED BY <2>2, <2>4, <2>5, CallMoves
<1> QED BY <1>1, <1>2 DEF Begin

\* A fresh token lives for longer than the margin from now on.
LEMMA FreshLasts ==
  ASSUME NEW tokens \in Seq(Nat), NEW m \in Held, NEW at \in Nat,
         Memory(m, tokens, at), IsFresh(m, at)
  PROVE  Lasts(tokens, m.token, at + Margin + 1)
BY Constants DEF Memory, IsFresh, Lasts, Held

LEMMA HeadersKeeps == ASSUME IInv, NEW p \in Proc, Headers(p) PROVE IInv'
<1> DEFINE c == [call[p] EXCEPT !.took = now, !.attempt = 0, !.trouble = 0]
<1>1. c \in Calls /\ c.took = now /\ c.attempt = 0 /\ c.trouble = 0 /\ c.token = call[p].token
  BY DEF IInv, TypeOK, Calls
<1>2. c.forced = call[p].forced /\ c.refusedAt = call[p].refusedAt /\ call[p] \in Calls
  BY DEF IInv, TypeOK, Calls
<1>3. UNCHANGED <<now, issued, memory, cache>> /\ now \in Nat /\ issued \in Seq(Nat) /\ memory[p] \in Held
  BY DEF Headers, IInv, TypeOK
<1>4. c.forced => c.refusedAt <= Len(issued)
  BY <1>2, RunningSteps DEF Headers, At, IInv, CallInv, Rounds
<1>5. Memory(memory[p], issued, now)
  BY DEF IInv, CallInv
<1>6. call' = [call EXCEPT ![p] = IF ~c.forced /\ IsFresh(memory[p], now)
                                  THEN Sending([c EXCEPT !.token = memory[p].token])
                                  ELSE [c EXCEPT !.step = NextPlace(c)]]
  BY DEF Headers
<1> HIDE DEF c
<1>7. CASE ~c.forced /\ IsFresh(memory[p], now)
  <2> DEFINE d == [c EXCEPT !.token = memory[p].token]
  <2>1. d \in Calls /\ d.took = now /\ d.token = memory[p].token /\ d.forced = c.forced
    BY <1>1, <1>3 DEF Calls, Held
  <2> HIDE DEF d
  <2>2. Lasts(issued, memory[p].token, now + Margin + 1)
    BY <1>3, <1>5, <1>7, FreshLasts
  <2>3. Token(Sending(d), memory[p], issued, now) /\ Rounds(Sending(d), issued)
    BY <1>3, <1>7, <2>1, <2>2, SendingType, Constants DEF Token, Rounds
  <2>4. call' = [call EXCEPT ![p] = Sending(d)]
    BY <1>6, <1>7 DEF d
  <2> QED BY <1>3, <2>1, <2>3, <2>4, SendingType, CallMoves
<1>8. CASE c.forced \/ ~IsFresh(memory[p], now)
  <2> DEFINE d == [c EXCEPT !.step = NextPlace(c)]
  <2>1. NextPlace(c) \in Steps /\ NextPlace(c) = IF c.forced THEN "fetch" ELSE "cache"
    BY StepNames DEF NextPlace
  <2>2. d \in Calls /\ d.step = NextPlace(c) /\ d.took = now /\ d.forced = c.forced
    BY <1>1, <2>1 DEF Calls
  <2>3. d.refusedAt = c.refusedAt /\ d.attempt = 0 /\ d.trouble = 0
    BY <1>1, <2>1 DEF Calls
  <2> HIDE DEF d
  <2>4. d.step = "cache" => memory[p].expires <= now + Margin
    BY <1>3, <1>5, <1>8, <2>1, <2>2, Constants DEF Memory, IsFresh, Held
  <2>5. Token(d, memory[p], issued, now)
    BY <1>3, <2>1, <2>2, <2>4 DEF Token
  <2>6. Rounds(d, issued)
    BY <1>4, <2>1, <2>2, <2>3, Constants DEF Rounds
  <2>7. call' = [call EXCEPT ![p] = d]
    BY <1>6, <1>8 DEF d
  <2> QED BY <1>3, <2>2, <2>5, <2>6, <2>7, CallMoves
<1> QED BY <1>7, <1>8

\* Without a token that can be used the call fetches one.
LEMMA ToFetch ==
  ASSUME IInv, NEW p \in Proc, At(p, "cache"), Go(p, "fetch"),
         UNCHANGED <<now, issued, cache>>, memory' = memory
  PROVE  IInv'
<1> DEFINE c == [call[p] EXCEPT !.step = "fetch"]
<1>1. call[p] \in Calls /\ CallInv(call[p], memory[p], issued, now) /\ call[p].step = "cache"
  BY DEF IInv, TypeOK, At
<1>2. c \in Calls
  <2>1. \A s \in Steps : [call[p] EXCEPT !.step = s] \in Calls
    BY <1>1, MoveType, IdleType
  <2> QED BY <2>1, StepNames
<1>3. /\ c.step = "fetch" /\ c.took = call[p].took /\ c.forced = call[p].forced
      /\ c.attempt = call[p].attempt /\ c.trouble = call[p].trouble /\ c.refusedAt = call[p].refusedAt
  BY <1>1 DEF Calls
<1>4. call' = [call EXCEPT ![p] = c] /\ UNCHANGED <<now, issued, memory, cache>>
  BY DEF Go
<1> HIDE DEF c
<1>5. Token(c, memory[p], issued, now)
  BY <1>1, <1>3 DEF CallInv, Token
<1>6. Rounds(c, issued)
  BY <1>1, <1>3, RunningSteps DEF CallInv, Rounds
<1> QED BY <1>2, <1>4, <1>5, <1>6, CallMoves

LEMMA ReadCacheKeeps == ASSUME IInv, NEW p \in Proc, ReadCache(p) PROVE IInv'
<1>1. CASE cache = NoToken
  BY <1>1, ToFetch DEF ReadCache
<1>2. CASE cache # NoToken
  <2>1. /\ call[p] \in Calls /\ CallInv(call[p], memory[p], issued, now) /\ call[p].step = "cache"
        /\ cache \in Held /\ memory' = [memory EXCEPT ![p] = cache] /\ memory'[p] = cache
        /\ UNCHANGED <<now, issued, cache>> /\ now \in Nat /\ issued \in Seq(Nat)
    BY <1>2 DEF ReadCache, At, IInv, TypeOK
  <2>2. Lasts(issued, cache.token, cache.expires) /\ cache.expires <= now + TokenLife
    BY <1>2 DEF IInv, Shared
  <2>3. Memory(cache, issued, now)
    BY <2>1, <2>2, Constants DEF Memory, Lasts, Held
  <2>4. ASSUME NEW c \in Calls, call' = [call EXCEPT ![p] = c],
               Token(c, cache, issued, now), Rounds(c, issued)
        PROVE  IInv'
    <3>1. Moves(p) /\ call'[p] = c
      BY <2>1, <2>4 DEF Moves, Grows, IInv, TypeOK
    <3> QED BY <2>1, <2>3, <2>4, <3>1, MovesKeeps DEF CallInv, IInv
  <2>5. CASE IsFresh(cache, call[p].took)
    <3> DEFINE d == [call[p] EXCEPT !.token = cache.token]
    <3>1. d \in Calls /\ d.took = call[p].took /\ d.token = cache.token /\ d.forced = FALSE
      BY <2>1 DEF Calls, Held, CallInv, Token
    <3> HIDE DEF d
    <3>2. call[p].took + Margin + 1 <= cache.expires
      BY <2>1, <2>5, Constants DEF IsFresh, Calls, Held
    <3>3. cache.expires \in Nat /\ call[p].took \in Nat /\ call[p].took <= now
      BY <2>1 DEF Calls, Held, CallInv, Token
    <3>4. Lasts(issued, cache.token, call[p].took + Margin + 1)
      <4>1. cache.token \in DOMAIN issued => issued[cache.token] \in Nat
        BY <2>1
      <4> QED BY <2>2, <3>2, <3>3, <4>1, Constants DEF Lasts
    <3>5. Token(Sending(d), cache, issued, now) /\ Rounds(Sending(d), issued)
      BY <3>1, <3>3, <3>4, SendingType, Constants DEF Token, Rounds
    <3>6. call' = [call EXCEPT ![p] = Sending(d)]
      BY <1>2, <2>5 DEF ReadCache, d
    <3> QED BY <2>4, <3>1, <3>5, <3>6, SendingType
  <2>6. CASE ~IsFresh(cache, call[p].took)
    <3> DEFINE c == [call[p] EXCEPT !.step = "fetch"]
    <3>1. c \in Calls
      <4>1. \A s \in Steps : [call[p] EXCEPT !.step = s] \in Calls
        BY <2>1, MoveType, IdleType
      <4> QED BY <4>1, StepNames
    <3>2. /\ c.step = "fetch" /\ c.took = call[p].took /\ c.forced = call[p].forced
          /\ c.attempt = call[p].attempt /\ c.trouble = call[p].trouble
          /\ c.refusedAt = call[p].refusedAt
      BY <2>1 DEF Calls
    <3>3. call' = [call EXCEPT ![p] = c]
      BY <1>2, <2>6 DEF ReadCache, Go
    <3> HIDE DEF c
    <3>4. Token(c, cache, issued, now) /\ Rounds(c, issued)
      BY <2>1, <3>2, RunningSteps DEF CallInv, Token, Rounds
    <3> QED BY <2>4, <3>1, <3>3, <3>4
  <2> QED BY <2>5, <2>6
<1> QED BY <1>1, <1>2

LEMMA CacheFailsKeeps == ASSUME IInv, NEW p \in Proc, CacheFails(p) PROVE IInv'
BY ToFetch DEF CacheFails

\* One more attempt, or the answer that the model is not available.
LEMMA RetryKeeps ==
  ASSUME IInv, NEW p \in Proc, call[p].step \in {"fetch", "sent"}, Retry(p),
         UNCHANGED <<now, issued, memory, cache>>
  PROVE  IInv'
<1> DEFINE c == [call[p] EXCEPT !.trouble = @ + 1]
<1>1. call[p] \in Calls /\ CallInv(call[p], memory[p], issued, now) /\ now \in Nat
  BY DEF IInv, TypeOK
<1>2. call[p].trouble = call[p].attempt /\ call[p].attempt <= MaxRetries /\ call[p].attempt \in Nat
  BY <1>1, RunningSteps DEF CallInv, Rounds, Calls
<1>3. /\ c \in Calls /\ c.trouble = call[p].trouble + 1 /\ c.attempt = call[p].attempt
      /\ c.step = call[p].step /\ c.took = call[p].took /\ c.token = call[p].token
      /\ c.forced = call[p].forced /\ c.refusedAt = call[p].refusedAt
  BY <1>1 DEF Calls
<1>4. call' = [call EXCEPT ![p] = IF c.attempt = MaxRetries
                                  THEN [Idle EXCEPT !.step = "unavailable", !.trouble = c.trouble]
                                  ELSE [c EXCEPT !.attempt = @ + 1]]
  BY DEF Retry
<1> HIDE DEF c
<1>5. CASE c.attempt = MaxRetries
  <2> DEFINE d == [Idle EXCEPT !.step = "unavailable", !.trouble = c.trouble]
  <2>1. \A s \in Steps, n \in Nat : [Idle EXCEPT !.step = s, !.trouble = n] \in Calls
    BY IdleType, MoveType
  <2>2. d \in Calls
    BY <1>3, <2>1, StepNames DEF Calls
  <2>3. d.step = "unavailable" /\ d.trouble = c.trouble /\ d.took = 0
    BY DEF Idle
  <2>4. call' = [call EXCEPT ![p] = d]
    BY <1>4, <1>5
  <2> HIDE DEF d
  <2>5. Token(d, memory[p], issued, now)
    BY <1>1, <2>3 DEF Token
  <2>6. d.trouble = MaxRetries + 1
    BY <1>2, <1>3, <1>5, <2>3
  <2>7. Rounds(d, issued)
    BY <2>3, <2>6, RunningSteps DEF Rounds
  <2> QED BY <2>2, <2>4, <2>5, <2>7, CallMoves
<1>6. CASE c.attempt # MaxRetries
  <2> DEFINE d == [c EXCEPT !.attempt = @ + 1]
  <2>1. /\ d \in Calls /\ d.attempt = c.attempt + 1 /\ d.trouble = c.trouble
        /\ d.step = c.step /\ d.took = c.took /\ d.token = c.token
        /\ d.forced = c.forced /\ d.refusedAt = c.refusedAt
    BY <1>3 DEF Calls
  <2>2. call' = [call EXCEPT ![p] = d]
    BY <1>4, <1>6
  <2> HIDE DEF d
  <2>3. Token(d, memory[p], issued, now)
    BY <1>1, <1>3, <2>1 DEF CallInv, Token
  <2>4. Rounds(d, issued)
    BY <1>1, <1>2, <1>3, <1>6, <2>1, RunningSteps, Constants DEF CallInv, Rounds
  <2> QED BY <2>1, <2>2, <2>3, <2>4, CallMoves
<1> QED BY <1>5, <1>6

\* The call ended with a half of a token in memory, or with none of it.
LEMMA OverKeeps ==
  ASSUME IInv, NEW p \in Proc, Over(p), UNCHANGED <<now, issued, cache>>,
         memory' \in [Proc -> Held], \A q \in Proc \ {p} : memory'[q] = memory[q],
         Memory(memory'[p], issued, now)
  PROVE  IInv'
<1>1. Token(Idle, memory'[p], issued, now) /\ Rounds(Idle, issued)
  BY IdleType, RunningSteps DEF Token, Rounds, IInv, TypeOK
<1>2. Grows(issued, issued) /\ now <= now
  BY DEF Grows, IInv, TypeOK
<1>3. Moves(p) /\ call'[p] = Idle
  BY <1>2, IdleType DEF Moves, Over, IInv, TypeOK
<1> QED BY <1>1, <1>3, MovesKeeps DEF CallInv, IInv, TypeOK

\* The server issues a token, which takes it from fetch to keep.
LEMMA IssueKeeps ==
  ASSUME IInv, NEW p \in Proc, At(p, "fetch"), NEW known \in {now + TokenLife, 0},
         issued' = Append(issued, now + TokenLife),
         call' = [call EXCEPT ![p].step = "keep", ![p].got = [token |-> Len(issued'), expires |-> known]],
         UNCHANGED <<now, memory, cache>>
  PROVE  IInv'
<1> DEFINE h == [token |-> Len(issued'), expires |-> known]
           c == [call[p] EXCEPT !.step = "keep", !.got = h]
<1>1. /\ call[p] \in Calls /\ CallInv(call[p], memory[p], issued, now) /\ call[p].step = "fetch"
      /\ now \in Nat /\ issued \in Seq(Nat) /\ memory[p] \in Held
  BY DEF IInv, TypeOK, At
<1>2. /\ issued' \in Seq(Nat) /\ Len(issued') = Len(issued) + 1 /\ Len(issued) \in Nat
      /\ issued'[Len(issued')] = now + TokenLife /\ DOMAIN issued' = 1..Len(issued')
  BY <1>1, Constants
<1>3. Grows(issued, issued')
  BY <1>1, <1>2, Constants DEF Grows
<1>4. h \in Held /\ h.token = Len(issued') /\ h.expires \in Nat /\ h.expires <= now + TokenLife
  BY <1>1, <1>2, Constants DEF Held
<1>5. c \in Calls /\ call' = [call EXCEPT ![p] = c]
  <2>1. \A s \in Steps, g \in Held : [call[p] EXCEPT !.step = s, !.got = g] \in Calls
    BY <1>1, MoveType
  <2>2. call' = [call EXCEPT ![p] = c]
    BY DEF IInv, TypeOK
  <2> QED BY <1>4, <2>1, <2>2, StepNames
<1>6. /\ c.step = "keep" /\ c.got = h /\ c.took = call[p].took /\ c.forced = call[p].forced
      /\ c.attempt = call[p].attempt /\ c.trouble = call[p].trouble /\ c.refusedAt = call[p].refusedAt
  BY <1>1 DEF Calls
<1> HIDE DEF c, h
<1>7. now' = now /\ now <= now' /\ call' \in [Proc -> Calls] /\ call'[p] = c /\ memory' = memory
  <2>1. now <= now /\ call \in [Proc -> Calls]
    BY DEF IInv, TypeOK
  <2> QED BY <1>5, <2>1
<1>8. Moves(p)
  BY <1>1, <1>2, <1>3, <1>5, <1>7 DEF Moves, IInv, TypeOK
<1>9. \A e \in Nat : e <= now + TokenLife => Lasts(issued', h.token, e)
  BY <1>2, <1>4 DEF Lasts
<1>10. Token(c, memory[p], issued', now)
  <2>1. c.took <= now /\ c.took \in Nat /\ memory[p].expires \in Nat /\ memory[p].expires <= now + TokenLife
    BY <1>1, <1>6 DEF CallInv, Token, Memory, Calls, Held
  <2>2. c.took + DefaultLife <= now + TokenLife /\ c.took + DefaultLife \in Nat
    BY <1>1, <2>1, Constants
  <2> QED BY <1>4, <1>6, <1>9, <2>1, <2>2 DEF Token
<1>11. Rounds(c, issued')
  BY <1>1, <1>2, <1>4, <1>6, RunningSteps DEF CallInv, Rounds, Calls
<1>12. /\ Shared(cache, issued, now) => Shared(cache, issued', now)
       /\ Memory(memory[p], issued, now) => Memory(memory[p], issued', now)
  <2>1. \A t, e : Lasts(issued, t, e) => Lasts(issued', t, e)
    BY <1>1, <1>2, <1>3, LastsLater
  <2> QED BY <1>1, <1>2, <2>1 DEF Shared, Memory, Held
<1>13. Memory(memory[p], issued', now) /\ Shared(cache, issued', now) /\ cache \in Held /\ cache' = cache
  BY <1>1, <1>12 DEF CallInv, IInv, TypeOK
<1> QED BY <1>7, <1>10, <1>11, <1>8, <1>13, MovesKeeps DEF CallInv

LEMMA FetchKeeps == ASSUME IInv, NEW p \in Proc, Fetch(p) PROVE IInv'
<1>1. CASE UNCHANGED issued /\ (Retry(p) \/ Over(p))
  BY <1>1, RetryKeeps, IdleKeeps DEF Fetch, At, Over
<1>2. CASE \E known \in {now + TokenLife, 0} :
             /\ issued' = Append(issued, now + TokenLife)
             /\ call' = [call EXCEPT ![p].step = "keep",
                                     ![p].got = [token |-> Len(issued'), expires |-> known]]
  BY <1>2, IssueKeeps DEF Fetch
<1> QED BY <1>1, <1>2 DEF Fetch

\* The token is kept in memory with its expiry, and the call goes on to share it.
LEMMA KeepKeeps == ASSUME IInv, NEW p \in Proc, Keep(p) PROVE IInv'
<1> DEFINE m == [token |-> call[p].got.token, expires |-> Expiry(p)]
           c == [call[p] EXCEPT !.step = "share", !.got = NoToken, !.token = call[p].got.token]
<1>1. /\ call[p] \in Calls /\ CallInv(call[p], memory[p], issued, now) /\ call[p].step = "keep"
      /\ now \in Nat /\ issued \in Seq(Nat) /\ call[p].got \in Held /\ call[p].got.token \in Nat
      /\ call[p].took \in Nat /\ call[p].got.expires \in Nat
  BY DEF IInv, TypeOK, At, Keep, Calls, Held
<1>2. /\ Lasts(issued, call[p].got.token, call[p].took + DefaultLife)
      /\ Lasts(issued, call[p].got.token, call[p].got.expires)
      /\ call[p].got.expires <= now + TokenLife /\ call[p].took <= now
  BY <1>1 DEF CallInv, Token
<1>3. /\ m \in Held /\ m.token = call[p].got.token /\ m.expires <= now + TokenLife
      /\ Lasts(issued, m.token, m.expires)
  BY <1>1, <1>2, Constants DEF Expiry, Held
<1>4. c \in Calls
  <2>1. \A s \in Steps, g \in Held, n \in Nat :
          [call[p] EXCEPT !.step = s, !.got = g, !.token = n] \in Calls
    BY <1>1, MoveType
  <2> QED BY <1>1, <2>1, StepNames, IdleType
<1>5. /\ c.step = "share" /\ c.token = call[p].got.token /\ c.took = call[p].took
      /\ c.forced = call[p].forced /\ c.attempt = call[p].attempt
      /\ c.trouble = call[p].trouble /\ c.refusedAt = call[p].refusedAt
  BY <1>1 DEF Calls
<1>6. /\ call' = [call EXCEPT ![p] = c] /\ memory' = [memory EXCEPT ![p] = m]
      /\ UNCHANGED <<now, issued, cache>>
  BY DEF Keep, IInv, TypeOK
<1> HIDE DEF c, m
<1>7. Memory(m, issued, now)
  BY <1>1, <1>3 DEF Memory, Lasts, Held
<1>8. Lasts(issued, c.token, c.took + Margin + 1)
  <2>1. c.token \in DOMAIN issued => issued[c.token] \in Nat
    BY <1>1
  <2> QED BY <1>1, <1>2, <1>5, <2>1, Constants DEF Lasts
<1>9. Token(c, m, issued, now)
  BY <1>2, <1>3, <1>5, <1>8 DEF Token
<1>10. Rounds(c, issued)
  BY <1>1, <1>5, RunningSteps DEF CallInv, Rounds
<1>11. Grows(issued, issued) /\ now <= now
  BY <1>1 DEF Grows
<1>12. Moves(p) /\ call'[p] = c /\ memory'[p] = m
  BY <1>1, <1>3, <1>4, <1>6, <1>11 DEF Moves, IInv, TypeOK
<1> QED BY <1>6, <1>7, <1>9, <1>10, <1>12, MovesKeeps DEF CallInv, IInv, TypeOK

\* The token is put into Redis, where its expiry can be trusted.
LEMMA ShareKeeps == ASSUME IInv, NEW p \in Proc, Share(p) PROVE IInv'
<1>1. /\ call[p] \in Calls /\ CallInv(call[p], memory[p], issued, now) /\ call[p].step = "share"
      /\ now \in Nat /\ issued \in Seq(Nat) /\ memory[p] \in Held /\ UNCHANGED <<now, issued, memory>>
      /\ cache \in Held /\ Shared(cache, issued, now) /\ call' = [call EXCEPT ![p] = Sending(call[p])]
  BY DEF Share, At, IInv, TypeOK
<1>2. /\ call[p].token = memory[p].token /\ Lasts(issued, call[p].token, memory[p].expires)
      /\ Lasts(issued, call[p].token, call[p].took + Margin + 1) /\ call[p].took <= now
      /\ memory[p].expires <= now + TokenLife
  BY <1>1 DEF CallInv, Token, Memory
<1>3. cache' \in Held /\ Shared(cache', issued, now)
  BY <1>1, <1>2 DEF Share, Shared
<1>4. Token(Sending(call[p]), memory[p], issued, now)
  BY <1>1, <1>2, SendingType DEF Token
<1>5. Rounds(Sending(call[p]), issued)
  BY <1>1, SendingType, RunningSteps, Constants DEF CallInv, Rounds
<1>6. Grows(issued, issued) /\ now <= now
  BY <1>1 DEF Grows
<1>7. Moves(p) /\ call'[p] = Sending(call[p])
  BY <1>1, <1>6, SendingType DEF Moves, IInv, TypeOK
<1> QED BY <1>1, <1>3, <1>4, <1>5, <1>7, MovesKeeps DEF CallInv

\* A 401: the forced round begins, or the call ends.
LEMMA RefusedKeeps ==
  ASSUME IInv, NEW p \in Proc, At(p, "sent"), Refused(p), UNCHANGED <<now, issued, memory, cache>>
  PROVE  IInv'
<1>1. /\ call[p] \in Calls /\ CallInv(call[p], memory[p], issued, now) /\ call[p].step = "sent"
      /\ now \in Nat /\ issued \in Seq(Nat) /\ Len(issued) \in Nat
      /\ call[p].token \in Nat /\ call[p].refusedAt \in Nat /\ call[p].began \in Nat
  BY DEF At, IInv, TypeOK, Calls
<1>2. CASE call[p].forced
  <2> DEFINE c == [Idle EXCEPT !.step = "refused", !.token = call[p].token, !.refusedAt = call[p].refusedAt]
  <2>1. c \in Calls
    <3>1. \A s \in Steps, n, k \in Nat : [Idle EXCEPT !.step = s, !.token = n, !.refusedAt = k] \in Calls
      BY IdleType, MoveType
    <3> QED BY <1>1, <3>1, StepNames
  <2>2. c.step = "refused" /\ c.token = call[p].token /\ c.refusedAt = call[p].refusedAt /\ c.took = 0
    BY DEF Idle
  <2>3. call' = [call EXCEPT ![p] = c]
    BY <1>2 DEF Refused
  <2> HIDE DEF c
  <2>4. Token(c, memory[p], issued, now)
    BY <1>1, <2>2 DEF Token
  <2>5. Rounds(c, issued)
    BY <1>1, <1>2, <2>2, RunningSteps DEF CallInv, Rounds
  <2> QED BY <2>1, <2>3, <2>4, <2>5, CallMoves
<1>3. CASE ~call[p].forced
  <2> DEFINE c == [Idle EXCEPT !.step = "headers", !.began = call[p].began, !.forced = TRUE,
                               !.refusedAt = Len(issued)]
  <2>1. \A s \in Steps, n, k \in Nat, b \in BOOLEAN :
          [Idle EXCEPT !.step = s, !.began = n, !.forced = b, !.refusedAt = k] \in Calls
    BY IdleType, ForcedType
  <2>2. c \in Calls
    BY <1>1, <2>1, StepNames
  <2>3. c.step = "headers" /\ c.took = 0 /\ c.refusedAt = Len(issued) /\ c.attempt = 0 /\ c.trouble = 0
    BY DEF Idle
  <2>4. call' = [call EXCEPT ![p] = c]
    BY <1>3 DEF Refused
  <2> HIDE DEF c
  <2>5. Token(c, memory[p], issued, now) /\ Rounds(c, issued)
    BY <1>1, <2>3, Constants DEF Token, Rounds
  <2> QED BY <2>2, <2>4, <2>5, CallMoves
<1> QED BY <1>2, <1>3

LEMMA AnswerKeeps == ASSUME IInv, NEW p \in Proc, Answer(p) PROVE IInv'
<1>1. At(p, "sent") /\ UNCHANGED <<now, issued, memory, cache>>
  BY DEF Answer
<1>2. CASE Over(p)
  BY <1>1, <1>2, IdleKeeps DEF Over
<1>3. CASE Refused(p)
  BY <1>1, <1>3, RefusedKeeps
<1>4. CASE Retry(p)
  BY <1>1, <1>4, RetryKeeps DEF At
<1> QED BY <1>2, <1>3, <1>4 DEF Answer

\* The soft limit: what it leaves in memory is the old token, or a new one beside the old expiry.
LEMMA TimeOutKeeps == ASSUME IInv, NEW p \in Proc, TimeOut(p) PROVE IInv'
<1>1. /\ call[p] \in Calls /\ CallInv(call[p], memory[p], issued, now) /\ now \in Nat
      /\ issued \in Seq(Nat) /\ memory \in [Proc -> Held] /\ memory[p] \in Held /\ cache \in Held
      /\ Shared(cache, issued, now) /\ Over(p) /\ UNCHANGED <<now, issued, cache>>
      /\ call[p].got \in Held /\ call[p].took \in Nat
  BY DEF TimeOut, IInv, TypeOK, Calls
<1>2. CASE UNCHANGED memory
  BY <1>1, <1>2, OverKeeps DEF CallInv
<1>3. CASE At(p, "keep") /\ memory' = [memory EXCEPT ![p].token = call[p].got.token]
  <2> DEFINE m == [memory[p] EXCEPT !.token = call[p].got.token]
  <2>1. m \in Held /\ m.token = call[p].got.token /\ m.expires = memory[p].expires
    BY <1>1 DEF Held
  <2>2. memory' = [memory EXCEPT ![p] = m]
    BY <1>1, <1>3
  <2> HIDE DEF m
  <2>3. Memory(m, issued, now)
    BY <1>1, <1>3, <2>1 DEF At, CallInv, Token, Memory, Lasts, Held
  <2>4. memory' \in [Proc -> Held] /\ memory'[p] = m /\ \A q \in Proc \ {p} : memory'[q] = memory[q]
    BY <1>1, <2>1, <2>2
  <2> QED BY <1>1, <2>3, <2>4, OverKeeps
<1>4. CASE At(p, "cache") /\ cache # NoToken /\ memory' = [memory EXCEPT ![p].token = cache.token]
  <2> DEFINE m == [memory[p] EXCEPT !.token = cache.token]
  <2>1. m \in Held /\ m.token = cache.token /\ m.expires = memory[p].expires
    BY <1>1 DEF Held
  <2>2. memory' = [memory EXCEPT ![p] = m]
    BY <1>1, <1>4
  <2> HIDE DEF m
  <2>3. cache.token \in DOMAIN issued /\ DOMAIN issued = 1..Len(issued)
    BY <1>1, <1>4 DEF Shared, Lasts
  <2>4. m.expires <= now + Margin /\ m.expires <= now + TokenLife
    <3>1. memory[p].expires \in Nat /\ memory[p].expires <= now + TokenLife /\ call[p].took <= now
      BY <1>1 DEF CallInv, Token, Memory, Held
    <3>2. memory[p].expires <= call[p].took + Margin
      BY <1>1, <1>4 DEF At, CallInv, Token
    <3> QED BY <1>1, <2>1, <3>1, <3>2, Constants
  <2>5. Memory(m, issued, now)
    BY <1>1, <2>1, <2>3, <2>4 DEF Memory
  <2>6. memory' \in [Proc -> Held] /\ memory'[p] = m /\ \A q \in Proc \ {p} : memory'[q] = memory[q]
    BY <1>1, <2>1, <2>2
  <2> QED BY <1>1, <2>5, <2>6, OverKeeps
<1> QED BY <1>2, <1>3, <1>4 DEF TimeOut

-----------------------------------------------------------------------------
(* The world, and the theorems.                                            *)

\* Tokens revoked, time that goes on and a token Redis drops disturb no call.
LEMMA WorldKeeps ==
  ASSUME IInv, UNCHANGED <<call, memory>>, now' \in Nat, now <= now', issued' \in Seq(Nat),
         Grows(issued, issued'), cache' \in {cache, NoToken}
  PROVE  IInv'
<1>1. ASSUME NEW q \in Proc PROVE CallInv(call'[q], memory'[q], issued', now')
  BY <1>1, Frame DEF IInv, TypeOK
<1>2. Shared(cache', issued', now')
  <2>1. \A t, e : Lasts(issued, t, e) => Lasts(issued', t, e)
    BY LastsLater DEF IInv, TypeOK
  <2> QED BY <2>1, Constants DEF Shared, IInv, TypeOK, Held
<1>3. TypeOK'
  BY IdleType DEF IInv, TypeOK
<1> QED BY <1>1, <1>2, <1>3 DEF IInv

LEMMA RevokeKeeps == ASSUME IInv, NEW t \in DOMAIN issued, Revoke(t) PROVE IInv'
<1>1. issued \in Seq(Nat) /\ now \in Nat /\ DOMAIN issued = 1..Len(issued)
  BY DEF IInv, TypeOK
<1>2. issued' = [issued EXCEPT ![t] = 0] /\ UNCHANGED <<now, memory, cache, call>>
  BY DEF Revoke
<1>3. issued' \in Seq(Nat) /\ Len(issued') = Len(issued) /\ Grows(issued, issued')
  BY <1>1, <1>2 DEF Grows
<1> QED BY <1>1, <1>2, <1>3, WorldKeeps

LEMMA TickKeeps == ASSUME IInv, Tick PROVE IInv'
<1>1. issued \in Seq(Nat) /\ now \in Nat
  BY DEF IInv, TypeOK
<1>2. Grows(issued, issued)
  BY <1>1 DEF Grows
<1>3. now' = now + 1 /\ cache' \in {cache, NoToken} /\ UNCHANGED <<issued, memory, call>>
  BY DEF Tick
<1> QED BY <1>1, <1>2, <1>3, WorldKeeps

LEMMA InitInv == Init => IInv
<1> SUFFICES ASSUME Init PROVE IInv
  OBVIOUS
<1>1. TypeOK
  BY IdleType DEF Init, TypeOK
<1>2. Memory(NoToken, issued, now)
  BY Constants DEF Init, Memory, NoToken
<1>3. Token(Idle, NoToken, issued, now) /\ Rounds(Idle, issued)
  BY IdleType, RunningSteps DEF Init, Token, Rounds
<1> QED BY <1>1, <1>2, <1>3 DEF Init, IInv, CallInv, Shared

\* The invariant is inductive: every step of a process or of the world keeps it.
LEMMA Inductive == IInv /\ [Next]_vars => IInv'
<1> SUFFICES ASSUME IInv, [Next]_vars PROVE IInv'
  OBVIOUS
<1>1. ASSUME NEW p \in Proc,
             \/ Begin(p) \/ Headers(p) \/ ReadCache(p) \/ CacheFails(p) \/ Fetch(p) \/ Keep(p)
             \/ Share(p) \/ Answer(p) \/ TimeOut(p)
      PROVE  IInv'
  BY <1>1, BeginKeeps, HeadersKeeps, ReadCacheKeeps, CacheFailsKeeps, FetchKeeps, KeepKeeps,
     ShareKeeps, AnswerKeeps, TimeOutKeeps
<1>2. ASSUME NEW t \in DOMAIN issued, Revoke(t) PROVE IInv'
  BY <1>2, RevokeKeeps
<1>3. CASE Tick
  BY <1>3, TickKeeps
<1>4. CASE UNCHANGED vars
  BY <1>4 DEF vars, IInv, TypeOK
<1> QED BY <1>1, <1>2, <1>3, <1>4 DEF Next

LEMMA Invariant == Spec => []IInv
BY InitInv, Inductive, PTL DEF Spec

\* The clock, the tokens, what a process and Redis hold and every call have their types.
THEOREM TypeCorrect == Spec => []TypeOK
<1>1. IInv => TypeOK
  BY DEF IInv
<1> QED BY <1>1, Invariant, PTL

\* Whatever the lives of tokens, the number of processes and the moment of a time limit: from
\* the moment a call took its token, and for the margin after it, the server honours the token
\* unless it has revoked it.
THEOREM TakenTokenLives == Spec => []TakenTokenIsAlive
<1>1. IInv => TakenTokenIsAlive
  <2> SUFFICES ASSUME IInv, NEW p \in Proc, At(p, "sent"), now <= call[p].took + Margin
               PROVE  Honoured(call[p].token) \/ issued[call[p].token] = 0
    BY DEF TakenTokenIsAlive
  <2>1. call[p] \in Calls /\ call[p].took \in Nat /\ now \in Nat /\ issued \in Seq(Nat)
    BY DEF IInv, TypeOK, Calls
  <2>2. Lasts(issued, call[p].token, call[p].took + Margin + 1)
    BY DEF IInv, CallInv, Token, At
  <2>3. call[p].token \in DOMAIN issued /\ issued[call[p].token] \in Nat
    BY <2>1, <2>2 DEF Lasts
  <2> QED BY <2>1, <2>2, <2>3, Constants DEF Lasts, Honoured
<1> QED BY <1>1, Invariant, PTL

\* A call fails on a 401 only with a token issued after the first 401 it met.
THEOREM RefusalIsOfANewToken == Spec => []RefusedWithNewToken
<1>1. IInv => RefusedWithNewToken
  BY DEF IInv, CallInv, Rounds, RefusedWithNewToken, At
<1> QED BY <1>1, Invariant, PTL

\* The model is declared unavailable only after MaxRetries + 1 troubles of one loop.
THEOREM AllAttemptsAreMade == Spec => []UnavailableAfterAllAttempts
<1>1. IInv => UnavailableAfterAllAttempts
  BY DEF IInv, CallInv, Rounds, UnavailableAfterAllAttempts, At
<1> QED BY <1>1, Invariant, PTL
=============================================================================
