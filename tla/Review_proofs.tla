----------------------------- MODULE Review_proofs -----------------------------
(***************************************************************************)
(* Proofs about module Review, for any number of clients, suggestions and  *)
(* analyses.  One inductive invariant carries the theorems: which locks    *)
(* exclude each other, what a request in flight may rely on, and what the  *)
(* committed rows say about the analyses.                                  *)
(***************************************************************************)
EXTENDS Review, TLAPS

\* Analysis j has ended well, or a status has been written over its own.
Reviewable(j) == analysis[j] = "done" \/ j \in overrun

\* Two transactions never hold a lock on the same row.
Locks ==
  /\ \A r, q \in Req : WritesDocument(r) /\ WritesDocument(q) => r = q
  /\ \A r, q \in Req : \A s \in Suggestion :
       s \in DOMAIN req[r].put /\ s \in DOMAIN req[q].put => r = q

\* A document is under review or reviewed only if its analysis may be, and the analyses
\* after it have not begun.
Stored ==
  /\ doc.status \in {"awaiting_approval", "ready"} => Reviewable(doc.current)
  /\ \A j \in JobId : j > doc.current => analysis[j] = "none"

\* What a request in flight relies on: the version it took, the rows it locked, that the
\* analysis it loaded may be reviewed, and that a document it reopens is still that of the
\* analysis it loaded, unless it resets the whole analysis.
Sound(q) ==
  /\ q.pc = "idle" => q = Idle
  /\ q.bump => doc.version = q.base
  /\ q.pc = "count" \/ (q.op = "save" /\ q.pc = "rows") => q.bump
  /\ q.pc = "reopen" => q.op \notin {"save", "reset_all"}
  /\ q.pc = "status" => q.op = "reset_all"
  /\ \A s \in DOMAIN q.want : q.want[s] = "pending" <=> q.op \in Resets
  /\ \A s \in DOMAIN q.put : sugg[s] # "absent"
  /\ \A s \in DOMAIN q.put : IF q.op \in Resets THEN q.put[s] = "pending"
                                ELSE sugg[s] = "pending" /\ q.put[s] # "pending"
  /\ q.pc \in {"version", "count"} => q.op = "save"
  /\ q.set = "ready" => q.op = "save" /\ q.pc = "commit"
  /\ q.pc # "idle" => Reviewable(q.current)
  /\ q.set = "awaiting_approval" /\ q.op # "reset_all" => doc.current = q.current

\* Until a decision is taken back or a new analysis starts, everybody works on the first
\* analysis, and a request that has counted finds nothing pending but what it has decided.
FirstReview ==
  ~reopened =>
    /\ doc.status \in {"awaiting_approval", "ready"}
    /\ \A j \in JobId : analysis[j] \in {"done", "none"}
    /\ analysis[doc.current] = "done"
    /\ \A r \in Req :
         /\ req[r].pc # "idle" => req[r].current = doc.current
         /\ req[r].set = "ready" =>
              \A s \in Of(doc.current) : sugg[s] = "pending" => s \in DOMAIN req[r].put
    /\ ReadyUnlessReopened

IInv == TypeOK /\ Locks /\ Stored /\ FirstReview /\ \A r \in Req : Sound(req[r])

-----------------------------------------------------------------------------
(* Types.                                                                  *)

LEMMA WritesType ==
  ASSUME NEW rows \in SUBSET Suggestion, NEW f \in [rows -> {"pending"} \cup Decision]
  PROVE  f \in Writes /\ DOMAIN f = rows
BY DEF Writes

LEMMA WritesDomain ==
  ASSUME NEW f \in Writes
  PROVE  DOMAIN f \subseteq Suggestion /\ f \in [DOMAIN f -> {"pending"} \cup Decision]
BY DEF Writes

LEMMA IdleType == Idle \in Request /\ DOMAIN Idle.put = {} /\ DOMAIN Idle.want = {}
<1>1. Nothing \in Writes
  <2>1. Nothing \in [{} -> {"pending"} \cup Decision]
    BY DEF Nothing
  <2> QED BY <2>1, WritesType
<1>2. 1 \in JobId
  BY ReviewAssumption DEF JobId
<1> QED BY <1>1, <1>2 DEF Idle, Request, Operation, DocumentStatus, Nothing

LEMMA IdleSound == Sound(Idle)
BY IdleType DEF Sound, Idle, Nothing

\* A suggestion of analysis j.
LEMMA OfType ==
  ASSUME NEW j \in JobId, NEW s
  PROVE  s \in Of(j) <=> s \in Suggestion /\ s[1] = j
BY DEF Of, Suggestion

-----------------------------------------------------------------------------
(* What the steps of a request have in common.                             *)

\* A step of client r changes nothing but its own request, which stays sound; it locks
\* only what nobody else has locked.
Moves(r) ==
  /\ req' = [req EXCEPT ![r] = req'[r]]
  /\ req'[r] \in Request /\ Sound(req'[r])
  /\ UNCHANGED <<doc, sugg, analysis, reopened, overrun>> /\ served' \in 0..MaxRequests
  /\ req'[r].pc # "idle" =>
       req'[r].current = IF req[r].pc = "idle" THEN doc.current ELSE req[r].current
  /\ req'[r].set = "ready" =>
       \A s \in Of(req[r].current) : sugg[s] = "pending" => s \in DOMAIN req'[r].put
  /\ req'[r].set = "ready" => req[r].pc # "idle"
  /\ WritesDocument(r)' => WritesDocument(r) \/ DocumentFree(r)
  /\ \/ RowsFree(r, DOMAIN req'[r].put)
     \/ DOMAIN req'[r].put \subseteq DOMAIN req[r].put

LEMMA MovesKeeps ==
  ASSUME IInv, NEW r \in Req, Moves(r)
  PROVE  IInv'
<1>1. /\ req' \in [Req -> Request] /\ \A q \in Req \ {r} : req'[q] = req[q]
      /\ UNCHANGED <<doc, sugg, analysis, reopened, overrun>>
  BY DEF Moves, IInv, TypeOK
<1>2. \A q \in Req : Sound(req'[q])
  BY <1>1 DEF Moves, IInv
<1>3. (\A q \in Req : Sound(req[q]))'
  BY <1>1, <1>2 DEF Sound, Reviewable
<1>4. TypeOK'
  BY <1>1, <1>2 DEF Moves, IInv, TypeOK, Sound
<1>5. Stored'
  BY <1>1 DEF IInv, Stored, Reviewable
<1>6. \A p, q \in Req : WritesDocument(p)' /\ WritesDocument(q)' => p = q
  BY <1>1 DEF Moves, IInv, Locks, WritesDocument, DocumentFree
<1>7. \A p, q \in Req : \A s \in Suggestion :
        s \in DOMAIN req'[p].put /\ s \in DOMAIN req'[q].put => p = q
  BY <1>1 DEF Moves, IInv, Locks, RowsFree
<1>8. FirstReview'
  <2> SUFFICES ASSUME ~reopened PROVE FirstReview'
    BY <1>1 DEF FirstReview
  <2>1. \A q \in Req :
          /\ req[q].pc # "idle" => req[q].current = doc.current
          /\ req[q].set = "ready" =>
               \A s \in Of(doc.current) : sugg[s] = "pending" => s \in DOMAIN req[q].put
    BY DEF IInv, FirstReview
  <2>2. /\ req'[r].pc # "idle" => req'[r].current = doc.current
        /\ req'[r].set = "ready" =>
             \A s \in Of(doc.current) : sugg[s] = "pending" => s \in DOMAIN req'[r].put
    BY <2>1 DEF Moves
  <2>3. \A q \in Req :
          /\ req'[q].pc # "idle" => req'[q].current = doc.current
          /\ req'[q].set = "ready" =>
               \A s \in Of(doc.current) : sugg[s] = "pending" => s \in DOMAIN req'[q].put
    BY <1>1, <2>1, <2>2
  <2>4. /\ doc.status \in {"awaiting_approval", "ready"} /\ analysis[doc.current] = "done"
        /\ \A j \in JobId : analysis[j] \in {"done", "none"}
        /\ ReadyUnlessReopened
    BY DEF IInv, FirstReview
  <2> QED BY <1>1, <2>3, <2>4 DEF FirstReview, ReadyUnlessReopened
<1> QED BY <1>3, <1>4, <1>5, <1>6, <1>7, <1>8 DEF IInv, Locks

LEMMA RollbackMoves ==
  ASSUME IInv, NEW r \in Req, Rollback(r), UNCHANGED <<doc, sugg, analysis, served, reopened, overrun>>
  PROVE  Moves(r)
<1>1. req' = [req EXCEPT ![r] = Idle] /\ req'[r] = Idle
  BY DEF Rollback, IInv, TypeOK
<1>2. ~WritesDocument(r)'
  BY <1>1 DEF WritesDocument, Idle
<1>3. Idle.pc = "idle" /\ Idle.set = "keep"
  BY DEF Idle
<1> QED BY <1>1, <1>2, <1>3, IdleType, IdleSound DEF Moves, IInv, TypeOK, RowsFree

-----------------------------------------------------------------------------
(* The steps of a request.                                                 *)

\* A new request that has written nothing.
LEMMA NewRequestMoves ==
  ASSUME IInv, NEW r \in Req, NEW q \in Request, Sound(q),
         q.put = Nothing, q.bump = FALSE, q.set = "keep", q.current = doc.current,
         req[r].pc = "idle",
         req' = [req EXCEPT ![r] = q], UNCHANGED <<doc, sugg, analysis, reopened, overrun>>,
         served < MaxRequests, served' = served + 1
  PROVE  Moves(r)
<1>1. req'[r] = q
  BY DEF IInv, TypeOK
<1>2. ~WritesDocument(r)'
  BY <1>1 DEF WritesDocument
<1>3. DOMAIN req'[r].put = {}
  BY <1>1 DEF Nothing
<1>4. served' \in 0..MaxRequests
  BY ReviewAssumption DEF IInv, TypeOK
<1> QED BY <1>1, <1>2, <1>3, <1>4 DEF Moves, RowsFree

LEMMA BeginMoves ==
  ASSUME IInv, NEW r \in Req, NEW op \in {"decide", "reset", "reset_one", "reset_all"}, Arrive(r, op),
         NEW pc \in {"rows", "reopen"}, NEW all \in BOOLEAN,
         NEW rows \in SUBSET Suggestion, NEW to \in {"pending"} \cup Decision,
         to = "pending" <=> op \in Resets,
         doc.status \in {"awaiting_approval", "ready"}, pc = "reopen" => op # "reset_all",
         Begin(r, op, pc, [s \in rows |-> to], all)
  PROVE  Moves(r)
<1> DEFINE want == [s \in rows |-> to]
           q == [Idle EXCEPT !.pc = pc, !.op = op, !.want = want, !.all = all,
                             !.status = doc.status, !.current = doc.current]
<1>1. want \in Writes /\ DOMAIN want = rows
  BY WritesType
<1>2. doc.status \in DocumentStatus /\ doc.current \in JobId
  BY DEF IInv, TypeOK, Document
<1>3. q \in Request
  BY <1>1, <1>2, IdleType DEF Request, Operation
<1>4. /\ q.pc = pc /\ q.op = op /\ q.want = want /\ q.current = doc.current
      /\ q.put = Nothing /\ q.bump = FALSE /\ q.set = "keep"
  BY DEF Idle
<1>5. \A s \in DOMAIN want : want[s] = to
  BY <1>1
<1> HIDE DEF want, q
<1>6. DOMAIN Nothing = {}
  BY DEF Nothing
<1>7. Sound(q)
  BY <1>2, <1>4, <1>5, <1>6 DEF Sound, Resets, IInv, Stored
<1> QED BY <1>3, <1>4, <1>7, NewRequestMoves DEF Arrive, Begin, q, want

LEMMA SaveMoves == ASSUME IInv, NEW r \in Req, Save(r) PROVE Moves(r)
<1>1. PICK base \in 0..doc.version, ids \in Named, final \in BOOLEAN :
        \E want \in [ids -> Decision] :
          req' = [req EXCEPT ![r] = [Idle EXCEPT !.pc = "version", !.op = "save", !.base = base,
                                  !.want = want, !.final = final,
                                  !.status = doc.status, !.current = doc.current]]
  BY DEF Save
<1>2. PICK want \in [ids -> Decision] :
          req' = [req EXCEPT ![r] = [Idle EXCEPT !.pc = "version", !.op = "save", !.base = base,
                                  !.want = want, !.final = final,
                                  !.status = doc.status, !.current = doc.current]]
  BY <1>1
<1> DEFINE q == [Idle EXCEPT !.pc = "version", !.op = "save", !.base = base, !.want = want,
                             !.final = final, !.status = doc.status, !.current = doc.current]
<1>3. want \in Writes /\ DOMAIN want = ids
  BY WritesType DEF Named
<1>4. base \in Nat /\ doc.status \in DocumentStatus /\ doc.current \in JobId
  BY DEF IInv, TypeOK, Document
<1>5. q \in Request
  BY <1>3, <1>4, IdleType DEF Request, Operation
<1>6. /\ q.pc = "version" /\ q.op = "save" /\ q.want = want
      /\ q.put = Nothing /\ q.bump = FALSE /\ q.set = "keep" /\ q.current = doc.current
  BY DEF Idle
<1>7. \A s \in DOMAIN want : want[s] # "pending"
  BY <1>3 DEF Decision
<1> HIDE DEF q
<1>8. DOMAIN Nothing = {}
  BY DEF Nothing
<1>9. Reviewable(doc.current)
  BY DEF Save, CanReview, IInv, Stored
<1>10. Sound(q)
  BY <1>6, <1>7, <1>8, <1>9 DEF Sound, Resets
<1> QED BY <1>2, <1>5, <1>6, <1>10, NewRequestMoves DEF Save, Arrive, q

LEMMA DecideMoves == ASSUME IInv, NEW r \in Req, Decide(r) PROVE Moves(r)
<1>1. PICK to \in Decision :
        \/ Begin(r, "decide", "rows", [s \in Suggestion |-> to], TRUE)
        \/ \E ids \in Named \ {{}} : Begin(r, "decide", "rows", [s \in ids |-> to], FALSE)
  BY DEF Decide
<1>2. /\ "decide" \notin Resets /\ to # "pending" /\ Arrive(r, "decide")
      /\ doc.status \in {"awaiting_approval", "ready"}
  BY DEF Resets, Decision, Decide, CanReview
<1>3. CASE Begin(r, "decide", "rows", [s \in Suggestion |-> to], TRUE)
  BY <1>2, <1>3, BeginMoves
<1>4. ASSUME NEW ids \in Named \ {{}}, Begin(r, "decide", "rows", [s \in ids |-> to], FALSE)
      PROVE  Moves(r)
  <2>1. ids \in SUBSET Suggestion
    BY DEF Named
  <2> QED BY <1>2, <1>4, <2>1, BeginMoves
<1> QED BY <1>1, <1>3, <1>4

LEMMA ResetMoves == ASSUME IInv, NEW r \in Req, Reset(r) PROVE Moves(r)
<1>1. /\ "reset" \in Resets /\ Arrive(r, "reset")
      /\ doc.status \in {"awaiting_approval", "ready"}
  BY DEF Resets, Reset, CanResetReview
<1>2. CASE Begin(r, "reset", "rows", [s \in Suggestion |-> "pending"], TRUE)
  BY <1>1, <1>2, BeginMoves
<1>3. ASSUME NEW ids \in Named \ {{}}, Begin(r, "reset", "rows", [s \in ids |-> "pending"], FALSE)
      PROVE  Moves(r)
  <2>1. ids \in SUBSET Suggestion
    BY DEF Named
  <2> QED BY <1>1, <1>3, <2>1, BeginMoves
<1> QED BY <1>2, <1>3 DEF Reset

LEMMA ResetOneMoves == ASSUME IInv, NEW r \in Req, ResetOne(r) PROVE Moves(r)
<1>1. PICK s \in Of(doc.current) :
        /\ sugg[s] \in Decision
        /\ Begin(r, "reset_one", IF doc.status = "ready" THEN "reopen" ELSE "rows",
                 [t \in {s} |-> "pending"], FALSE)
  BY DEF ResetOne
<1>2. s \in Suggestion /\ s[1] = doc.current
  BY OfType DEF IInv, TypeOK, Document
<1>3. doc.status \in {"awaiting_approval", "ready"}
  BY DEF ResetOne, CanResetReview
<1>4. "reset_one" \in Resets /\ Arrive(r, "reset_one") /\ {s} \in SUBSET Suggestion
  BY <1>2 DEF Resets, ResetOne
<1>5. CASE doc.status = "ready"
  <2>1. Begin(r, "reset_one", "reopen", [t \in {s} |-> "pending"], FALSE)
    BY <1>1, <1>5
  <2> QED BY <1>3, <1>4, <2>1, BeginMoves
<1>6. CASE doc.status # "ready"
  <2>1. Begin(r, "reset_one", "rows", [t \in {s} |-> "pending"], FALSE)
    BY <1>1, <1>6
  <2> QED BY <1>3, <1>4, <2>1, BeginMoves
<1> QED BY <1>5, <1>6

LEMMA ResetAllMoves == ASSUME IInv, NEW r \in Req, ResetAll(r) PROVE Moves(r)
<1>1. /\ "reset_all" \in Resets /\ Arrive(r, "reset_all")
      /\ doc.status \in {"awaiting_approval", "ready"}
      /\ Begin(r, "reset_all", "rows", [s \in Suggestion |-> "pending"], TRUE)
  BY DEF Resets, ResetAll, CanResetReview
<1> QED BY <1>1, BeginMoves

LEMMA TakeVersionMoves == ASSUME IInv, NEW r \in Req, TakeVersion(r) PROVE Moves(r)
<1>1. CASE doc.version = req[r].base /\ req' = [req EXCEPT ![r].pc = "rows", ![r].bump = TRUE]
  <2> DEFINE q == [req[r] EXCEPT !.pc = "rows", !.bump = TRUE]
  <2>1. req[r] \in Request /\ Sound(req[r]) /\ req[r].pc = "version"
    BY DEF IInv, TypeOK, TakeVersion
  <2>2. /\ q \in Request /\ q.pc = "rows" /\ q.bump = TRUE /\ q.base = req[r].base
        /\ q.op = req[r].op /\ q.want = req[r].want /\ q.put = req[r].put
        /\ q.set = req[r].set /\ q.current = req[r].current
    BY <2>1 DEF Request
  <2>3. req' = [req EXCEPT ![r] = q] /\ req'[r] = q
    BY <1>1 DEF IInv, TypeOK
  <2> HIDE DEF q
  <2>4. Sound(q)
    BY <1>1, <2>1, <2>2 DEF Sound
  <2>5. q.set # "ready" /\ req[r].pc # "idle"
    BY <2>1, <2>2 DEF Sound
  <2> QED BY <2>2, <2>3, <2>4, <2>5 DEF Moves, TakeVersion, IInv, TypeOK
<1>2. CASE Rollback(r)
  BY <1>2, RollbackMoves DEF TakeVersion
<1> QED BY <1>1, <1>2 DEF TakeVersion

\* The rows an UPDATE matches exist, and are undecided if it decides them.
LEMMA MatchingType ==
  ASSUME IInv, NEW r \in Req, NEW s \in Matching(r)
  PROVE  /\ s \in Suggestion /\ s \in DOMAIN req[r].want
         /\ s[1] = req[r].current
         /\ sugg[s] # "absent"
         /\ req[r].op \notin Resets => sugg[s] = "pending" /\ req[r].want[s] # "pending"
         /\ req[r].op \in Resets => req[r].want[s] = "pending"
<1>1. req[r].current \in JobId /\ Sound(req[r])
  BY DEF IInv, TypeOK, Request
<1>2. s \in Suggestion /\ s \in DOMAIN req[r].want /\ s[1] = req[r].current
  BY <1>1, OfType DEF Matching
<1>3. req[r].want[s] = "pending" <=> req[r].op \in Resets
  BY <1>1, <1>2 DEF Sound
<1>4. sugg[s] \in IF req[r].want[s] = "pending" THEN Decision ELSE {"pending"}
  BY DEF Matching
<1>5. sugg[s] # "absent"
  BY <1>4 DEF Decision
<1> QED BY <1>2, <1>3, <1>4, <1>5

LEMMA UpdateRowsMoves == ASSUME IInv, NEW r \in Req, UpdateRows(r) PROVE Moves(r)
<1> DEFINE rows == Matching(r)
           put == [s \in rows |-> req[r].want[s]]
           q == [req[r] EXCEPT !.pc = AfterRows(r, rows), !.put = put]
<1>1. CASE req' = [req EXCEPT ![r].pc = AfterRows(r, rows), ![r].put = put]
  <2>1. req[r] \in Request /\ Sound(req[r]) /\ req[r].pc = "rows" /\ RowsFree(r, rows)
    BY DEF IInv, TypeOK, UpdateRows
  <2>2. /\ req[r].want \in Writes
        /\ req[r].want \in [DOMAIN req[r].want -> {"pending"} \cup Decision]
    BY <2>1, WritesDomain DEF Request
  <2>3. put \in Writes /\ DOMAIN put = rows
    <3>1. rows \in SUBSET Suggestion
      BY MatchingType
    <3>2. put \in [rows -> {"pending"} \cup Decision]
      BY <2>2, MatchingType
    <3> QED BY <3>1, <3>2, WritesType
  <2>4. AfterRows(r, rows) \in {"count", "reopen", "status", "commit"}
    BY DEF AfterRows
  <2>5. /\ q \in Request /\ q.pc = AfterRows(r, rows) /\ q.put = put
        /\ q.bump = req[r].bump /\ q.base = req[r].base
        /\ q.op = req[r].op /\ q.want = req[r].want
        /\ q.set = req[r].set /\ q.current = req[r].current
    BY <2>1, <2>3, <2>4 DEF Request
  <2>6. req' = [req EXCEPT ![r] = q] /\ req'[r] = q
    BY <1>1 DEF IInv, TypeOK
  <2>7. \A s \in DOMAIN put :
          /\ sugg[s] # "absent"
          /\ IF q.op \in Resets THEN put[s] = "pending"
             ELSE sugg[s] = "pending" /\ put[s] # "pending"
    BY <2>3, <2>5, MatchingType
  <2>8. /\ AfterRows(r, rows) = "count" => req[r].op = "save"
        /\ AfterRows(r, rows) = "reopen" => req[r].op = "reset" /\ rows # {}
        /\ AfterRows(r, rows) = "status" => req[r].op = "reset_all"
    BY DEF AfterRows
  <2> HIDE DEF q, put, rows
  <2>10. Sound(q)
    BY <2>1, <2>4, <2>5, <2>7, <2>8 DEF Sound
  <2>11. q.set # "ready" /\ req[r].pc # "idle"
    BY <2>1, <2>5 DEF Sound
  <2> QED BY <2>1, <2>3, <2>5, <2>6, <2>10, <2>11
          DEF Moves, UpdateRows, IInv, TypeOK, WritesDocument
<1>2. CASE Rollback(r)
  BY <1>2, RollbackMoves DEF UpdateRows
<1> QED BY <1>1, <1>2 DEF UpdateRows

\* A request that only moves on, or marks what it will write to the document.
LEMMA MarkMoves ==
  ASSUME IInv, NEW r \in Req, UNCHANGED <<doc, sugg, analysis, served, reopened, overrun>>,
         NEW pc \in {"rows", "commit"}, NEW set \in {"keep", "ready", "awaiting_approval"},
         req' = [req EXCEPT ![r] = [req[r] EXCEPT !.pc = pc, !.set = set]],
         pc = "rows" => req[r].op # "save", req[r].pc # "idle",
         set = "ready" => /\ req[r].op = "save" /\ pc = "commit"
                          /\ \A s \in Of(req[r].current) : sugg[s] = "pending" => s \in DOMAIN req[r].put,
         set = "awaiting_approval" => req[r].op = "reset_all" \/ doc.current = req[r].current,
         set # "keep" => WritesDocument(r) \/ DocumentFree(r)
  PROVE  Moves(r)
<1> DEFINE q == [req[r] EXCEPT !.pc = pc, !.set = set]
<1>1. req[r] \in Request /\ Sound(req[r])
  BY DEF IInv, TypeOK
<1>2. /\ q \in Request /\ q.pc = pc /\ q.set = set /\ q.put = req[r].put
      /\ q.bump = req[r].bump /\ q.base = req[r].base
      /\ q.op = req[r].op /\ q.want = req[r].want /\ q.current = req[r].current
  BY <1>1 DEF Request
<1>3. req' = [req EXCEPT ![r] = q] /\ req'[r] = q
  BY DEF IInv, TypeOK
<1> HIDE DEF q
<1>4. Sound(q)
  BY <1>1, <1>2 DEF Sound
<1> QED BY <1>2, <1>3, <1>4 DEF Moves, IInv, TypeOK, WritesDocument

LEMMA CountPendingMoves == ASSUME IInv, NEW r \in Req, CountPending(r) PROVE Moves(r)
<1>1. /\ req[r] \in Request /\ Sound(req[r]) /\ req[r].pc = "count" /\ req[r].bump
      /\ req[r].op = "save" /\ req[r].set # "ready"
  BY DEF IInv, TypeOK, CountPending, Sound
<1>2. WritesDocument(r)
  BY <1>1 DEF WritesDocument
<1>3. CASE Move(r, "commit")
  <2>1. req' = [req EXCEPT ![r] = [req[r] EXCEPT !.pc = "commit", !.set = req[r].set]]
    BY <1>1, <1>3 DEF Move, Request, IInv, TypeOK
  <2>2. req[r].set \in {"keep", "ready", "awaiting_approval"}
    BY <1>1 DEF Request
  <2>3. req[r].set = "awaiting_approval" => doc.current = req[r].current
    BY <1>1 DEF Sound
  <2> QED BY <1>1, <1>2, <2>1, <2>2, <2>3, MarkMoves DEF CountPending
<1>4. CASE Rollback(r)
  BY <1>4, RollbackMoves DEF CountPending
<1>5. CASE /\ \A s \in Of(req[r].current) : View(r)[s] # "pending"
           /\ req' = [req EXCEPT ![r].pc = "commit", ![r].set = "ready"]
  <2>1. req' = [req EXCEPT ![r] = [req[r] EXCEPT !.pc = "commit", !.set = "ready"]]
    BY <1>5
  <2>2. \A s \in Of(req[r].current) : sugg[s] = "pending" => s \in DOMAIN req[r].put
    <3>1. \A s \in Of(req[r].current) : s \in Suggestion
      BY <1>1, OfType DEF Request
    <3> QED BY <1>5, <3>1 DEF View
  <2> QED BY <1>1, <1>2, <2>1, <2>2, MarkMoves DEF CountPending
<1> QED BY <1>3, <1>4, <1>5 DEF CountPending

LEMMA ReopenMoves == ASSUME IInv, NEW r \in Req, Reopen(r) PROVE Moves(r)
<1>1. Sound(req[r]) /\ req[r].pc = "reopen" /\ DocumentFree(r)
  BY DEF IInv, Reopen
<1>2. req[r].op # "save"
  BY <1>1 DEF Sound
<1>3. CASE /\ doc.current = req[r].current
           /\ req' = [req EXCEPT ![r].pc = IF req[r].op = "reset" THEN "commit" ELSE "rows",
                                 ![r].set = "awaiting_approval"]
  <2> DEFINE pc == IF req[r].op = "reset" THEN "commit" ELSE "rows"
  <2>1. pc \in {"rows", "commit"}
    OBVIOUS
  <2>2. req' = [req EXCEPT ![r] = [req[r] EXCEPT !.pc = pc, !.set = "awaiting_approval"]]
    BY <1>3
  <2> HIDE DEF pc
  <2> QED BY <1>1, <1>2, <1>3, <2>1, <2>2, MarkMoves DEF Reopen
<1>4. CASE Rollback(r)
  BY <1>4, RollbackMoves DEF Reopen
<1> QED BY <1>3, <1>4 DEF Reopen

LEMMA WriteStatusMoves == ASSUME IInv, NEW r \in Req, WriteStatus(r) PROVE Moves(r)
<1>1. /\ Sound(req[r]) /\ req[r].pc = "status" /\ DocumentFree(r)
      /\ req' = [req EXCEPT ![r] = [req[r] EXCEPT !.pc = "commit", !.set = "awaiting_approval"]]
  BY DEF IInv, WriteStatus
<1>2. req[r].op = "reset_all"
  BY <1>1 DEF Sound
<1> QED BY <1>1, <1>2, MarkMoves DEF WriteStatus

-----------------------------------------------------------------------------
(* The steps that change committed rows.                                   *)

\* A commit never touches what another transaction has locked.
LEMMA CommitKeeps == ASSUME IInv, NEW r \in Req, Commit(r) PROVE IInv'
<1>1. /\ req[r] \in Request /\ Sound(req[r]) /\ doc \in Document
      /\ sugg \in [Suggestion -> {"absent", "pending"} \cup Decision]
  BY DEF IInv, TypeOK
<1>2. /\ DOMAIN req[r].put \subseteq Suggestion
      /\ req[r].put \in [DOMAIN req[r].put -> {"pending"} \cup Decision]
  BY <1>1, WritesDomain DEF Request
<1>3. /\ req' \in [Req -> Request] /\ req'[r] = Idle /\ \A q \in Req \ {r} : req'[q] = req[q]
      /\ analysis' = analysis /\ served' = served
      /\ overrun' = IF Overruns(r) THEN overrun \cup {doc.current} ELSE overrun
  BY IdleType DEF Commit, Rollback, IInv, TypeOK
<1>4. /\ sugg' \in [Suggestion -> {"absent", "pending"} \cup Decision]
      /\ \A s \in Suggestion : s \notin DOMAIN req[r].put => sugg'[s] = sugg[s]
      /\ \A s \in Suggestion : sugg'[s] # "absent" => sugg[s] # "absent"
  BY <1>1, <1>2 DEF Commit, View, Sound
<1>5. doc' = [doc EXCEPT !.status = IF req[r].set = "keep" THEN @ ELSE req[r].set,
                         !.version = IF req[r].bump THEN @ + 1 ELSE @]
  BY DEF Commit
<1>6. /\ doc' \in Document /\ doc'.current = doc.current
      /\ doc'.status = IF req[r].set = "keep" THEN doc.status ELSE req[r].set
      /\ ~req[r].bump => doc'.version = doc.version
  <2> DEFINE status == IF req[r].set = "keep" THEN doc.status ELSE req[r].set
             version == IF req[r].bump THEN doc.version + 1 ELSE doc.version
  <2>1. status \in DocumentStatus
    BY <1>1 DEF Document, Request, DocumentStatus
  <2>2. version \in Nat /\ (~req[r].bump => version = doc.version)
    BY <1>1 DEF Document
  <2>3. doc' = [doc EXCEPT !.status = status, !.version = version]
    BY <1>1, <1>5 DEF Document
  <2> HIDE DEF status, version
  <2>4. doc' \in Document /\ doc'.current = doc.current /\ doc'.status = status /\ doc'.version = version
    BY <1>1, <2>1, <2>2, <2>3 DEF Document
  <2> QED BY <2>2, <2>4 DEF status
<1>7. TypeOK'
  <2>1. reopened' \in BOOLEAN
    BY DEF Commit, IInv, TypeOK
  <2>2. overrun' \subseteq JobId
    BY <1>1, <1>3 DEF IInv, TypeOK, Document
  <2> QED BY <1>3, <1>4, <1>6, <2>1, <2>2 DEF IInv, TypeOK
<1>13. FirstReview'
  <2> SUFFICES ASSUME ~reopened' PROVE FirstReview'
    BY DEF FirstReview
  <2>1. ~reopened /\ (req[r].op \in Resets => DOMAIN req[r].put = {})
    BY DEF Commit, Resets
  <2>2. /\ doc.status \in {"awaiting_approval", "ready"} /\ analysis[doc.current] = "done"
        /\ \A j \in JobId : analysis[j] \in {"done", "none"}
        /\ \A q \in Req :
             /\ req[q].pc # "idle" => req[q].current = doc.current
             /\ req[q].set = "ready" =>
                  \A s \in Of(doc.current) : sugg[s] = "pending" => s \in DOMAIN req[q].put
        /\ doc.status = "ready" => \A s \in Of(doc.current) : sugg[s] # "pending"
    BY <2>1 DEF IInv, FirstReview, ReadyUnlessReopened
  <2>3. \A s \in DOMAIN req[r].put : req[r].put[s] # "pending"
    BY <1>1, <2>1 DEF Sound
  <2>4. \A s \in Suggestion :
          sugg'[s] = "pending" => sugg[s] = "pending" /\ s \notin DOMAIN req[r].put
    BY <2>3 DEF Commit, View
  <2>5. \A s \in Of(doc.current) : s \in Suggestion
    BY <1>1, OfType DEF Document
  <2>6. req[r].set \in {"keep", "ready", "awaiting_approval"}
    BY <1>1 DEF Request
  <2>7. doc'.status = "ready" => \A s \in Of(doc.current) : sugg'[s] # "pending"
    BY <1>6, <2>2, <2>4, <2>5
  <2>8. \A q \in Req :
          /\ req'[q].pc # "idle" => req'[q].current = doc.current
          /\ req'[q].set = "ready" =>
               \A s \in Of(doc.current) : sugg'[s] = "pending" => s \in DOMAIN req'[q].put
    <3>1. Idle.pc = "idle" /\ Idle.set = "keep"
      BY DEF Idle
    <3> QED BY <1>3, <2>2, <2>4, <2>5, <3>1
  <2> QED BY <1>3, <1>6, <2>2, <2>6, <2>7, <2>8 DEF FirstReview, ReadyUnlessReopened
<1>8. Locks'
  <2>1. ~WritesDocument(r)' /\ DOMAIN req'[r].put = {}
    BY <1>3, IdleType DEF WritesDocument, Idle
  <2>2. \A p, q \in Req : WritesDocument(p)' /\ WritesDocument(q)' => p = q
    BY <1>3, <2>1 DEF IInv, Locks, WritesDocument
  <2>3. \A p, q \in Req : \A s \in Suggestion :
          s \in DOMAIN req'[p].put /\ s \in DOMAIN req'[q].put => p = q
    BY <1>3, <2>1 DEF IInv, Locks
  <2> QED BY <2>2, <2>3 DEF Locks
<1>14. \A j : Reviewable(j) => Reviewable(j)'
  BY <1>3 DEF Reviewable
<1>9. Stored'
  <2>1. req[r].set \in {"keep", "ready", "awaiting_approval"}
    BY <1>1 DEF Request
  <2>2. ASSUME req[r].set # "keep" PROVE Reviewable(doc.current)'
    <3>1. req[r].pc # "idle" /\ (req[r].set = "ready" => req[r].op = "save")
      BY <1>1 DEF Sound, Commit
    <3>2. CASE doc.current = req[r].current
      <4>1. Reviewable(doc.current)
        BY <1>1, <3>1, <3>2 DEF Sound
      <4> QED BY <1>6, <1>14, <4>1
    <3>3. CASE doc.current # req[r].current
      <4>1. Overruns(r)
        BY <1>1, <2>1, <2>2, <3>1, <3>3 DEF Sound, Overruns
      <4> QED BY <1>3, <1>6, <4>1 DEF Reviewable
    <3> QED BY <3>2, <3>3
  <2> QED BY <1>3, <1>6, <1>14, <2>1, <2>2 DEF IInv, Stored, Reviewable
<1>10. ASSUME NEW q \in Req \ {r} PROVE Sound(req[q])'
  <2>1. req[q] \in Request /\ Sound(req[q]) /\ req'[q] = req[q]
    BY <1>3 DEF IInv, TypeOK
  <2>2. DOMAIN req[q].put \subseteq Suggestion
    BY <2>1, WritesDomain DEF Request
  <2>3. \A s \in DOMAIN req[q].put : sugg'[s] = sugg[s]
    BY <1>4, <2>2 DEF IInv, Locks
  <2>4. req[q].bump => doc'.version = doc.version
    BY <1>6 DEF IInv, Locks, WritesDocument
  <2>5. Reviewable(req[q].current) => Reviewable(req[q].current)'
    BY <1>14, <2>1
  <2> QED BY <1>3, <1>6, <2>1, <2>3, <2>4, <2>5 DEF Sound
<1>11. Sound(req[r])'
  BY <1>3, IdleType DEF Sound, Idle
<1>12. (\A q \in Req : Sound(req[q]))'
  BY <1>10, <1>11
<1> QED BY <1>7, <1>8, <1>9, <1>12, <1>13 DEF IInv

\* What a step of an analysis leaves alone; if it writes the document, nobody else does.
Analyses ==
  /\ doc' \in Document /\ doc'.version = doc.version /\ UNCHANGED <<req, served, overrun>>
  /\ reopened' \in BOOLEAN
  /\ doc' = doc \/ \A r \in Req : ~WritesDocument(r)
  /\ analysis' \in [JobId -> Progress] /\ \A j \in JobId : Reviewable(j) => Reviewable(j)'
  /\ sugg' \in [Suggestion -> {"absent", "pending"} \cup Decision]
  /\ \A s \in Suggestion : sugg[s] # "absent" => sugg'[s] = sugg[s]
  /\ Stored' /\ FirstReview'

LEMMA AnalysesKeep == ASSUME IInv, Analyses PROVE IInv'
<1>1. TypeOK'
  BY DEF IInv, TypeOK, Analyses
<1>2. Locks'
  BY DEF IInv, Locks, Analyses, WritesDocument
<1>3. ASSUME NEW q \in Req PROVE Sound(req[q])'
  <2>1. req[q] \in Request /\ Sound(req[q]) /\ req'[q] = req[q]
    BY DEF IInv, TypeOK, Analyses
  <2>2. DOMAIN req[q].put \subseteq Suggestion
    BY <2>1, WritesDomain DEF Request
  <2>3. \A s \in DOMAIN req[q].put : sugg'[s] = sugg[s]
    BY <2>1, <2>2 DEF Sound, Analyses
  <2>4. doc' = doc \/ (~req[q].bump /\ req[q].set = "keep")
    BY DEF Analyses, WritesDocument
  <2>5. Reviewable(req[q].current) => Reviewable(req[q].current)'
    BY <2>1 DEF Request, Analyses
  <2> QED BY <2>1, <2>3, <2>4, <2>5 DEF Sound
<1> QED BY <1>1, <1>2, <1>3 DEF IInv, Analyses

\* An analysis that goes on, and a document that follows it.
LEMMA ProgressAnalyses ==
  ASSUME IInv, NEW j \in JobId, NEW progress \in Progress, ~Reviewable(j) \/ progress = "done" \/ j \in overrun,
         analysis' = [analysis EXCEPT ![j] = progress],
         doc' \in Document, doc'.version = doc.version, doc'.current \in {doc.current, j},
         doc'.current >= doc.current, j <= doc'.current,
         doc'.status \in {"awaiting_approval", "ready"} => j = doc'.current /\ progress = "done",
         UNCHANGED <<sugg, req, served, overrun>>, reopened', Unlocked
  PROVE  Analyses
<1>1. analysis \in [JobId -> Progress] /\ doc \in Document
  BY DEF IInv, TypeOK
<1>2. /\ analysis' \in [JobId -> Progress] /\ analysis'[j] = progress
      /\ \A i \in JobId : i # j => analysis'[i] = analysis[i]
  BY <1>1
<1>3. \A i \in JobId : Reviewable(i) => Reviewable(i)'
  BY <1>2 DEF Reviewable
<1>4. Stored'
  <2>1. doc'.status \in {"awaiting_approval", "ready"} => Reviewable(doc.current)'
    BY <1>2 DEF Reviewable
  <2>2. ASSUME NEW i \in JobId, i > doc'.current PROVE analysis'[i] = "none"
    <3>1. doc.current \in Nat /\ doc'.current \in Nat /\ i \in Nat
      BY <1>1 DEF Document, JobId
    <3>2. i > doc.current /\ i # j
      BY <2>2, <3>1 DEF JobId
    <3> QED BY <1>2, <3>2 DEF IInv, Stored
  <2> QED BY <2>1, <2>2 DEF Stored, Reviewable
<1> QED BY <1>2, <1>3, <1>4 DEF Analyses, IInv, TypeOK, FirstReview, Unlocked

\* While nothing has been reopened no analysis runs, is to run or has failed.
LEMMA QuietUntilReopened ==
  ASSUME IInv, NEW j \in JobId, analysis[j] \in {"pending", "running", "failed"}
  PROVE  reopened
BY DEF IInv, FirstReview

LEMMA CurrentType == ASSUME IInv PROVE doc \in Document /\ doc.current \in JobId /\ doc.current \in Nat
BY DEF IInv, TypeOK, Document, JobId

LEMMA RestartAnalyses == ASSUME IInv, Restart PROVE Analyses
<1>1. doc \in Document /\ doc.current \in 1..MaxJobs /\ doc.current < MaxJobs
  BY DEF IInv, TypeOK, Document, Restart, JobId
<1>2. doc.current + 1 \in JobId /\ doc.current + 1 > doc.current
  BY <1>1, ReviewAssumption DEF JobId
<1>3. /\ doc' \in Document /\ doc'.version = doc.version /\ doc'.status = "draft"
      /\ doc'.current = doc.current + 1
  BY <1>1, <1>2 DEF Restart, Document, DocumentStatus
<1>4. analysis[doc.current + 1] # "done"
  BY <1>2 DEF IInv, Stored
<1>5. "pending" \in Progress
  BY DEF Progress
<1>6. /\ analysis' = [analysis EXCEPT ![doc.current + 1] = "pending"] /\ reopened'
      /\ UNCHANGED <<sugg, req, served, overrun>> /\ Unlocked
  BY DEF Restart
<1>7. doc'.current >= doc.current /\ doc.current + 1 <= doc'.current
  BY <1>1, <1>3
<1>8. ~Reviewable(doc.current + 1) \/ doc.current + 1 \in overrun
  BY <1>4 DEF Reviewable
<1> QED BY <1>2, <1>3, <1>5, <1>6, <1>7, <1>8, ProgressAnalyses

\* The steps that move the current analysis on.
LEMMA CurrentAnalyses ==
  ASSUME IInv, Dispatch \/ Finish \/ Fail
  PROVE  Analyses
<1>1. doc \in Document /\ doc.current \in JobId /\ doc.current \in Nat
  BY CurrentType
<1>2. PICK progress \in Progress, status \in DocumentStatus :
        /\ doc' = [doc EXCEPT !.status = status]
        /\ analysis' = [analysis EXCEPT ![doc.current] = progress]
        /\ status \in {"awaiting_approval", "ready"} => progress = "done"
  <2>1. CASE Dispatch
    BY <2>1 DEF Dispatch, Progress, DocumentStatus
  <2>2. CASE Finish
    BY <2>2 DEF Finish, Progress, DocumentStatus, DocumentStatusFor
  <2>3. CASE Fail
    BY <2>3 DEF Fail, Progress, DocumentStatus
  <2> QED BY <2>1, <2>2, <2>3
<1>3. /\ doc' \in Document /\ doc'.version = doc.version /\ doc'.current = doc.current
      /\ doc'.status = status
  BY <1>1, <1>2 DEF Document
<1>4. analysis[doc.current] \in {"pending", "running"}
  BY DEF Dispatch, Finish, Fail, Active
<1>5. UNCHANGED <<sugg, req, served, overrun, reopened>> /\ Unlocked
  BY DEF Dispatch, Finish, Fail
<1>6. reopened'
  BY <1>1, <1>4, <1>5, QuietUntilReopened
<1>7. ~Reviewable(doc.current) \/ doc.current \in overrun
  BY <1>4 DEF Reviewable
<1>8. doc'.current >= doc.current /\ doc.current <= doc'.current
  BY <1>1, <1>3
<1> QED BY <1>1, <1>2, <1>3, <1>5, <1>6, <1>7, <1>8, ProgressAnalyses

LEMMA FindAnalyses == ASSUME IInv, NEW j \in JobId, Find(j) PROVE Analyses
<1>1. PICK found \in SUBSET {s \in Of(j) : sugg[s] = "absent"} \ {{}} :
        sugg' = [s \in Suggestion |-> IF s \in found THEN "pending" ELSE sugg[s]]
  BY DEF Find
<1>2. /\ sugg' \in [Suggestion -> {"absent", "pending"} \cup Decision]
      /\ \A s \in Suggestion : sugg[s] # "absent" => sugg'[s] = sugg[s]
  BY <1>1 DEF IInv, TypeOK
<1>3. reopened /\ UNCHANGED <<doc, analysis, req, served, reopened, overrun>>
  BY QuietUntilReopened DEF Find
<1>4. Stored' /\ FirstReview'
  BY <1>3 DEF IInv, Stored, Reviewable, FirstReview
<1> QED BY <1>2, <1>3, <1>4 DEF Analyses, IInv, TypeOK, Reviewable

-----------------------------------------------------------------------------
(* The theorems.                                                           *)

\* A step belongs to one request, commits one, or belongs to an analysis.
LEMMA StepShape ==
  ASSUME IInv, Next
  PROVE  (\E r \in Req : Moves(r) \/ Commit(r)) \/ Analyses
<1>1. ASSUME NEW r \in Req,
             \/ Save(r) \/ Decide(r) \/ Reset(r) \/ ResetOne(r) \/ ResetAll(r)
             \/ TakeVersion(r) \/ UpdateRows(r) \/ CountPending(r) \/ Reopen(r) \/ WriteStatus(r)
             \/ Commit(r) \/ Abort(r)
      PROVE  Moves(r) \/ Commit(r)
  <2>1. CASE Abort(r)
    BY <2>1, RollbackMoves DEF Abort
  <2> QED BY <1>1, <2>1, SaveMoves, DecideMoves, ResetMoves, ResetOneMoves, ResetAllMoves,
             TakeVersionMoves, UpdateRowsMoves, CountPendingMoves, ReopenMoves, WriteStatusMoves
<1> QED BY <1>1, RestartAnalyses, CurrentAnalyses, FindAnalyses DEF Next

LEMMA InitInvariant == Init => IInv
<1> SUFFICES ASSUME Init PROVE IInv
  OBVIOUS
<1>1. 1 \in JobId
  BY ReviewAssumption DEF JobId
<1>2. TypeOK
  <2>1. reopened \in BOOLEAN
    BY DEF Init
  <2> QED BY <1>1, <2>1, IdleType, ReviewAssumption
          DEF Init, TypeOK, Document, DocumentStatus, Progress
<1>3. \A r \in Req : ~WritesDocument(r) /\ DOMAIN req[r].put = {} /\ Sound(req[r])
  BY IdleType, IdleSound DEF Init, WritesDocument, Idle
<1>4. Stored
  BY <1>1 DEF Init, Stored, Reviewable, JobId
<1>5. FirstReview
  BY <1>1 DEF Init, FirstReview, ReadyUnlessReopened, Idle
<1> QED BY <1>2, <1>3, <1>4, <1>5 DEF IInv, Locks

LEMMA Inductive == IInv /\ [Next]_vars => IInv'
<1>1. ASSUME IInv, Next PROVE IInv'
  BY <1>1, StepShape, MovesKeeps, CommitKeeps, AnalysesKeep
<1>2. ASSUME IInv, UNCHANGED vars PROVE IInv'
  BY <1>2 DEF vars, IInv, TypeOK, Locks, Stored, Sound, WritesDocument, Reviewable,
              FirstReview, ReadyUnlessReopened
<1> QED BY <1>1, <1>2

LEMMA Invariant == Spec => []IInv
BY InitInvariant, Inductive, PTL DEF Spec

\* Rows and requests keep their types, and a client without a request holds neither a lock
\* nor an uncommitted write.
THEOREM TypeCorrect == Spec => []TypeOK
<1>1. IInv => TypeOK
  BY DEF IInv
<1> QED BY <1>1, Invariant, PTL

\* From the check of the version of a review to its commit no other save is committed, for
\* any number of reviewers: the optimistic lock of atomic_review_save.
THEOREM VersionIsHeld == Spec => []SaveHoldsItsVersion
<1>1. IInv => SaveHoldsItsVersion
  BY DEF IInv, Sound, SaveHoldsItsVersion
<1> QED BY <1>1, Invariant, PTL

\* A document that awaits approval shows suggestions of an analysis that has ended well,
\* whichever of a reset and a new analysis commits first and however the analysis ends: the
\* condition of _reopen_review.  The exceptions are the analyses over which a save that
\* finalises or a reset_analysis has written, without a condition, the status of an earlier
\* one.
THEOREM AwaitsFinishedAnalysis == Spec => []AwaitingIsAnalysed
<1>1. IInv => AwaitingIsAnalysed
  BY DEF IInv, Stored, Reviewable, AwaitingIsAnalysed
<1> QED BY <1>1, Invariant, PTL

\* A document becomes ready only with every decision taken, for any number of reviewers who
\* save at once: the count of atomic_review_save under the lock of the version.  It holds
\* until a reset is committed or a new analysis started, and fails after that.
THEOREM ReadyIsDecided == Spec => []ReadyUnlessReopened
<1>1. IInv => ReadyUnlessReopened
  BY DEF IInv, FirstReview, ReadyUnlessReopened
<1> QED BY <1>1, Invariant, PTL

\* Only a reset changes a decision, and only back to pending: the WHERE clauses of the bulk
\* updates of suggestions.
LEMMA StepKeepsDecisions ==
  ASSUME IInv, [Next]_vars, NEW s \in Suggestion, sugg[s] \in Decision, sugg'[s] # sugg[s]
  PROVE  /\ sugg'[s] = "pending"
         /\ \E r \in Req : req[r].op \in Resets /\ s \in DOMAIN req[r].put
<1>1. CASE UNCHANGED vars
  BY <1>1 DEF vars
<1>2. ASSUME NEW r \in Req, Moves(r) PROVE FALSE
  BY <1>2 DEF Moves
<1>3. CASE Analyses
  BY <1>3 DEF Analyses, Decision
<1>4. ASSUME NEW r \in Req, Commit(r)
      PROVE  /\ sugg'[s] = "pending"
             /\ req[r].op \in Resets /\ s \in DOMAIN req[r].put
  <2>1. Sound(req[r]) /\ sugg[s] # "pending"
    BY DEF IInv, Decision
  <2>2. sugg'[s] = IF s \in DOMAIN req[r].put THEN req[r].put[s] ELSE sugg[s]
    BY <1>4 DEF Commit, View
  <2> QED BY <2>1, <2>2 DEF Sound, Resets
<1> QED BY <1>1, <1>2, <1>3, <1>4, StepShape

THEOREM DecisionsAreKept == Spec => DecisionsStick
<1>1. IInv /\ [Next]_vars =>
        [\A s \in Suggestion :
           sugg[s] \in Decision /\ sugg'[s] # sugg[s] =>
             /\ sugg'[s] = "pending"
             /\ \E r \in Req : req[r].op \in Resets /\ s \in DOMAIN req[r].put]_vars
  BY StepKeepsDecisions
<1> QED BY <1>1, Invariant, PTL DEF Spec, DecisionsStick

-----------------------------------------------------------------------------
(* Each commit is one operation of ReviewLedger.                           *)

\* What a request holds until its commit: the rows it takes back are decided and of the
\* analysis it has loaded, a review it reopens is finished and has lost a decision, and it
\* takes the version exactly if it is a save.
Held(q) ==
  /\ q.bump => q.op = "save"
  /\ q.op = "save" /\ q.pc = "commit" => q.bump
  /\ \A s \in DOMAIN q.put : s[1] = q.current
  /\ q.op \in Resets => \A s \in DOMAIN q.put : sugg[s] \in Decision
  /\ q.pc = "reopen" \/ q.set = "awaiting_approval" => q.op \in Resets
  /\ q.set = "awaiting_approval" /\ q.op # "reset_all" => doc.status = "ready"
  /\ q.op = "reset_one" => DOMAIN q.want # {} /\ ~q.all
  /\ q.op \in {"reset", "reset_all"} /\ q.pc = "rows" => q.set = "keep"
  /\ \/ q.op = "reset" /\ q.pc = "reopen"
     \/ q.set = "awaiting_approval" /\ q.pc = "commit" /\ q.op # "reset_all"
     => DOMAIN q.put # {}

AllHeld == \A r \in Req : Held(req[r])

LEMMA FreshHeld ==
  ASSUME NEW q, q.put = Nothing, q.set = "keep", q.bump = FALSE, q.pc # "commit",
         q.pc = "reopen" => q.op = "reset_one",
         q.op = "reset_one" => DOMAIN q.want # {} /\ ~q.all
  PROVE  Held(q)
<1>1. DOMAIN q.put = {}
  BY DEF Nothing
<1> QED BY <1>1 DEF Held, Resets

LEMMA IdleHeld == Held(Idle)
<1>1. /\ Idle.put = Nothing /\ Idle.set = "keep" /\ Idle.pc = "idle" /\ Idle.op = "save"
      /\ Idle.bump = FALSE
  BY DEF Idle
<1> QED BY <1>1, FreshHeld

\* A client's request moves, and holds what it must.
LEMMA MoveHolds ==
  ASSUME IInv, AllHeld, NEW r \in Req, Moves(r), Held(req'[r])
  PROVE  AllHeld'
<1>1. \A q \in Req \ {r} : req'[q] = req[q]
  BY DEF Moves, IInv, TypeOK
<1> QED BY <1>1 DEF AllHeld, Held, Moves

LEMMA RollbackHolds ==
  ASSUME IInv, NEW r \in Req, Rollback(r)
  PROVE  Held(req'[r])
<1>1. req'[r] = Idle
  BY DEF Rollback, IInv, TypeOK
<1> QED BY <1>1, IdleHeld

LEMMA BeginHolds ==
  ASSUME IInv, NEW r \in Req, NEW op, NEW pc, NEW want, NEW all, Begin(r, op, pc, want, all),
         pc \notin {"commit", "status"}, pc = "reopen" => op = "reset_one", op = "reset_one" => DOMAIN want # {} /\ ~all
  PROVE  Held(req'[r])
<1> DEFINE q == [Idle EXCEPT !.pc = pc, !.op = op, !.want = want, !.all = all,
                             !.status = doc.status, !.current = doc.current]
<1>1. req'[r] = q
  BY DEF Begin, IInv, TypeOK
<1>2. /\ q.put = Nothing /\ q.set = "keep" /\ q.bump = FALSE
      /\ q.pc = pc /\ q.op = op /\ q.want = want /\ q.all = all
  BY DEF Idle
<1> HIDE DEF q
<1> QED BY <1>1, <1>2, FreshHeld

LEMMA SaveHolds == ASSUME IInv, NEW r \in Req, Save(r) PROVE Held(req'[r])
<1>1. PICK base \in 0..doc.version, ids \in Named, final \in BOOLEAN :
        \E want \in [ids -> Decision] :
          req' = [req EXCEPT ![r] = [Idle EXCEPT !.pc = "version", !.op = "save", !.base = base,
                                  !.want = want, !.final = final,
                                  !.status = doc.status, !.current = doc.current]]
  BY DEF Save
<1>2. PICK want \in [ids -> Decision] :
          req' = [req EXCEPT ![r] = [Idle EXCEPT !.pc = "version", !.op = "save", !.base = base,
                                  !.want = want, !.final = final,
                                  !.status = doc.status, !.current = doc.current]]
  BY <1>1
<1> DEFINE q == [Idle EXCEPT !.pc = "version", !.op = "save", !.base = base, !.want = want,
                             !.final = final, !.status = doc.status, !.current = doc.current]
<1>3. req'[r] = q
  BY <1>2 DEF IInv, TypeOK
<1>4. q.put = Nothing /\ q.set = "keep" /\ q.bump = FALSE /\ q.pc = "version" /\ q.op = "save"
  BY DEF Idle
<1> HIDE DEF q
<1> QED BY <1>3, <1>4, FreshHeld

LEMMA BeginningsHold ==
  ASSUME IInv, NEW r \in Req, Decide(r) \/ Reset(r) \/ ResetOne(r) \/ ResetAll(r)
  PROVE  Held(req'[r])
<1>1. CASE Decide(r)
  <2>1. PICK want, all : Begin(r, "decide", "rows", want, all)
    BY <1>1 DEF Decide
  <2> QED BY <2>1, BeginHolds
<1>2. CASE Reset(r)
  <2>1. PICK want, all : Begin(r, "reset", "rows", want, all)
    BY <1>2 DEF Reset
  <2> QED BY <2>1, BeginHolds
<1>3. CASE ResetOne(r)
  <2>1. PICK s, pc : /\ pc \in {"reopen", "rows"}
                     /\ Begin(r, "reset_one", pc, [t \in {s} |-> "pending"], FALSE)
    BY <1>3 DEF ResetOne
  <2>2. DOMAIN [t \in {s} |-> "pending"] # {}
    OBVIOUS
  <2> QED BY <2>1, <2>2, BeginHolds
<1>4. CASE ResetAll(r)
  <2>1. PICK want, all : Begin(r, "reset_all", "rows", want, all)
    BY <1>4 DEF ResetAll
  <2> QED BY <2>1, BeginHolds
<1> QED BY <1>1, <1>2, <1>3, <1>4

LEMMA SaveStepsHold ==
  ASSUME IInv, AllHeld, NEW r \in Req, TakeVersion(r) \/ CountPending(r)
  PROVE  Held(req'[r])
<1>1. Held(req[r]) /\ Sound(req[r]) /\ req[r] \in Request /\ req[r].pc \in {"version", "count"}
  BY DEF AllHeld, IInv, TypeOK, TakeVersion, CountPending
<1>2. req[r].op \notin Resets /\ req[r].op = "save" /\ req[r].set # "awaiting_approval"
  BY <1>1 DEF Sound, Held, Resets
<1>3. CASE Rollback(r)
  BY <1>3, RollbackHolds
<1>4. ASSUME ~Rollback(r)
      PROVE  /\ req'[r].pc # "reopen" /\ req'[r].set # "awaiting_approval"
             /\ req'[r].op = "save" /\ req'[r].put = req[r].put /\ req'[r].current = req[r].current
             /\ req'[r].pc = "commit" => req'[r].bump
  BY <1>1, <1>2, <1>4 DEF TakeVersion, CountPending, Move, IInv, TypeOK, Request, Sound
<1> QED BY <1>1, <1>2, <1>3, <1>4 DEF Held, Resets

LEMMA ReopenHolds ==
  ASSUME IInv, AllHeld, NEW r \in Req, Reopen(r)
  PROVE  Held(req'[r])
<1>1. Held(req[r]) /\ req[r] \in Request /\ req[r].pc = "reopen"
  BY DEF AllHeld, IInv, TypeOK, Reopen
<1>2. CASE Rollback(r)
  BY <1>2, RollbackHolds
<1>3. CASE /\ doc.status = "ready"
           /\ req' = [req EXCEPT ![r].pc = IF req[r].op = "reset" THEN "commit" ELSE "rows",
                                 ![r].set = "awaiting_approval"]
  <2>1. /\ req'[r].pc = IF req[r].op = "reset" THEN "commit" ELSE "rows"
        /\ req'[r].set = "awaiting_approval" /\ req'[r].op = req[r].op /\ req'[r].put = req[r].put
        /\ req'[r].want = req[r].want /\ req'[r].all = req[r].all
        /\ req'[r].current = req[r].current /\ req'[r].bump = req[r].bump
    BY <1>1, <1>3 DEF IInv, TypeOK, Request
  <2>2. doc' = doc /\ sugg' = sugg
    BY DEF Reopen
  <2>3. /\ req[r].op \in Resets \ {"reset_all"} /\ req[r].op # "save" /\ ~req[r].bump
        /\ req[r].op = "reset" => DOMAIN req[r].put # {}
    BY <1>1 DEF Held, Resets, AllHeld, IInv, Sound
  <2>4. \A s \in DOMAIN req'[r].put : s[1] = req'[r].current /\ sugg[s] \in Decision
    BY <1>1, <2>1, <2>3 DEF Held
  <2>5. /\ req'[r].op = "reset_one" => DOMAIN req'[r].want # {} /\ ~req'[r].all
        /\ req'[r].op = "reset" => req'[r].pc = "commit" /\ DOMAIN req'[r].put # {}
        /\ req'[r].pc = "commit" => req'[r].op = "reset"
        /\ ~req'[r].bump
    BY <1>1, <2>1, <2>3 DEF Held, Resets
  <2> QED BY <1>3, <2>1, <2>3, <2>4, <2>5 DEF Held, Resets
<1> QED BY <1>2, <1>3 DEF Reopen

LEMMA WriteStatusHolds ==
  ASSUME IInv, AllHeld, NEW r \in Req, WriteStatus(r)
  PROVE  Held(req'[r])
<1>1. Held(req[r]) /\ Sound(req[r]) /\ req[r] \in Request /\ req[r].op = "reset_all"
  BY DEF AllHeld, IInv, TypeOK, WriteStatus, Sound
<1>2. /\ req'[r].pc = "commit" /\ req'[r].set = "awaiting_approval" /\ req'[r].op = req[r].op
      /\ req'[r].put = req[r].put /\ req'[r].current = req[r].current
      /\ req'[r].bump = req[r].bump
  BY <1>1 DEF IInv, TypeOK, Request, WriteStatus
<1> QED BY <1>1, <1>2 DEF Held, Resets

LEMMA UpdateRowsHolds ==
  ASSUME IInv, AllHeld, NEW r \in Req, UpdateRows(r)
  PROVE  Held(req'[r])
<1> DEFINE rows == Matching(r)
           put == [s \in rows |-> req[r].want[s]]
<1>1. /\ Held(req[r]) /\ Sound(req[r]) /\ req[r] \in Request /\ req[r].pc = "rows"
  BY DEF AllHeld, IInv, TypeOK, UpdateRows
<1>2. CASE Rollback(r)
  BY <1>2, RollbackHolds
<1>3. CASE /\ req[r].all \/ rows = DOMAIN req[r].want
           /\ req' = [req EXCEPT ![r].pc = AfterRows(r, rows), ![r].put = put]
  <2>1. /\ req'[r].pc = AfterRows(r, rows) /\ req'[r].put = put /\ req'[r].set = req[r].set
        /\ req'[r].op = req[r].op /\ req'[r].want = req[r].want /\ req'[r].all = req[r].all
        /\ req'[r].current = req[r].current /\ req'[r].bump = req[r].bump
    BY <1>1, <1>3 DEF IInv, TypeOK, Request
  <2>2. DOMAIN put = rows
    OBVIOUS
  <2>3. \A s \in rows : /\ s[1] = req[r].current
                        /\ req[r].op \in Resets => sugg[s] \in Decision
    <3>1. ASSUME NEW s \in rows, req[r].op \in Resets PROVE sugg[s] \in Decision
      <4>1. req[r].want[s] = "pending"
        BY <3>1, MatchingType
      <4> QED BY <4>1 DEF Matching
    <3> QED BY <3>1, MatchingType
  <2>4. /\ AfterRows(r, rows) = "reopen" => req[r].op = "reset" /\ rows # {}
        /\ AfterRows(r, rows) \in {"count", "reopen", "status", "commit"}
        /\ req[r].op = "save" => AfterRows(r, rows) # "commit"
    BY <1>1 DEF AfterRows, Request
  <2>5. req[r].op = "reset_one" => rows # {}
    BY <1>1, <1>3 DEF Held
  <2>6. req[r].set = "awaiting_approval" => req[r].op = "reset_one"
    BY <1>1 DEF Held, Resets
  <2> HIDE DEF rows, put
  <2> QED BY <1>1, <2>1, <2>2, <2>3, <2>4, <2>5, <2>6 DEF Held, Resets
<1> QED BY <1>2, <1>3 DEF UpdateRows

\* A commit changes no row another request has locked.
LEMMA CommitHolds == ASSUME IInv, AllHeld, NEW r \in Req, Commit(r) PROVE AllHeld'
<1>1. req'[r] = Idle /\ \A q \in Req \ {r} : req'[q] = req[q]
  BY DEF Commit, Rollback, IInv, TypeOK
<1>2. \A s \in Suggestion : s \notin DOMAIN req[r].put => sugg'[s] = sugg[s]
  BY DEF Commit, View
<1>3. req[r].set = "keep" => doc'.status = doc.status
  BY DEF Commit, IInv, TypeOK, Document
<1>4. ASSUME NEW q \in Req \ {r} PROVE Held(req[q])'
  <2>1. Held(req[q]) /\ req[q] \in Request /\ req'[q] = req[q]
    BY <1>1 DEF AllHeld, IInv, TypeOK
  <2>2. \A s \in DOMAIN req[q].put : s \in Suggestion /\ s \notin DOMAIN req[r].put
    BY <2>1, WritesDomain DEF IInv, Locks, Request
  <2>3. req[q].set = "awaiting_approval" => doc'.status = doc.status
    BY <2>1, <1>3 DEF IInv, Locks, WritesDocument
  <2> QED BY <1>2, <2>1, <2>2, <2>3 DEF Held
<1>5. Held(req[r])'
  <2>1. /\ Idle.put = Nothing /\ Idle.set = "keep" /\ Idle.pc = "idle" /\ Idle.op = "save"
        /\ Idle.bump = FALSE
    BY DEF Idle
  <2>2. DOMAIN Idle.put = {}
    BY <2>1 DEF Nothing
  <2> QED BY <1>1, <2>1, <2>2 DEF Held, Resets
<1> QED BY <1>4, <1>5 DEF AllHeld

LEMMA AnalysesHold == ASSUME IInv, AllHeld, Analyses PROVE AllHeld'
<1> SUFFICES ASSUME NEW q \in Req PROVE Held(req[q])'
  BY DEF AllHeld
<1>1. /\ Held(req[q]) /\ Sound(req[q]) /\ req[q] \in Request /\ req'[q] = req[q]
      /\ req[q].set = "keep" \/ doc' = doc
  BY DEF AllHeld, IInv, TypeOK, Analyses, WritesDocument
<1>2. \A s \in DOMAIN req[q].put : sugg'[s] = sugg[s]
  BY <1>1, WritesDomain DEF Request, Sound, Analyses
<1> QED BY <1>1, <1>2 DEF Held

LEMMA HeldInit == Init => AllHeld
BY IdleHeld DEF Init, AllHeld

LEMMA HeldNext == ASSUME IInv, AllHeld, [Next]_vars PROVE AllHeld'
<1>1. ASSUME NEW r \in Req,
             \/ Save(r) \/ Decide(r) \/ Reset(r) \/ ResetOne(r) \/ ResetAll(r)
             \/ TakeVersion(r) \/ UpdateRows(r) \/ CountPending(r) \/ Reopen(r) \/ WriteStatus(r)
             \/ Commit(r) \/ Abort(r)
      PROVE  AllHeld'
  <2>1. CASE Commit(r)
    BY <2>1, CommitHolds
  <2>2. CASE ~Commit(r)
    <3>1. Moves(r)
      BY <1>1, <2>2, RollbackMoves, SaveMoves, DecideMoves, ResetMoves, ResetOneMoves, ResetAllMoves,
         TakeVersionMoves, UpdateRowsMoves, CountPendingMoves, ReopenMoves, WriteStatusMoves DEF Abort
    <3>2. Held(req'[r])
      BY <1>1, <2>2, RollbackHolds, SaveHolds, BeginningsHold, SaveStepsHold, UpdateRowsHolds,
         ReopenHolds, WriteStatusHolds DEF Abort
    <3> QED BY <3>1, <3>2, MoveHolds
  <2> QED BY <2>1, <2>2
<1>2. CASE Restart \/ Dispatch \/ Finish \/ Fail \/ \E j \in JobId : Find(j)
  BY <1>2, AnalysesHold, RestartAnalyses, CurrentAnalyses, FindAnalyses
<1>3. CASE UNCHANGED vars
  BY <1>3 DEF vars, AllHeld, Held
<1> QED BY <1>1, <1>2, <1>3 DEF Next

LEMMA AlwaysHeld == Spec => []AllHeld
<1>1. IInv /\ AllHeld /\ [Next]_vars => AllHeld'
  BY HeldNext
<1> QED BY <1>1, HeldInit, Invariant, PTL DEF Spec

LEMMA LedgerInit == Init => Ledger!Init
<1> SUFFICES ASSUME Init PROVE Ledger!Init
  OBVIOUS
<1>1. 1 \in JobId
  BY ReviewAssumption DEF JobId
<1>2. \A s \in Suggestion : s \in Of(1) <=> s[1] = 1
  BY <1>1, OfType
<1> QED BY <1>2 DEF Init, Ledger!Init, JobId

\* A commit of a client is a save, a decision, a reset or a reopening; it may change nothing.
LEMMA CommitLedger ==
  ASSUME IInv, AllHeld, NEW r \in Req, Commit(r)
  PROVE  \/ \E j \in 1..MaxJobs : Ledger!Save(j) \/ Ledger!Decide(j) \/ Ledger!Reset(j) \/ Ledger!ResetAll(j)
         \/ Ledger!Reopen
<1> DEFINE j == req[r].current
<1>1. /\ Held(req[r]) /\ Sound(req[r]) /\ req[r] \in Request /\ req[r].pc = "commit"
      /\ doc \in Document /\ analysis' = analysis
      /\ overrun' = IF Overruns(r) THEN overrun \cup {doc.current} ELSE overrun
      /\ j \in 1..MaxJobs
  BY DEF AllHeld, IInv, TypeOK, Commit, Request, JobId
<1>2. /\ DOMAIN req[r].put \subseteq Suggestion
      /\ \A s \in DOMAIN req[r].put : req[r].put[s] \in {"pending"} \cup Decision
  BY <1>1, WritesDomain DEF Request
<1>3. \A s \in Suggestion : sugg'[s] = IF s \in DOMAIN req[r].put THEN req[r].put[s] ELSE sugg[s]
  BY DEF Commit, View
<1>4. Ledger!Changed \subseteq DOMAIN req[r].put /\ \A s \in Ledger!Changed : s[1] = j
  BY <1>1, <1>3 DEF Ledger!Changed, Held
<1>5. doc' = [doc EXCEPT !.status = IF req[r].set = "keep" THEN doc.status ELSE req[r].set,
                         !.version = IF req[r].bump THEN doc.version + 1 ELSE doc.version]
  BY <1>1 DEF Commit, Document
<1>6. req[r].set = "keep" => overrun' = overrun
  BY <1>1 DEF Overruns
<1>7. Reviewable(j)
  BY <1>1 DEF Sound
<1> HIDE DEF j
<1>8. CASE req[r].op \in Resets
  <2>1. Ledger!TakesBack(j)
    <3>1. \A s \in DOMAIN req[r].put : sugg[s] \in Decision /\ req[r].put[s] = "pending"
      BY <1>1, <1>8 DEF Held, Sound
    <3> QED BY <1>2, <1>3, <1>4, <3>1
            DEF Ledger!TakesBack, Ledger!Changed, Ledger!Decision, Decision
  <2>2. ~req[r].bump /\ req[r].set \in {"keep", "awaiting_approval"}
    BY <1>1, <1>8 DEF Held, Sound, Resets, Request
  <2>3. CASE req[r].set = "keep"
    <3>1. doc' = doc
      BY <1>1, <1>5, <2>2, <2>3 DEF Document
    <3> QED BY <1>1, <1>6, <2>1, <2>3, <3>1 DEF Ledger!Reset
  <2>4. CASE req[r].set = "awaiting_approval"
    <3>1. /\ doc' = [doc EXCEPT !.status = "awaiting_approval"]
          /\ doc'.status = "awaiting_approval"
      BY <1>1, <1>5, <2>2, <2>4 DEF Document
    <3>2. CASE req[r].op = "reset_all"
      <4>1. Overruns(r) <=> doc.current # j
        BY <2>4, <3>2 DEF Overruns, j
      <4>2. Ledger!Writes(j, "awaiting_approval")
        BY <1>1, <3>1, <4>1 DEF Ledger!Writes
      <4>3. j = doc.current => Ledger!Reviewable
        BY <1>7 DEF Ledger!Reviewable, Reviewable
      <4> QED BY <1>1, <2>1, <3>1, <4>2, <4>3 DEF Ledger!ResetAll
    <3>3. CASE req[r].op # "reset_all"
      <4>1. doc.status = "ready" /\ doc.current = j
        BY <1>1, <2>4, <3>3 DEF Held, Sound, j
      <4>2. overrun' = overrun
        BY <1>1, <4>1 DEF Overruns, j
      <4>3. PICK s \in DOMAIN req[r].put : sugg[s] \in Decision /\ req[r].put[s] = "pending"
        BY <1>1, <1>8, <2>4, <3>3 DEF Held, Sound
      <4>4. s \in Ledger!Changed
        BY <1>2, <1>3, <4>3 DEF Ledger!Changed, Decision
      <4> QED BY <1>1, <1>7, <2>1, <3>1, <4>1, <4>2, <4>4 DEF Ledger!Reopen, Ledger!Reviewable, Reviewable
    <3> QED BY <3>2, <3>3
  <2> QED BY <2>2, <2>3, <2>4
<1>9. CASE req[r].op \notin Resets
  <2>1. Ledger!Decides(j)
    <3>1. \A s \in DOMAIN req[r].put : sugg[s] = "pending" /\ req[r].put[s] \in Decision
      BY <1>1, <1>2, <1>9 DEF Sound
    <3> QED BY <1>2, <1>3, <1>4, <3>1 DEF Ledger!Decides, Ledger!Changed, Ledger!Decision, Decision
  <2>2. req[r].set \in {"keep", "ready"} /\ (req[r].set = "ready" => req[r].op = "save")
    BY <1>1, <1>9 DEF Held, Sound, Request
  <2>3. CASE req[r].op = "save"
    <3> DEFINE status == IF req[r].set = "keep" THEN doc.status ELSE "ready"
    <3>1. doc' = [doc EXCEPT !.status = status, !.version = doc.version + 1]
      BY <1>1, <1>5, <2>2, <2>3 DEF Held
    <3>2. status \in {doc.status, "ready"}
      OBVIOUS
    <3>3. doc'.status = status
      BY <1>1, <3>1 DEF Document
    <3>4. Ledger!Writes(j, "ready") \/ (doc'.status = doc.status /\ overrun' = overrun)
      <4>1. CASE req[r].set = "keep"
        BY <1>6, <3>3, <4>1
      <4>2. CASE req[r].set = "ready"
        <5>1. Overruns(r) <=> doc.current # j
          BY <2>3, <4>2 DEF Overruns, j
        <5> QED BY <1>1, <3>3, <4>2, <5>1 DEF Ledger!Writes
      <4> QED BY <2>2, <4>1, <4>2
    <3> HIDE DEF status
    <3>5. doc' = [doc EXCEPT !.status = status, !.version = @ + 1]
      BY <1>1, <3>1 DEF Document
    <3> QED BY <1>1, <2>1, <3>2, <3>4, <3>5 DEF Ledger!Save
  <2>4. CASE req[r].op # "save"
    <3>1. ~req[r].bump /\ req[r].set = "keep"
      BY <1>1, <2>2, <2>4 DEF Held
    <3>2. doc' = doc
      BY <1>1, <1>5, <3>1 DEF Document
    <3> QED BY <1>1, <1>6, <2>1, <3>1, <3>2 DEF Ledger!Decide
  <2> QED BY <2>3, <2>4
<1> QED BY <1>8, <1>9

Analysing == Restart \/ Dispatch \/ Finish \/ Fail \/ \E j \in JobId : Find(j)

\* The commits of the analyses are those of the ledger.
LEMMA AnalysisLedger ==
  ASSUME IInv, Analysing
  PROVE  \/ Ledger!Restart \/ Ledger!Dispatch \/ Ledger!Finish \/ Ledger!Fail
         \/ \E j \in 1..MaxJobs : Ledger!Find(j)
<1>1. CASE Restart
  BY <1>1 DEF Restart, Ledger!Restart, Ledger!CanStartAnalysis, CanStartAnalysis,
              Active, Ledger!Active, Ledger!Moves
<1>2. CASE Dispatch
  BY <1>2 DEF Dispatch, Ledger!Dispatch, Ledger!DocumentTargets, DocumentTargets, Ledger!Moves
<1>3. CASE Finish
  <2> DEFINE undecided == {s \in Suggestion : s[1] = doc.current /\ sugg[s] = "pending"}
             status == IF undecided = {} THEN "ready" ELSE "awaiting_approval"
             pending == \E s \in Of(doc.current) : sugg[s] = "pending"
  <2>1. pending <=> undecided # {}
    BY CurrentType, OfType
  <2>2. DocumentStatusFor("success", pending) = status
    BY <2>1 DEF DocumentStatusFor
  <2>3. Ledger!DocumentTargets(doc.status) = DocumentTargets(doc.status)
    BY DEF Ledger!DocumentTargets, DocumentTargets
  <2>4. /\ analysis[doc.current] = "running" /\ status \in DocumentTargets(doc.status)
        /\ doc' = [doc EXCEPT !.status = status]
        /\ analysis' = [analysis EXCEPT ![doc.current] = "done"]
        /\ UNCHANGED <<sugg, overrun>>
    BY <1>3, <2>2 DEF Finish
  <2> QED BY <2>3, <2>4 DEF Ledger!Finish, Ledger!Moves
<1>4. CASE Fail
  BY <1>4 DEF Fail, Ledger!Fail, Active, Ledger!Active, Ledger!Moves
<1>5. ASSUME NEW j \in JobId, Find(j) PROVE Ledger!Find(j)
  <2>1. PICK found \in SUBSET {s \in Of(j) : sugg[s] = "absent"} \ {{}} :
          sugg' = [s \in Suggestion |-> IF s \in found THEN "pending" ELSE sugg[s]]
    BY <1>5 DEF Find
  <2>2. \A s \in Ledger!Changed : s \in found /\ sugg'[s] = "pending"
    BY <2>1 DEF Ledger!Changed, IInv, TypeOK
  <2>3. \A s \in found : s[1] = j /\ sugg[s] = "absent"
    BY OfType
  <2> QED BY <1>5, <2>2, <2>3 DEF Find, Ledger!Find
<1> QED BY <1>1, <1>2, <1>3, <1>4, <1>5 DEF Analysing, JobId

LEMMA LedgerNext ==
  ASSUME IInv, AllHeld, [Next]_vars
  PROVE  [Ledger!Next]_<<doc, sugg, analysis, overrun>>
<1>1. sugg' \in [Suggestion -> {"absent", "pending"} \cup Ledger!Decision]
  BY Inductive DEF IInv, TypeOK, Decision, Ledger!Decision
<1>2. ASSUME NEW r \in Req, Moves(r) PROVE UNCHANGED <<doc, sugg, analysis, overrun>>
  BY <1>2 DEF Moves
<1>3. CASE UNCHANGED vars
  BY <1>3 DEF vars
<1>4. CASE Next /\ ~Analysing
  <2>1. PICK r \in Req :
          \/ Save(r) \/ Decide(r) \/ Reset(r) \/ ResetOne(r) \/ ResetAll(r)
          \/ TakeVersion(r) \/ UpdateRows(r) \/ CountPending(r) \/ Reopen(r) \/ WriteStatus(r)
          \/ Commit(r) \/ Abort(r)
    BY <1>4 DEF Next, Analysing
  <2>2. Moves(r) \/ Commit(r)
    BY <2>1, RollbackMoves, SaveMoves, DecideMoves, ResetMoves, ResetOneMoves, ResetAllMoves,
       TakeVersionMoves, UpdateRowsMoves, CountPendingMoves, ReopenMoves, WriteStatusMoves DEF Abort
  <2> QED BY <1>1, <1>2, <2>2, CommitLedger DEF Ledger!Next
<1>5. CASE Analysing
  BY <1>1, <1>5, AnalysisLedger DEF Ledger!Next
<1> QED BY <1>3, <1>4, <1>5

\* The refinement: a request is several statements on rows that others change meanwhile, and
\* still each commit is one indivisible operation on the rows as they are then.  No commit
\* mixes two analyses, decides what is decided or touches the version without being a save;
\* a review is reopened by taking a decision of its current analysis back, or by a reset of
\* a whole analysis, which overruns the current one if it is of an earlier.
THEOREM ImplementsReviewLedger == Spec => ReviewLedgerSpec
<1>1. IInv /\ AllHeld /\ [Next]_vars => [Ledger!Next]_<<doc, sugg, analysis, overrun>>
  BY LedgerNext
<1> QED BY <1>1, LedgerInit, Invariant, AlwaysHeld, PTL DEF Spec, ReviewLedgerSpec, Ledger!Spec
===============================================================================
