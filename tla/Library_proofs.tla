---------------------------- MODULE Library_proofs ----------------------------
(***************************************************************************)
(* Proofs about module Library, for any number of clients, documents,      *)
(* sources, requests and failures.                                         *)
(*                                                                         *)
(* An id is drawn once, so one request at most is making the object that   *)
(* will bear it, and until it has written the row nobody else can tell     *)
(* that the object exists; a request that removes files has seen their     *)
(* rows removed.  All else follows from these two.                         *)
(***************************************************************************)
EXTENDS Library, TLAPS

DocStatuses == DocumentStatus \cup {"none", "deleted"}
SrcStatuses == Scope \cup {"none", "deleted"}

Places   == {"idle", "put", "insert", "undo", "attach", "drop", "scoped", "row", "collect", "wipe", "erase"}
OpNames  == {"none", "upload", "create", "link", "attach", "delete_source", "delete_document", "delete_project"}
Requests == [pc : Places, op : OpNames, doc : SUBSET Doc, src : SUBSET Src, keys : SUBSET Stored,
             victims : SUBSET Src, overtaken : SUBSET Doc]

TypeOK ==
  /\ project \in BOOLEAN /\ served \in Nat /\ faults \in Nat
  /\ docs \in [Doc -> DocStatuses] /\ srcs \in [Src -> SrcStatuses] /\ attached \subseteq Doc \X Src
  /\ files \subseteq Stored /\ used \subseteq Object /\ leaked \subseteq Stored /\ doubted \subseteq Stored
  /\ req \in [Req -> Requests]

\* The objects whose id a request has drawn.
Target(c) == IF c.op = "upload" THEN c.doc ELSE c.src
Making(c) == c.pc \in {"put", "insert", "undo"}

\* What a request holds at its place, c being its record.
Shape(c) ==
  /\ c.pc = "idle" => c = Idle
  /\ Making(c) => c.op \in {"upload", "create", "link"} /\ (c.op = "upload" => c.src = {})
  /\ c.pc \in {"put", "undo"} => Target(c) \subseteq Stored /\ c.op # "link"
  /\ c.pc = "insert" => c.keys = IF c.op = "link" THEN {} ELSE Target(c)
  /\ c.pc = "insert" /\ c.op = "link" => c.src \subseteq Url
  /\ c.pc = "undo" => c.keys = Target(c)
  /\ c.pc = "attach" => c.op = "attach"
  /\ c.pc = "drop" => c.op = "delete_source" /\ c.doc = {}
  /\ c.pc \in {"scoped", "row"} => c.op = "delete_document"
  /\ c.pc \in {"collect", "wipe"} => c.op = "delete_project"
  /\ c.pc \notin {"insert", "undo", "wipe", "erase"} => c.keys = {}
  /\ c.pc # "row" => c.victims = {}

\* What it relies on, and nobody else changes under it.
Relies(c) ==
  /\ Making(c) => Target(c) \subseteq used
  /\ \A o \in Target(c) :
       /\ c.pc \in {"put", "insert"} => Status(o) = "none"
       /\ c.pc = "put" => o \notin files
       /\ c.pc = "undo" => Status(o) = "none" \/ o \in doubted
  /\ c.pc = "insert" => c.keys \subseteq files
  /\ c.pc = "drop" => \A s \in c.src : srcs[s] # "none"
  /\ \A s \in c.victims : srcs[s] # "none"
  /\ c.pc = "wipe" => \A o \in c.keys : Status(o) # "none"
  /\ c.pc = "erase" => \A o \in c.keys : Status(o) = "deleted"

\* The status that was checked is the status still, or the request knows it was overtaken.
Warned(c) ==
  /\ c.op \in {"create", "link", "attach", "delete_document"} =>
       \A d \in c.doc : docs[d] = "in_progress" => d \in c.overtaken
  /\ c.pc = "drop" =>
       \A d \in Doc, s \in c.src : <<d, s>> \in attached /\ docs[d] = "in_progress" => d \in c.overtaken

\* An id not drawn has left no trace, and one that was drawn is one request's business.
FreshIds == \A o \in Object \ used : Status(o) = "none" /\ o \notin files
OneMaker ==
  \A r, q \in Req : r # q /\ Making(req[r]) /\ Making(req[q]) => Target(req[r]) \cap Target(req[q]) = {}

\* Files are owned, and by no request that has only listed them.
Owned(o) == HasRow(o) \/ o \in leaked \/ \E r \in Req : o \in req[r].keys /\ req[r].pc # "wipe"

IInv ==
  /\ TypeOK /\ FreshIds /\ OneMaker
  /\ \A r \in Req : Shape(req[r]) /\ Relies(req[r]) /\ Warned(req[r])
  /\ RowHasFile /\ \A o \in files : Owned(o)

-----------------------------------------------------------------------------
(* Statuses and records.                                                   *)

LEMMA Constants ==
  /\ Url \subseteq Src /\ Doc \cap Src = {} /\ MaxFaults \in Nat /\ MaxRequests \in Nat
  /\ Doc \subseteq Object /\ Src \subseteq Object /\ Doc \subseteq Stored /\ Stored \subseteq Object
  /\ \A s \in Src : s \notin Doc
BY LibraryAssumption DEF Object, Stored

LEMMA StatusNames ==
  /\ "none" \notin DocumentStatus /\ "deleted" \notin DocumentStatus
  /\ "none" \notin Scope /\ "deleted" \notin Scope /\ "project" \in Scope /\ "document" \in Scope
  /\ "draft" \in DocumentStatus /\ "in_progress" \in DocumentStatus
BY DEF DocumentStatus, Scope

LEMMA PlaceNames ==
  /\ "idle" \in Places /\ "put" \in Places /\ "insert" \in Places /\ "undo" \in Places
  /\ "attach" \in Places /\ "drop" \in Places /\ "scoped" \in Places /\ "row" \in Places
  /\ "collect" \in Places /\ "wipe" \in Places /\ "erase" \in Places
BY DEF Places

LEMMA OperationNames ==
  /\ "none" \in OpNames /\ "upload" \in OpNames /\ "create" \in OpNames /\ "link" \in OpNames
  /\ "attach" \in OpNames /\ "delete_source" \in OpNames /\ "delete_document" \in OpNames
  /\ "delete_project" \in OpNames
BY DEF OpNames

LEMMA IdleType ==
  /\ Idle \in Requests /\ Idle.pc = "idle" /\ Idle.op = "none" /\ Idle.doc = {} /\ Idle.src = {}
  /\ Idle.keys = {} /\ Idle.victims = {} /\ Idle.overtaken = {}
BY PlaceNames, OperationNames DEF Idle, Requests

LEMMA IdleHolds ==
  /\ Shape(Idle) /\ Relies(Idle) /\ Warned(Idle) /\ Relies(Idle)' /\ Warned(Idle)'
  /\ ~Making(Idle) /\ Target(Idle) = {}
<1>1. ~Making(Idle) /\ Target(Idle) = {}
  BY IdleType DEF Making, Target
<1> QED BY <1>1, IdleType DEF Shape, Relies, Warned

\* An object has a row exactly when it was given one and has not lost it.
LEMMA RowStatus ==
  /\ TypeOK  => \A o \in Object : HasRow(o) <=> Status(o) \notin {"none", "deleted"}
  /\ TypeOK' => \A o \in Object : HasRow(o)' <=> Status(o)' \notin {"none", "deleted"}
<1>1. ASSUME TypeOK, NEW o \in Object PROVE HasRow(o) <=> Status(o) \notin {"none", "deleted"}
  BY <1>1, StatusNames DEF TypeOK, HasRow, Status, Live, Exists, DocStatuses, SrcStatuses, Object
<1>2. ASSUME TypeOK', NEW o \in Object PROVE HasRow(o)' <=> Status(o)' \notin {"none", "deleted"}
  BY <1>2, StatusNames DEF TypeOK, HasRow, Status, Live, Exists, DocStatuses, SrcStatuses, Object
<1> QED BY <1>1, <1>2

\* Request r changes its record to c.
Becomes(r, c) == req' = [req EXCEPT ![r] = c]

\* A request as it starts, and one that has moved on from its record a.
Started(c, op, p, ds, ss) ==
  /\ c.pc = p /\ c.op = op /\ c.doc = ds /\ c.src = ss
  /\ c.keys = {} /\ c.victims = {} /\ c.overtaken = {}
Advanced(c, a, p, ks, vs) ==
  /\ c.pc = p /\ c.op = a.op /\ c.doc = a.doc /\ c.src = a.src
  /\ c.keys = ks /\ c.victims = vs /\ c.overtaken = a.overtaken

LEMMA RequestType ==
  ASSUME NEW c \in Requests, NEW p \in Places, NEW op \in OpNames, NEW ds \in SUBSET Doc,
         NEW ss \in SUBSET Src, NEW ks \in SUBSET Stored, NEW vs \in SUBSET Src
  PROVE  /\ [c EXCEPT !.pc = p] \in Requests
         /\ [c EXCEPT !.pc = p, !.keys = ks] \in Requests
         /\ [c EXCEPT !.keys = ks] \in Requests
         /\ [c EXCEPT !.pc = p, !.victims = vs] \in Requests
         /\ [c EXCEPT !.overtaken = @ \cup ds] \in Requests
<1>1. [c EXCEPT !.pc = p] \in Requests /\ [c EXCEPT !.keys = ks] \in Requests
  BY DEF Requests
<1>2. [c EXCEPT !.pc = p, !.keys = ks] \in Requests
  BY DEF Requests
<1>3. [c EXCEPT !.pc = p, !.victims = vs] \in Requests
  BY DEF Requests
<1>4. [c EXCEPT !.overtaken = @ \cup ds] \in Requests
  BY DEF Requests
<1> QED BY <1>1, <1>2, <1>3, <1>4

LEMMA Entered ==
  ASSUME TypeOK, NEW r \in Req, NEW op \in OpNames, NEW p \in Places, NEW ds \in SUBSET Doc,
         NEW ss \in SUBSET Src, Enter(r, op, p, ds, ss)
  PROVE  \E c \in Requests : Started(c, op, p, ds, ss) /\ Becomes(r, c)
<1> DEFINE c == [Idle EXCEPT !.pc = p, !.op = op, !.doc = ds, !.src = ss]
<1>1. \A e \in Requests : [e EXCEPT !.pc = p, !.op = op, !.doc = ds, !.src = ss] \in Requests
  BY ZenonT(30) DEF Requests
<1>2. c \in Requests
  BY <1>1, IdleType
<1>3. c.pc = p /\ c.op = op /\ c.doc = ds /\ c.src = ss
  BY DEF Idle
<1>4. c.keys = {} /\ c.victims = {} /\ c.overtaken = {}
  BY DEF Idle
<1>5. Becomes(r, c)
  BY DEF Enter, Becomes
<1> HIDE DEF c
<1> QED BY <1>2, <1>3, <1>4, <1>5 DEF Started

LEMMA Moved ==
  ASSUME TypeOK, NEW r \in Req, NEW p \in Places, NEW ks \in SUBSET Stored, NEW vs \in SUBSET Src
  PROVE  /\ Move(r, p) =>
              \E c \in Requests : Advanced(c, req[r], p, req[r].keys, req[r].victims) /\ Becomes(r, c)
         /\ req' = [req EXCEPT ![r].pc = p, ![r].keys = ks] =>
              \E c \in Requests : Advanced(c, req[r], p, ks, req[r].victims) /\ Becomes(r, c)
         /\ req' = [req EXCEPT ![r].keys = ks] =>
              \E c \in Requests : Advanced(c, req[r], req[r].pc, ks, req[r].victims) /\ Becomes(r, c)
         /\ req' = [req EXCEPT ![r].pc = p, ![r].victims = vs] =>
              \E c \in Requests : Advanced(c, req[r], p, req[r].keys, vs) /\ Becomes(r, c)
         /\ req' = [req EXCEPT ![r].pc = p, ![r].keys = ks, ![r].victims = {}] =>
              \E c \in Requests : Advanced(c, req[r], p, ks, {}) /\ Becomes(r, c)
<1>0. PICK c \in Requests : c = req[r]
  BY DEF TypeOK
<1>1. /\ [c EXCEPT !.pc = p] \in Requests /\ [c EXCEPT !.pc = p, !.keys = ks] \in Requests
      /\ [c EXCEPT !.keys = ks] \in Requests /\ [c EXCEPT !.pc = p, !.victims = vs] \in Requests
  BY RequestType, OperationNames
<1>2. [c EXCEPT !.pc = p, !.keys = ks, !.victims = {}] \in Requests
  BY DEF Requests
<1>3. /\ Move(r, p) => req' = [req EXCEPT ![r] = [c EXCEPT !.pc = p]]
      /\ req' = [req EXCEPT ![r].keys = ks] => req' = [req EXCEPT ![r] = [c EXCEPT !.keys = ks]]
  BY <1>0 DEF TypeOK, Move
<1>4. req' = [req EXCEPT ![r].pc = p, ![r].keys = ks] =>
        req' = [req EXCEPT ![r] = [c EXCEPT !.pc = p, !.keys = ks]]
  BY <1>0 DEF TypeOK, Requests
<1>5. req' = [req EXCEPT ![r].pc = p, ![r].victims = vs] =>
        req' = [req EXCEPT ![r] = [c EXCEPT !.pc = p, !.victims = vs]]
  BY <1>0 DEF TypeOK, Requests
<1>6. req' = [req EXCEPT ![r].pc = p, ![r].keys = ks, ![r].victims = {}] =>
        req' = [req EXCEPT ![r] = [c EXCEPT !.pc = p, !.keys = ks, !.victims = {}]]
  BY <1>0 DEF TypeOK, Requests
<1>7. /\ Advanced([c EXCEPT !.pc = p], c, p, c.keys, c.victims)
      /\ Advanced([c EXCEPT !.keys = ks], c, c.pc, ks, c.victims)
  BY DEF Requests, Advanced
<1>8. /\ Advanced([c EXCEPT !.pc = p, !.keys = ks], c, p, ks, c.victims)
      /\ Advanced([c EXCEPT !.pc = p, !.victims = vs], c, p, c.keys, vs)
  BY DEF Requests, Advanced
<1>9. Advanced([c EXCEPT !.pc = p, !.keys = ks, !.victims = {}], c, p, ks, {})
  BY DEF Requests, Advanced
<1> QED BY <1>0, <1>1, <1>2, <1>3, <1>4, <1>5, <1>6, <1>7, <1>8, <1>9 DEF Becomes

-----------------------------------------------------------------------------
(* What a step lets the other requests see.                                *)

\* A step of the request whose record is a: only the making of its own object gives an
\* object a row or a file, only its undoing takes back a file that may have a row.
Steady(a) ==
  /\ \A o \in Object :
       /\ Status(o) = "none" => Status(o)' = "none" \/ (a.pc = "insert" /\ o \in Target(a))
       /\ Status(o) = "none" => Status(o)' # "deleted"
       /\ Status(o) # "none" => Status(o)' # "none"
       /\ Status(o) = "deleted" => Status(o)' = "deleted"
       /\ o \in files /\ o \notin files' => Status(o) = "deleted" \/ (a.pc = "undo" /\ o \in Target(a))
       /\ o \notin files /\ o \in files' => a.pc = "put" /\ o \in Target(a)
  /\ used \subseteq used' /\ doubted \subseteq doubted' /\ leaked \subseteq leaked'

\* Another request keeps its record c, but for what it is told has overtaken it.
Kept(c, e) ==
  /\ e.pc = c.pc /\ e.op = c.op /\ e.doc = c.doc /\ e.src = c.src
  /\ e.keys = c.keys /\ e.victims = c.victims /\ c.overtaken \subseteq e.overtaken
  /\ c.pc = "idle" => e = c

\* It is told of every document whose analysis began and of every source attached, but
\* for the new ones.
Told(e) ==
  e.pc # "idle" =>
    /\ \A d \in Doc : docs'[d] = "in_progress" => docs[d] = "in_progress" \/ d \in e.overtaken
    /\ \A p \in attached' \ attached : srcs[p[2]] = "none" \/ p[1] \in e.overtaken

LEMMA KeptShape ==
  ASSUME NEW c \in Requests, NEW e \in Requests, Kept(c, e), Shape(c)
  PROVE  Shape(e) /\ Making(e) = Making(c) /\ Target(e) = Target(c)
<1>1. Making(e) = Making(c) /\ Target(e) = Target(c)
  BY DEF Kept, Making, Target
<1>2. Shape(e)
  BY <1>1 DEF Kept, Shape
<1> QED BY <1>1, <1>2

LEMMA KeptRelies ==
  ASSUME TypeOK, NEW a \in Requests, NEW c \in Requests, NEW e \in Requests, Kept(c, e),
         Shape(c), Relies(c), Steady(a), Making(a) /\ Making(c) => Target(a) \cap Target(c) = {}
  PROVE  Relies(e)'
<1>1. Making(e) = Making(c) /\ Target(e) = Target(c) /\ e.pc = c.pc /\ e.keys = c.keys
      /\ e.src = c.src /\ e.victims = c.victims
  BY KeptShape DEF Kept
<1>2. Target(c) \subseteq Object /\ c.keys \subseteq Object /\ c.victims \subseteq Object
      /\ c.src \subseteq Object /\ Target(c) = Target(e)
  BY <1>1, Constants DEF Target, Requests
<1>3. \A s \in Src : Status(s) = srcs[s] /\ Status(s)' = srcs'[s]
  BY Constants DEF Status
<1>4. Making(c) => /\ Making(a) => \A o \in Target(c) : o \notin Target(a)
                   /\ a.pc \in {"put", "insert", "undo"} => \A o \in Target(c) : o \notin Target(a)
  BY DEF Making
<1>5. Making(c) => Target(c) \subseteq used'
  BY DEF Relies, Steady
<1>6. \A o \in Target(c) :
       /\ c.pc \in {"put", "insert"} => Status(o)' = "none"
       /\ c.pc = "put" => o \notin files'
       /\ c.pc = "undo" => Status(o)' = "none" \/ o \in doubted'
  BY <1>2, <1>4 DEF Relies, Steady, Making
<1>7. c.pc = "insert" => c.keys \subseteq files'
  <2>1. c.pc = "insert" => \A o \in c.keys : o \in Target(c) /\ o \in files /\ Status(o) = "none"
    BY DEF Shape, Relies
  <2> QED BY <1>2, <1>4, <2>1 DEF Steady, Making
<1>8. /\ c.pc = "drop" => \A s \in c.src : srcs'[s] # "none"
      /\ \A s \in c.victims : srcs'[s] # "none"
      /\ c.pc = "wipe" => \A o \in c.keys : Status(o)' # "none"
      /\ c.pc = "erase" => \A o \in c.keys : Status(o)' = "deleted"
  <2>1. c.src \subseteq Src /\ c.victims \subseteq Src
    BY DEF Requests
  <2>2. \A s \in Src : srcs[s] # "none" => srcs'[s] # "none"
    BY <1>3, Constants DEF Steady
  <2> QED BY <1>2, <2>1, <2>2 DEF Relies, Steady
<1>9. Making(e) => Target(e) \subseteq used'
  BY <1>1, <1>5
<1> HIDE DEF Kept
<1>10. \A o \in Target(e) :
       /\ e.pc \in {"put", "insert"} => Status(o)' = "none"
       /\ e.pc = "put" => o \notin files'
       /\ e.pc = "undo" => Status(o)' = "none" \/ o \in doubted'
  BY <1>1, <1>6
<1> QED BY <1>1, <1>7, <1>8, <1>9, <1>10 DEF Relies

LEMMA KeptWarned ==
  ASSUME TypeOK, NEW c \in Requests, NEW e \in Requests, Kept(c, e), Told(e),
         Shape(c), Relies(c), Warned(c)
  PROVE  Warned(e)'
<1>1. CASE c.pc = "idle"
  BY <1>1, IdleHolds DEF Kept, Shape
<1>2. CASE c.pc # "idle"
  <2>1. /\ e.pc = c.pc /\ e.op = c.op /\ e.doc = c.doc /\ e.src = c.src /\ c.overtaken \subseteq e.overtaken
        /\ e.doc \subseteq Doc /\ e.src \subseteq Src
    BY DEF Kept, Requests
  <2>2. /\ \A d \in Doc : docs'[d] = "in_progress" => docs[d] = "in_progress" \/ d \in e.overtaken
        /\ \A p \in attached' \ attached : srcs[p[2]] = "none" \/ p[1] \in e.overtaken
    BY <1>2, <2>1 DEF Told
  <2>3. e.op \in {"create", "link", "attach", "delete_document"} =>
          \A d \in e.doc : docs'[d] = "in_progress" => d \in e.overtaken
    BY <2>1, <2>2 DEF Warned
  <2>4. ASSUME e.pc = "drop", NEW d \in Doc, NEW s \in e.src, <<d, s>> \in attached',
               docs'[d] = "in_progress"
        PROVE  d \in e.overtaken
    <3>1. srcs[s] # "none"
      BY <2>1, <2>4 DEF Relies
    <3>2. <<d, s>> \in attached \/ d \in e.overtaken
      BY <2>2, <2>4, <3>1
    <3> QED BY <2>1, <2>2, <2>4, <3>2 DEF Warned
  <2> QED BY <2>3, <2>4 DEF Warned
<1> QED BY <1>1, <1>2

\* It makes what it was making, or something that nobody knows yet.
MakesItsOwn(c, e) ==
  Making(e) =>
    \/ Making(c) /\ Target(e) = Target(c) /\ (e.pc = "put" => c.pc = "put")
    \/ Target(e) \cap used = {}

\* The files it owned, wrote or took the row of are owned afterwards.
LeavesNoFile(r) ==
  \A o \in files' :
    HasRow(o) \/ (o \in req[r].keys /\ req[r].pc # "wipe") \/ o \notin files =>
      HasRow(o)' \/ o \in leaked' \/ (o \in req'[r].keys /\ req'[r].pc # "wipe")

\* A step of request r, when all is well after it.
Sound(r) == IInv' /\ Steady(req[r]) /\ \A q \in Req : MakesItsOwn(req[q], req'[q])

\* What is written keeps its file.
LEMMA RowsKeepFiles ==
  ASSUME TypeOK, TypeOK', RowHasFile, NEW a \in Requests, Shape(a), Relies(a), Steady(a)
  PROVE  RowHasFile'
<1> SUFFICES ASSUME NEW o \in Stored, HasRow(o)', o \notin doubted'
             PROVE  o \in files'
  BY DEF RowHasFile
<1>1. o \in Object /\ (o \in Src => o \notin Url) /\ o \notin doubted
  BY Constants DEF Steady, Stored, Object
<1>2. Status(o)' \notin {"none", "deleted"} /\ Status(o) # "deleted"
  BY <1>1, RowStatus DEF Steady
<1>3. CASE Status(o) = "none"
  <2>1. a.pc = "insert" /\ o \in Target(a)
    BY <1>1, <1>2, <1>3 DEF Steady
  <2>2. o \in a.keys
    BY <1>1, <2>1, Constants DEF Shape, Making, Target, Requests
  <2> QED BY <1>1, <1>2, <2>1, <2>2 DEF Relies, Steady
<1>4. CASE Status(o) # "none"
  <2>1. o \in files
    BY <1>1, <1>2, <1>4, RowStatus DEF RowHasFile
  <2> QED BY <1>1, <1>2, <1>4, <2>1 DEF Relies, Steady
<1> QED BY <1>3, <1>4

\* Ids nobody has drawn stay fresh.
LEMMA FreshStays ==
  ASSUME FreshIds, NEW a \in Requests, Relies(a), Steady(a)
  PROVE  FreshIds'
<1> SUFFICES ASSUME NEW o \in Object, o \notin used'
             PROVE  Status(o)' = "none" /\ o \notin files'
  BY DEF FreshIds
<1>1. o \notin used /\ Status(o) = "none" /\ o \notin files
  BY DEF FreshIds, Steady
<1>2. a.pc \in {"put", "insert"} => o \notin Target(a)
  BY <1>1 DEF Relies, Making
<1> QED BY <1>1, <1>2 DEF Steady

\* A step of request r that is steady and keeps its own record in order keeps the invariant.
LEMMA StepKeeps ==
  ASSUME IInv, TypeOK', NEW r \in Req, Steady(req[r]),
         \A q \in Req \ {r} : Kept(req[q], req'[q]) /\ Told(req'[q]),
         Shape(req'[r]), Relies(req[r])', Warned(req[r])',
         MakesItsOwn(req[r], req'[r]), LeavesNoFile(r)
  PROVE  Sound(r)
<1>1. /\ TypeOK /\ FreshIds /\ OneMaker /\ RowHasFile /\ \A o \in files : Owned(o)
      /\ \A q \in Req : /\ req[q] \in Requests /\ req'[q] \in Requests
                        /\ Shape(req[q]) /\ Relies(req[q]) /\ Warned(req[q])
  BY DEF IInv, TypeOK
<1>2. ASSUME NEW q \in Req \ {r}
      PROVE  /\ Shape(req'[q]) /\ Relies(req[q])' /\ Warned(req[q])'
             /\ Making(req'[q]) = Making(req[q]) /\ Target(req'[q]) = Target(req[q])
  <2>1. PICK a \in Requests, c \in Requests, e \in Requests : a = req[r] /\ c = req[q] /\ e = req'[q]
    BY <1>1
  <2>2. Shape(e) /\ Making(e) = Making(c) /\ Target(e) = Target(c)
    BY <1>1, <2>1, KeptShape
  <2>3. Making(a) /\ Making(c) => Target(a) \cap Target(c) = {}
    BY <1>1, <2>1 DEF OneMaker
  <2>4. Relies(e)' /\ Warned(e)'
    BY <1>1, <2>1, <2>3, KeptRelies, KeptWarned
  <2>5. (Relies(e)' <=> Relies(req[q])') /\ (Warned(e)' <=> Warned(req[q])')
    BY <2>1 DEF Relies, Warned, Making, Target
  <2> QED BY <2>1, <2>2, <2>4, <2>5
<1>3. FreshIds' /\ RowHasFile'
  BY <1>1, FreshStays, RowsKeepFiles
<1>4. OneMaker'
  <2>1. ASSUME NEW q \in Req \ {r}, Making(req'[r]), Making(req'[q])
        PROVE  Target(req'[r]) \cap Target(req'[q]) = {}
    <3>1. Making(req[q]) /\ Target(req'[q]) = Target(req[q])
      BY <1>2, <2>1
    <3>2. CASE Making(req[r]) /\ Target(req'[r]) = Target(req[r])
      BY <1>1, <3>1, <3>2 DEF OneMaker
    <3>3. CASE Target(req'[r]) \cap used = {}
      BY <1>1, <3>1, <3>3 DEF Relies
    <3> QED BY <2>1, <3>2, <3>3 DEF MakesItsOwn
  <2>2. ASSUME NEW p \in Req, NEW q \in Req, p # q, Making(req'[p]), Making(req'[q])
        PROVE  Target(req'[p]) \cap Target(req'[q]) = {}
    <3>1. CASE p = r
      BY <2>1, <2>2, <3>1
    <3>2. CASE q = r
      BY <2>1, <2>2, <3>2
    <3>3. CASE p # r /\ q # r
      <4>1. Making(req[p]) /\ Making(req[q]) /\ Target(req'[p]) = Target(req[p])
            /\ Target(req'[q]) = Target(req[q])
        BY <1>2, <2>2, <3>3
      <4> QED BY <1>1, <2>2, <4>1 DEF OneMaker
    <3> QED BY <3>1, <3>2, <3>3
  <2>3. \A p, q \in Req : p # q /\ Making(req[p])' /\ Making(req[q])' => Target(req[p])' \cap Target(req[q])' = {}
    BY <2>2 DEF Making, Target
  <2> QED BY <2>3 DEF OneMaker
<1>5. ASSUME NEW o \in files' PROVE Owned(o)'
  <2>1. CASE HasRow(o) \/ (o \in req[r].keys /\ req[r].pc # "wipe") \/ o \notin files
    <3>1. HasRow(o)' \/ o \in leaked' \/ (o \in req'[r].keys /\ req'[r].pc # "wipe")
      BY <1>5, <2>1 DEF LeavesNoFile
    <3> QED BY <3>1 DEF Owned
  <2>2. CASE ~(HasRow(o) \/ (o \in req[r].keys /\ req[r].pc # "wipe") \/ o \notin files)
    <3>1. o \in leaked \/ \E q \in Req \ {r} : o \in req[q].keys /\ req[q].pc # "wipe"
      BY <1>1, <2>2 DEF Owned
    <3>2. leaked \subseteq leaked' /\ \A q \in Req \ {r} : req'[q].keys = req[q].keys /\ req'[q].pc = req[q].pc
      BY DEF Steady, Kept
    <3> QED BY <3>1, <3>2 DEF Owned
  <2> QED BY <2>1, <2>2
<1>6. \A q \in Req : Shape(req[q])' /\ Relies(req[q])' /\ Warned(req[q])'
  <2>1. \A q \in Req : Shape(req'[q]) /\ Relies(req[q])' /\ Warned(req[q])'
    BY <1>2
  <2> QED BY <2>1 DEF Shape, Making, Target
<1>7. \A q \in Req : MakesItsOwn(req[q], req'[q])
  BY <1>2 DEF MakesItsOwn, Kept
<1>8. IInv'
  BY <1>3, <1>4, <1>5, <1>6 DEF IInv
<1> QED BY <1>7, <1>8 DEF Sound

\* A step that changes no record but its own, begins no analysis and attaches new sources only.
LEMMA OneRequest ==
  ASSUME TypeOK, NEW r \in Req, NEW c \in Requests, Becomes(r, c),
         \A d \in Doc : docs'[d] = "in_progress" => docs[d] = "in_progress",
         \A p \in attached' \ attached : srcs[p[2]] = "none"
  PROVE  /\ req' \in [Req -> Requests] /\ req'[r] = c
         /\ \A q \in Req \ {r} : Kept(req[q], req'[q]) /\ Told(req'[q])
<1>1. req' \in [Req -> Requests] /\ req'[r] = c /\ \A q \in Req \ {r} : req'[q] = req[q]
  BY DEF TypeOK, Becomes
<1>2. ASSUME NEW q \in Req \ {r} PROVE Kept(req[q], req'[q]) /\ Told(req'[q])
  BY <1>1 DEF Kept, Told
<1> QED BY <1>1, <1>2

LEMMA OneRequestKeeps ==
  ASSUME IInv, TypeOK', NEW r \in Req, NEW c \in Requests, Becomes(r, c),
         \A d \in Doc : docs'[d] = "in_progress" => docs[d] = "in_progress",
         \A p \in attached' \ attached : srcs[p[2]] = "none",
         Steady(req[r]), Shape(c), Relies(c)', Warned(c)', MakesItsOwn(req[r], c), LeavesNoFile(r)
  PROVE  Sound(r)
<1>1. /\ req'[r] = c /\ \A q \in Req \ {r} : Kept(req[q], req'[q]) /\ Told(req'[q])
  BY OneRequest DEF IInv
<1>2. Relies(req[r])' /\ Warned(req[r])'
  BY <1>1 DEF Relies, Warned, Making, Target
<1> QED BY <1>1, <1>2, StepKeeps

\* A step that touches neither rows nor files.
LEMMA QuietKeeps ==
  ASSUME IInv, NEW r \in Req, NEW c \in Requests, Becomes(r, c),
         UNCHANGED <<rows, files, doubted>>, used \subseteq used', used' \subseteq Object,
         leaked \subseteq leaked', leaked' \subseteq Stored, served' \in Nat, faults' \in Nat,
         Shape(c), Relies(c)', Warned(c), MakesItsOwn(req[r], c),
         \A o \in files \cap req[r].keys : req[r].pc # "wipe" =>
            HasRow(o) \/ o \in leaked' \/ (o \in c.keys /\ c.pc # "wipe")
  PROVE  Sound(r)
<1>1. TypeOK' /\ req'[r] = c
  BY DEF IInv, TypeOK, Becomes, rows
<1>2. Steady(req[r])
  BY DEF Steady, Status, rows
<1>3. Warned(c)'
  BY DEF Warned, rows
<1>4. \A o \in Object : HasRow(o)' = HasRow(o)
  BY DEF HasRow, Live, Exists, rows
<1>5. LeavesNoFile(r)
  <2>1. files' = files /\ files \subseteq Object
    BY Constants DEF IInv, TypeOK
  <2> QED BY <1>1, <1>4, <2>1 DEF LeavesNoFile
<1>6. /\ \A d \in Doc : docs'[d] = "in_progress" => docs[d] = "in_progress"
      /\ \A p \in attached' \ attached : srcs[p[2]] = "none"
  BY DEF rows
<1> QED BY <1>1, <1>2, <1>3, <1>5, <1>6, OneRequestKeeps

\* A request that ends without touching rows or files, and gives up what it held.
LEMMA LeaveKeeps ==
  ASSUME IInv, NEW r \in Req, Leave(r), UNCHANGED <<rows, files, used, doubted>>,
         leaked \subseteq leaked', leaked' \subseteq Stored, served' \in Nat, faults' \in Nat,
         \A o \in files \cap req[r].keys : req[r].pc # "wipe" => HasRow(o) \/ o \in leaked'
  PROVE  Sound(r)
<1>1. Becomes(r, Idle)
  BY DEF Leave, Becomes
<1>2. MakesItsOwn(req[r], Idle)
  BY IdleHolds DEF MakesItsOwn
<1>3. used' \subseteq Object
  BY DEF IInv, TypeOK
<1> QED BY <1>1, <1>2, <1>3, IdleType, IdleHolds, QuietKeeps

-----------------------------------------------------------------------------
(* Steps that touch neither rows nor files.                                *)

LEMMA Numbers ==
  ASSUME TypeOK
  PROVE  /\ served + 1 \in Nat /\ faults + 1 \in Nat /\ used \subseteq Object
         /\ leaked \subseteq Stored /\ files \subseteq Stored
BY DEF TypeOK

LEMMA AtPlace ==
  ASSUME IInv, NEW r \in Req
  PROVE  /\ req[r] \in Requests /\ Shape(req[r]) /\ Relies(req[r]) /\ Warned(req[r])
         /\ req[r].pc \notin {"insert", "undo", "wipe", "erase"} => req[r].keys = {}
         /\ TypeOK
BY DEF IInv, TypeOK, Shape

\* What is known of a request that arrives.
LEMMA Arrived ==
  ASSUME IInv, NEW r \in Req, NEW op, Arrive(r, op), faults' = faults
  PROVE  /\ TypeOK /\ served' \in Nat /\ faults' \in Nat /\ used \subseteq Object /\ leaked \subseteq Stored
         /\ req[r].keys = {}
<1>1. req[r].pc = "idle" /\ served' = served + 1
  BY DEF Arrive
<1>2. TypeOK /\ req[r].keys = {}
  BY <1>1, AtPlace
<1> QED BY <1>1, <1>2, Numbers DEF TypeOK

LEMMA UploadDocumentKeeps ==
  ASSUME IInv, NEW r \in Req, UploadDocument(r)
  PROVE  Sound(r)
<1>1. /\ TypeOK /\ served' \in Nat /\ faults' \in Nat /\ used \subseteq Object /\ leaked \subseteq Stored
      /\ req[r].keys = {}
  BY Arrived DEF UploadDocument
<1>2. PICK d \in Doc \ used : used' = used \cup {d} /\ Enter(r, "upload", "put", {d}, {})
  BY DEF UploadDocument
<1>3. d \in Object /\ d \in Stored /\ {d} \in SUBSET Doc /\ {} \in SUBSET Src
  BY Constants
<1>4. /\ TypeOK /\ Enter(r, "upload", "put", {d}, {})
     /\ "put" \in Places /\ "upload" \in OpNames
     /\ {d} \in SUBSET Doc /\ {} \in SUBSET Src
  BY <1>1, <1>2, <1>3, PlaceNames, OperationNames
<1>5. PICK c \in Requests : Started(c, "upload", "put", {d}, {}) /\ Becomes(r, c)
  BY <1>4, Entered
<1>6. Target(c) = {d} /\ Making(c)
  BY <1>5 DEF Started, Target, Making
<1>7. Shape(c) /\ Warned(c) /\ MakesItsOwn(req[r], c)
  BY <1>3, <1>5, <1>6 DEF Started, Shape, Warned, MakesItsOwn
<1>8. UNCHANGED <<rows, files, doubted, leaked>>
  BY DEF UploadDocument
<1>9. Status(d) = "none" /\ d \notin files /\ Status(d)' = Status(d)
  BY <1>2, <1>3, <1>8 DEF IInv, FreshIds, Status, rows
<1>10. Relies(c)'
  BY <1>2, <1>5, <1>6, <1>8, <1>9 DEF Started, Relies
<1> QED BY <1>1, <1>2, <1>3, <1>5, <1>7, <1>8, <1>10, QuietKeeps

LEMMA CreateStoredSourceKeeps ==
  ASSUME IInv, NEW r \in Req, CreateStoredSource(r)
  PROVE  Sound(r)
<1>1. /\ TypeOK /\ served' \in Nat /\ faults' \in Nat /\ used \subseteq Object /\ leaked \subseteq Stored
      /\ req[r].keys = {}
  BY Arrived DEF CreateStoredSource
<1>2. PICK s \in Src \ (Url \cup used), ds \in TargetDocument :
        used' = used \cup {s} /\ Enter(r, "create", "put", ds, {s})
  BY DEF CreateStoredSource
<1>3. /\ s \in Object /\ s \in Stored /\ {s} \in SUBSET Src /\ ds \in SUBSET Doc
      /\ \A d \in ds : docs[d] # "in_progress"
  BY Constants DEF TargetDocument, CanEditSources, Stored
<1>4. /\ TypeOK /\ Enter(r, "create", "put", ds, {s})
     /\ "put" \in Places /\ "create" \in OpNames
     /\ ds \in SUBSET Doc /\ {s} \in SUBSET Src
  BY <1>1, <1>2, <1>3, PlaceNames, OperationNames
<1>5. PICK c \in Requests : Started(c, "create", "put", ds, {s}) /\ Becomes(r, c)
  BY <1>4, Entered
<1>6. Target(c) = {s} /\ Making(c)
  BY <1>5 DEF Started, Target, Making
<1>7. Shape(c) /\ Warned(c) /\ MakesItsOwn(req[r], c)
  BY <1>3, <1>5, <1>6 DEF Started, Shape, Warned, MakesItsOwn
<1>8. UNCHANGED <<rows, files, doubted, leaked>>
  BY DEF CreateStoredSource
<1>9. Status(s) = "none" /\ s \notin files /\ Status(s)' = Status(s)
  BY <1>2, <1>3, <1>8 DEF IInv, FreshIds, Status, rows
<1>10. Relies(c)'
  BY <1>2, <1>5, <1>6, <1>8, <1>9 DEF Started, Relies
<1> QED BY <1>1, <1>2, <1>3, <1>5, <1>7, <1>8, <1>10, QuietKeeps

LEMMA CreateUrlSourceKeeps ==
  ASSUME IInv, NEW r \in Req, CreateUrlSource(r)
  PROVE  Sound(r)
<1>1. /\ TypeOK /\ served' \in Nat /\ faults' \in Nat /\ used \subseteq Object /\ leaked \subseteq Stored
      /\ req[r].keys = {}
  BY Arrived DEF CreateUrlSource
<1>2. PICK s \in Url \ used, ds \in TargetDocument :
        used' = used \cup {s} /\ Enter(r, "link", "insert", ds, {s})
  BY DEF CreateUrlSource
<1>3. /\ s \in Object /\ {s} \in SUBSET Src /\ ds \in SUBSET Doc
      /\ \A d \in ds : docs[d] # "in_progress"
  BY Constants DEF TargetDocument, CanEditSources
<1>4. /\ TypeOK /\ Enter(r, "link", "insert", ds, {s})
     /\ "insert" \in Places /\ "link" \in OpNames
     /\ ds \in SUBSET Doc /\ {s} \in SUBSET Src
  BY <1>1, <1>2, <1>3, PlaceNames, OperationNames
<1>5. PICK c \in Requests : Started(c, "link", "insert", ds, {s}) /\ Becomes(r, c)
  BY <1>4, Entered
<1>6. Target(c) = {s} /\ Making(c)
  BY <1>5 DEF Started, Target, Making
<1>7. Shape(c) /\ Warned(c) /\ MakesItsOwn(req[r], c)
  BY <1>2, <1>3, <1>5, <1>6 DEF Started, Shape, Warned, MakesItsOwn
<1>8. UNCHANGED <<rows, files, doubted, leaked>>
  BY DEF CreateUrlSource
<1>9. Status(s) = "none" /\ Status(s)' = Status(s)
  BY <1>2, <1>3, <1>8 DEF IInv, FreshIds, Status, rows
<1>10. Relies(c)'
  BY <1>2, <1>5, <1>6, <1>8, <1>9 DEF Started, Relies
<1> QED BY <1>1, <1>2, <1>3, <1>5, <1>7, <1>8, <1>10, QuietKeeps

\* Requests that begin with a check of what they read.
LEMMA ChecksKeep ==
  ASSUME IInv, NEW r \in Req, AttachSources(r) \/ DeleteSource(r) \/ DeleteDocument(r) \/ DeleteProject(r)
  PROVE  Sound(r)
<1>1. /\ TypeOK /\ served' \in Nat /\ faults' \in Nat /\ used \subseteq Object /\ leaked \subseteq Stored
      /\ req[r].keys = {} /\ UNCHANGED <<rows, files, used, leaked, doubted>>
  BY Arrived DEF AttachSources, DeleteSource, DeleteDocument, DeleteProject
<1>2. ASSUME NEW c \in Requests, Becomes(r, c), c.keys = {}, c.pc # "wipe",
             Shape(c), Relies(c)', Warned(c), ~Making(c)
      PROVE  Sound(r)
  <2>1. MakesItsOwn(req[r], c)
    BY <1>2 DEF MakesItsOwn
  <2> QED BY <1>1, <1>2, <2>1, QuietKeeps
<1>3. CASE AttachSources(r)
  <2>1. PICK d \in Doc, ss \in SUBSET Src :
          /\ docs[d] # "in_progress" /\ Enter(r, "attach", "attach", {d}, ss)
    BY <1>3 DEF AttachSources, CanEditSources
  <2>2. /\ TypeOK /\ Enter(r, "attach", "attach", {d}, ss)
       /\ "attach" \in Places /\ "attach" \in OpNames
       /\ {d} \in SUBSET Doc /\ ss \in SUBSET Src
    BY <1>1, <2>1, PlaceNames, OperationNames
  <2>3. PICK c \in Requests : Started(c, "attach", "attach", {d}, ss) /\ Becomes(r, c)
    BY <2>2, Entered
  <2>4. Shape(c) /\ Relies(c)' /\ Warned(c) /\ ~Making(c) /\ c.keys = {} /\ c.pc # "wipe"
    BY <2>1, <2>3 DEF Started, Shape, Relies, Warned, Making
  <2> QED BY <1>2, <2>3, <2>4
<1>4. CASE DeleteSource(r)
  <2>1. PICK s \in Src :
          /\ Exists(s) /\ \A d \in Doc : <<d, s>> \in attached => docs[d] # "in_progress"
          /\ Enter(r, "delete_source", "drop", {}, {s})
    BY <1>4 DEF DeleteSource, CanEditSources
  <2>2. /\ TypeOK /\ Enter(r, "delete_source", "drop", {}, {s})
       /\ "drop" \in Places /\ "delete_source" \in OpNames
       /\ {} \in SUBSET Doc /\ {s} \in SUBSET Src
    BY <1>1, <2>1, PlaceNames, OperationNames
  <2>3. PICK c \in Requests : Started(c, "delete_source", "drop", {}, {s}) /\ Becomes(r, c)
    BY <2>2, Entered
  <2>4. srcs[s] # "none" /\ srcs' = srcs
    BY <1>1, <2>1, StatusNames DEF Exists, rows
  <2>5. Shape(c) /\ Relies(c)' /\ Warned(c) /\ ~Making(c) /\ c.keys = {} /\ c.pc # "wipe"
    BY <2>1, <2>3, <2>4 DEF Started, Shape, Relies, Warned, Making
  <2> QED BY <1>2, <2>3, <2>5
<1>5. CASE DeleteDocument(r)
  <2>1. PICK d \in Doc : docs[d] # "in_progress" /\ Enter(r, "delete_document", "scoped", {d}, {})
    BY <1>5 DEF DeleteDocument, CanDelete
  <2>2. /\ TypeOK /\ Enter(r, "delete_document", "scoped", {d}, {})
       /\ "scoped" \in Places /\ "delete_document" \in OpNames
       /\ {d} \in SUBSET Doc /\ {} \in SUBSET Src
    BY <1>1, <2>1, PlaceNames, OperationNames
  <2>3. PICK c \in Requests : Started(c, "delete_document", "scoped", {d}, {}) /\ Becomes(r, c)
    BY <2>2, Entered
  <2>4. Shape(c) /\ Relies(c)' /\ Warned(c) /\ ~Making(c) /\ c.keys = {} /\ c.pc # "wipe"
    BY <2>1, <2>3 DEF Started, Shape, Relies, Warned, Making
  <2> QED BY <1>2, <2>3, <2>4
<1>6. CASE DeleteProject(r)
  <2>1. {} \in SUBSET Doc /\ {} \in SUBSET Src /\ Enter(r, "delete_project", "collect", {}, {})
    BY <1>6 DEF DeleteProject
  <2>2. /\ TypeOK /\ Enter(r, "delete_project", "collect", {}, {})
       /\ "collect" \in Places /\ "delete_project" \in OpNames
       /\ {} \in SUBSET Doc /\ {} \in SUBSET Src
    BY <1>1, <2>1, PlaceNames, OperationNames
  <2>3. PICK c \in Requests : Started(c, "delete_project", "collect", {}, {}) /\ Becomes(r, c)
    BY <2>2, Entered
  <2>4. Shape(c) /\ Relies(c)' /\ Warned(c) /\ ~Making(c) /\ c.keys = {} /\ c.pc # "wipe"
    BY <2>3 DEF Started, Shape, Relies, Warned, Making
  <2> QED BY <1>2, <2>3, <2>4
<1> QED BY <1>3, <1>4, <1>5, <1>6

\* Requests that end: nothing is held, or it is undone by another step, or given up.
LEMMA EndsKeep ==
  ASSUME IInv, NEW r \in Req, PutFails(r) \/ Rollback(r) \/ EraseDone(r) \/ Die(r)
  PROVE  Sound(r)
<1>1. /\ TypeOK /\ served \in Nat /\ faults \in Nat /\ faults + 1 \in Nat
      /\ leaked \subseteq Stored /\ files \subseteq Stored
  BY AtPlace, Numbers DEF TypeOK
<1>2. Leave(r) /\ UNCHANGED <<rows, files, used, doubted>> /\ served' \in Nat /\ faults' \in Nat
  BY <1>1 DEF PutFails, Rollback, EraseDone, Die, Fault
<1>3. CASE PutFails(r) \/ Rollback(r) \/ EraseDone(r)
  <2>1. leaked' = leaked
    BY <1>3 DEF PutFails, Rollback, EraseDone
  <2>2. req[r].pc # "wipe" => req[r].keys = {}
    <3>1. req[r].pc \in {"put", "attach", "drop", "scoped", "row", "collect", "wipe"} \/ req[r].keys = {}
      BY <1>3 DEF PutFails, Rollback, EraseDone
    <3> QED BY <3>1, AtPlace
  <2> QED BY <1>1, <1>2, <2>1, <2>2, LeaveKeeps
<1>4. CASE Die(r)
  <2>1. leaked' = leaked \cup {o \in req[r].keys \cap files : ~HasRow(o)}
    BY <1>4 DEF Die
  <2> QED BY <1>1, <1>2, <2>1, LeaveKeeps
<1> QED BY <1>3, <1>4

LEMMA InsertFailsKeeps ==
  ASSUME IInv, NEW r \in Req, InsertFails(r)
  PROVE  Sound(r)
<1>1. /\ TypeOK /\ served' \in Nat /\ faults' \in Nat /\ used' \subseteq Object /\ leaked' \subseteq Stored
      /\ UNCHANGED <<rows, files, used, leaked, doubted>> /\ req[r].pc = "insert"
      /\ Shape(req[r]) /\ Relies(req[r]) /\ Warned(req[r]) /\ req[r] \in Requests
  BY AtPlace DEF InsertFails, TypeOK
<1>2. CASE req[r].keys = {}
  <2>1. Leave(r)
    BY <1>2 DEF InsertFails
  <2> QED BY <1>1, <1>2, <2>1, LeaveKeeps
<1>3. CASE req[r].keys # {}
  <2>1. /\ Move(r, "undo") /\ "undo" \in Places /\ {} \in SUBSET Stored /\ {} \in SUBSET Src
    BY <1>3, PlaceNames DEF InsertFails
  <2>2. PICK c \in Requests : Advanced(c, req[r], "undo", req[r].keys, req[r].victims) /\ Becomes(r, c)
    BY <1>1, <2>1, Moved
  <2>3. /\ Target(c) = Target(req[r]) /\ Making(c) /\ Making(req[r]) /\ req[r].keys = Target(c)
        /\ req[r].op # "link" /\ req[r].victims = {} /\ req[r].keys \subseteq Stored
    BY <1>1, <1>3, <2>2 DEF Advanced, Target, Making, Shape, Requests
  <2>4. Shape(c) /\ MakesItsOwn(req[r], c)
    BY <1>1, <2>2, <2>3 DEF Advanced, Shape, MakesItsOwn
  <2>5. Relies(c)'
    BY <1>1, <2>2, <2>3 DEF Advanced, Relies, Status, rows
  <2>6. Warned(c)
    BY <1>1, <2>2 DEF Advanced, Warned
  <2> QED BY <1>1, <2>2, <2>4, <2>5, <2>6, QuietKeeps DEF Advanced
<1> QED BY <1>2, <1>3

\* A deletion goes on to its next statement.
LEMMA DeletionsGoOn ==
  ASSUME IInv, NEW r \in Req, DeleteScopedSources(r) \/ CollectKeys(r)
  PROVE  Sound(r)
<1>1. /\ TypeOK /\ served' \in Nat /\ faults' \in Nat /\ used' \subseteq Object /\ leaked' \subseteq Stored
      /\ UNCHANGED <<rows, files, used, leaked, doubted>>
      /\ Shape(req[r]) /\ Relies(req[r]) /\ Warned(req[r]) /\ req[r] \in Requests
  BY AtPlace DEF DeleteScopedSources, CollectKeys, TypeOK
<1>2. CASE DeleteScopedSources(r)
  <2> DEFINE mine == {s \in Src : srcs[s] = "document" /\ \E d \in req[r].doc : <<d, s>> \in attached}
  <2>1. /\ mine \in SUBSET Src /\ "row" \in Places /\ {} \in SUBSET Stored
        /\ \A s \in mine : srcs[s] # "none" /\ srcs'[s] # "none"
    BY <1>1, PlaceNames DEF rows
  <2>2. req[r].pc = "scoped" /\ req' = [req EXCEPT ![r].pc = "row", ![r].victims = mine]
    BY <1>2 DEF DeleteScopedSources
  <2> HIDE DEF mine
  <2>3. PICK c \in Requests : Advanced(c, req[r], "row", req[r].keys, mine) /\ Becomes(r, c)
    BY <1>1, <2>1, <2>2, Moved
  <2>4. req[r].keys = {} /\ req[r].op = "delete_document" /\ ~Making(c)
    BY <1>1, <2>2, <2>3 DEF Shape, Advanced, Making
  <2>5. Shape(c) /\ MakesItsOwn(req[r], c) /\ Warned(c) /\ Relies(c)'
    <3>1. Shape(c) /\ MakesItsOwn(req[r], c)
      BY <2>3, <2>4 DEF Advanced, Shape, MakesItsOwn
    <3>2. Warned(c) /\ Relies(c)'
      BY <1>1, <2>1, <2>3, <2>4 DEF Advanced, Warned, Relies
    <3> QED BY <3>1, <3>2
  <2> QED BY <1>1, <2>3, <2>4, <2>5, QuietKeeps
<1>3. CASE CollectKeys(r)
  <2> DEFINE ks == {o \in Stored : HasRow(o)}
  <2>1. /\ ks \in SUBSET Stored /\ "wipe" \in Places /\ {} \in SUBSET Src
        /\ \A o \in ks : Status(o)' # "none"
    <3>1. \A o \in ks : Status(o) # "none" /\ Status(o)' = Status(o)
      BY <1>1, RowStatus, Constants DEF Status, rows
    <3> QED BY <3>1, PlaceNames
  <2>2. req[r].pc = "collect" /\ req' = [req EXCEPT ![r].pc = "wipe", ![r].keys = ks]
    BY <1>3 DEF CollectKeys
  <2> HIDE DEF ks
  <2>3. PICK c \in Requests : Advanced(c, req[r], "wipe", ks, req[r].victims) /\ Becomes(r, c)
    BY <1>1, <2>1, <2>2, Moved
  <2>4. req[r].keys = {} /\ req[r].victims = {} /\ req[r].op = "delete_project" /\ ~Making(c)
    BY <1>1, <2>2, <2>3 DEF Shape, Advanced, Making
  <2>5. Shape(c) /\ MakesItsOwn(req[r], c) /\ Warned(c) /\ Relies(c)'
    <3>1. Shape(c) /\ MakesItsOwn(req[r], c)
      BY <2>3, <2>4 DEF Advanced, Shape, MakesItsOwn
    <3>2. Warned(c) /\ Relies(c)'
      BY <1>1, <2>1, <2>3, <2>4 DEF Advanced, Warned, Relies
    <3> QED BY <3>1, <3>2
  <2> QED BY <1>1, <2>3, <2>4, <2>5, QuietKeeps
<1> QED BY <1>2, <1>3

-----------------------------------------------------------------------------
(* Steps on files.                                                         *)

LEMMA FileStepKeeps ==
  ASSUME IInv, NEW r \in Req, NEW c \in Requests, Becomes(r, c), UNCHANGED <<rows, used, doubted, served>>,
         files' \subseteq Stored, leaked \subseteq leaked', leaked' \subseteq Stored, faults' \in Nat,
         \A o \in files \ files' : Status(o) = "deleted" \/ (req[r].pc = "undo" /\ o \in Target(req[r])),
         \A o \in files' \ files : req[r].pc = "put" /\ o \in Target(req[r]),
         Shape(c), Relies(c)', Warned(c), MakesItsOwn(req[r], c),
         \A o \in files' : (o \in req[r].keys /\ req[r].pc # "wipe") \/ o \notin files =>
            HasRow(o) \/ o \in leaked' \/ (o \in c.keys /\ c.pc # "wipe")
  PROVE  Sound(r)
<1>1. TypeOK' /\ req'[r] = c
  BY DEF IInv, TypeOK, Becomes, rows
<1>2. Steady(req[r])
  BY DEF Steady, Status, rows
<1>3. Warned(c)'
  BY DEF Warned, rows
<1>4. \A o \in Object : HasRow(o)' = HasRow(o)
  BY DEF HasRow, Live, Exists, rows
<1>5. LeavesNoFile(r)
  <2>1. files' \subseteq Object
    BY Constants
  <2> QED BY <1>1, <1>4, <2>1 DEF LeavesNoFile
<1>6. /\ \A d \in Doc : docs'[d] = "in_progress" => docs[d] = "in_progress"
      /\ \A p \in attached' \ attached : srcs[p[2]] = "none"
  BY DEF rows
<1> QED BY <1>1, <1>2, <1>3, <1>5, <1>6, OneRequestKeeps

LEMMA PutKeeps ==
  ASSUME IInv, NEW r \in Req, Put(r)
  PROVE  Sound(r)
<1> DEFINE a == req[r]
           key == Target(a)
<1>1. /\ TypeOK /\ faults \in Nat /\ faults + 1 \in Nat /\ leaked \subseteq Stored /\ files \subseteq Stored
      /\ Shape(a) /\ Relies(a) /\ Warned(a) /\ a \in Requests
  BY AtPlace, Numbers DEF TypeOK
<1>2. /\ a.pc = "put" /\ files' = files \cup key /\ UNCHANGED <<rows, used, doubted, served>>
  BY DEF Put, Target
<1>3. /\ Making(a) /\ key \subseteq Stored /\ key \subseteq used /\ a.keys = {} /\ a.victims = {}
      /\ a.op \in {"upload", "create"}
      /\ \A o \in key : Status(o) = "none" /\ Status(o)' = "none"
  <2>1. /\ Making(a) /\ key \subseteq Stored /\ a.keys = {} /\ a.victims = {}
        /\ a.op \in {"upload", "create"}
    BY <1>1, <1>2 DEF Shape, Making
  <2>2. key \subseteq used /\ \A o \in key : Status(o) = "none"
    BY <1>1, <1>2, <2>1 DEF Relies
  <2>3. \A o \in key : Status(o)' = "none"
    BY <1>2, <2>2 DEF Status, rows
  <2> QED BY <2>1, <2>2, <2>3
<1>4. CASE /\ req' = [req EXCEPT ![r].pc = "insert", ![r].keys = key]
           /\ UNCHANGED <<leaked, faults>>
  <2>1. "insert" \in Places /\ key \in SUBSET Stored /\ {} \in SUBSET Src
    BY <1>3, PlaceNames
  <2>2. PICK c \in Requests : Advanced(c, a, "insert", key, a.victims) /\ Becomes(r, c)
    BY <1>1, <1>4, <2>1, Moved
  <2>3. Target(c) = key /\ Making(c) /\ c.keys = key /\ c.pc = "insert"
    BY <2>2 DEF Advanced, Target, Making
  <2>4. Shape(c) /\ MakesItsOwn(a, c) /\ Warned(c)
    <3>1. Shape(c)
      BY <1>1, <1>2, <1>3, <2>2, <2>3 DEF Advanced, Shape
    <3>2. MakesItsOwn(a, c) /\ Warned(c)
      BY <1>1, <1>2, <1>3, <2>2, <2>3 DEF Advanced, MakesItsOwn, Warned
    <3> QED BY <3>1, <3>2
  <2>5. Relies(c)'
    <3>1. c.victims = {} /\ key \subseteq used' /\ key \subseteq files'
      BY <1>2, <1>3, <2>2 DEF Advanced
    <3> QED BY <1>3, <2>3, <3>1 DEF Relies
  <2>6. /\ files' \subseteq Stored /\ leaked' \subseteq Stored /\ faults' \in Nat /\ leaked \subseteq leaked'
        /\ \A o \in files' \ files : o \in key
        /\ files \ files' = {}
        /\ \A o \in files' : o \in a.keys \/ o \notin files => o \in c.keys /\ c.pc # "wipe"
    BY <1>1, <1>2, <1>3, <1>4, <2>3
  <2> QED BY <1>2, <2>2, <2>4, <2>5, <2>6, FileStepKeeps
<1>5. CASE Fault("storage") /\ Leave(r) /\ leaked' = leaked \cup key
  <2>1. Becomes(r, Idle) /\ faults' \in Nat /\ MakesItsOwn(a, Idle)
    BY <1>1, <1>5, IdleHolds DEF Becomes, Leave, Fault, MakesItsOwn
  <2>2. /\ files' \subseteq Stored /\ leaked' \subseteq Stored /\ leaked \subseteq leaked'
        /\ \A o \in files' \ files : o \in key
        /\ files \ files' = {}
        /\ \A o \in files' : o \in a.keys \/ o \notin files => o \in leaked'
    BY <1>1, <1>2, <1>3, <1>5
  <2> QED BY <1>2, <2>1, <2>2, IdleType, IdleHolds, FileStepKeeps
<1> QED BY <1>4, <1>5 DEF Put, Target

LEMMA UndoKeeps ==
  ASSUME IInv, NEW r \in Req, Undo(r)
  PROVE  Sound(r)
<1> DEFINE a == req[r]
<1>1. /\ TypeOK /\ faults \in Nat /\ faults + 1 \in Nat /\ leaked \subseteq Stored /\ files \subseteq Stored
      /\ Shape(a) /\ Relies(a) /\ a \in Requests
  BY AtPlace, Numbers DEF TypeOK
<1>2. a.pc = "undo" /\ Leave(r) /\ UNCHANGED <<rows, used, doubted, served>>
  BY DEF Undo
<1>3. a.keys = Target(a) /\ a.keys \subseteq Stored
  BY <1>1, <1>2 DEF Shape
<1>4. Becomes(r, Idle) /\ MakesItsOwn(a, Idle)
  BY <1>2, IdleHolds DEF Becomes, Leave, MakesItsOwn
<1>5. /\ files' \subseteq Stored /\ leaked' \subseteq Stored /\ leaked \subseteq leaked' /\ faults' \in Nat
      /\ files' \ files = {}
      /\ \A o \in files \ files' : o \in Target(a)
      /\ \A o \in files' : o \in a.keys => o \in leaked'
  <2>1. CASE files' = files \ a.keys /\ UNCHANGED <<leaked, faults>>
    BY <1>1, <1>3, <2>1
  <2>2. CASE Fault("storage") /\ leaked' = leaked \cup a.keys /\ UNCHANGED files
    BY <1>1, <1>3, <2>2 DEF Fault
  <2> QED BY <2>1, <2>2 DEF Undo
<1> QED BY <1>2, <1>4, <1>5, IdleType, IdleHolds, FileStepKeeps

LEMMA EraseOneKeeps ==
  ASSUME IInv, NEW r \in Req, EraseOne(r)
  PROVE  Sound(r)
<1> DEFINE a == req[r]
<1>1. /\ TypeOK /\ faults \in Nat /\ faults + 1 \in Nat /\ leaked \subseteq Stored /\ files \subseteq Stored
      /\ Shape(a) /\ Relies(a) /\ Warned(a) /\ a \in Requests
  BY AtPlace, Numbers DEF TypeOK
<1>2. PICK o \in a.keys :
        /\ a.pc = "erase" /\ req' = [req EXCEPT ![r].keys = @ \ {o}]
        /\ \/ files' = files \ {o} /\ UNCHANGED <<leaked, faults>>
           \/ Fault("storage") /\ leaked' = leaked \cup ({o} \cap files) /\ UNCHANGED files
        /\ UNCHANGED <<rows, used, doubted, served>>
  BY DEF EraseOne
<1> DEFINE ks == a.keys \ {o}
<1>3. ks \in SUBSET Stored /\ req' = [req EXCEPT ![r].keys = ks] /\ "idle" \in Places /\ {} \in SUBSET Src
  BY <1>1, <1>2, PlaceNames DEF Requests
<1> HIDE DEF ks
<1>4. PICK c \in Requests : Advanced(c, a, a.pc, ks, a.victims) /\ Becomes(r, c)
  BY <1>1, <1>3, Moved
<1>5. c.pc = "erase" /\ ~Making(c) /\ c.victims = {} /\ c.keys = a.keys \ {o} /\ Status(o) = "deleted"
  BY <1>1, <1>2, <1>4 DEF Advanced, Shape, Relies, Making, ks
<1>6. Shape(c) /\ MakesItsOwn(a, c) /\ Warned(c) /\ Relies(c)'
  <2>1. Shape(c) /\ MakesItsOwn(a, c)
    BY <1>5 DEF Shape, MakesItsOwn, Making
  <2>2. Warned(c)
    BY <1>1, <1>4, <1>5 DEF Advanced, Warned
  <2>3. \A x \in c.keys : Status(x)' = "deleted"
    BY <1>1, <1>2, <1>5 DEF Relies, Status, rows
  <2> QED BY <1>5, <2>1, <2>2, <2>3 DEF Relies
<1>7. /\ files' \subseteq Stored /\ leaked' \subseteq Stored /\ leaked \subseteq leaked' /\ faults' \in Nat
      /\ files' \ files = {} /\ \A x \in files \ files' : x = o
      /\ \A x \in files' : x \in a.keys => x \in leaked' \/ x \in c.keys
  <2>1. CASE files' = files \ {o} /\ UNCHANGED <<leaked, faults>>
    BY <1>1, <1>5, <2>1
  <2>2. CASE Fault("storage") /\ leaked' = leaked \cup ({o} \cap files) /\ UNCHANGED files
    BY <1>1, <1>5, <2>2 DEF Fault
  <2> QED BY <1>2, <2>1, <2>2
<1> QED BY <1>2, <1>4, <1>5, <1>6, <1>7, FileStepKeeps

-----------------------------------------------------------------------------
(* Steps on rows.                                                          *)

\* What the insertion of the rows does to the objects.
LEMMA InsertedRows ==
  ASSUME IInv, NEW r \in Req, req[r].pc = "insert", Written(r)
  PROVE  /\ docs' \in [Doc -> DocStatuses] /\ srcs' \in [Src -> SrcStatuses] /\ attached' \subseteq Doc \X Src
         /\ \A o \in Object : o \notin Target(req[r]) => Status(o)' = Status(o)
         /\ \A o \in Target(req[r]) : Status(o) = "none" /\ Status(o)' \notin {"none", "deleted"}
         /\ \A d \in Doc : docs'[d] = "in_progress" => docs[d] = "in_progress"
         /\ \A p \in attached' \ attached : srcs[p[2]] = "none" /\ p[1] \in req[r].doc /\ req[r].op # "upload"
         /\ attached \subseteq attached'
         /\ req[r].op # "upload" => docs' = docs
<1> DEFINE a == req[r]
<1>1. /\ TypeOK /\ a \in Requests /\ a.doc \subseteq Doc /\ a.src \subseteq Src
      /\ Making(a) /\ \A o \in Target(a) : Status(o) = "none"
      /\ a.op = "upload" => a.src = {}
  BY AtPlace DEF Requests, Relies, Making, Shape
<1>2. "draft" \in DocStatuses /\ "project" \in SrcStatuses /\ "document" \in SrcStatuses
  BY StatusNames DEF DocStatuses, SrcStatuses
<1>3. /\ \A d \in Doc : Status(d) = docs[d] /\ Status(d)' = docs'[d]
      /\ \A s \in Src : Status(s) = srcs[s] /\ Status(s)' = srcs'[s]
      /\ \A o \in Object : o \in Doc \/ o \in Src
  BY Constants DEF Status, Object
<1>4. CASE a.op = "upload"
  <2>1. /\ docs' = [d \in Doc |-> IF d \in a.doc THEN "draft" ELSE docs[d]]
        /\ UNCHANGED <<srcs, attached>> /\ Target(a) = a.doc
    BY <1>4 DEF Written, Target
  <2>2. docs' \in [Doc -> DocStatuses] /\ \A d \in Doc : docs'[d] = IF d \in a.doc THEN "draft" ELSE docs[d]
    BY <1>1, <1>2, <2>1 DEF TypeOK
  <2>3. \A o \in Object : o \notin Target(a) => Status(o)' = Status(o)
    BY <1>3, <2>1, <2>2
  <2>4. \A o \in Target(a) : Status(o)' \notin {"none", "deleted"}
    BY <1>1, <1>3, <2>1, <2>2
  <2> QED BY <1>1, <1>4, <2>1, <2>2, <2>3, <2>4 DEF TypeOK
<1>5. CASE a.op # "upload"
  <2>1. /\ srcs' = [s \in Src |-> IF s \notin a.src THEN srcs[s]
                                  ELSE IF a.doc = {} THEN "project" ELSE "document"]
        /\ attached' = attached \cup (a.doc \X a.src) /\ docs' = docs /\ Target(a) = a.src
    BY <1>5 DEF Written, Target
  <2>2. /\ srcs' \in [Src -> SrcStatuses]
        /\ \A s \in Src : s \notin a.src => srcs'[s] = srcs[s]
        /\ \A s \in a.src : srcs'[s] \in {"project", "document"}
    BY <1>1, <1>2, <2>1 DEF TypeOK
  <2>3. \A o \in Object : o \notin Target(a) => Status(o)' = Status(o)
    BY <1>3, <2>1, <2>2
  <2>4. \A o \in Target(a) : Status(o)' \notin {"none", "deleted"}
    BY <1>1, <1>3, <2>1, <2>2
  <2>5. \A p \in attached' \ attached : srcs[p[2]] = "none" /\ p[1] \in a.doc
    BY <1>1, <1>3, <2>1
  <2>6. attached' \subseteq Doc \X Src /\ attached \subseteq attached'
    BY <1>1, <2>1 DEF TypeOK
  <2> QED BY <1>1, <1>5, <2>1, <2>2, <2>3, <2>4, <2>5, <2>6 DEF TypeOK
<1> QED BY <1>4, <1>5

LEMMA InsertKeeps ==
  ASSUME IInv, NEW r \in Req, Insert(r)
  PROVE  Sound(r)
<1> DEFINE a == req[r]
<1>1. /\ TypeOK /\ faults \in Nat /\ faults + 1 \in Nat
      /\ Shape(a) /\ Relies(a) /\ Warned(a) /\ a \in Requests
      /\ a.pc = "insert" /\ UNCHANGED <<project, files, used, leaked, served>>
  BY AtPlace, Numbers DEF TypeOK, Insert
<1>2. /\ docs' \in [Doc -> DocStatuses] /\ srcs' \in [Src -> SrcStatuses] /\ attached' \subseteq Doc \X Src
      /\ \A o \in Object : o \notin Target(a) => Status(o)' = Status(o)
      /\ \A o \in Target(a) : Status(o) = "none" /\ Status(o)' \notin {"none", "deleted"}
      /\ \A d \in Doc : docs'[d] = "in_progress" => docs[d] = "in_progress"
      /\ \A p \in attached' \ attached : srcs[p[2]] = "none"
      /\ a.op # "upload" => docs' = docs
  BY InsertedRows DEF Insert
<1>3. Making(a) /\ (a.keys = {} \/ a.keys = Target(a)) /\ a.keys \subseteq Stored /\ a.victims = {}
  BY <1>1 DEF Shape, Making, Requests
<1>4. ASSUME NEW c \in Requests, Becomes(r, c), Shape(c), Relies(c)', Warned(c)', MakesItsOwn(a, c),
             doubted \subseteq doubted', doubted' \subseteq Stored, faults' \in Nat
      PROVE  Sound(r)
  <2>1. TypeOK'
    BY <1>1, <1>2, <1>4 DEF TypeOK, Becomes
  <2>2. Steady(a)
    BY <1>1, <1>2, <1>4 DEF Steady
  <2>3. LeavesNoFile(r)
    <3>1. \A o \in Object : HasRow(o) => HasRow(o)'
      BY <1>1, <1>2, <2>1, RowStatus
    <3>2. \A o \in a.keys : HasRow(o)'
      BY <1>2, <1>3, <2>1, RowStatus, Constants
    <3>3. files' = files /\ files \subseteq Object
      BY <1>1, Constants DEF TypeOK
    <3> QED BY <3>1, <3>2, <3>3 DEF LeavesNoFile
  <2> QED BY <1>2, <1>4, <2>1, <2>2, <2>3, OneRequestKeeps
<1>5. CASE Leave(r) /\ doubted \subseteq doubted' /\ doubted' \subseteq Stored /\ faults' \in Nat
  <2>1. Becomes(r, Idle) /\ MakesItsOwn(a, Idle)
    BY <1>5, IdleHolds DEF Becomes, Leave, MakesItsOwn
  <2> QED BY <1>4, <1>5, <2>1, IdleType, IdleHolds
<1>6. CASE Fault("answer") /\ doubted' = doubted \cup a.keys /\ a.keys # {} /\ Move(r, "undo")
  <2>1. "undo" \in Places /\ {} \in SUBSET Stored /\ {} \in SUBSET Src
    BY PlaceNames
  <2>2. PICK c \in Requests : Advanced(c, a, "undo", a.keys, a.victims) /\ Becomes(r, c)
    BY <1>1, <1>6, <2>1, Moved
  <2>3. Target(c) = Target(a) /\ Making(c) /\ a.keys = Target(c) /\ a.op # "link"
    BY <1>1, <1>3, <1>6, <2>2 DEF Advanced, Target, Making, Shape
  <2>4. Shape(c) /\ MakesItsOwn(a, c)
    BY <1>1, <1>3, <2>2, <2>3 DEF Advanced, Shape, MakesItsOwn
  <2>5. Relies(c)'
    <3>1. Target(c) \subseteq used' /\ Target(c) \subseteq doubted'
      BY <1>1, <1>3, <1>6, <2>3 DEF Relies
    <3> QED BY <1>3, <2>2, <3>1 DEF Advanced, Relies
  <2>6. Warned(c)'
    BY <1>1, <1>2, <2>2 DEF Advanced, Warned
  <2>7. doubted \subseteq doubted' /\ doubted' \subseteq Stored /\ faults' \in Nat
    BY <1>1, <1>3, <1>6 DEF TypeOK, Fault
  <2> QED BY <1>4, <2>2, <2>4, <2>5, <2>6, <2>7
<1>7. \/ Leave(r) /\ doubted \subseteq doubted' /\ doubted' \subseteq Stored /\ faults' \in Nat
      \/ Fault("answer") /\ doubted' = doubted \cup a.keys /\ a.keys # {} /\ Move(r, "undo")
  <2>1. CASE Leave(r) /\ UNCHANGED <<doubted, faults>>
    BY <1>1, <2>1 DEF TypeOK
  <2>2. CASE /\ Fault("answer") /\ doubted' = doubted \cup a.keys
             /\ IF a.keys = {} THEN Leave(r) ELSE Move(r, "undo")
    BY <1>1, <1>3, <2>2 DEF TypeOK, Fault
  <2> QED BY <2>1, <2>2 DEF Insert
<1> QED BY <1>5, <1>6, <1>7

\* The objects in gone have no row any more; of the others nothing changes.
OnlyDeletes(gone) ==
  /\ docs' \in [Doc -> DocStatuses] /\ srcs' \in [Src -> SrcStatuses] /\ gone \subseteq Object
  /\ \A o \in Object : Status(o)' = IF o \in gone THEN "deleted" ELSE Status(o)

\* The rows of the objects in gone are deleted and request r ends or goes on to their files.
LEMMA DeletionKeeps ==
  ASSUME IInv, NEW r \in Req, NEW c \in Requests, Becomes(r, c), NEW gone, OnlyDeletes(gone),
         \A o \in gone : Status(o) # "none", project' \in BOOLEAN,
         attached' \subseteq attached, UNCHANGED <<files, used, doubted, served>>,
         leaked \subseteq leaked', leaked' \subseteq Stored, faults' \in Nat,
         req[r].pc \in {"drop", "row", "wipe"}, c.pc \in {"idle", "erase"}, Shape(c), Warned(c)',
         \A o \in c.keys : Status(o)' = "deleted",
         \A o \in gone \cap files : o \in leaked' \/ o \in c.keys
  PROVE  Sound(r)
<1>1. /\ TypeOK
      /\ req[r].pc # "wipe" => req[r].keys = {}
      /\ req[r].pc \notin {"insert", "undo", "put"}
  BY AtPlace
<1>2. TypeOK' /\ req'[r] = c
  BY <1>1 DEF OnlyDeletes, TypeOK, Becomes
<1>3. Steady(req[r])
  BY DEF OnlyDeletes, Steady
<1>4. Relies(c)' /\ MakesItsOwn(req[r], c)
  <2>1. ~Making(c) /\ c.victims = {}
    BY DEF Making, Shape
  <2> QED BY <2>1 DEF Relies, MakesItsOwn
<1>5. \A d \in Doc : docs'[d] = "in_progress" => docs[d] = "in_progress"
  <2>1. \A d \in Doc : d \in Object /\ Status(d) = docs[d] /\ Status(d)' = docs'[d]
    BY Constants DEF Status
  <2> QED BY <2>1 DEF OnlyDeletes
<1>6. LeavesNoFile(r)
  <2>1. files' = files /\ files \subseteq Object
    BY <1>1, Constants DEF TypeOK
  <2>2. \A o \in Object : HasRow(o) /\ o \notin gone => HasRow(o)'
    BY <1>1, <1>2, RowStatus DEF OnlyDeletes
  <2> QED BY <1>1, <1>2, <2>1, <2>2 DEF LeavesNoFile, Shape
<1> QED BY <1>2, <1>3, <1>4, <1>5, <1>6, OneRequestKeeps

\* Deleted documents ds and sources ss, seen object by object.
RowsDeleted(ds, ss) ==
  /\ docs' = [d \in Doc |-> IF d \in ds THEN "deleted" ELSE docs[d]]
  /\ srcs' = [s \in Src |-> IF s \in ss THEN "deleted" ELSE srcs[s]]

LEMMA DeletedStatus ==
  ASSUME TypeOK, NEW ds \in SUBSET Doc, NEW ss \in SUBSET Src, RowsDeleted(ds, ss)
  PROVE  OnlyDeletes(ds \cup ss)
<1>1. docs' \in [Doc -> DocStatuses] /\ srcs' \in [Src -> SrcStatuses]
  BY DEF RowsDeleted, TypeOK, DocStatuses, SrcStatuses
<1>2. ASSUME NEW o \in Object PROVE Status(o)' = IF o \in ds \cup ss THEN "deleted" ELSE Status(o)
  <2>1. CASE o \in Doc
    BY <2>1, Constants DEF RowsDeleted, Status
  <2>2. CASE o \in Src /\ o \notin Doc
    BY <2>2 DEF RowsDeleted, Status
  <2> QED BY <2>1, <2>2 DEF Object
<1> QED BY <1>1, <1>2, Constants DEF OnlyDeletes

LEMMA DropKeeps ==
  ASSUME IInv, NEW r \in Req, Drop(r)
  PROVE  Sound(r)
<1> DEFINE a == req[r]
           ss == a.src
<1>1. /\ TypeOK /\ faults \in Nat /\ faults + 1 \in Nat /\ leaked \subseteq Stored /\ files \subseteq Stored
      /\ Shape(a) /\ Relies(a) /\ a \in Requests /\ a.pc = "drop" /\ ss \in SUBSET Src
      /\ project \in BOOLEAN
  BY AtPlace, Numbers DEF TypeOK, Drop, Requests
<1>2. /\ UNCHANGED <<project, docs, files, used, doubted, served>>
      /\ srcs' = [s \in Src |-> IF s \in ss THEN "deleted" ELSE srcs[s]]
      /\ attached' \subseteq attached
  BY DEF Drop, Detached
<1>3. RowsDeleted({}, ss)
  BY <1>1, <1>2 DEF RowsDeleted, TypeOK
<1>4. OnlyDeletes(ss)
  <2>1. {} \in SUBSET Doc /\ {} \cup ss = ss /\ TypeOK /\ ss \in SUBSET Src
    BY <1>1
  <2>2. OnlyDeletes({} \cup ss)
    BY <1>3, <2>1, DeletedStatus
  <2> QED BY <2>1, <2>2
<1>5. \A s \in ss : Status(s) # "none" /\ s \in Object
  BY <1>1, Constants DEF Relies, Status
<1>6. CASE /\ req' = [req EXCEPT ![r].pc = "erase", ![r].keys = ss \ Url]
           /\ UNCHANGED <<leaked, faults>>
  <2>1. "erase" \in Places /\ ss \ Url \in SUBSET Stored /\ {} \in SUBSET Src
    BY <1>1, PlaceNames DEF Stored
  <2>2. PICK c \in Requests : Advanced(c, a, "erase", ss \ Url, a.victims) /\ Becomes(r, c)
    BY <1>1, <1>6, <2>1, Moved
  <2>3. c.pc = "erase" /\ c.op = "delete_source" /\ c.keys = ss \ Url /\ c.victims = {}
    BY <1>1, <2>2 DEF Advanced, Shape
  <2>4. Shape(c) /\ Warned(c)'
    BY <2>3 DEF Shape, Warned, Making
  <2>5. \A o \in c.keys : Status(o)' = "deleted"
    BY <1>4, <1>5, <2>3 DEF OnlyDeletes
  <2>6. \A o \in ss \cap files : o \in c.keys
    BY <1>1, <2>3, Constants DEF Stored
  <2> QED BY <1>1, <1>2, <1>4, <1>5, <1>6, <2>2, <2>3, <2>4, <2>5, <2>6, DeletionKeeps
<1>7. CASE Fault("answer") /\ Leave(r) /\ leaked' = leaked \cup (ss \cap files)
  <2>1. Becomes(r, Idle) /\ faults' \in Nat
    BY <1>1, <1>7 DEF Becomes, Leave, Fault
  <2>2. leaked \subseteq leaked' /\ leaked' \subseteq Stored /\ \A o \in ss \cap files : o \in leaked'
    BY <1>1, <1>7
  <2> QED BY <1>1, <1>2, <1>4, <1>5, <2>1, <2>2, IdleType, IdleHolds, DeletionKeeps
<1> QED BY <1>6, <1>7 DEF Drop

LEMMA DeleteRowKeeps ==
  ASSUME IInv, NEW r \in Req, DeleteRow(r)
  PROVE  Sound(r)
<1> DEFINE a == req[r]
           ds == a.doc
           ss == a.victims
<1>1. /\ TypeOK /\ faults \in Nat /\ faults + 1 \in Nat /\ leaked \subseteq Stored /\ files \subseteq Stored
      /\ Shape(a) /\ Relies(a) /\ a \in Requests /\ a.pc = "row" /\ ss \in SUBSET Src /\ ds \in SUBSET Doc
      /\ project \in BOOLEAN
  BY AtPlace, Numbers DEF TypeOK, DeleteRow, Requests
<1>2. /\ UNCHANGED <<project, files, used, doubted, served>>
      /\ RowsDeleted(ds, ss) /\ attached' \subseteq attached /\ \A d \in ds : Live(d)
  BY DEF RowsDeleted, DeleteRow, Detached
<1>3. OnlyDeletes(ds \cup ss)
  <2>1. TypeOK /\ ds \in SUBSET Doc /\ ss \in SUBSET Src /\ RowsDeleted(ds, ss)
    BY <1>1, <1>2
  <2> QED BY <2>1, DeletedStatus
<1>4. \A o \in ds \cup ss : Status(o) # "none"
  BY <1>1, <1>2, Constants, StatusNames DEF Relies, Status, Live
<1>5. CASE /\ req' = [req EXCEPT ![r].pc = "erase", ![r].keys = ds, ![r].victims = {}]
           /\ leaked' = leaked \cup (ss \cap files) /\ UNCHANGED faults
  <2>1. "erase" \in Places /\ ds \in SUBSET Stored /\ {} \in SUBSET Src
    BY <1>1, PlaceNames, Constants
  <2>2. PICK c \in Requests : Advanced(c, a, "erase", ds, {}) /\ Becomes(r, c)
    BY <1>1, <1>5, <2>1, Moved
  <2>3. c.pc = "erase" /\ c.op = "delete_document" /\ c.keys = ds /\ c.doc = ds /\ c.victims = {}
    BY <1>1, <2>2 DEF Advanced, Shape
  <2>4. Shape(c)
    BY <2>3 DEF Shape, Making
  <2>5. \A o \in c.keys : Status(o)' = "deleted"
    BY <1>1, <1>3, <2>3, Constants DEF OnlyDeletes
  <2>6. Warned(c)'
    <3>1. \A d \in c.doc : docs'[d] = "deleted"
      BY <1>1, <1>2, <2>3 DEF RowsDeleted
    <3> QED BY <2>3, <3>1 DEF Warned
  <2>7. /\ leaked \subseteq leaked' /\ leaked' \subseteq Stored /\ faults' \in Nat
        /\ \A o \in (ds \cup ss) \cap files : o \in leaked' \/ o \in c.keys
    BY <1>1, <1>5, <2>3
  <2> QED BY <1>1, <1>2, <1>3, <1>4, <2>2, <2>3, <2>4, <2>5, <2>6, <2>7, DeletionKeeps
<1>6. CASE Fault("answer") /\ Leave(r) /\ leaked' = leaked \cup ((ds \cup ss) \cap files)
  <2>1. Becomes(r, Idle) /\ faults' \in Nat
    BY <1>1, <1>6 DEF Becomes, Leave, Fault
  <2>2. leaked \subseteq leaked' /\ leaked' \subseteq Stored /\ \A o \in (ds \cup ss) \cap files : o \in leaked'
    BY <1>1, <1>6
  <2> QED BY <1>1, <1>2, <1>3, <1>4, <2>1, <2>2, IdleType, IdleHolds, DeletionKeeps
<1> QED BY <1>5, <1>6 DEF DeleteRow

LEMMA WipeKeeps ==
  ASSUME IInv, NEW r \in Req, Wipe(r)
  PROVE  Sound(r)
<1> DEFINE a == req[r]
           ds == {d \in Doc : Live(d)}
           ss == {s \in Src : Exists(s)}
           lost == {o \in Stored : HasRow(o)} \ a.keys
<1>1. /\ TypeOK /\ faults \in Nat /\ faults + 1 \in Nat /\ leaked \subseteq Stored /\ files \subseteq Stored
      /\ Shape(a) /\ Relies(a) /\ a \in Requests /\ a.pc = "wipe" /\ a.keys \subseteq Stored
  BY AtPlace, Numbers DEF TypeOK, Wipe, Requests
<1>2. /\ UNCHANGED <<files, used, doubted, served>> /\ project' \in BOOLEAN /\ attached' \subseteq attached
      /\ RowsDeleted(ds, ss)
  BY DEF RowsDeleted, Wipe
<1>3. OnlyDeletes(ds \cup ss)
  <2>1. TypeOK /\ ds \in SUBSET Doc /\ ss \in SUBSET Src /\ RowsDeleted(ds, ss)
    BY <1>1, <1>2
  <2> QED BY <2>1, DeletedStatus
<1>4. \A o \in Object : o \in ds \cup ss <=> HasRow(o)
  BY Constants DEF HasRow, Object
<1>5. \A o \in ds \cup ss : Status(o) # "none"
  BY <1>1, <1>3, <1>4, RowStatus DEF OnlyDeletes
<1>6. \A o \in a.keys : Status(o)' = "deleted"
  BY <1>1, <1>3, <1>4, RowStatus, Constants DEF OnlyDeletes, Relies
<1>7. \A o \in (ds \cup ss) \cap files : o \in lost \/ o \in a.keys
  BY <1>1, <1>3, <1>4 DEF OnlyDeletes
<1> HIDE DEF ds, ss
<1>8. CASE Move(r, "erase") /\ leaked' = leaked \cup (lost \cap files) /\ UNCHANGED faults
  <2>1. "erase" \in Places /\ {} \in SUBSET Stored /\ {} \in SUBSET Src
    BY PlaceNames
  <2>2. PICK c \in Requests : Advanced(c, a, "erase", a.keys, a.victims) /\ Becomes(r, c)
    BY <1>1, <1>8, <2>1, Moved
  <2>3. c.pc = "erase" /\ c.op = "delete_project" /\ c.keys = a.keys /\ c.victims = {}
    BY <1>1, <2>2 DEF Advanced, Shape
  <2>4. Shape(c) /\ Warned(c)'
    BY <2>3 DEF Shape, Warned, Making
  <2>5. /\ leaked \subseteq leaked' /\ leaked' \subseteq Stored /\ faults' \in Nat
        /\ \A o \in (ds \cup ss) \cap files : o \in leaked' \/ o \in c.keys
    BY <1>1, <1>7, <1>8, <2>3
  <2> QED BY <1>1, <1>2, <1>3, <1>5, <1>6, <2>2, <2>3, <2>4, <2>5, DeletionKeeps
<1>9. CASE Fault("answer") /\ Leave(r) /\ leaked' = leaked \cup ((lost \cup a.keys) \cap files)
  <2>1. Becomes(r, Idle) /\ faults' \in Nat
    BY <1>1, <1>9 DEF Becomes, Leave, Fault
  <2>2. leaked \subseteq leaked' /\ leaked' \subseteq Stored /\ \A o \in (ds \cup ss) \cap files : o \in leaked'
    BY <1>1, <1>7, <1>9
  <2> QED BY <1>1, <1>2, <1>3, <1>5, <2>1, <2>2, IdleType, IdleHolds, DeletionKeeps
<1> QED BY <1>8, <1>9 DEF Wipe

-----------------------------------------------------------------------------
(* Steps that overtake others, and the analysis.                           *)

LEMMA Overtaken ==
  ASSUME IInv, NEW q \in Req, NEW ds \in SUBSET Doc
  PROVE  /\ Overtake(ds)[q] \in Requests /\ Kept(req[q], Overtake(ds)[q])
         /\ Overtake(ds)[q].pc # "idle" => ds \subseteq Overtake(ds)[q].overtaken
<1>1. PICK c \in Requests : c = req[q] /\ Shape(c)
  BY AtPlace
<1>2. Overtake(ds)[q] = IF c.pc = "idle" THEN Idle ELSE [c EXCEPT !.overtaken = @ \cup ds]
  BY <1>1 DEF Overtake
<1>3. CASE c.pc = "idle"
  BY <1>1, <1>2, <1>3, IdleType DEF Kept, Shape
<1>4. CASE c.pc # "idle"
  <2> DEFINE e == [c EXCEPT !.overtaken = @ \cup ds]
  <2>1. e \in Requests
    BY DEF Requests
  <2>2. /\ e.pc = c.pc /\ e.op = c.op /\ e.doc = c.doc /\ e.src = c.src /\ e.keys = c.keys
        /\ e.victims = c.victims /\ e.overtaken = c.overtaken \cup ds
    BY DEF Requests
  <2>3. Overtake(ds)[q] = e
    BY <1>2, <1>4
  <2> HIDE DEF e
  <2> QED BY <1>1, <1>4, <2>1, <2>2, <2>3 DEF Kept
<1> QED BY <1>3, <1>4

LEMMA AttachKeeps ==
  ASSUME IInv, NEW r \in Req, Attach(r)
  PROVE  Sound(r)
<1> DEFINE a == req[r]
<1>1. /\ TypeOK /\ a \in Requests /\ a.pc = "attach" /\ a.keys = {} /\ a.doc \in SUBSET Doc /\ a.src \subseteq Src
      /\ UNCHANGED <<project, docs, srcs, files, used, leaked, doubted, served, faults>>
  BY AtPlace DEF Attach, Requests
<1>2. req' = [Overtake(a.doc) EXCEPT ![r] = Idle]
  BY DEF Attach
<1>3. attached \subseteq attached' /\ attached' \subseteq attached \cup (a.doc \X a.src)
  BY DEF Attach
<1>4. /\ req'[r] = Idle /\ \A q \in Req \ {r} : req'[q] = Overtake(a.doc)[q]
      /\ DOMAIN req' = Req /\ req' = [q \in Req |-> req'[q]]
  BY <1>2 DEF Overtake
<1>5. ASSUME NEW q \in Req \ {r} PROVE req'[q] \in Requests /\ Kept(req[q], req'[q]) /\ Told(req'[q])
  <2>1. /\ req'[q] \in Requests /\ Kept(req[q], req'[q])
        /\ req'[q].pc # "idle" => a.doc \subseteq req'[q].overtaken
    BY <1>1, <1>4, Overtaken
  <2>2. Told(req'[q])
    BY <1>1, <1>3, <2>1 DEF Told
  <2> QED BY <2>1, <2>2
<1>6. TypeOK'
  <2>1. \A q \in Req : req'[q] \in Requests
    BY <1>4, <1>5, IdleType
  <2>2. req' \in [Req -> Requests]
    BY <1>4, <2>1
  <2>3. attached' \subseteq Doc \X Src
    BY <1>1, <1>3 DEF TypeOK
  <2> QED BY <1>1, <2>2, <2>3 DEF TypeOK
<1>7. Steady(a)
  BY <1>1 DEF Steady, Status
<1>8. LeavesNoFile(r)
  BY <1>1 DEF LeavesNoFile, HasRow, Live, Exists
<1>9. Shape(req'[r]) /\ Relies(req[r])' /\ Warned(req[r])' /\ MakesItsOwn(a, req'[r])
  <2>1. Shape(req'[r]) /\ MakesItsOwn(a, req'[r])
    BY <1>4, IdleHolds DEF MakesItsOwn
  <2>2. Relies(req[r])' /\ Warned(req[r])'
    BY <1>4, IdleHolds, IdleType DEF Relies, Warned, Making, Target
  <2> QED BY <2>1, <2>2
<1> QED BY <1>5, <1>6, <1>7, <1>8, <1>9, StepKeeps

\* The analysis of a document begins or ends; every request that is on its way is told.
LEMMA AnalysisKeeps ==
  ASSUME IInv, NEW d \in Doc, Dispatch(d) \/ EndAnalysis(d)
  PROVE  IInv' /\ Steady(Idle) /\ \A q \in Req : MakesItsOwn(req[q], req'[q])
<1>1. /\ TypeOK /\ FreshIds /\ OneMaker /\ RowHasFile /\ \A o \in files : Owned(o)
      /\ \A q \in Req : req[q] \in Requests /\ Shape(req[q]) /\ Relies(req[q]) /\ Warned(req[q])
      /\ UNCHANGED <<project, srcs, attached, files, used, leaked, doubted, served, faults>>
  BY DEF IInv, TypeOK, Dispatch, EndAnalysis
<1>2. PICK to \in DocumentStatus : docs' = [docs EXCEPT ![d] = to] /\ docs[d] \in DocumentStatus
  <2>1. CASE Dispatch(d)
    BY <2>1, StatusNames DEF Dispatch, Live
  <2>2. CASE EndAnalysis(d)
    <3>1. docs[d] = "in_progress" /\ \E to \in DocumentTargets("in_progress") : docs' = [docs EXCEPT ![d] = to]
      BY <2>2 DEF EndAnalysis
    <3>2. DocumentTargets("in_progress") \subseteq DocumentStatus
      BY DEF DocumentTargets, DocumentStatus
    <3> QED BY <3>1, <3>2, StatusNames
  <2> QED BY <2>1, <2>2
<1>3. ASSUME NEW q \in Req PROVE req'[q] \in Requests /\ Kept(req[q], req'[q]) /\ Told(req'[q])
  <2>1. CASE Dispatch(d)
    <3>1. req' = Overtake({d}) /\ docs' = [docs EXCEPT ![d] = "in_progress"] /\ {d} \in SUBSET Doc
      BY <2>1 DEF Dispatch
    <3>2. /\ req'[q] \in Requests /\ Kept(req[q], req'[q])
          /\ req'[q].pc # "idle" => d \in req'[q].overtaken
      BY <3>1, Overtaken
    <3> QED BY <1>1, <3>1, <3>2 DEF Told, TypeOK
  <2>2. CASE EndAnalysis(d)
    <3>1. req' = req /\ \E x \in DocumentTargets("in_progress") : docs' = [docs EXCEPT ![d] = x]
      BY <2>2 DEF EndAnalysis
    <3>2. "in_progress" \notin DocumentTargets("in_progress")
      BY DEF DocumentTargets
    <3> QED BY <1>1, <3>1, <3>2 DEF Kept, Told, TypeOK
  <2> QED BY <2>1, <2>2
<1>4. TypeOK'
  <2>1. docs' \in [Doc -> DocStatuses]
    BY <1>1, <1>2 DEF TypeOK, DocStatuses
  <2>2. req' \in [Req -> Requests]
    <3>1. req' = Overtake({d}) \/ req' = req
      BY DEF Dispatch, EndAnalysis
    <3>2. req' = [q \in Req |-> req'[q]]
      BY <1>1, <3>1 DEF Overtake, TypeOK
    <3> QED BY <1>3, <3>2
  <2> QED BY <1>1, <2>1, <2>2 DEF TypeOK
<1>5. Steady(Idle)
  BY <1>1, <1>2, StatusNames DEF Steady, Status, TypeOK
<1>6. FreshIds' /\ RowHasFile'
  BY <1>1, <1>4, <1>5, IdleType, IdleHolds, FreshStays, RowsKeepFiles
<1>7. ASSUME NEW q \in Req
      PROVE  /\ Shape(req'[q]) /\ Relies(req[q])' /\ Warned(req[q])'
             /\ Making(req'[q]) = Making(req[q]) /\ Target(req'[q]) = Target(req[q])
             /\ req'[q].keys = req[q].keys /\ req'[q].pc = req[q].pc
  <2>1. PICK c \in Requests, e \in Requests : c = req[q] /\ e = req'[q]
    BY <1>1, <1>3
  <2>2. /\ Kept(c, e) /\ Told(e) /\ Shape(c) /\ Relies(c) /\ Warned(c)
    BY <1>1, <1>3, <2>1
  <2>3. Shape(e) /\ Making(e) = Making(c) /\ Target(e) = Target(c)
    BY <2>2, KeptShape
  <2>4. Relies(e)'
    BY <1>1, <1>5, <2>2, IdleType, IdleHolds, KeptRelies
  <2>5. Warned(e)'
    BY <1>1, <2>2, KeptWarned
  <2>6. (Relies(e)' <=> Relies(req[q])') /\ (Warned(e)' <=> Warned(req[q])')
    BY <2>1 DEF Relies, Warned, Making, Target
  <2> QED BY <2>1, <2>2, <2>3, <2>4, <2>5, <2>6 DEF Kept
<1>8. OneMaker'
  <2>1. \A p, q \in Req : p # q /\ Making(req[p])' /\ Making(req[q])' => Target(req[p])' \cap Target(req[q])' = {}
    <3>1. \A q \in Req : Making(req[q])' = Making(req[q]) /\ Target(req[q])' = Target(req[q])
      BY <1>7 DEF Making, Target
    <3> QED BY <1>1, <3>1 DEF OneMaker
  <2> QED BY <2>1 DEF OneMaker
<1>9. \A o \in files' : Owned(o)'
  <2>1. \A o \in Object : HasRow(o) => HasRow(o)'
    BY <1>1, <1>2 DEF HasRow, Live, Exists, TypeOK
  <2>2. files' = files /\ leaked' = leaked /\ files \subseteq Object
    BY <1>1, Constants DEF TypeOK
  <2> QED BY <1>1, <1>7, <2>1, <2>2 DEF Owned
<1>10. \A q \in Req : Shape(req[q])' /\ Relies(req[q])' /\ Warned(req[q])'
  <2>1. \A q \in Req : Shape(req'[q]) /\ Relies(req[q])' /\ Warned(req[q])'
    BY <1>7
  <2> QED BY <2>1 DEF Shape, Making, Target
<1>11. \A q \in Req : MakesItsOwn(req[q], req'[q])
  BY <1>7 DEF MakesItsOwn
<1> QED BY <1>4, <1>5, <1>6, <1>8, <1>9, <1>10, <1>11 DEF IInv

-----------------------------------------------------------------------------
(* The invariant.                                                          *)

LEMMA InitHolds == Init => IInv
<1> SUFFICES ASSUME Init PROVE IInv
  OBVIOUS
<1>1. TypeOK
  BY IdleType DEF Init, TypeOK, DocStatuses, SrcStatuses
<1>2. \A o \in Object : Status(o) = "none"
  BY Constants DEF Init, Status, Object
<1>3. \A r \in Req : req[r] = Idle
  BY DEF Init
<1>4. FreshIds /\ OneMaker /\ \A o \in files : Owned(o)
  BY <1>2, <1>3, IdleHolds DEF Init, FreshIds, OneMaker
<1>5. RowHasFile
  BY <1>1, <1>2, RowStatus, Constants DEF RowHasFile
<1>6. \A r \in Req : Shape(req[r]) /\ Relies(req[r]) /\ Warned(req[r])
  BY <1>3, IdleHolds
<1> QED BY <1>1, <1>4, <1>5, <1>6 DEF IInv

LEMMA RequestStepHolds ==
  ASSUME IInv, NEW r \in Req,
         \/ UploadDocument(r) \/ CreateStoredSource(r) \/ CreateUrlSource(r)
         \/ Put(r) \/ PutFails(r) \/ Insert(r) \/ InsertFails(r) \/ Undo(r)
         \/ AttachSources(r) \/ Attach(r) \/ DeleteSource(r) \/ Drop(r)
         \/ DeleteDocument(r) \/ DeleteScopedSources(r) \/ DeleteRow(r)
         \/ DeleteProject(r) \/ CollectKeys(r) \/ Wipe(r)
         \/ Rollback(r) \/ EraseOne(r) \/ EraseDone(r) \/ Die(r)
  PROVE  Sound(r)
<1>1. CASE UploadDocument(r) \/ CreateStoredSource(r) \/ CreateUrlSource(r)
  BY <1>1, UploadDocumentKeeps, CreateStoredSourceKeeps, CreateUrlSourceKeeps
<1>2. CASE Put(r) \/ Undo(r) \/ EraseOne(r)
  BY <1>2, PutKeeps, UndoKeeps, EraseOneKeeps
<1>3. CASE Insert(r) \/ InsertFails(r)
  BY <1>3, InsertKeeps, InsertFailsKeeps
<1>4. CASE PutFails(r) \/ Rollback(r) \/ EraseDone(r) \/ Die(r)
  BY <1>4, EndsKeep
<1>5. CASE AttachSources(r) \/ DeleteSource(r) \/ DeleteDocument(r) \/ DeleteProject(r)
  BY <1>5, ChecksKeep
<1>6. CASE DeleteScopedSources(r) \/ CollectKeys(r)
  BY <1>6, DeletionsGoOn
<1>7. CASE Attach(r) \/ Drop(r) \/ DeleteRow(r) \/ Wipe(r)
  BY <1>7, AttachKeeps, DropKeeps, DeleteRowKeeps, WipeKeeps
<1> QED BY <1>1, <1>2, <1>3, <1>4, <1>5, <1>6, <1>7

LEMMA NextHolds == IInv /\ [Next]_vars => IInv'
<1> SUFFICES ASSUME IInv, [Next]_vars PROVE IInv'
  OBVIOUS
<1>1. CASE UNCHANGED vars
  BY <1>1 DEF IInv, TypeOK, FreshIds, OneMaker, Making, Target, Status, Shape, Relies, Warned,
              RowHasFile, Owned, HasRow, Live, Exists, vars
<1>2. CASE Next
  <2>1. CASE \E d \in Doc : Dispatch(d) \/ EndAnalysis(d)
    BY <2>1, AnalysisKeeps
  <2>2. CASE \E r \in Req :
               \/ UploadDocument(r) \/ CreateStoredSource(r) \/ CreateUrlSource(r)
               \/ Put(r) \/ PutFails(r) \/ Insert(r) \/ InsertFails(r) \/ Undo(r)
               \/ AttachSources(r) \/ Attach(r) \/ DeleteSource(r) \/ Drop(r)
               \/ DeleteDocument(r) \/ DeleteScopedSources(r) \/ DeleteRow(r)
               \/ DeleteProject(r) \/ CollectKeys(r) \/ Wipe(r)
               \/ Rollback(r) \/ EraseOne(r) \/ EraseDone(r) \/ Die(r)
    BY <2>2, RequestStepHolds DEF Sound
  <2> QED BY <1>2, <2>1, <2>2 DEF Next
<1> QED BY <1>1, <1>2

LEMMA Invariant == Spec => []IInv
BY InitHolds, NextHolds, PTL DEF Spec

\* Every request, document and source is one the code can make.
THEOREM TypeCorrect == Spec => []TypeOK
<1>1. IInv => TypeOK
  BY DEF IInv
<1> QED BY <1>1, Invariant, PTL

\* A document or source that can be opened has its file, through every failure and race,
\* unless the answer of its own insert was lost.
THEOREM RowsHaveFiles == Spec => []RowHasFile
<1>1. IInv => RowHasFile
  BY DEF IInv
<1> QED BY <1>1, Invariant, PTL

\* Every object in the storage is owned by a row or by a request, or was given up.
THEOREM NoFileIsForgotten == Spec => []FilesAccounted
<1>1. IInv => FilesAccounted
  BY DEF IInv, FilesAccounted, Owned
<1> QED BY <1>1, Invariant, PTL

-----------------------------------------------------------------------------
(* While a document is analysed.                                           *)

\* The steps that delete a document or change its sources, with what they were told.
LEMMA FrozenStep ==
  ASSUME IInv, Next, NEW d \in Doc, docs[d] = "in_progress",
         docs'[d] = "deleted" \/ SourcesOf(d)' # SourcesOf(d)
  PROVE  \E r \in Req : MayTouch(r, d)
<1>1. TypeOK /\ "in_progress" # "deleted"
  BY DEF IInv
<1>2. ~(docs' = docs /\ attached' = attached /\ srcs' = srcs)
  BY DEF SourcesOf
<1>3. ASSUME NEW r \in Req, req[r].pc # "idle", req'[r].pc # req[r].pc,
             \/ d \in req[r].overtaken
             \/ req[r].op = "delete_project"
             \/ req[r].op = "delete_document" /\ d \notin req[r].doc
             \/ OfTheProject(r, d)
      PROVE  \E q \in Req : MayTouch(q, d)
  BY <1>3 DEF MayTouch
<1>4. ASSUME NEW r \in Req, NEW p \in Places, Becomes(r, Idle) \/ \E c \in Requests : c.pc = p /\ Becomes(r, c)
      PROVE  req'[r].pc \in {"idle", p}
  BY <1>1, <1>4, IdleType DEF Becomes, TypeOK
<1>5. ASSUME NEW r \in Req, Insert(r) PROVE \E q \in Req : MayTouch(q, d)
  <2> DEFINE a == req[r]
  <2>1. /\ a.pc = "insert" /\ Shape(a) /\ Warned(a) /\ a \in Requests
        /\ \A o \in Object : o \notin Target(a) => Status(o)' = Status(o)
        /\ \A o \in Target(a) : Status(o) = "none" /\ Status(o)' \notin {"none", "deleted"}
        /\ \A p \in attached' \ attached : p[1] \in a.doc /\ a.op # "upload"
        /\ attached \subseteq attached' /\ Written(r)
    BY <1>5, AtPlace, InsertedRows DEF Insert
  <2>2. docs'[d] # "deleted"
    BY <1>1, <2>1, Constants DEF Status
  <2>3. a.op \in {"create", "link"}
    <3>1. a.op \in {"upload", "create", "link"}
      BY <2>1 DEF Shape, Making
    <3>2. a.op = "upload" => srcs' = srcs /\ attached' = attached
      BY <2>1 DEF Written
    <3> QED BY <2>2, <3>1, <3>2 DEF SourcesOf
  <2>4. a.doc = {} \/ d \in a.doc
    <3>1. SUFFICES ASSUME a.doc # {}, d \notin a.doc PROVE FALSE
      OBVIOUS
    <3>2. \A s \in Src : <<d, s>> \in attached' <=> <<d, s>> \in attached
      BY <2>1, <3>1
    <3>3. srcs' = [s \in Src |-> IF s \notin a.src THEN srcs[s]
                                 ELSE IF a.doc = {} THEN "project" ELSE "document"]
      BY <2>1, <2>3 DEF Written
    <3>4. \A s \in a.src : srcs[s] = "none"
      BY <1>1, <2>1, <2>3, Constants DEF Target, Status, Requests, Object
    <3>5. \A s \in Src : srcs'[s] = "project" <=> srcs[s] = "project"
      BY <3>1, <3>3, <3>4
    <3> QED BY <2>2, <3>2, <3>5 DEF SourcesOf
  <2>5. d \in a.overtaken \/ OfTheProject(r, d)
    BY <2>1, <2>3, <2>4 DEF Warned, OfTheProject
  <2>6. "undo" \in Places /\ {} \in SUBSET Stored /\ {} \in SUBSET Src
    BY PlaceNames
  <2>7. Leave(r) \/ Move(r, "undo")
    BY <1>5 DEF Insert
  <2>8. req'[r].pc \in {"idle", "undo"}
    <3>1. Leave(r) => Becomes(r, Idle)
      BY DEF Leave, Becomes
    <3>2. Move(r, "undo") => \E c \in Requests : Advanced(c, a, "undo", a.keys, a.victims) /\ Becomes(r, c)
      BY <1>1, <2>6, Moved
    <3> QED BY <1>4, <2>6, <2>7, <3>1, <3>2 DEF Advanced
  <2> QED BY <1>3, <2>1, <2>5, <2>8
<1>6. ASSUME NEW r \in Req, Attach(r) PROVE \E q \in Req : MayTouch(q, d)
  <2> DEFINE a == req[r]
  <2>1. /\ a.pc = "attach" /\ Shape(a) /\ Warned(a) /\ a \in Requests
        /\ req' = [Overtake(a.doc) EXCEPT ![r] = Idle] /\ docs' = docs /\ srcs' = srcs
        /\ attached \subseteq attached' /\ attached' \subseteq attached \cup (a.doc \X a.src)
    BY <1>6, AtPlace DEF Attach
  <2>2. d \in a.doc
    BY <1>1, <2>1 DEF SourcesOf
  <2>3. d \in a.overtaken
    BY <2>1, <2>2 DEF Shape, Warned
  <2>4. req'[r].pc = "idle"
    BY <2>1, IdleType DEF Overtake
  <2> QED BY <1>3, <2>1, <2>3, <2>4
<1>7. ASSUME NEW r \in Req, Drop(r) PROVE \E q \in Req : MayTouch(q, d)
  <2> DEFINE a == req[r]
  <2>1. /\ a.pc = "drop" /\ Shape(a) /\ Warned(a) /\ a \in Requests /\ docs' = docs
        /\ attached' = Detached({}, a.src)
        /\ srcs' = [s \in Src |-> IF s \in a.src THEN "deleted" ELSE srcs[s]]
    BY <1>7, AtPlace DEF Drop
  <2>2. d \in a.overtaken \/ OfTheProject(r, d)
    <3>1. CASE \E s \in a.src : <<d, s>> \in attached
      BY <2>1, <3>1 DEF Warned
    <3>2. CASE \A s \in a.src : <<d, s>> \notin attached
      BY <2>1, <3>2 DEF Shape, OfTheProject
    <3> QED BY <3>1, <3>2
  <2>4. "erase" \in Places /\ a.src \ Url \in SUBSET Stored /\ {} \in SUBSET Src
    BY <2>1, PlaceNames DEF Stored, Requests
  <2>5. Leave(r) \/ req' = [req EXCEPT ![r].pc = "erase", ![r].keys = a.src \ Url]
    BY <1>7 DEF Drop
  <2>6. req'[r].pc \in {"idle", "erase"}
    <3>1. Leave(r) => Becomes(r, Idle)
      BY DEF Leave, Becomes
    <3>2. req' = [req EXCEPT ![r].pc = "erase", ![r].keys = a.src \ Url] =>
            \E c \in Requests : Advanced(c, a, "erase", a.src \ Url, a.victims) /\ Becomes(r, c)
      BY <1>1, <2>4, Moved
    <3> QED BY <1>4, <2>4, <2>5, <3>1, <3>2 DEF Advanced
  <2> QED BY <1>3, <2>1, <2>2, <2>6
<1>8. ASSUME NEW r \in Req, DeleteRow(r) PROVE \E q \in Req : MayTouch(q, d)
  <2> DEFINE a == req[r]
  <2>1. a.pc = "row" /\ Shape(a) /\ Warned(a) /\ a \in Requests /\ a.op = "delete_document"
    BY <1>8, AtPlace DEF DeleteRow, Shape
  <2>2. d \in a.doc => d \in a.overtaken
    BY <2>1 DEF Warned
  <2>3. "erase" \in Places /\ a.doc \in SUBSET Stored /\ {} \in SUBSET Src
    BY <2>1, PlaceNames, Constants DEF Requests
  <2>4. Leave(r) \/ req' = [req EXCEPT ![r].pc = "erase", ![r].keys = a.doc, ![r].victims = {}]
    BY <1>8 DEF DeleteRow
  <2>5. req'[r].pc \in {"idle", "erase"}
    <3>1. Leave(r) => Becomes(r, Idle)
      BY DEF Leave, Becomes
    <3>2. req' = [req EXCEPT ![r].pc = "erase", ![r].keys = a.doc, ![r].victims = {}] =>
            \E c \in Requests : Advanced(c, a, "erase", a.doc, {}) /\ Becomes(r, c)
      BY <1>1, <2>3, Moved
    <3> QED BY <1>4, <2>3, <2>4, <3>1, <3>2 DEF Advanced
  <2> QED BY <1>3, <2>1, <2>2, <2>5
<1>9. ASSUME NEW r \in Req, Wipe(r) PROVE \E q \in Req : MayTouch(q, d)
  <2> DEFINE a == req[r]
  <2>1. a.pc = "wipe" /\ a.op = "delete_project"
    BY <1>9, AtPlace DEF Wipe, Shape
  <2>2. "erase" \in Places /\ {} \in SUBSET Stored /\ {} \in SUBSET Src /\ (Leave(r) \/ Move(r, "erase"))
    BY <1>9, PlaceNames DEF Wipe
  <2>3. req'[r].pc \in {"idle", "erase"}
    <3>1. Leave(r) => Becomes(r, Idle)
      BY DEF Leave, Becomes
    <3>2. Move(r, "erase") => \E c \in Requests : Advanced(c, a, "erase", a.keys, a.victims) /\ Becomes(r, c)
      BY <1>1, <2>2, Moved
    <3> QED BY <1>4, <2>2, <3>1, <3>2 DEF Advanced
  <2> QED BY <1>3, <2>1, <2>3
<1>10. ASSUME NEW e \in Doc, Dispatch(e) \/ EndAnalysis(e) PROVE docs'[d] # "deleted" /\ attached' = attached /\ srcs' = srcs
  <2>1. attached' = attached /\ srcs' = srcs
    BY <1>10 DEF Dispatch, EndAnalysis
  <2>2. CASE Dispatch(e)
    BY <1>1, <2>1, <2>2 DEF Dispatch, TypeOK
  <2>3. CASE EndAnalysis(e)
    <3>1. PICK to \in DocumentTargets("in_progress") : docs' = [docs EXCEPT ![e] = to]
      BY <2>3 DEF EndAnalysis
    <3>2. to # "deleted"
      BY DEF DocumentTargets
    <3>3. docs'[d] = to \/ docs'[d] = docs[d]
      BY <1>1, <3>1 DEF TypeOK
    <3> QED BY <1>1, <2>1, <3>2, <3>3
  <2> QED BY <1>10, <2>1, <2>2, <2>3
<1>11. ASSUME NEW r \in Req,
              \/ UploadDocument(r) \/ CreateStoredSource(r) \/ CreateUrlSource(r)
              \/ Put(r) \/ PutFails(r) \/ InsertFails(r) \/ Undo(r)
              \/ AttachSources(r) \/ DeleteSource(r) \/ DeleteDocument(r) \/ DeleteScopedSources(r)
              \/ DeleteProject(r) \/ CollectKeys(r)
              \/ Rollback(r) \/ EraseOne(r) \/ EraseDone(r) \/ Die(r)
       PROVE  docs' = docs /\ attached' = attached /\ srcs' = srcs
  BY <1>11 DEF UploadDocument, CreateStoredSource, CreateUrlSource, Put, PutFails, InsertFails, Undo,
               AttachSources, DeleteSource, DeleteDocument, DeleteScopedSources, DeleteProject, CollectKeys,
               Rollback, EraseOne, EraseDone, Die, rows
<1>12. CASE \E e \in Doc : Dispatch(e) \/ EndAnalysis(e)
  <2>1. docs'[d] # "deleted" /\ attached' = attached /\ srcs' = srcs
    BY <1>10, <1>12
  <2> QED BY <2>1 DEF SourcesOf
<1> QED BY <1>2, <1>5, <1>6, <1>7, <1>8, <1>9, <1>11, <1>12 DEF Next

\* While a document is analysed only requests that checked before it began or came under
\* way delete it or change what its analysis reads, the deletions of others that take its
\* own along, and those that make or delete a source of the whole project.
THEOREM Frozen == Spec => FrozenWhileAnalysed
<1>1. IInv /\ [Next]_vars =>
        [\A d \in Doc :
           docs[d] = "in_progress" /\ (docs'[d] = "deleted" \/ SourcesOf(d)' # SourcesOf(d))
             => \E r \in Req : MayTouch(r, d)]_vars
  BY FrozenStep
<1> QED BY <1>1, Invariant, PTL DEF Spec, FrozenWhileAnalysed

-----------------------------------------------------------------------------
(* The life of an object.                                                  *)

\* PhaseOf in the words of the invariant, before and after a step.
Phase(o) == IF Status(o) \notin {"none", "deleted"} THEN (IF o \in files THEN "kept" ELSE "broken")
            ELSE IF o \in files THEN (IF Status(o) = "none" THEN "offered" ELSE "left")
            ELSE IF Awaited(o) THEN "new" ELSE "gone"

LEMMA Phases ==
  /\ TypeOK  => \A o \in Stored : PhaseOf(o) = Phase(o)
  /\ TypeOK' => \A o \in Stored : PhaseOf(o)' = Phase(o)'
<1>1. ASSUME TypeOK, NEW o \in Stored PROVE PhaseOf(o) = Phase(o)
  <2>1. HasRow(o) <=> Status(o) \notin {"none", "deleted"}
    BY <1>1, RowStatus, Constants
  <2> QED BY <2>1 DEF PhaseOf, Phase
<1>2. ASSUME TypeOK', NEW o \in Stored PROVE PhaseOf(o)' = Phase(o)'
  <2>1. HasRow(o)' <=> Status(o)' \notin {"none", "deleted"}
    BY <1>2, RowStatus, Constants
  <2> QED BY <2>1 DEF PhaseOf, Phase
<1> QED BY <1>1, <1>2

\* A request about to put the file of o is the one that makes it.
LEMMA AwaitedTarget ==
  ASSUME NEW o \in Stored, NEW c \in Requests, c.pc = "put", Shape(c)
  PROVE  o \in c.doc \cup c.src /\ (o \in Doc => c.op = "upload") <=> o \in Target(c)
<1>1. c.doc \subseteq Doc /\ c.src \subseteq Src /\ (o \in Doc \/ o \in Src) /\ ~(o \in Doc /\ o \in Src)
  BY Constants DEF Requests, Stored
<1>2. c.op = "upload" => c.src = {}
  BY DEF Shape, Making
<1> QED BY <1>1, <1>2 DEF Target

LEMMA WhoMakes ==
  ASSUME IInv, IInv', NEW o \in Stored
  PROVE  /\ Awaited(o) <=> o \notin used \/ \E r \in Req : req[r].pc = "put" /\ o \in Target(req[r])
         /\ Awaited(o)' <=> o \notin used' \/ \E r \in Req : req'[r].pc = "put" /\ o \in Target(req'[r])
<1>1. \A r \in Req : req[r] \in Requests /\ Shape(req[r]) /\ req'[r] \in Requests /\ Shape(req'[r])
  BY DEF IInv, TypeOK, Shape, Making, Target
<1>2. \A r \in Req : req[r].pc = "put" =>
        (o \in req[r].doc \cup req[r].src /\ (o \in Doc => req[r].op = "upload") <=> o \in Target(req[r]))
  BY <1>1, AwaitedTarget
<1>3. \A r \in Req : req'[r].pc = "put" =>
        (o \in req'[r].doc \cup req'[r].src /\ (o \in Doc => req'[r].op = "upload") <=> o \in Target(req'[r]))
  BY <1>1, AwaitedTarget
<1> QED BY <1>2, <1>3 DEF Awaited

\* What a step of the request with record a may do to one object.
LEMMA PhaseStep ==
  ASSUME IInv, IInv', NEW a \in Requests, a = Idle \/ \E r \in Req : a = req[r],
         Shape(a), Relies(a), Steady(a), \A q \in Req : MakesItsOwn(req[q], req'[q]),
         files' = files \/ (docs' = docs /\ srcs' = srcs), NEW o \in Stored
  PROVE  PhaseOf(o)' \in {PhaseOf(o)} \cup Storage!Successor(PhaseOf(o))
<1> DEFINE old == PhaseOf(o)
           new == PhaseOf(o)'
<1>1. o \in Object /\ files \subseteq Stored /\ (files' = files \/ Status(o)' = Status(o))
  BY Constants DEF IInv, TypeOK, Status
<1>2. /\ Status(o) = "none" => Status(o)' = "none" \/ (a.pc = "insert" /\ o \in Target(a))
      /\ Status(o) = "none" => Status(o)' # "deleted"
      /\ Status(o) # "none" => Status(o)' # "none"
      /\ Status(o) = "deleted" => Status(o)' = "deleted"
      /\ o \in files /\ o \notin files' => Status(o) = "deleted" \/ (a.pc = "undo" /\ o \in Target(a))
      /\ o \notin files /\ o \in files' => a.pc = "put" /\ o \in Target(a)
  BY <1>1 DEF Steady
\* A row is written over a file, a file is written for an object that has neither.
<1>3. a.pc = "insert" /\ o \in Target(a) => o \in files
  <2>1. a.pc = "insert" /\ o \in Target(a) => o \in a.keys
    BY Constants DEF Shape, Making, Target, Requests, Stored
  <2> QED BY <2>1 DEF Relies
<1>4. o \notin used => Status(o) = "none" /\ o \notin files
  BY <1>1 DEF IInv, FreshIds
<1>5. ASSUME NEW r \in Req, req[r].pc = "put", o \in Target(req[r])
      PROVE  Status(o) = "none" /\ o \notin files
  BY <1>5 DEF IInv, Relies
<1>6. Awaited(o) => Status(o) = "none" /\ o \notin files
  BY <1>4, <1>5, WhoMakes
<1>7. Awaited(o)' => Status(o)' = "none" /\ o \notin files'
  <2>1. o \notin used' => Status(o)' = "none" /\ o \notin files'
    BY <1>1 DEF IInv, FreshIds
  <2>2. ASSUME NEW r \in Req, req'[r].pc = "put", o \in Target(req'[r])
        PROVE  Status(o)' = "none" /\ o \notin files'
    <3>1. Relies(req[r])'
      BY DEF IInv
    <3> QED BY <2>2, <3>1 DEF Relies, Target
  <2> QED BY <2>1, <2>2, WhoMakes
<1>8. Awaited(o)' => Awaited(o)
  <2>1. used \subseteq used'
    BY DEF Steady
  <2>2. ASSUME NEW r \in Req, req'[r].pc = "put", o \in Target(req'[r]) PROVE Awaited(o)
    <3>1. (req[r].pc = "put" /\ o \in Target(req[r])) \/ o \notin used
      BY <2>2 DEF MakesItsOwn, Making
    <3> QED BY <3>1, WhoMakes
  <2> QED BY <2>1, <2>2, WhoMakes
<1>9. a.pc = "put" /\ o \in Target(a) => Status(o) = "none" /\ o \notin files
  BY DEF Relies
<1>10. a.pc = "put" /\ o \in Target(a) => Awaited(o)
  BY IdleType, WhoMakes
<1>11. PhaseOf(o) = Phase(o) /\ PhaseOf(o)' = Phase(o)'
  BY Phases DEF IInv
<1>12. CASE Status(o) \notin {"none", "deleted"}
  <2>1. CASE o \in files
    <3>1. Phase(o) = "kept" /\ Phase(o)' \in {"kept", "broken", "left"}
      BY <1>1, <1>2, <1>12, <2>1 DEF Phase
    <3> QED BY <1>11, <3>1 DEF Storage!Successor
  <2>2. CASE o \notin files
    <3>1. Phase(o) = "broken" /\ Phase(o)' \in {"broken", "gone"}
      BY <1>2, <1>7, <1>9, <1>12, <2>2 DEF Phase
    <3> QED BY <1>11, <3>1 DEF Storage!Successor
  <2> QED BY <2>1, <2>2
<1>13. CASE Status(o) = "deleted"
  <2>1. Status(o)' = "deleted"
    BY <1>2, <1>13
  <2>2. CASE o \in files
    <3>1. Phase(o) = "left" /\ Phase(o)' \in {"left", "gone"}
      BY <1>7, <1>13, <2>1, <2>2 DEF Phase
    <3> QED BY <1>11, <3>1 DEF Storage!Successor
  <2>3. CASE o \notin files
    <3>1. Phase(o) = "gone" /\ Phase(o)' = "gone"
      BY <1>2, <1>6, <1>7, <1>9, <1>13, <2>1, <2>3 DEF Phase
    <3> QED BY <1>11, <3>1 DEF Storage!Successor
  <2> QED BY <2>2, <2>3
<1>14. CASE Status(o) = "none"
  <2>1. CASE o \in files
    <3>1. Phase(o) = "offered" /\ Phase(o)' \in {"offered", "kept", "gone"}
      <4>1. ~Awaited(o) /\ ~Awaited(o)'
        BY <1>6, <1>8, <2>1
      <4>2. Status(o)' \in {"none"} \/ o \in files'
        BY <1>1, <1>14, <2>1
      <4>3. Status(o)' # "deleted"
        BY <1>2, <1>14
      <4> QED BY <1>14, <2>1, <4>1, <4>2, <4>3 DEF Phase
    <3> QED BY <1>11, <3>1 DEF Storage!Successor
  <2>2. CASE o \notin files
    <3>1. Status(o)' = "none"
      BY <1>2, <1>3, <1>14, <2>2
    <3>2. CASE Awaited(o)
      <4>1. Phase(o) = "new" /\ Phase(o)' \in {"new", "offered", "gone"}
        BY <1>14, <2>2, <3>1, <3>2 DEF Phase
      <4> QED BY <1>11, <4>1 DEF Storage!Successor
    <3>3. CASE ~Awaited(o)
      <4>1. Phase(o) = "gone" /\ Phase(o)' = "gone"
        BY <1>2, <1>8, <1>10, <1>14, <2>2, <3>1, <3>3 DEF Phase
      <4> QED BY <1>11, <4>1 DEF Storage!Successor
    <3> QED BY <3>2, <3>3
  <2> QED BY <2>1, <2>2
<1> QED BY <1>12, <1>13, <1>14

\* No step touches rows and files at once.
LEMMA RowsOrFiles ==
  ASSUME Next
  PROVE  files' = files \/ (docs' = docs /\ srcs' = srcs)
<1>1. ASSUME NEW r \in Req, Put(r) \/ PutFails(r) \/ Undo(r) \/ EraseOne(r) PROVE docs' = docs /\ srcs' = srcs
  BY <1>1 DEF Put, PutFails, Undo, EraseOne, rows
<1>2. ASSUME NEW r \in Req,
             \/ UploadDocument(r) \/ CreateStoredSource(r) \/ CreateUrlSource(r)
             \/ Insert(r) \/ InsertFails(r) \/ AttachSources(r) \/ Attach(r) \/ DeleteSource(r) \/ Drop(r)
             \/ DeleteDocument(r) \/ DeleteScopedSources(r) \/ DeleteRow(r)
             \/ DeleteProject(r) \/ CollectKeys(r) \/ Wipe(r) \/ Rollback(r) \/ EraseDone(r) \/ Die(r)
      PROVE  files' = files
  BY <1>2 DEF UploadDocument, CreateStoredSource, CreateUrlSource, Insert, InsertFails, AttachSources,
              Attach, DeleteSource, Drop, DeleteDocument, DeleteScopedSources, DeleteRow, DeleteProject,
              CollectKeys, Wipe, Rollback, EraseDone, Die
<1>3. ASSUME NEW d \in Doc, Dispatch(d) \/ EndAnalysis(d) PROVE files' = files
  BY <1>3 DEF Dispatch, EndAnalysis
<1> QED BY <1>1, <1>2, <1>3 DEF Next

LEMMA StorageStep ==
  ASSUME IInv, IInv', Next, NEW o \in Stored
  PROVE  PhaseOf(o)' \in {PhaseOf(o)} \cup Storage!Successor(PhaseOf(o))
<1>1. files' = files \/ (docs' = docs /\ srcs' = srcs)
  BY RowsOrFiles
<1>2. CASE \E d \in Doc : Dispatch(d) \/ EndAnalysis(d)
  <2>1. Steady(Idle) /\ \A q \in Req : MakesItsOwn(req[q], req'[q])
    BY <1>2, AnalysisKeeps
  <2> QED BY <1>1, <2>1, IdleType, IdleHolds, PhaseStep
<1>3. CASE \E r \in Req :
               \/ UploadDocument(r) \/ CreateStoredSource(r) \/ CreateUrlSource(r)
               \/ Put(r) \/ PutFails(r) \/ Insert(r) \/ InsertFails(r) \/ Undo(r)
               \/ AttachSources(r) \/ Attach(r) \/ DeleteSource(r) \/ Drop(r)
               \/ DeleteDocument(r) \/ DeleteScopedSources(r) \/ DeleteRow(r)
               \/ DeleteProject(r) \/ CollectKeys(r) \/ Wipe(r)
               \/ Rollback(r) \/ EraseOne(r) \/ EraseDone(r) \/ Die(r)
  <2>1. PICK r \in Req : Sound(r)
    BY <1>3, RequestStepHolds
  <2>2. PICK a \in Requests : a = req[r] /\ Shape(a) /\ Relies(a)
    BY AtPlace
  <2>3. Steady(a) /\ \A q \in Req : MakesItsOwn(req[q], req'[q])
    <3>1. Steady(req[r]) /\ \A q \in Req : MakesItsOwn(req[q], req'[q])
      BY <2>1 DEF Sound
    <3> QED BY <2>2, <3>1 DEF Steady
  <2>4. a = Idle \/ \E q \in Req : a = req[q]
    BY <2>2
  <2> QED BY <1>1, <2>2, <2>3, <2>4, PhaseStep
<1> QED BY <1>2, <1>3 DEF Next

LEMMA StorageInit == Init => Storage!Init
<1> SUFFICES ASSUME Init PROVE [o \in Stored |-> PhaseOf(o)] = [o \in Stored |-> "new"]
  BY DEF Storage!Init
<1>1. IInv
  BY InitHolds
<1>2. ASSUME NEW o \in Stored PROVE PhaseOf(o) = "new"
  <2>1. PhaseOf(o) = Phase(o) /\ o \in Object
    BY <1>1, Phases, Constants DEF IInv
  <2>2. Status(o) = "none" /\ o \notin files /\ Awaited(o)
    BY <2>1 DEF Init, Status, Object, Awaited
  <2> QED BY <2>1, <2>2 DEF Phase
<1> QED BY <1>2

LEMMA StorageNext == IInv /\ IInv' /\ [Next]_vars => [Storage!Next]_([o \in Stored |-> PhaseOf(o)])
<1> SUFFICES ASSUME IInv, IInv', [Next]_vars
             PROVE  \/ Storage!Next
                    \/ [o \in Stored |-> PhaseOf(o)]' = [o \in Stored |-> PhaseOf(o)]
  OBVIOUS
<1>1. CASE Next
  <2>1. \A o \in Stored : PhaseOf(o)' \in {PhaseOf(o)} \cup Storage!Successor(PhaseOf(o))
    BY <1>1, StorageStep
  <2>2. \A o \in Stored : PhaseOf(o)' \in Storage!Phase
    <3>1. \A o \in Stored : PhaseOf(o)' = Phase(o)'
      BY Phases DEF IInv
    <3>2. \A o \in Stored : Phase(o)' \in Storage!Phase
      BY DEF Phase, Storage!Phase
    <3> QED BY <3>1, <3>2
  <2> QED BY <2>1, <2>2 DEF Storage!Next
<1>2. CASE UNCHANGED vars
  <2>1. \A o \in Stored : PhaseOf(o)' = PhaseOf(o)
    BY <1>2 DEF PhaseOf, HasRow, Live, Exists, Status, Awaited, vars
  <2> QED BY <2>1
<1> QED BY <1>1, <1>2

\* No object, row or file comes back once it is gone, no row is written before its file, and
\* no file of another object is touched: each step of the library is, for every object, a
\* step of StoredObject or none.
THEOREM ImplementsStoredObject == Spec => StoredObjectSpec
BY StorageInit, StorageNext, Invariant, PTL DEF Spec, StoredObjectSpec, Storage!Spec
===============================================================================
