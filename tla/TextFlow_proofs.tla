---------------------------- MODULE TextFlow_proofs ----------------------------
(***************************************************************************)
(* Proofs about module TextFlow: the pages of an export make up what was   *)
(* accepted, for any document, any number of suggestions and resets, any   *)
(* page size, and reviewers who work on while the pages are read.          *)
(*                                                                         *)
(* Pages are cut by position, and positions move when rows enter or leave  *)
(* the list.  The proofs count: the position of an accepted row is the     *)
(* number of accepted rows up to it, which grows with what enters and      *)
(* shrinks with what leaves.                                               *)
(***************************************************************************)
EXTENDS TextFlow, Integers, FiniteSetTheorems, FunctionTheorems, TLAPS

-----------------------------------------------------------------------------
(* Positions in a sorted list.                                             *)

\* How many elements of S come up to i.
Rank(S, i) == Cardinality({a \in S : a <= i})

\* The list of the elements of S in their order.
Lists(s, S) ==
  /\ s \in [1..Cardinality(S) -> S]
  /\ \A j, k \in 1..Cardinality(S) : j < k => s[j] < s[k]

\* What is counted is finite.
LEMMA Counted ==
  ASSUME NEW S \in SUBSET Nat, IsFiniteSet(S), NEW i \in Nat
  PROVE  /\ IsFiniteSet({a \in S : a <= i})
         /\ Rank(S, i) \in Nat /\ Rank(S, i) \in 0..Cardinality(S)
<1>1. {a \in S : a <= i} \in SUBSET S
  OBVIOUS
<1>2. /\ IsFiniteSet({a \in S : a <= i}) /\ Cardinality({a \in S : a <= i}) <= Cardinality(S)
  BY <1>1, FS_Subset
<1>3. Cardinality({a \in S : a <= i}) \in Nat /\ Cardinality(S) \in Nat
  BY <1>2, FS_CardinalityType
<1> QED BY <1>2, <1>3 DEF Rank

\* A larger element is farther back.
LEMMA RankGrows ==
  ASSUME NEW S \in SUBSET Nat, IsFiniteSet(S), NEW i \in S, NEW j \in S, i < j
  PROVE  Rank(S, i) < Rank(S, j)
<1> DEFINE A == {a \in S : a <= i}
           B == {a \in S : a <= j}
<1>1. A \in SUBSET B /\ A # B
  <2>1. j \in B /\ j \notin A
    OBVIOUS
  <2>2. \A a \in A : a \in B
    OBVIOUS
  <2> QED BY <2>1, <2>2
<1>2. IsFiniteSet(B) /\ Cardinality(B) \in Nat
  BY Counted, FS_CardinalityType
<1> HIDE DEF A, B
<1>3. Cardinality(A) <= Cardinality(B) /\ Cardinality(A) # Cardinality(B)
  BY <1>1, <1>2, FS_Subset
<1>4. Cardinality(A) \in Nat
  BY <1>1, <1>2, FS_Subset, FS_CardinalityType
<1> QED BY <1>2, <1>3, <1>4 DEF Rank, A, B

LEMMA RankOrders ==
  ASSUME NEW S \in SUBSET Nat, IsFiniteSet(S), NEW i \in S, NEW j \in S, Rank(S, i) < Rank(S, j)
  PROVE  i < j
<1>0. i \in Nat /\ j \in Nat
  OBVIOUS
<1>1. Rank(S, i) \in Nat /\ Rank(S, j) \in Nat
  BY <1>0, Counted
<1>2. CASE j < i
  BY <1>1, <1>2, RankGrows
<1>3. CASE i = j
  BY <1>1, <1>3
<1> QED BY <1>0, <1>2, <1>3

\* What enters moves nothing forward; what leaves moves nothing back.
LEMMA RankOfMore ==
  ASSUME NEW T \in SUBSET Nat, IsFiniteSet(T), NEW S \in SUBSET T, NEW i \in Nat
  PROVE  Rank(S, i) <= Rank(T, i)
<1>1. {a \in S : a <= i} \in SUBSET {a \in T : a <= i}
  OBVIOUS
<1>2. IsFiniteSet({a \in T : a <= i})
  BY Counted
<1> QED BY <1>1, <1>2, FS_Subset DEF Rank

\* The ranks are the positions 1, ..., Cardinality(S).
LEMMA RankReaches ==
  ASSUME NEW S \in SUBSET Nat, IsFiniteSet(S)
  PROVE  /\ Cardinality(S) \in Nat
         /\ \A i \in S : Rank(S, i) \in 1..Cardinality(S)
         /\ \A k \in 1..Cardinality(S) : \E i \in S : Rank(S, i) = k
<1> DEFINE n == Cardinality(S)
           f == [i \in S |-> Rank(S, i)]
<1>1. n \in Nat
  BY FS_CardinalityType
<1>2. ASSUME NEW i \in S PROVE Rank(S, i) \in 1..n
  <2>1. Rank(S, i) \in 0..n
    BY Counted
  <2>2. i \in {a \in S : a <= i} /\ IsFiniteSet({a \in S : a <= i})
    BY Counted
  <2>3. Rank(S, i) # 0
    BY <2>2, FS_EmptySet DEF Rank
  <2> QED BY <1>1, <2>1, <2>3
<1> HIDE DEF n
<1>3. f \in [S -> 1..n] /\ \A i \in S : f[i] = Rank(S, i)
  BY <1>2
<1> HIDE DEF f
<1>4. \A i, j \in S : f[i] = f[j] => i = j
  <2> SUFFICES ASSUME NEW i \in S, NEW j \in S, i # j PROVE Rank(S, i) # Rank(S, j)
    BY <1>3
  <2>1. i \in Nat /\ j \in Nat
    OBVIOUS
  <2>2. Rank(S, i) \in Nat /\ Rank(S, j) \in Nat
    BY <2>1, Counted
  <2>3. i < j \/ j < i
    BY <2>1
  <2> QED BY <2>2, <2>3, RankGrows
<1>5. f \in Injection(S, 1..n)
  BY <1>3, <1>4, Fun_IsInj
<1>6. IsFiniteSet(1..n) /\ Cardinality(1..n) = n
  BY <1>1, FS_Interval
<1>7. f \in Surjection(S, 1..n)
  BY <1>5, <1>6, FS_Injection DEF n
<1>8. \A k \in 1..n : \E i \in S : f[i] = k
  BY <1>7, Fun_SurjectionProperties
<1> QED BY <1>1, <1>2, <1>3, <1>8 DEF n

\* Every finite set of numbers has such a list.
LEMMA ListExists ==
  ASSUME NEW S \in SUBSET Nat, IsFiniteSet(S)
  PROVE  \E s \in [1..Cardinality(S) -> S] : Lists(s, S)
<1> DEFINE n == Cardinality(S)
           s == [k \in 1..n |-> CHOOSE i \in S : Rank(S, i) = k]
<1>1. \A k \in 1..n : s[k] \in S /\ Rank(S, s[k]) = k
  BY RankReaches
<1>2. s \in [1..n -> S]
  BY <1>1
<1> HIDE DEF s, n
<1>3. \A j, k \in 1..n : j < k => s[j] < s[k]
  BY <1>1, RankOrders
<1> QED BY <1>2, <1>3 DEF Lists, n

\* A list has the element with rank k at position k.
LEMMA ListRanks ==
  ASSUME NEW S \in SUBSET Nat, IsFiniteSet(S), NEW s, Lists(s, S)
  PROVE  /\ \A k \in 1..Cardinality(S) : Rank(S, s[k]) = k
         /\ \A i \in S : Rank(S, i) \in 1..Cardinality(S) /\ s[Rank(S, i)] = i
<1> DEFINE n == Cardinality(S)
<1>1. n \in Nat /\ s \in [1..n -> S] /\ \A j, k \in 1..n : j < k => s[j] < s[k]
  BY FS_CardinalityType DEF Lists
<1> HIDE DEF n
<1>a. \A k \in 1..n : s[k] \in Nat /\ s[k] \in S
  BY <1>1
<1>2. \A i \in S : \E k \in 1..n : s[k] = i
  <2>1. \A j, k \in 1..n : s[j] = s[k] => j = k
    <3> SUFFICES ASSUME NEW j \in 1..n, NEW k \in 1..n, j # k PROVE s[j] # s[k]
      OBVIOUS
    <3>1. j < k \/ k < j
      OBVIOUS
    <3> QED BY <1>1, <1>a, <3>1
  <2>2. s \in Injection(1..n, S)
    BY <1>1, <2>1, Fun_IsInj
  <2>3. IsFiniteSet(1..n) /\ Cardinality(1..n) = n
    BY <1>1, FS_Interval
  <2>4. s \in Surjection(1..n, S)
    BY <2>2, <2>3, FS_Injection DEF n
  <2>5. \A i \in S : \E k \in 1..n : s[k] = i
    BY <2>4 DEF Surjection
  <2> QED BY <2>5
<1>3. ASSUME NEW k \in 1..n PROVE Rank(S, s[k]) = k
  <2> DEFINE A == {a \in S : a <= s[k]}
             g == [j \in 1..k |-> s[j]]
  <2>0. \A j \in 1..k : j \in 1..n /\ s[j] <= s[k]
    <3> SUFFICES ASSUME NEW j \in 1..k PROVE j \in 1..n /\ s[j] <= s[k]
      OBVIOUS
    <3>1. j \in 1..n /\ (j < k \/ j = k)
      BY <1>1
    <3> QED BY <1>1, <1>a, <3>1
  <2>1. g \in [1..k -> A]
    BY <1>a, <2>0
  <2>2. \A i, j \in 1..k : g[i] = g[j] => i = j
    <3> SUFFICES ASSUME NEW i \in 1..k, NEW j \in 1..k, i # j PROVE s[i] # s[j]
      OBVIOUS
    <3>1. i \in 1..n /\ j \in 1..n /\ (i < j \/ j < i)
      BY <2>0
    <3> QED BY <1>1, <1>a, <3>1
  <2>3. \A a \in A : \E j \in 1..k : g[j] = a
    <3> SUFFICES ASSUME NEW a \in A PROVE \E j \in 1..k : g[j] = a
      OBVIOUS
    <3>1. PICK j \in 1..n : s[j] = a
      BY <1>2
    <3>2. ~(k < j)
      BY <1>1, <1>a, <3>1
    <3>3. j \in 1..k
      BY <3>2
    <3> QED BY <3>1, <3>3
  <2> HIDE DEF A, g
  <2>4. g \in Bijection(1..k, A)
    BY <2>1, <2>2, <2>3, Fun_IsBij
  <2>5. IsFiniteSet(1..k) /\ Cardinality(1..k) = k
    BY <1>1, <1>3, FS_Interval
  <2>6. Cardinality(A) = k
    BY <2>4, <2>5, FS_Bijection DEF ExistsBijection
  <2> QED BY <2>6 DEF Rank, A
<1>4. ASSUME NEW i \in S PROVE Rank(S, i) \in 1..n /\ s[Rank(S, i)] = i
  BY <1>2, <1>3
<1> QED BY <1>3, <1>4 DEF n

-----------------------------------------------------------------------------
(* The inductive invariant.                                                *)

Ids == [k \in DOMAIN export.read |-> export.read[k].id]

\* What kinds of values the variables hold, and that the suggestions are complete once
\* an export may run.
Shape ==
  /\ rows \in Seq(ToSet(rows))
  /\ \A i \in DOMAIN rows : DOMAIN rows[i] = {"type", "old", "new", "edited", "status", "item"}
  /\ export = [pc |-> export.pc, offset |-> export.offset, read |-> export.read,
               first |-> export.first, left |-> export.left, joined |-> export.joined]
  /\ export.read \in Seq(ToSet(export.read))
  /\ export.pc \in {"idle", "reading", "done"} /\ export.offset \in Nat
  /\ export.first \in SUBSET Nat /\ \A k \in DOMAIN Ids : Ids[k] \in Nat
  /\ status \in DocumentStatus
  /\ export.pc # "idle" => status \in {"awaiting_approval", "ready"}

\* What was accepted at the start has been read or lies before the next page, unless an
\* accepted row was taken back; what lies before the next page comes after all that was
\* read, unless a row was accepted; and so what was read is in order.
Ahead(i) == i \in AcceptedRows /\ Rank(AcceptedRows, i) > export.offset
Unread ==
  export.pc = "reading" /\ ~export.left =>
    \A i \in export.first : i \in AcceptedRows /\ (Ahead(i) \/ \E k \in DOMAIN Ids : Ids[k] = i)
Behind ==
  export.pc = "reading" /\ ~export.joined =>
    \A k \in DOMAIN Ids : \A a \in AcceptedRows : Ahead(a) => Ids[k] < a
Ordered ==
  export.pc # "idle" /\ ~export.joined => \A j, k \in DOMAIN Ids : j < k => Ids[j] < Ids[k]
AllRead ==
  export.pc = "done" /\ ~export.left =>
    \A i \in export.first : \E k \in DOMAIN Ids : Ids[k] = i

Pages == Shape /\ Unread /\ Behind /\ Ordered /\ AllRead

LEMMA PagesSuffice == Pages => ExportComplete
<1> SUFFICES ASSUME Pages PROVE ExportComplete
  OBVIOUS
<1>1. ASSUME export.pc = "done", ~export.left PROVE export.first \subseteq ToSet(Ids)
  BY <1>1 DEF Pages, AllRead, ToSet
<1> QED BY <1>1 DEF Pages, Ordered, ExportComplete, Ids

-----------------------------------------------------------------------------
(* The page that is read next.                                             *)

LEMMA AcceptedFinite ==
  ASSUME rows \in Seq(ToSet(rows))
  PROVE  AcceptedRows \in SUBSET Nat /\ IsFiniteSet(AcceptedRows)
<1>1. DOMAIN rows = 1..Len(rows) /\ Len(rows) \in Nat
  OBVIOUS
<1>2. AcceptedRows \in SUBSET (1..Len(rows))
  BY <1>1 DEF AcceptedRows
<1>3. IsFiniteSet(1..Len(rows))
  BY <1>1, FS_Interval
<1>4. AcceptedRows \in SUBSET Nat
  BY <1>1, <1>2
<1> QED BY <1>2, <1>3, <1>4, FS_Subset

LEMMA AcceptedLists ==
  ASSUME rows \in Seq(ToSet(rows))
  PROVE  Lists(Accepted, AcceptedRows)
<1> DEFINE S == AcceptedRows
           n == Cardinality(S)
<1>1. S \in SUBSET Nat /\ IsFiniteSet(S)
  BY AcceptedFinite
<1> HIDE DEF S
<1>2. PICK s \in [1..n -> S] : Lists(s, S)
  BY <1>1, ListExists
<1> HIDE DEF n
<1>3. \E t \in [1..n -> S] : \A j, k \in DOMAIN t : j < k => t[j] < t[k]
  BY <1>2 DEF Lists, n
<1>4. Accepted = CHOOSE t \in [1..n -> S] : \A j, k \in DOMAIN t : j < k => t[j] < t[k]
  BY DEF Accepted, S, n
<1>5. Accepted \in [1..n -> S] /\ \A j, k \in DOMAIN Accepted : j < k => Accepted[j] < Accepted[k]
  BY <1>3, <1>4
<1> QED BY <1>5 DEF Lists, S, n

LEMMA MinOfTwo ==
  ASSUME NEW a \in Nat, NEW b \in Nat
  PROVE  Min({a, b}) \in {a, b} /\ Min({a, b}) <= a /\ Min({a, b}) <= b
<1>1. \E x \in {a, b} : \A y \in {a, b} : x <= y
  <2>1. CASE a <= b
    BY <2>1
  <2>2. CASE b <= a
    BY <2>2
  <2> QED BY <2>1, <2>2
<1> QED BY <1>1 DEF Min

\* A page holds the accepted rows whose positions follow the offset; a short one the last.
LEMMA PageHolds ==
  ASSUME Shape
  PROVE  /\ Page \in Seq(Nat)
         /\ \A k \in 1..Len(Page) :
              /\ Ahead(Page[k]) /\ Rank(AcceptedRows, Page[k]) = export.offset + k
              /\ k <= PageSize
         /\ \A i \in AcceptedRows :
              Ahead(i) /\ Rank(AcceptedRows, i) <= export.offset + PageSize =>
                \E k \in 1..Len(Page) : Page[k] = i
         /\ Len(Page) < PageSize =>
              \A i \in AcceptedRows : Rank(AcceptedRows, i) <= export.offset + PageSize
<1> DEFINE S == AcceptedRows
           c == Cardinality(S)
           s == Accepted
           o == export.offset
           m == Min({o + PageSize, c})
<1>1. S \in SUBSET Nat /\ IsFiniteSet(S) /\ Lists(s, S)
  BY AcceptedFinite, AcceptedLists DEF Shape
<1>2. c \in Nat /\ o \in Nat /\ PageSize \in Nat /\ PageSize > 0
  BY <1>1, FS_CardinalityType, TextFlowAssumption DEF Shape
<1>3. /\ \A k \in 1..c : Rank(S, s[k]) = k
      /\ \A i \in S : Rank(S, i) \in 1..c /\ s[Rank(S, i)] = i
  BY <1>1, ListRanks
<1>4. s \in [1..c -> S]
  BY <1>1 DEF Lists
<1>5. m \in Nat /\ m <= o + PageSize /\ m <= c /\ (m = c \/ m = o + PageSize)
  BY <1>2, MinOfTwo
<1> HIDE DEF S, c, s, m, o
<1>6. s \in Seq(Nat) /\ Len(s) = c
  <2>1. s \in [1..c -> Nat]
    BY <1>1, <1>4
  <2>2. s \in Seq(Nat)
    BY <1>2, <2>1
  <2> QED BY <1>2, <2>1, <2>2
<1>7. Page = SubSeq(s, o + 1, m)
  BY <1>6 DEF Page, s, o, m
<1>8. /\ Page \in Seq(Nat)
      /\ Len(Page) = IF o + 1 <= m THEN m - o ELSE 0
      /\ \A k \in 1..Len(Page) : Page[k] = s[o + k] /\ o + k \in 1..c
  BY <1>2, <1>5, <1>6, <1>7
<1>9. ASSUME NEW k \in 1..Len(Page)
      PROVE  /\ Page[k] \in S /\ Rank(S, Page[k]) = o + k
             /\ Rank(S, Page[k]) > o /\ k <= PageSize
  <2>1. Page[k] = s[o + k] /\ o + k \in 1..c /\ k \in Nat /\ k > 0
    BY <1>8
  <2>2. k <= PageSize
    BY <1>2, <1>5, <1>8
  <2> QED BY <1>2, <1>3, <1>4, <2>1, <2>2
<1>10. ASSUME NEW i \in S, Rank(S, i) > o, Rank(S, i) <= o + PageSize
       PROVE  \E k \in 1..Len(Page) : Page[k] = i
  <2>1. Rank(S, i) \in 1..c /\ s[Rank(S, i)] = i
    BY <1>3
  <2>2. Rank(S, i) <= m
    BY <1>2, <1>5, <1>10, <2>1
  <2>3. Rank(S, i) - o \in 1..Len(Page)
    BY <1>2, <1>5, <1>8, <1>10, <2>1, <2>2
  <2>4. Page[Rank(S, i) - o] = i
    BY <1>2, <1>8, <2>1, <2>3
  <2> QED BY <2>3, <2>4
<1>11. ASSUME Len(Page) < PageSize, NEW i \in S PROVE Rank(S, i) <= o + PageSize
  <2>1. Rank(S, i) \in 1..c
    BY <1>3
  <2> QED BY <1>2, <1>5, <1>8, <1>11, <2>1
<1> QED BY <1>8, <1>9, <1>10, <1>11 DEF Ahead, S, o

-----------------------------------------------------------------------------
(* The steps.                                                              *)

\* A sequence is one of its own elements.
LEMMA OwnElements ==
  ASSUME NEW S, NEW s \in Seq(S)
  PROVE  s \in Seq(ToSet(s)) /\ DOMAIN s = 1..Len(s) /\ Len(s) \in Nat
<1>1. Len(s) \in Nat /\ DOMAIN s = 1..Len(s) /\ s = [k \in 1..Len(s) |-> s[k]]
  OBVIOUS
<1>2. \A k \in 1..Len(s) : s[k] \in ToSet(s)
  BY <1>1 DEF ToSet
<1> HIDE DEF ToSet
<1>3. [k \in 1..Len(s) |-> s[k]] \in Seq(ToSet(s))
  BY <1>1, <1>2
<1> QED BY <1>1, <1>3

\* What a decision or its reset changes: one row, hence one of the accepted.
LEMMA RowIsWritten ==
  ASSUME Shape, NEW i \in DOMAIN rows, NEW to, NEW edit,
         rows' = [rows EXCEPT ![i].status = to, ![i].edited = edit]
  PROVE  /\ rows' \in Seq(ToSet(rows'))
         /\ \A j \in DOMAIN rows' :
              DOMAIN rows'[j] = {"type", "old", "new", "edited", "status", "item"}
         /\ AcceptedRows' = IF to = "accepted" THEN AcceptedRows \cup {i} ELSE AcceptedRows \ {i}
<1> DEFINE F == {"type", "old", "new", "edited", "status", "item"}
           q == [rows[i] EXCEPT !.status = to, !.edited = edit]
<1>1. rows \in Seq(ToSet(rows)) /\ DOMAIN rows = 1..Len(rows) /\ Len(rows) \in Nat
  BY DEF Shape
<1>2. DOMAIN rows[i] = F
  BY DEF Shape
<1>3. q.status = to /\ DOMAIN q = F
  BY <1>2
<1>4. rows' = [rows EXCEPT ![i] = q]
  OBVIOUS
<1> HIDE DEF q
<1>5. rows' = [j \in 1..Len(rows) |-> IF j = i THEN q ELSE rows[j]]
  BY <1>1, <1>4
<1>6. /\ DOMAIN rows' = DOMAIN rows /\ rows'[i] = q
      /\ \A j \in DOMAIN rows : j # i => rows'[j] = rows[j]
  BY <1>1, <1>5
<1>7. rows' \in Seq(ToSet(rows) \cup {q})
  <2>1. \A j \in 1..Len(rows) : (IF j = i THEN q ELSE rows[j]) \in ToSet(rows) \cup {q}
    BY <1>1 DEF ToSet
  <2> QED BY <1>1, <1>5, <2>1
<1>8. rows' \in Seq(ToSet(rows'))
  BY <1>7, OwnElements
<1>9. \A j \in DOMAIN rows' : DOMAIN rows'[j] = F
  BY <1>3, <1>6 DEF Shape
<1>10. \A j \in DOMAIN rows : rows'[j].status = IF j = i THEN to ELSE rows[j].status
  BY <1>3, <1>6
<1>11. AcceptedRows' = {j \in DOMAIN rows : (IF j = i THEN to ELSE rows[j].status) = "accepted"}
  BY <1>6, <1>10 DEF AcceptedRows
<1>12. AcceptedRows' = IF to = "accepted" THEN AcceptedRows \cup {i} ELSE AcceptedRows \ {i}
  BY <1>11 DEF AcceptedRows
<1> QED BY <1>8, <1>9, <1>12

\* An export that is watched keeps its place and what it has read.
LEMMA ExportIsWatched ==
  ASSUME Shape, NEW i, NEW to, Watch(i, to)
  PROVE  /\ export' = [pc |-> export'.pc, offset |-> export'.offset, read |-> export'.read,
                       first |-> export'.first, left |-> export'.left, joined |-> export'.joined]
         /\ export'.pc = export.pc /\ export'.offset = export.offset
         /\ export'.read = export.read /\ export'.first = export.first
         /\ export'.left = (export.left \/ rows[i].status = "accepted")
         /\ export'.joined = (export.joined \/ to = "accepted")
         /\ Ids' = Ids
<1>1. export' = [pc |-> export.pc, offset |-> export.offset, read |-> export.read,
                 first |-> export.first, left |-> export.left \/ rows[i].status = "accepted",
                 joined |-> export.joined \/ to = "accepted"]
  BY DEF Shape, Watch
<1>2. export'.read = export.read
  BY <1>1
<1> QED BY <1>1, <1>2 DEF Ids

LEMMA InitIsPaged == Init => Pages
<1> SUFFICES ASSUME Init PROVE Pages
  OBVIOUS
<1>1. /\ export.pc = "idle" /\ export.offset = 0 /\ export.read = <<>> /\ export.first = {}
      /\ export.left = FALSE /\ export.joined = FALSE
      /\ export = [pc |-> export.pc, offset |-> export.offset, read |-> export.read,
                   first |-> export.first, left |-> export.left, joined |-> export.joined]
  BY DEF Init, NoExport
<1>2. DOMAIN Ids = {} /\ DOMAIN rows = {}
  BY <1>1 DEF Ids, Init
<1>3. rows \in Seq(ToSet(rows)) /\ export.read \in Seq(ToSet(export.read))
  BY <1>1 DEF Init
<1>4. Shape
  BY <1>1, <1>2, <1>3 DEF Shape, Init, DocumentStatus
<1> QED BY <1>1, <1>4 DEF Pages, Unread, Behind, Ordered, AllRead

\* A subtask's suggestions are stored while no export runs.
LEMMA ReplyPages == Pages /\ Reply => Pages'
<1> SUFFICES ASSUME Pages, Reply PROVE Pages'
  OBVIOUS
<1> DEFINE F == {"type", "old", "new", "edited", "status", "item"}
<1>1. Shape /\ export' = export /\ status' = status /\ export.pc = "idle"
  BY DEF Pages, Shape, Reply
<1>2. PICK item \in Items : rows' = rows \o Mapped(item)
  BY DEF Reply
<1> DEFINE m == Mapped(item)
<1>3. m \in Seq({m[1]}) /\ DOMAIN m = 1..Len(m) /\ \A k \in DOMAIN m : DOMAIN m[k] = F
  <2> DEFINE made == Anchored(Normalized(item))
             row  == [type |-> made.type, old |-> made.old, new |-> made.new, edited |-> <<>>,
                      status |-> "pending", item |-> item]
  <2>1. m = <<row>> \/ m = <<>>
    BY DEF Mapped
  <2>2. DOMAIN row = F
    OBVIOUS
  <2> HIDE DEF row, m, F
  <2>3. CASE m = <<>>
    <3>1. m \in Seq({m[1]}) /\ DOMAIN m = 1..0 /\ Len(m) = 0
      BY <2>3
    <3> QED BY <3>1
  <2>4. CASE m = <<row>>
    <3>1. Len(m) = 1 /\ DOMAIN m = 1..1 /\ m[1] = row
      BY <2>4
    <3>2. m \in Seq({row})
      BY <2>4
    <3> QED BY <2>2, <3>1, <3>2
  <2> QED BY <2>1, <2>3, <2>4
<1>4. rows \in Seq(ToSet(rows)) /\ \A k \in DOMAIN rows : DOMAIN rows[k] = F
  BY <1>1 DEF Shape
<1> HIDE DEF m, F
<1> DEFINE R == ToSet(rows) \cup {m[1]}
<1>5. rows \in Seq(R) /\ m \in Seq(R)
  BY <1>3, <1>4
<1> HIDE DEF R
<1>6. rows' \in Seq(R) /\ rows' = rows \o m
  BY <1>2, <1>5 DEF m
<1>7. rows' \in Seq(ToSet(rows'))
  BY <1>6, OwnElements
<1>8. \A k \in DOMAIN rows' : DOMAIN rows'[k] = F
  BY <1>3, <1>4, <1>5, <1>6
<1>9. Ids' = Ids
  BY <1>1 DEF Ids
<1>10. Shape'
  BY <1>1, <1>7, <1>8, <1>9 DEF Shape, F
<1> QED BY <1>1, <1>10 DEF Pages, Unread, Behind, Ordered, AllRead

\* The document's status decides when an export may start, not what it reads.
LEMMA StatusPages ==
  ASSUME Pages, UNCHANGED <<rows, export>>, status' \in DocumentStatus,
         export.pc # "idle" => status' \in {"awaiting_approval", "ready"}
  PROVE  Pages'
<1>1. Ids' = Ids /\ AcceptedRows' = AcceptedRows
  BY DEF Ids, AcceptedRows
<1>2. \A i : Ahead(i)' <=> Ahead(i)
  BY <1>1 DEF Ahead
<1>3. Shape'
  BY <1>1 DEF Pages, Shape
<1> QED BY <1>1, <1>2, <1>3 DEF Pages, Unread, Behind, Ordered, AllRead

\* An accepted row enters the list: nothing moves forward, and the export has been joined.
\* A rejected one was not in it.
LEMMA DecidePages == Pages /\ Decide => Pages'
<1> SUFFICES ASSUME Pages, Decide PROVE Pages'
  OBVIOUS
<1>1. PICK i \in DOMAIN rows, to \in {"accepted", "rejected"}, edit \in Edits :
        /\ rows[i].status = "pending"
        /\ rows' = [rows EXCEPT ![i].status = to, ![i].edited = edit]
        /\ Watch(i, to)
  BY DEF Decide
<1>2. Shape /\ status' = status
  BY DEF Pages, Decide
<1>3. /\ rows' \in Seq(ToSet(rows'))
      /\ \A j \in DOMAIN rows' :
           DOMAIN rows'[j] = {"type", "old", "new", "edited", "status", "item"}
      /\ AcceptedRows' = IF to = "accepted" THEN AcceptedRows \cup {i} ELSE AcceptedRows \ {i}
  BY <1>1, <1>2, RowIsWritten
<1>4. /\ export' = [pc |-> export'.pc, offset |-> export'.offset, read |-> export'.read,
                    first |-> export'.first, left |-> export'.left, joined |-> export'.joined]
      /\ export'.pc = export.pc /\ export'.offset = export.offset
      /\ export'.read = export.read /\ export'.first = export.first
      /\ export'.left = (export.left \/ rows[i].status = "accepted")
      /\ export'.joined = (export.joined \/ to = "accepted")
      /\ Ids' = Ids
  BY <1>1, <1>2, ExportIsWatched
<1>5. Shape'
  BY <1>2, <1>3, <1>4 DEF Shape
<1>6. i \notin AcceptedRows /\ AcceptedRows \in SUBSET AcceptedRows'
  BY <1>1, <1>3 DEF AcceptedRows
<1>7. AcceptedRows' \in SUBSET Nat /\ IsFiniteSet(AcceptedRows')
  <2>1. AcceptedRows \in SUBSET Nat /\ IsFiniteSet(AcceptedRows) /\ i \in Nat
    BY <1>2, AcceptedFinite DEF Shape
  <2>2. IsFiniteSet(AcceptedRows \cup {i})
    BY <2>1, FS_AddElement
  <2> QED BY <1>3, <1>6, <2>1, <2>2
<1>8. ASSUME NEW a \in AcceptedRows, Ahead(a) PROVE Ahead(a)'
  <2>1. a \in Nat /\ export.offset \in Nat
    BY <1>2, AcceptedFinite DEF Shape
  <2>2. Rank(AcceptedRows, a) <= Rank(AcceptedRows', a)
    BY <1>6, <1>7, <2>1, RankOfMore
  <2>3. Rank(AcceptedRows, a) \in Nat /\ Rank(AcceptedRows', a) \in Nat
    BY <1>2, <1>7, <2>1, AcceptedFinite, Counted DEF Shape
  <2> QED BY <1>4, <1>6, <1>8, <2>1, <2>2, <2>3 DEF Ahead
<1>9. to # "accepted" => AcceptedRows' = AcceptedRows
  BY <1>3, <1>6
<1>10. Unread'
  BY <1>4, <1>6, <1>8 DEF Pages, Unread
<1>11. Behind'
  BY <1>4, <1>9 DEF Pages, Behind, Ahead
<1>12. Ordered' /\ AllRead'
  BY <1>4 DEF Pages, Ordered, AllRead
<1> QED BY <1>5, <1>10, <1>11, <1>12 DEF Pages

\* An accepted row leaves the list: nothing moves back, and the export has been left.
LEMMA ResetPages == Pages /\ Reset => Pages'
<1> SUFFICES ASSUME Pages, Reset PROVE Pages'
  OBVIOUS
<1>1. PICK i \in DOMAIN rows, to \in {"pending"}, edit \in {<<>>} :
        /\ rows' = [rows EXCEPT ![i].status = to, ![i].edited = edit]
        /\ Watch(i, to)
  BY DEF Reset
<1>2. Shape /\ status' = "awaiting_approval"
  BY DEF Pages, Reset
<1>3. /\ rows' \in Seq(ToSet(rows'))
      /\ \A j \in DOMAIN rows' :
           DOMAIN rows'[j] = {"type", "old", "new", "edited", "status", "item"}
      /\ AcceptedRows' = AcceptedRows \ {i}
  <2>1. AcceptedRows' = IF to = "accepted" THEN AcceptedRows \cup {i} ELSE AcceptedRows \ {i}
    BY <1>1, <1>2, RowIsWritten
  <2> QED BY <1>1, <1>2, <2>1, RowIsWritten
<1>4. /\ export' = [pc |-> export'.pc, offset |-> export'.offset, read |-> export'.read,
                    first |-> export'.first, left |-> export'.left, joined |-> export'.joined]
      /\ export'.pc = export.pc /\ export'.offset = export.offset
      /\ export'.read = export.read /\ export'.first = export.first
      /\ export'.left = (export.left \/ rows[i].status = "accepted")
      /\ ~export'.joined => ~export.joined
      /\ Ids' = Ids
  BY <1>1, <1>2, ExportIsWatched
<1>5. Shape'
  BY <1>2, <1>3, <1>4 DEF Shape, DocumentStatus
<1>6. ASSUME NEW a \in AcceptedRows', Ahead(a)' PROVE a \in AcceptedRows /\ Ahead(a)
  <2>1. AcceptedRows \in SUBSET Nat /\ IsFiniteSet(AcceptedRows)
    BY <1>2, AcceptedFinite DEF Shape
  <2>2. a \in AcceptedRows /\ a \in Nat /\ AcceptedRows' \in SUBSET AcceptedRows
    BY <1>3, <2>1
  <2>3. Rank(AcceptedRows', a) <= Rank(AcceptedRows, a)
    BY <2>1, <2>2, RankOfMore
  <2>4. IsFiniteSet(AcceptedRows') /\ AcceptedRows' \in SUBSET Nat
    BY <2>1, <2>2, FS_Subset
  <2>5. Rank(AcceptedRows, a) \in Nat /\ Rank(AcceptedRows', a) \in Nat /\ export.offset \in Nat
    BY <1>2, <2>1, <2>2, <2>4, Counted DEF Shape
  <2> QED BY <1>4, <1>6, <2>2, <2>3, <2>5 DEF Ahead
<1>7. rows[i].status # "accepted" => AcceptedRows' = AcceptedRows
  BY <1>3 DEF AcceptedRows
<1>8. Unread'
  BY <1>4, <1>7 DEF Pages, Unread, Ahead
<1>9. Behind'
  BY <1>4, <1>6 DEF Pages, Behind
<1>10. Ordered' /\ AllRead'
  BY <1>4 DEF Pages, Ordered, AllRead
<1> QED BY <1>5, <1>8, <1>9, <1>10 DEF Pages

LEMMA ExportPages == Pages /\ Export => Pages'
<1> SUFFICES ASSUME Pages, Export PROVE Pages'
  OBVIOUS
<1>1. Shape /\ rows' = rows /\ status' = status /\ status = "ready"
  BY DEF Pages, Export, CanExport
<1>2. export' = [pc |-> "reading", offset |-> 0, read |-> <<>>, first |-> AcceptedRows,
                 left |-> FALSE, joined |-> FALSE]
  BY DEF Export, NoExport
<1>3. /\ export' = [pc |-> export'.pc, offset |-> export'.offset, read |-> export'.read,
                    first |-> export'.first, left |-> export'.left, joined |-> export'.joined]
      /\ export'.pc = "reading" /\ export'.offset = 0 /\ export'.read = <<>>
      /\ export'.first = AcceptedRows
  BY <1>2
<1>4. DOMAIN Ids' = {} /\ AcceptedRows' = AcceptedRows
  BY <1>1, <1>3 DEF Ids, AcceptedRows
<1>5. AcceptedRows \in SUBSET Nat /\ IsFiniteSet(AcceptedRows)
  BY <1>1, AcceptedFinite DEF Shape
<1>6. export'.read \in Seq(ToSet(export'.read))
  BY <1>3
<1>7. Shape'
  BY <1>1, <1>3, <1>4, <1>5, <1>6 DEF Shape
<1>8. \A i \in AcceptedRows : Ahead(i)'
  BY <1>3, <1>4, <1>5, RankReaches DEF Ahead
<1>9. Unread'
  BY <1>3, <1>4, <1>8 DEF Unread
<1> QED BY <1>3, <1>4, <1>7, <1>9 DEF Pages, Behind, Ordered, AllRead

LEMMA DeliverPages == Pages /\ Deliver => Pages'
<1> SUFFICES ASSUME Pages, Deliver PROVE Pages'
  OBVIOUS
<1>1. Shape /\ rows' = rows /\ status' = status
  BY DEF Pages, Deliver
<1>2. /\ export' = [pc |-> export'.pc, offset |-> export'.offset, read |-> export'.read,
                    first |-> export'.first, left |-> export'.left, joined |-> export'.joined]
      /\ export'.pc = "idle" /\ export'.offset = 0 /\ export'.read = <<>> /\ export'.first = {}
  BY DEF Deliver, NoExport
<1>3. DOMAIN Ids' = {} /\ export'.read \in Seq(ToSet(export'.read))
  BY <1>2 DEF Ids
<1>4. Shape'
  BY <1>1, <1>2, <1>3 DEF Shape
<1> QED BY <1>2, <1>4 DEF Pages, Unread, Behind, Ordered, AllRead

\* A page is added to what was read; all that is still ahead comes after it.
LEMMA ReadPagePages == Pages /\ ReadPage => Pages'
<1> SUFFICES ASSUME Pages, ReadPage PROVE Pages'
  OBVIOUS
<1> DEFINE p == Page
           o == export.offset
           S == AcceptedRows
           t == Take(p)
           r == export.read
<1>1. /\ Shape /\ rows' = rows /\ status' = status /\ export.pc = "reading"
      /\ status \in {"awaiting_approval", "ready"}
      /\ r \in Seq(ToSet(r)) /\ o \in Nat /\ \A k \in DOMAIN Ids : Ids[k] \in Nat
  BY DEF Pages, Shape, ReadPage
<1>2. /\ p \in Seq(Nat)
      /\ \A k \in 1..Len(p) : Ahead(p[k]) /\ Rank(S, p[k]) = o + k /\ k <= PageSize
      /\ \A i \in S : Ahead(i) /\ Rank(S, i) <= o + PageSize => \E k \in 1..Len(p) : p[k] = i
      /\ Len(p) < PageSize => \A i \in S : Rank(S, i) <= o + PageSize
  BY <1>1, PageHolds
<1>3. /\ export' = [pc |-> export'.pc, offset |-> export'.offset, read |-> export'.read,
                    first |-> export'.first, left |-> export'.left, joined |-> export'.joined]
      /\ export'.pc = IF Len(p) < PageSize THEN "done" ELSE "reading"
      /\ export'.offset = o + PageSize /\ export'.read = r \o t
      /\ export'.first = export.first /\ export'.left = export.left
      /\ export'.joined = export.joined
  BY <1>1 DEF Shape, ReadPage
<1>4. PageSize \in Nat /\ PageSize > 0
  BY TextFlowAssumption
<1>5. S \in SUBSET Nat /\ IsFiniteSet(S) /\ AcceptedRows' = S
  BY <1>1, AcceptedFinite DEF Shape, AcceptedRows
<1>6. \A i \in S : Rank(S, i) \in Nat
  BY <1>5, Counted
<1>7. /\ t \in Seq(ToSet(t)) /\ Len(t) = Len(p)
      /\ \A k \in 1..Len(p) : t[k].id = p[k]
  <2>1. Len(p) \in Nat /\ DOMAIN p = 1..Len(p)
    BY <1>2
  <2> DEFINE e(k) == [id |-> p[k], change |-> Change(rows[p[k]])]
  <2>2. t = [k \in 1..Len(p) |-> e(k)]
    BY <2>1 DEF Take
  <2>3. \A k \in 1..Len(p) : e(k).id = p[k]
    OBVIOUS
  <2> HIDE DEF e, t, p
  <2>4. t \in Seq({e(k) : k \in 1..Len(p)}) /\ Len(t) = Len(p)
    BY <2>1, <2>2
  <2> QED BY <2>1, <2>2, <2>3, <2>4, OwnElements
<1> DEFINE L == Len(r)
<1>8. /\ L \in Nat /\ DOMAIN Ids = 1..L /\ Len(p) \in Nat
      /\ \A k \in 1..L : Ids[k] = r[k].id
  BY <1>1, <1>2 DEF Ids
<1> HIDE DEF t, r, p, o, S
<1>9. /\ export'.read \in Seq(ToSet(export'.read)) /\ DOMAIN export'.read = 1..(L + Len(p))
      /\ \A k \in 1..(L + Len(p)) : export'.read[k] = IF k <= L THEN r[k] ELSE t[k - L]
  <2> DEFINE R == ToSet(r) \cup ToSet(t)
  <2>1. r \in Seq(R) /\ t \in Seq(R)
    BY <1>1, <1>7
  <2> HIDE DEF R
  <2>a. L = Len(r) /\ L \in Nat /\ Len(t) = Len(p)
    BY <1>7, <1>8 DEF L
  <2>2. export'.read \in Seq(R) /\ Len(export'.read) = L + Len(p)
    <3>1. r \o t \in Seq(R) /\ Len(r \o t) = Len(r) + Len(t)
      BY <2>1
    <3>2. export'.read = r \o t
      BY <1>3
    <3> QED BY <2>a, <3>1, <3>2
  <2>3. \A k \in 1..(L + Len(p)) : export'.read[k] = IF k <= L THEN r[k] ELSE t[k - L]
    <3> SUFFICES ASSUME NEW k \in 1..(L + Len(p))
                 PROVE  (r \o t)[k] = IF k <= L THEN r[k] ELSE t[k - L]
      BY <1>3
    <3> QED BY <1>8, <2>1, <2>a
  <2> QED BY <2>2, <2>3, OwnElements
<1> HIDE DEF L
<1>10. /\ DOMAIN Ids' = 1..(L + Len(p))
       /\ \A k \in 1..L : Ids'[k] = Ids[k]
       /\ \A k \in 1..Len(p) : Ids'[L + k] = p[k]
  <2>1. DOMAIN Ids' = 1..(L + Len(p)) /\ \A k \in 1..(L + Len(p)) : Ids'[k] = export'.read[k].id
    BY <1>9 DEF Ids
  <2>2. ASSUME NEW k \in 1..L PROVE Ids'[k] = Ids[k]
    <3>1. k \in 1..(L + Len(p)) /\ k <= L
      BY <1>8
    <3> QED BY <1>8, <1>9, <2>1, <3>1
  <2>3. ASSUME NEW k \in 1..Len(p) PROVE Ids'[L + k] = p[k]
    <3>1. L + k \in 1..(L + Len(p)) /\ ~(L + k <= L) /\ (L + k) - L = k
      BY <1>8
    <3> QED BY <1>7, <1>9, <2>1, <3>1
  <2> QED BY <2>1, <2>2, <2>3
<1>11. ASSUME NEW k \in DOMAIN Ids'
       PROVE  \/ k \in 1..L /\ Ids'[k] = Ids[k] /\ Ids[k] \in Nat
              \/ \E n \in 1..Len(p) : k = L + n /\ Ids'[k] = p[n] /\ p[n] \in Nat
  <2>1. k \in 1..L \/ \E n \in 1..Len(p) : k = L + n
    <3>1. k \in 1..(L + Len(p))
      BY <1>10
    <3>2. k \in 1..L \/ k - L \in 1..Len(p)
      BY <1>8, <3>1
    <3>3. k = L + (k - L)
      BY <1>8, <3>1
    <3> QED BY <3>2, <3>3
  <2>2. \A n \in 1..Len(p) : p[n] \in Nat
    BY <1>2
  <2> QED BY <1>1, <1>8, <1>10, <2>1, <2>2
<1>12. ASSUME NEW k \in 1..L PROVE k \in DOMAIN Ids'
  BY <1>8, <1>10
<1>13. ASSUME NEW n \in 1..Len(p) PROVE L + n \in DOMAIN Ids'
  BY <1>8, <1>10
<1>14. Shape'
  <2>1. \A k \in DOMAIN Ids' : Ids'[k] \in Nat
    BY <1>11
  <2>2. export'.offset \in Nat /\ export'.pc \in {"idle", "reading", "done"}
    BY <1>1, <1>3, <1>4
  <2> QED BY <1>1, <1>3, <1>9, <2>1, <2>2 DEF Shape
<1>15. ASSUME NEW i \in S, ~export.left, i \in export.first,
              Ahead(i)' \/ Rank(S, i) <= o + PageSize
       PROVE  Ahead(i)' \/ \E k \in DOMAIN Ids' : Ids'[k] = i
  <2>1. Ahead(i) \/ \E k \in DOMAIN Ids : Ids[k] = i
    BY <1>1, <1>15 DEF Pages, Unread
  <2>2. CASE \E k \in DOMAIN Ids : Ids[k] = i
    BY <1>8, <1>10, <1>12, <2>2
  <2>3. CASE Ahead(i) /\ Rank(S, i) <= o + PageSize
    <3>1. PICK n \in 1..Len(p) : p[n] = i
      BY <1>2, <2>3
    <3> QED BY <1>10, <1>13, <3>1
  <2> QED BY <1>15, <2>1, <2>2, <2>3
<1>16. ASSUME NEW i \in S PROVE Ahead(i)' \/ Rank(S, i) <= o + PageSize
  <2>1. Rank(S, i) > o + PageSize \/ Rank(S, i) <= o + PageSize
    BY <1>1, <1>4, <1>6
  <2> QED BY <1>3, <1>5, <2>1 DEF Ahead
<1>17. Unread'
  BY <1>1, <1>3, <1>5, <1>15, <1>16 DEF Pages, Unread, S
<1>18. AllRead'
  <2> SUFFICES ASSUME Len(p) < PageSize, ~export.left, NEW i \in export.first
               PROVE  \E k \in DOMAIN Ids' : Ids'[k] = i
    BY <1>3 DEF AllRead
  <2>1. i \in S
    BY <1>1 DEF Pages, Unread, S
  <2>2. Rank(S, i) <= o + PageSize
    BY <1>2, <2>1
  <2>3. ~Ahead(i)'
    BY <1>1, <1>3, <1>4, <1>5, <1>6, <2>1, <2>2 DEF Ahead
  <2> QED BY <1>15, <2>1, <2>2, <2>3
<1>19. ASSUME ~export.joined, NEW k \in DOMAIN Ids, NEW a \in S, Ahead(a) PROVE Ids[k] < a
  BY <1>1, <1>19 DEF Pages, Behind, S
<1>20. Behind'
  <2> SUFFICES ASSUME ~export.joined, NEW k \in DOMAIN Ids', NEW a \in S,
                      Rank(S, a) > o + PageSize
               PROVE  Ids'[k] < a
    BY <1>3, <1>5 DEF Behind, Ahead
  <2>1. CASE k \in 1..L /\ Ids'[k] = Ids[k]
    <3>1. Rank(S, a) > o
      BY <1>1, <1>4, <1>6
    <3>2. Ahead(a)
      BY <3>1 DEF Ahead, S, o
    <3> QED BY <1>8, <1>19, <2>1, <3>2
  <2>2. ASSUME NEW n \in 1..Len(p), Ids'[k] = p[n] PROVE Ids'[k] < a
    <3>1. p[n] \in S /\ Rank(S, p[n]) = o + n /\ n <= PageSize
      BY <1>2 DEF Ahead, S
    <3>2. Rank(S, p[n]) < Rank(S, a)
      BY <1>1, <1>4, <1>6, <3>1
    <3> QED BY <1>5, <2>2, <3>1, <3>2, RankOrders
  <2> QED BY <1>11, <2>1, <2>2
<1>21. Ordered'
  <2> SUFFICES ASSUME ~export.joined, NEW j \in DOMAIN Ids', NEW k \in DOMAIN Ids', j < k
               PROVE  Ids'[j] < Ids'[k]
    BY <1>3 DEF Ordered
  <2>1. CASE j \in 1..L /\ k \in 1..L
    BY <1>1, <1>8, <1>10, <2>1 DEF Pages, Ordered
  <2>2. ASSUME j \in 1..L, NEW n \in 1..Len(p), Ids'[k] = p[n] PROVE Ids'[j] < Ids'[k]
    <3>1. p[n] \in S /\ Ahead(p[n])
      BY <1>2 DEF Ahead, S
    <3> QED BY <1>8, <1>10, <1>19, <2>2, <3>1
  <2>3. ASSUME NEW m \in 1..Len(p), j = L + m, NEW n \in 1..Len(p), k = L + n
        PROVE  Ids'[j] < Ids'[k]
    <3>1. m < n
      BY <1>8, <2>3
    <3>2. p[m] \in S /\ p[n] \in S /\ Rank(S, p[m]) = o + m /\ Rank(S, p[n]) = o + n
      BY <1>2 DEF Ahead, S
    <3>3. Rank(S, p[m]) < Rank(S, p[n])
      BY <1>1, <3>1, <3>2
    <3> QED BY <1>5, <1>10, <2>3, <3>2, <3>3, RankOrders
  <2>4. ASSUME NEW m \in 1..Len(p), j = L + m, k \in 1..L PROVE FALSE
    BY <1>8, <2>4
  <2> QED BY <1>11, <2>1, <2>2, <2>3, <2>4
<1> QED BY <1>14, <1>17, <1>18, <1>20, <1>21 DEF Pages

-----------------------------------------------------------------------------
(* The theorem.                                                            *)

LEMMA StepIsPaged == Pages /\ [Next]_vars => Pages'
<1> SUFFICES ASSUME Pages, [Next]_vars PROVE Pages'
  OBVIOUS
<1>1. CASE Reply
  BY <1>1, ReplyPages
<1>2. CASE Analysed
  <2>1. export.pc = "idle"
    BY <1>2 DEF Analysed, Pages, Shape
  <2>2. status' \in DocumentStatus
    BY <1>2 DEF Analysed, DocumentStatusFor, DocumentStatus
  <2> QED BY <1>2, <2>1, <2>2, StatusPages DEF Analysed
<1>3. CASE Decide
  BY <1>3, DecidePages
<1>4. CASE Finalise
  BY <1>4, StatusPages DEF Finalise, DocumentStatus
<1>5. CASE Reset
  BY <1>5, ResetPages
<1>6. CASE Export
  BY <1>6, ExportPages
<1>7. CASE ReadPage
  BY <1>7, ReadPagePages
<1>8. CASE Deliver
  BY <1>8, DeliverPages
<1>9. CASE UNCHANGED vars
  BY <1>9, StatusPages DEF vars, Pages, Shape
<1> QED BY <1>1, <1>2, <1>3, <1>4, <1>5, <1>6, <1>7, <1>8, <1>9 DEF Next

\* The pages of an export make up the accepted suggestions: of what was accepted when it
\* began nothing is missing unless an accepted one was taken back while it ran, and
\* nothing comes twice or out of order unless one was accepted while it ran.
THEOREM PagesMakeUpTheList == Spec => []ExportComplete
<1>1. Spec => []Pages
  BY InitIsPaged, StepIsPaged, PTL DEF Spec
<1> QED BY <1>1, PagesSuffice, PTL
===============================================================================
