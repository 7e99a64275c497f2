------------------------------- MODULE TextFlow -------------------------------
(***************************************************************************)
(* The way of a text: a document is parsed, the answer of the model is     *)
(* turned into suggestions (app/workers/pipeline/suggestion_mapper.py),    *)
(* reviewers decide on them, and the accepted ones are read in pages and   *)
(* applied to the file (app/domain/services/document_export_service.py,    *)
(* app/infrastructure/exporters).                                          *)
(*                                                                         *)
(* A text is a sequence of words; the line break is one, and white space   *)
(* that is not what separates two words is another.  Two texts are         *)
(* compared as normalize_text leaves them.  No text is None: the *)
(* code treats None and the empty text alike.  The pages of an export are  *)
(* statements of one transaction of isolation READ COMMITTED: each sees    *)
(* what reviewers have committed by then.                                  *)
(***************************************************************************)
EXTENDS Naturals, SequencesExt, Lifecycle

CONSTANTS
  Formats,     \* formats to try: a subset of {"docx", "text"}
  Paragraphs,  \* the document, a sequence of paragraphs without line breaks
  Items,       \* suggestions the model may make
  Edits,       \* texts a reviewer may put in place of the model's; <<>> for none
  PageSize,    \* _EXPORT_PAGE_SIZE
  MaxRows,     \* bound on the suggestions kept
  MaxResets    \* bound on the decisions taken back

Break == "break"
Space == "space"
Mark  == "#"

ASSUME TextFlowAssumption ==
  /\ Formats \subseteq {"docx", "text"} /\ PageSize \in Nat \ {0}
  /\ MaxRows \in Nat /\ MaxResets \in Nat
  /\ \A k \in DOMAIN Paragraphs : \A i \in DOMAIN Paragraphs[k] : Paragraphs[k][i] # Break

VARIABLES
  format,  \* documents.format
  status,  \* documents.status
  rows,    \* the suggestions, in the order of created_at and id
  export,  \* a request for the export: its place, what it has read, what it returned
  resets   \* decisions taken back so far

vars == <<format, status, rows, export, resets>>

-----------------------------------------------------------------------------
(* Texts.                                                                  *)

Found(s, t) == {i \in 1..(Len(t) + 1 - Len(s)) : SubSeq(t, i, i + Len(s) - 1) = s}
Occurs(s, t) == Found(s, t) # {}
First(s, t) == Min(Found(s, t))
ReplaceFirst(s, r, t) ==
  IF Occurs(s, t) THEN ReplaceSubSeqAt(First(s, t), r, s, t) ELSE t

Lines(t) ==
  FoldLeft(LAMBDA ls, w : IF w = Break THEN Append(ls, <<>>)
                                       ELSE [ls EXCEPT ![Len(ls)] = Append(@, w)], << <<>> >>, t)
Joined(ls) == Tail(FoldLeft(LAMBDA t, l : t \o <<Break>> \o l, <<>>, ls))

\* str.strip, and with an argument "\n" StripBreaks, lstrip and rstrip.
Within(t, words) == IF words = {} THEN <<>> ELSE SubSeq(t, Min(words), Max(words))
Strip(t) == Within(t, {i \in DOMAIN t : t[i] \notin {Break, Space}})
StripBreaks(t) == Within(t, {i \in DOMAIN t : t[i] # Break})
LStrip(t) == LET s == StripBreaks(t) IN IF s = <<>> THEN <<>> ELSE SubSeq(t, First(s, t), Len(t))
RStrip(t) == LET s == StripBreaks(t) IN IF s = <<>> THEN <<>> ELSE SubSeq(t, 1, First(s, t) + Len(s) - 1)
NonBlank(ls) == SelectSeq(ls, LAMBDA l : Strip(l) # <<>>)

-----------------------------------------------------------------------------
(* From the answer of the model to a suggestion.                           *)

\* DocxParser joins the paragraphs, the other parsers take the file as it is.
PlainText == Joined(Paragraphs)

HeadingText(line) == SelectSeq(Strip(line), LAMBDA w : w # Mark)

\* infer_anchor: the first paragraph of the section, or its heading, or nothing.
InferAnchor(section) ==
  LET ls       == Lines(PlainText)
      headings == {k \in DOMAIN ls : HeadingText(ls[k]) = HeadingText(section)}
  IN IF HeadingText(section) = <<>> \/ headings = {} THEN <<>>
     ELSE LET rest == NonBlank(SubSeq(ls, Min(headings) + 1, Len(ls)))
          IN Strip(IF rest = <<>> THEN ls[Min(headings)] ELSE Head(rest))

LastParagraph(t) == LET ls == NonBlank(Lines(t)) IN IF ls = <<>> THEN <<>> ELSE Strip(Last(ls))

Appends(item) == item.type = "modify" /\ Strip(item.old) # <<>>
                 /\ IsStrictPrefix(Strip(item.old), Strip(item.new))

\* _normalize: a modify without new text is a delete, one that repeats the old text an add.
Normalized_WholeAnchor(item) ==
  LET old == Strip(item.old)  new == Strip(item.new) IN
  IF Appends(item)
  THEN [item EXCEPT !.type = "add", !.old = <<>>, !.after = old,
                    !.new = Strip(SubSeq(new, Len(old) + 1, Len(new)))]
  ELSE item
Normalized(item) ==
  LET old == Strip(item.old)  new == Strip(item.new) IN
  CASE Appends(item) ->
         [item EXCEPT !.type = "add", !.old = <<>>, !.after = LastParagraph(old),
                      !.new = Strip(SubSeq(new, Len(old) + 1, Len(new)))]
    [] item.type = "modify" /\ old # <<>> /\ new = <<>> ->
         [item EXCEPT !.type = "delete", !.new = <<>>]
    [] OTHER -> item

\* _resolve_anchor: an add carries its anchor as old text.
Anchored(item) ==
  LET anchor == Strip(IF item.after # <<>> THEN item.after ELSE item.old) IN
  IF item.type # "add" THEN item
  ELSE [item EXCEPT !.old = IF anchor # <<>> THEN anchor ELSE InferAnchor(item.section)]

\* _skip_reason: what is not worth keeping.  It strips the fragment it looks for, and the
\* suggestion stores it with its white space (suggestion_mapper.py:206).  That a fragment of a docx lies in one
\* paragraph is asked of a modify and a delete, not of an anchor.
Keeps(item) ==
  LET old == Strip(item.old) IN
  /\ item.type \in {"add", "modify", "delete"} /\ old # <<>>
  /\ item.type = "add" \/ format # "docx" \/ Len(Lines(old)) = 1
  /\ Occurs(old, PlainText)

\* map_to_suggestions, for one item of the batch.
Mapped(item) ==
  LET made == Anchored(Normalized(item)) IN
  IF Keeps(made)
  THEN << [type |-> made.type, old |-> made.old, new |-> made.new, edited |-> <<>>,
           status |-> "pending", item |-> item] >>
  ELSE <<>>

-----------------------------------------------------------------------------
(* From accepted suggestions to a file.                                    *)

\* AppliedChange: the text of a reviewer goes before the model's.
Change(row) == [type |-> row.type, old |-> row.old,
                new |-> IF row.edited # <<>> THEN row.edited ELSE row.new]

\* DocxExporter.apply_changes for one change: the first paragraph that has the text.
InDocx(file, c) ==
  LET wanted == IF c.type = "add" THEN Strip(c.old) ELSE c.old
      hits   == {k \in DOMAIN file : Occurs(wanted, file[k])}
  IN IF wanted = <<>> \/ hits = {} \/ (c.type = "add" /\ c.new = <<>>) THEN file
     ELSE IF c.type = "add" THEN InsertAt(file, Min(hits) + 1, c.new)
     ELSE [file EXCEPT ![Min(hits)] = ReplaceFirst(c.old, c.new, @)]

\* place_addition: after the end of the line the anchor ends in, between blank lines.
Placed_MidLine(t, anchor, block) ==
  LET end == First(anchor, t) + Len(anchor) - 1 IN
  IF ~Occurs(anchor, t) THEN t
  ELSE SubSeq(t, 1, end) \o <<Break, Break>> \o block \o <<Break, Break>> \o SubSeq(t, end + 1, Len(t))
Placed(t, anchor, block) ==
  LET past  == First(anchor, t) + Len(anchor)
      ends  == {i \in past..Len(t) : t[i] = Break} \cup {Len(t) + 1}
      head  == RStrip(SubSeq(t, 1, Min(ends) - 1))
      tail  == LStrip(SubSeq(t, Min(ends), Len(t)))
  IN IF ~Occurs(anchor, t) THEN t
     ELSE head \o <<Break, Break>> \o StripBreaks(block)
               \o IF tail = <<>> THEN <<Break>> ELSE <<Break, Break>> \o tail

\* TextExporter.apply_changes for one change: the first occurrence in the text.  A delete
\* takes its fragment away and does not ask for a new text, which DocxExporter puts in.
InText(file, c) ==
  IF c.old = <<>> \/ (c.type = "add" /\ c.new = <<>>) THEN file
  ELSE IF c.type = "add" THEN Placed(file, Strip(c.old), c.new)
  ELSE ReplaceFirst(c.old, IF c.type = "delete" THEN <<>> ELSE c.new, file)

\* DocumentExporterRegistry.get_exporter and its exporter: all changes, one after the other.
Applied(changes) ==
  IF format = "docx" THEN FoldLeft(InDocx, Paragraphs, changes)
                     ELSE FoldLeft(InText, PlainText, changes)

-----------------------------------------------------------------------------
(* The document's way through analysis, review and export.                 *)

NoExport == [pc |-> "idle", offset |-> 0, read |-> <<>>, first |-> {}, left |-> FALSE,
             joined |-> FALSE]

Init ==
  /\ format \in Formats /\ status = "in_progress"
  /\ rows = <<>> /\ export = NoExport /\ resets = 0

\* A subtask stores the suggestions made of one item of its answer.
Reply ==
  /\ status = "in_progress" /\ Len(rows) < MaxRows
  /\ \E item \in Items : rows' = rows \o Mapped(item)
  /\ UNCHANGED <<format, status, export, resets>>

Analysed ==
  /\ status = "in_progress"
  /\ status' = DocumentStatusFor("success", rows # <<>>)
  /\ UNCHANGED <<format, rows, export, resets>>

\* While an export runs, a commit makes rows enter or leave what it pages through.
Watch(i, to) ==
  export' = [export EXCEPT !.left   = @ \/ rows[i].status = "accepted",
                           !.joined = @ \/ to = "accepted"]

Decide ==
  /\ CanReview(status)
  /\ \E i \in DOMAIN rows, to \in {"accepted", "rejected"}, edit \in Edits :
       /\ rows[i].status = "pending" /\ (to = "rejected" => edit = <<>>)
       /\ rows' = [rows EXCEPT ![i].status = to, ![i].edited = edit]
       /\ Watch(i, to)
  /\ UNCHANGED <<format, status, resets>>

Finalise ==
  /\ CanReview(status) /\ \A i \in DOMAIN rows : rows[i].status # "pending"
  /\ status' = "ready"
  /\ UNCHANGED <<format, rows, export, resets>>

\* A decision is taken back; the document is no longer ready, a running export goes on.
Reset ==
  /\ CanResetReview(status) /\ resets < MaxResets /\ resets' = resets + 1
  /\ \E i \in DOMAIN rows :
       /\ rows[i].status # "pending"
       /\ rows' = [rows EXCEPT ![i].status = "pending", ![i].edited = <<>>]
       /\ Watch(i, "pending")
  /\ status' = "awaiting_approval"
  /\ UNCHANGED format

\* The accepted suggestions, and their list in the order of the query.
AcceptedRows == {i \in DOMAIN rows : rows[i].status = "accepted"}
Accepted ==
  CHOOSE s \in [1..Cardinality(AcceptedRows) -> AcceptedRows] :
    \A j, k \in DOMAIN s : j < k => s[j] < s[k]

\* export_document checks the status of the document the request has loaded.
Export ==
  /\ CanExport(status) /\ export.pc = "idle"
  /\ export' = [NoExport EXCEPT !.pc = "reading", !.first = AcceptedRows]
  /\ UNCHANGED <<format, status, rows, resets>>

\* list_by_analysis_job_and_status_page: the order, the limit and the offset of a page.
Page == SubSeq(Accepted, export.offset + 1, Min({export.offset + PageSize, Len(Accepted)}))
Take(page) == [k \in DOMAIN page |-> [id |-> page[k], change |-> Change(rows[page[k]])]]

\* _iter_accepted_changes_pages: a short page is the last one.
ReadPage_StopsAtFull ==
  /\ export.pc = "reading"
  /\ export' = [export EXCEPT !.read = @ \o Take(Page), !.offset = @ + PageSize,
                              !.pc = IF Len(Page) <= PageSize THEN "done" ELSE @]
  /\ UNCHANGED <<format, status, rows, resets>>
ReadPage ==
  /\ export.pc = "reading"
  /\ export' = [export EXCEPT !.read = @ \o Take(Page), !.offset = @ + PageSize,
                              !.pc = IF Len(Page) < PageSize THEN "done" ELSE @]
  /\ UNCHANGED <<format, status, rows, resets>>

\* The answer is delivered; nothing of the export is stored.
Deliver ==
  /\ export.pc = "done" /\ export' = NoExport
  /\ UNCHANGED <<format, status, rows, resets>>

Next ==
  \/ Reply \/ Analysed \/ Decide \/ Finalise \/ Reset
  \/ Export \/ ReadPage \/ Deliver

Spec == Init /\ [][Next]_vars

-----------------------------------------------------------------------------
(* Properties.                                                             *)

Content(file) == NonBlank(Lines(IF format = "docx" THEN Joined(file) ELSE file))

\* What a reader expects of one accepted change c: a paragraph after one that has the
\* anchor, or one occurrence of the old text replaced.
Shows(file, c) ==
  LET before == Content(IF format = "docx" THEN Paragraphs ELSE PlainText) IN
  IF c.type = "add"
  THEN \E k \in DOMAIN before :
         /\ Occurs(c.old, before[k])
         /\ Content(file) = SubSeq(before, 1, k) \o NonBlank(Lines(c.new))
                            \o SubSeq(before, k + 1, Len(before))
  ELSE \E i \in Found(c.old, PlainText) :
         Content(file) = NonBlank(Lines(ReplaceSubSeqAt(i, c.new, c.old, PlainText)))

\* The item is as the prompt asks for it: fragments inside one paragraph, without line
\* breaks or other white space around what it replaces or deletes, a text to add, and none
\* for a delete; or it is a modify that repeats what it changes.
AsPrompted(item) ==
  \/ Appends(item)
  \/ /\ \A t \in {item.old, item.new, item.after} : ~Occurs(<<Break>>, t)
     /\ item.type = "add" => item.new # <<>>
     /\ item.type = "delete" => item.new = <<>>
     /\ item.type # "add" => item.old = Strip(item.old)

\* What the exporter makes of an accepted suggestion.  In a text file the text a reviewer
\* puts in place of a deleted fragment is lost: text_exporter.py:56-57 removes the fragment,
\* against src/README.md:264 and 273; document_export_service.py:144 has handed it over.
Delivered(row) ==
  [Change(row) EXCEPT !.new = IF format = "text" /\ row.type = "delete" THEN <<>> ELSE @]

\* Whatever the mapper keeps of an item that is as the prompt asks, the exporter of the
\* document's format finds again and applies, although the two look for the fragment in
\* different ways, and with the text the reviewer chose, but for the one that Delivered
\* names.  Of other items some are kept and never found: the mapper strips the fragment it
\* checks and stores it as it came, against suggestion_mapper.py:13-14.
KeptIsApplied ==
  \A i \in DOMAIN rows :
    AsPrompted(rows[i].item) => Shows(Applied(<<Change(rows[i])>>), Delivered(rows[i]))

\* An export of several accepted changes leaves alone what none of them is about: a
\* paragraph that shares no word with a replaced or deleted fragment is still there, in
\* its order, whatever earlier changes have done to the text.  No fragment may carry white
\* space around it: one that ends in a line break joins its paragraph to the next.
OthersStay ==
  export.pc = "done" =>
    LET changes == {export.read[k].change : k \in DOMAIN export.read}
        touched(p) == \E c \in changes : c.type # "add" /\ ToSet(c.old) \cap ToSet(p) # {}
        stay    == SelectSeq(NonBlank(Lines(PlainText)), LAMBDA p : ~touched(p))
        after   == Content(Applied([k \in DOMAIN export.read |-> export.read[k].change]))
    IN (\A c \in changes : c.old = Strip(c.old)) =>
         \E f \in [DOMAIN stay -> DOMAIN after] :
           /\ \A j \in DOMAIN stay : after[f[j]] = stay[j]
           /\ \A j, k \in DOMAIN stay : j < k => f[j] < f[k]

\* The pages of an export make up the accepted suggestions in spite of reviewers who work
\* on: none that was accepted at the start is missing unless one of the accepted was taken
\* back meanwhile, and none comes twice unless another one was accepted meanwhile.
ExportComplete ==
  export.pc = "done" =>
    LET ids == [k \in DOMAIN export.read |-> export.read[k].id] IN
    /\ ~export.left => export.first \subseteq ToSet(ids)
    /\ ~export.joined => \A j, k \in DOMAIN ids : j < k => ids[j] < ids[k]

=============================================================================
