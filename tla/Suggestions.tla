----------------------------- MODULE Suggestions -----------------------------
(***************************************************************************)
(* The edit tool of the MCP server: relay/src/mcp/tools/edit.rs and        *)
(* critic_markup.rs, with the sessions of mcp/session.rs that guard it.    *)
(*                                                                         *)
(* A document is a text with suggestions in it, a sequence of spans.  An   *)
(* assistant sees the accepted view, what the text is when everything is   *)
(* accepted, and edits that: merge_edit turns the edit into suggestions on *)
(* top of those that are there.  The base view is what the text is when    *)
(* everything is rejected.                                                 *)
(*                                                                         *)
(* A plain span has the same text on both sides.  Markup is abstracted to  *)
(* the spans that parse makes of it; authors, comments, code fences and    *)
(* quotes are left out.  The word diff is external (the crate `similar`):  *)
(* any longest common subsequence of the words.                            *)
(***************************************************************************)
EXTENDS Naturals, Sequences, SequencesExt, FiniteSets, FiniteSetsExt

CONSTANTS Sessions, None,
          Letters, Space,
          Docs0,      \* documents to start with: plain text and suggestions
          NewTexts,   \* texts that assistants write
          MaxLength,  \* bound: length of the text to be replaced
          MaxEdits,   \* bound: edits of assistants
          MaxOps      \* bound: what people do

Chars == Letters \cup {Space}

ASSUME SuggestionsAssumption ==
  /\ Space \notin Letters /\ MaxLength \in Nat /\ MaxEdits \in Nat /\ MaxOps \in Nat
  /\ \A t \in NewTexts : t \in Seq(Chars)
  /\ \A d \in Docs0 : \A i \in DOMAIN d : d[i].del \in Seq(Chars) /\ d[i].ins \in Seq(Chars)

VARIABLES
  doc,      \* the document's spans
  session,  \* SessionManager: sessions, and whether they have read the document
  edit,     \* the edit that a session's call is about to apply
  edits, ops

vars == <<doc, session, edit, edits, ops>>

Plain(t)         == [sug |-> FALSE, del |-> t, ins |-> t]
Suggestion(d, i) == [sug |-> TRUE, del |-> d, ins |-> i]

\* accepted_view, base_view
Accepted(spans) == FlattenSeq([i \in DOMAIN spans |-> spans[i].ins])
Base(spans)     == FlattenSeq([i \in DOMAIN spans |-> spans[i].del])

IsSpan(p) == /\ p.sug \in BOOLEAN /\ p.del \in Seq(Chars) /\ p.ins \in Seq(Chars)
             /\ ~p.sug => p.del = p.ins
             /\ p.del # <<>> \/ p.ins # <<>>

\* What parse reads as one span.
Joins(p, q) == \/ ~p.sug /\ ~q.sug
               \/ p.sug /\ q.sug /\ p.ins = <<>> /\ q.del = <<>>

TypeOK ==
  /\ \A i \in DOMAIN doc : IsSpan(doc[i])
  /\ \A i \in 1..(Len(doc) - 1) : ~Joins(doc[i], doc[i + 1])
  /\ session \in [Sessions -> {"none", "new", "read"}]
  /\ \A s \in Sessions : edit[s] # None =>
       edit[s] \in [old : Seq(Chars), new : NewTexts, at : Nat]
  /\ edits \in 0..MaxEdits /\ ops \in 0..MaxOps

\* parse of what is written: neighbours that read as one are one.
Joined(p, q) == IF p.sug THEN Suggestion(p.del, q.ins) ELSE Plain(p.ins \o q.ins)

\* Mutant: what is next to each other stays apart.
Written_Apart(spans, p) == IF p.del = <<>> /\ p.ins = <<>> THEN spans ELSE Append(spans, p)

Written(spans, p) ==
  IF p.del = <<>> /\ p.ins = <<>> THEN spans
  ELSE IF spans # <<>> /\ Joins(Last(spans), p) THEN Append(Front(spans), Joined(Last(spans), p))
  ELSE Append(spans, p)

Parsed(spans) == FoldLeft(Written, <<>>, spans)

Init ==
  /\ doc \in {Parsed(d) : d \in Docs0}
  /\ session = [s \in Sessions |-> "none"] /\ edit = [s \in Sessions |-> None]
  /\ edits = 0 /\ ops = 0

-----------------------------------------------------------------------------
(* Places: a text is cut between its characters, at 0..Len(text). *)

Slice(t, lo, hi) == SubSeq(t, lo + 1, hi)

\* match_indices, which does not look for overlapping matches.
Matches(t, old) == {i \in 0..(Len(t) - Len(old)) : Slice(t, i, i + Len(old)) = old}
IsUnique(t, old) ==
  /\ Len(old) <= Len(t) /\ Matches(t, old) # {}
  /\ \A i \in Matches(t, old) : i < Min(Matches(t, old)) + Len(old)

\* Where a span begins and ends in the accepted view.
Lo(spans, k) == Len(Accepted(SubSeq(spans, 1, k - 1)))
Hi(spans, k) == Lo(spans, k) + Len(spans[k].ins)

Meets(lo, hi, a, b) == lo < b /\ hi > a

-----------------------------------------------------------------------------
(* The word diff. *)

InOrder(S, n) == SelectSeq([i \in 1..n |-> i], LAMBDA i : i \in S)

Words(t) ==
  LET cuts == {i \in 1..Len(t) : i = 1 \/ ((t[i] = Space) # (t[i - 1] = Space))}
      from == Append(InOrder(cuts, Len(t)), Len(t) + 1)
  IN  [j \in 1..Cardinality(cuts) |-> SubSeq(t, from[j], from[j + 1] - 1)]

Picked(words, ks) == [j \in DOMAIN ks |-> words[ks[j]]]

\* The words that are kept: their numbers in the old text, and in the new.
Diffs(a, b) ==
  LET Subseqs(n) == {InOrder(K, n) : K \in SUBSET (1..n)}
      common == {Picked(a, ks) : ks \in Subseqs(Len(a))} \cap {Picked(b, ks) : ks \in Subseqs(Len(b))}
      most == Max({Len(c) : c \in common})
      Keeping(w) == {ks \in Subseqs(Len(w)) : Len(ks) = most /\ Picked(w, ks) \in common}
  IN  {k \in Keeping(a) \X Keeping(b) : Picked(a, k[1]) = Picked(b, k[2])}

\* The regions of a diff, in the order of the old text: kept words, and between
\* them what is deleted and inserted.  A blank between two changes is changed.
Regions(a, b, diff) ==
  LET n == Len(diff[1])
      olds == <<0>> \o diff[1] \o <<Len(a) + 1>>
      news == <<0>> \o diff[2] \o <<Len(b) + 1>>
      At(i) == Len(FlattenSeq(SubSeq(a, 1, i - 1)))
      Gap(g) == [lo |-> At(olds[g] + 1), hi |-> At(olds[g + 1]), change |-> TRUE,
                 new |-> FlattenSeq(SubSeq(b, news[g] + 1, news[g + 1] - 1))]
      IsGap(g) == Gap(g).lo < Gap(g).hi \/ Gap(g).new # <<>>
      Kept(g) == [lo |-> At(olds[g]), hi |-> At(olds[g] + 1), new |-> a[olds[g]],
                  change |-> a[olds[g]][1] = Space /\ IsGap(g - 1) /\ IsGap(g)]
  IN  FlattenSeq([g \in 1..(n + 1) |-> (IF g = 1 THEN <<>> ELSE <<Kept(g)>>)
                                       \o (IF IsGap(g) THEN <<Gap(g)>> ELSE <<>>)])

-----------------------------------------------------------------------------
(* merge_edit: old, at the place `at` of the accepted view, becomes new. *)

Covered(spans, at, old) ==
  {k \in DOMAIN spans : spans[k].ins # <<>>
                        /\ Meets(Lo(spans, k), Hi(spans, k), at, at + Len(old))}

\* The spans of the range: of plain text the part within it, suggestions whole.
Segments(spans, at, old) ==
  LET ks == Covered(spans, at, old)
      Part(k) == Plain(Slice(spans[k].ins, Max({at, Lo(spans, k)}) - Lo(spans, k),
                             Min({at + Len(old), Hi(spans, k)}) - Lo(spans, k)))
  IN  [j \in 1..(Max(ks) - Min(ks) + 1) |->
         LET k == Min(ks) + j - 1 IN IF spans[k].sug THEN spans[k] ELSE Part(k)]

Before(spans, at, old) ==
  LET k == Min(Covered(spans, at, old))
  IN  SubSeq(spans, 1, k - 1)
      \o IF spans[k].sug THEN <<>> ELSE <<Plain(Slice(spans[k].ins, 0, Max({at, Lo(spans, k)}) - Lo(spans, k)))>>

After(spans, at, old) ==
  LET k == Max(Covered(spans, at, old))
  IN  (IF spans[k].sug THEN <<>>
       ELSE <<Plain(Slice(spans[k].ins, Min({at + Len(old), Hi(spans, k)}) - Lo(spans, k), Len(spans[k].ins)))>>)
      \o SubSeq(spans, k + 1, Len(spans))

\* The new text, with what the first and the last suggestion have beyond it.
Expanded(spans, at, old, new) ==
  LET whole == Accepted(Segments(spans, at, old))
      first == Lo(spans, Min(Covered(spans, at, old)))
      lead  == IF spans[Min(Covered(spans, at, old))].sug /\ at > first THEN at - first ELSE 0
  IN  Slice(whole, 0, lead) \o new \o Slice(whole, lead + Len(old), Len(whole))

\* A suggestion that a change touches is changed as a whole.
Touched(segs, k, regions) ==
  segs[k].sug /\ \E i \in DOMAIN regions :
    regions[i].change /\ Meets(regions[i].lo, regions[i].hi, Lo(segs, k), Hi(segs, k))

\* Mutant: suggestions are touched by nothing.
Changes_Alone(segs, regions, i) == regions[i].change

Changes(segs, regions, i) ==
  \/ regions[i].change
  \/ \E k \in DOMAIN segs :
       /\ Touched(segs, k, regions)
       /\ Meets(regions[i].lo, regions[i].hi, Lo(segs, k), Hi(segs, k))

PartOf(segs, k, lo, hi) ==
  Slice(segs[k].ins, Max({lo, Lo(segs, k)}) - Lo(segs, k), Min({hi, Hi(segs, k)}) - Lo(segs, k))

\* Mutant: a suggestion in a changed range counts with what it shows.
BaseOf_Shown(segs, lo, hi) ==
  IF lo = hi THEN <<>>
  ELSE FlattenSeq([k \in DOMAIN segs |->
         IF ~Meets(lo, hi, Lo(segs, k), Hi(segs, k)) THEN <<>> ELSE PartOf(segs, k, lo, hi)])

\* collect_base_for_change
BaseOf(segs, lo, hi) ==
  IF lo = hi THEN <<>>
  ELSE FlattenSeq([k \in DOMAIN segs |->
         IF ~Meets(lo, hi, Lo(segs, k), Hi(segs, k)) THEN <<>>
         ELSE IF segs[k].sug THEN segs[k].del ELSE PartOf(segs, k, lo, hi)])

\* collect_raw_for_equal: a suggestion comes with the first region that has it.
RawOf(segs, regions, i) ==
  LET IsIn(j, k) == Meets(regions[j].lo, regions[j].hi, Lo(segs, k), Hi(segs, k))
      Raw(k) == IF ~IsIn(i, k) THEN <<>>
                ELSE IF ~segs[k].sug THEN <<Plain(PartOf(segs, k, regions[i].lo, regions[i].hi))>>
                ELSE IF \E j \in 1..(i - 1) : ~Changes(segs, regions, j) /\ IsIn(j, k) THEN <<>>
                ELSE <<segs[k]>>
  IN  FlattenSeq([k \in DOMAIN segs |-> Raw(k)])

\* Changed regions in a row are one change.
Replacement(segs, regions) ==
  LET Runs(i, j) == \A m \in i..j : Changes(segs, regions, m)
      End(i) == Max({j \in i..Len(regions) : Runs(i, j)})
      Change(i) == <<Suggestion(BaseOf(segs, regions[i].lo, regions[End(i)].hi), <<>>),
                     Suggestion(<<>>, FlattenSeq([m \in 1..(End(i) - i + 1) |-> regions[i + m - 1].new]))>>
  IN  FlattenSeq([i \in DOMAIN regions |->
        IF ~Runs(i, i) THEN RawOf(segs, regions, i)
        ELSE IF i > 1 /\ Runs(i - 1, i - 1) THEN <<>>
        ELSE Change(i)])

Merges(spans, old, new) ==
  LET at   == Min(Matches(Accepted(spans), old))
      segs == Segments(spans, at, old)
      a    == Words(Accepted(segs))
      b    == Words(Expanded(spans, at, old, new))
  IN  {Parsed(Before(spans, at, old) \o Replacement(segs, Regions(a, b, diff))
              \o After(spans, at, old)) : diff \in Diffs(a, b)}

-----------------------------------------------------------------------------
(* Sessions and tools. *)

\* create_session; cleanup_stale takes sessions away whenever they are idle.
Creates(s) ==
  /\ session[s] = "none" /\ session' = [session EXCEPT ![s] = "new"]
  /\ UNCHANGED <<doc, edit, edits, ops>>

Expires(s) ==
  /\ session[s] # "none" /\ session' = [session EXCEPT ![s] = "none"]
  /\ UNCHANGED <<doc, edit, edits, ops>>

Reads(s) ==
  /\ session[s] = "new" /\ session' = [session EXCEPT ![s] = "read"]
  /\ UNCHANGED <<doc, edit, edits, ops>>

\* The edit tool up to its write lock.
Begins(s, old, new) ==
  /\ session[s] = "read" /\ edit[s] = None /\ edits < MaxEdits
  /\ IsUnique(Accepted(doc), old) /\ old # new
  /\ edit' = [edit EXCEPT ![s] = [old |-> old, new |-> new, at |-> Min(Matches(Accepted(doc), old))]]
  /\ edits' = edits + 1
  /\ UNCHANGED <<doc, session, ops>>

\* Under the lock: what was found must still be there, and only once.
StillThere(e) ==
  /\ e.at + Len(e.old) <= Len(Accepted(doc))
  /\ Slice(Accepted(doc), e.at, e.at + Len(e.old)) = e.old

Applies(s) ==
  /\ edit[s] # None /\ edit' = [edit EXCEPT ![s] = None]
  /\ IF StillThere(edit[s]) /\ IsUnique(Accepted(doc), edit[s].old)
     THEN doc' \in Merges(doc, edit[s].old, edit[s].new) ELSE doc' = doc
  /\ UNCHANGED <<session, edits, ops>>

-----------------------------------------------------------------------------
(* People, in the editor: external. *)

Operates == ops < MaxOps /\ ops' = ops + 1 /\ UNCHANGED <<session, edit, edits>>

\* A suggestion is accepted or rejected.
Resolves(k, accept) ==
  /\ Operates /\ doc[k].sug
  /\ doc' = Parsed([doc EXCEPT ![k] = Plain(IF accept THEN @.ins ELSE @.del)])

\* A character is typed into plain text.
Types(k, i, c) ==
  /\ Operates /\ ~doc[k].sug
  /\ doc' = [doc EXCEPT ![k] = Plain(InsertAt(@.ins, i, c))]

Parts(t) == {Slice(t, p[1], p[2]) :
               p \in {q \in (0..Len(t)) \X (0..Len(t)) : q[1] < q[2] /\ q[2] <= q[1] + MaxLength}}

Next ==
  \/ \E s \in Sessions :
       \/ Creates(s) \/ Expires(s) \/ Reads(s) \/ Applies(s)
       \/ \E old \in Parts(Accepted(doc)), new \in NewTexts : Begins(s, old, new)
  \/ \E k \in DOMAIN doc :
       \/ \E accept \in BOOLEAN : Resolves(k, accept)
       \/ \E i \in 1..(Len(doc[k].ins) + 1), c \in Letters : Types(k, i, c)

Spec == Init /\ [][Next]_vars

-----------------------------------------------------------------------------
(* Properties.  Two cases are set apart in which they do not hold: a word   *)
(* with characters of two suggestions, and a pending deletion in the range. *)

Edited(s) == edit[s] # None /\ edit'[s] = None /\ doc' # doc

Place(s) == Min(Matches(Accepted(doc), edit[s].old))
Spot(s) == Segments(doc, Place(s), edit[s].old)

WordsApart(segs) ==
  LET words == Words(Accepted(segs))
      At(i) == Len(FlattenSeq(SubSeq(words, 1, i - 1)))
  IN  \A i \in DOMAIN words : \A j, k \in DOMAIN segs :
        segs[j].sug /\ segs[k].sug
        /\ Meets(At(i), At(i + 1), Lo(segs, j), Hi(segs, j))
        /\ Meets(At(i), At(i + 1), Lo(segs, k), Hi(segs, k)) => j = k

NoDeletions(segs) == \A k \in DOMAIN segs : segs[k].ins # <<>>

Replaced(t, at, old, new) == Slice(t, 0, at) \o new \o Slice(t, at + Len(old), Len(t))

(* An edit does to the accepted view what the assistant asked for and      *)
(* nothing else, whatever suggestions its range starts, ends or lies in.   *)
EditIsExact ==
  [][\A s \in Sessions : Edited(s) /\ WordsApart(Spot(s)) =>
       Accepted(doc)' = Replaced(Accepted(doc), Place(s), edit[s].old, edit[s].new)]_vars

(* No edit of an assistant changes the base view: rejecting everything     *)
(* gives back what people have left, over any number of edits.             *)
RejectingRestores ==
  [][\A s \in Sessions : Edited(s) /\ WordsApart(Spot(s)) /\ NoDeletions(Spot(s)) =>
       Base(doc)' = Base(doc)]_vars
=============================================================================
