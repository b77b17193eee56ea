---------------------------- MODULE NestingHints ----------------------------
(***************************************************************************)
(* The attributes of a text that are elements of the stored document:      *)
(* hyperlinks, ruby and meta (core/txtnode/thints.cxx).  They must nest;   *)
(* links and ruby are split where they would overlap, and displace others  *)
(* of their kind.  A meta has a character of its own, CH_TXTATR, at its    *)
(* start, and must not be split.                                           *)
(*                                                                         *)
(* Equal hints at an equal range count as one; only empty ones can be.     *)
(***************************************************************************)
EXTENDS Integers, FiniteSets, SequencesExt

CONSTANTS
  Attrs,        \* the attributes: pairs of a kind and a number
  MaxLen,       \* bound: the longest text
  MaxPiece,     \* bound: the longest text inserted at a time
  MaxHints,     \* bound: the most hints
  MaxSize       \* bound: on the length of the text and the number of hints together

VARIABLES
  text,         \* m_Text: "char" or "CH_TXTATR"
  hints,        \* m_pSwpHints
  strained      \* history: which edits have been made that may break the nesting,
                \* of "within", "covers", "cuts" and "adjacent" (see the actions)

vars == <<text, hints, strained>>

Which(h) == h.attr[1]
HasDummyChar(h) == Which(h) = "META"
isSplittable(h) == Which(h) # "META"
isSelfNestable(h) == Which(h) = "META"

\* The kinds in the order of their numbers in hintids.hxx.
WhichNr(h) == CASE Which(h) = "META" -> 1 [] Which(h) = "INETFMT" -> 2 [] OTHER -> 3

\* The two orders of the hints.
IsLessStart(g, h) ==
  IF g.start # h.start THEN g.start < h.start
  ELSE IF g.end # h.end THEN g.end > h.end
  ELSE IF Which(g) # Which(h) THEN WhichNr(g) > WhichNr(h) ELSE g.attr[2] < h.attr[2]

IsLessEnd(g, h) ==
  IF g.end # h.end THEN g.end < h.end
  ELSE IF g.start # h.start THEN g.start > h.start
  ELSE IF Which(g) # Which(h) THEN WhichNr(g) < WhichNr(h) ELSE g.attr[2] > h.attr[2]

Sorted(hs, Less(_, _)) ==
  [i \in 1 .. Cardinality(hs) |-> CHOOSE h \in hs : Cardinality({g \in hs : Less(g, h)}) = i - 1]

Starts(hs) == Sorted(hs, IsLessStart)
Ends(hs) == Sorted(hs, IsLessEnd)

-----------------------------------------------------------------------------
(* TryInsertNesting.                                                        *)

isOverlap(g, h) ==
  \/ g.start > h.start /\ g.start < h.end /\ g.end > h.end
  \/ g.start < h.start /\ h.start < g.end /\ g.end < h.end

\* Asymmetric: an empty g at an end of h is not nested in it.
isNestedAny(g, h) ==
  IF g.start = h.start \/ g.end = h.end THEN g.start # g.end \/ h.start = h.end
  ELSE IF g.start < h.start THEN g.end >= h.end ELSE g.end <= h.end

splitPolicy(new, other) ==
  CASE ~isSplittable(other) /\ ~isSplittable(new) -> "FAIL"
    [] ~isSplittable(other) /\ isSplittable(new) -> "SPLIT_NEW"
    [] Which(new) = "INETFMT" /\ Which(other) = "CJK_RUBY" -> "SPLIT_NEW"
    [] OTHER -> "SPLIT_OTHER"

\* Mutant of DoSplitNew: always at the start of the other hint.
DoSplitNew_AtStart(split, newStart, other) ==
  LET at == SelectInSeq(split, LAMBDA f : f.start < other.start /\ other.start < f.end)
  IN IF at = 0 THEN split
     ELSE SubSeq(split, 1, at - 1)
          \o <<[split[at] EXCEPT !.end = other.start], [split[at] EXCEPT !.start = other.start]>>
          \o SubSeq(split, at + 1, Len(split))

\* The fragments of the new hint are split at the start or the end of other.
DoSplitNew(split, newStart, other) ==
  LET bSplitAtStart == newStart < other.start
      pos == IF bSplitAtStart THEN other.start ELSE other.end
      skip == IF bSplitAtStart /\ HasDummyChar(other) THEN 1 ELSE 0
      at == SelectInSeq(split, LAMBDA f : f.start < pos /\ pos < f.end)
  IN IF at = 0 THEN split
     ELSE SubSeq(split, 1, at - 1)
          \o <<[split[at] EXCEPT !.end = pos], [split[at] EXCEPT !.start = pos + skip]>>
          \o SubSeq(split, at + 1, Len(split))

\* Pass 1: what becomes of the new hint, and which others overlap with it or nest.
Fragments(hs, new) ==
  LET Overlap(r, other) ==
        IF splitPolicy(new, other) = "SPLIT_NEW"
        THEN [r EXCEPT !.split = DoSplitNew(@, new.start, other)]
        ELSE [r EXCEPT !.overlapping = Append(@, other)]
      Nested(r, other) ==
        IF ~isSelfNestable(new) /\ Which(new) = Which(other)
        THEN [r EXCEPT !.overwritten = Append(@, other)]
        ELSE IF new.start = other.start /\ HasDummyChar(other) /\ new.end < other.end
        THEN [r EXCEPT !.split[1].start = new.start + 1]
        ELSE r
      Visit(r, other) ==
        IF isOverlap(new, other) THEN Overlap(r, other)
        ELSE IF isNestedAny(new, other) THEN Nested(r, other) ELSE r
  IN FoldLeft(Visit, [split |-> <<new>>, overlapping |-> <<>>, overwritten |-> <<>>], Ends(hs))

\* Mutant of SplitOther: other loses what f covers, whatever its kind.
SplitOther_CutsAll(r, other, f) ==
  LET Cut(kept) == [other |-> kept, hints |-> (r.hints \ {r.other}) \cup {kept}]
  IN IF f.start < other.start /\ f.end > other.start /\ f.end < other.end
     THEN Cut([r.other EXCEPT !.start = f.end])
     ELSE IF other.start < f.start /\ f.start < other.end /\ other.end < f.end
     THEN Cut([r.other EXCEPT !.end = f.start])
     ELSE r

\* Pass 2: other is split at the end of the fragment f that lies within it, or cut
\* off there if it is of the kind of the new hint.  r.other is what is left of it.
SplitOther(r, other, f) ==
  LET same == ~isSelfNestable(f) /\ Which(f) = Which(other)
      Cut(kept, rest) ==
        [other |-> kept,
         hints |-> (r.hints \ {r.other}) \cup {kept} \cup IF same THEN {} ELSE {rest}]
  IN IF f.start < other.start /\ f.end > other.start /\ f.end < other.end
     THEN Cut([r.other EXCEPT !.start = f.end],
              [other EXCEPT !.end = f.end])
     ELSE IF other.start < f.start /\ f.start < other.end /\ other.end < f.end
     THEN Cut([r.other EXCEPT !.end = f.start],
              [other EXCEPT !.start = f.start])
     ELSE r

SplitOthers(hs, overlapping, split) ==
  FoldLeft(LAMBDA x, other :
             FoldLeft(LAMBDA r, f : SplitOther(r, other, f),
                      [other |-> other, hints |-> x], split).hints,
           hs, overlapping)

\* A meta overlaps with another one.
Fails(hs, new) ==
  \E other \in hs : isOverlap(new, other) /\ splitPolicy(new, other) = "FAIL"

\* Pass 3 inserts the fragments; pass 4 puts back what the new hint leaves of those
\* of its kind, around others that lie in them.  These are taken out beforehand:
\* nothing looks at them in between.
RECURSIVE TryInsertNesting(_, _)
TryInsertNesting(hs, new) ==
  LET fr == Fragments(hs, new)
      others == hs \ ToSet(fr.overwritten)
      inserted == SplitOthers(others, fr.overlapping, fr.split) \cup ToSet(fr.split)
      Right(x, o) ==
        IF new.end < o.end THEN TryInsertNesting(x, [o EXCEPT !.start = new.end]) ELSE x
      Left(x, o) ==
        IF o.start < new.start THEN TryInsertNesting(x, [o EXCEPT !.end = new.start]) ELSE x
  IN FoldLeft(LAMBDA x, o : Left(Right(x, o), o), inserted, fr.overwritten)

-----------------------------------------------------------------------------
(* Changes of the text.                                                     *)

Move(h, s, e) == [h EXCEPT !.start = s, !.end = e]

\* SwTextNode::Update of the hints.
UpdateErased(hs, p, n) ==
  LET Shrunk(v) == IF v <= p THEN v ELSE IF v > p + n THEN v - n ELSE p
  IN {Move(h, Shrunk(h.start), Shrunk(h.end)) : h \in hs}

UpdateInserted(hs, p, n, bIgnoreDontExpand) ==
  {IF h.start >= p THEN Move(h, h.start + n, h.end + n)
   ELSE IF h.end > p \/ (h.end = p /\ bIgnoreDontExpand) THEN [h EXCEPT !.end = @ + n]
   ELSE h : h \in hs}

\* Empty hints that Update has moved behind the inserted text, up to rIdx, go back: in
\* front of it or, with FORCEHINTEXPAND and EMPTYEXPAND, around it; by position.
RECURSIVE PutEmptyBack(_, _, _, _, _)
PutEmptyBack(hs, i, rIdx, n, force) ==
  IF i > Cardinality(hs) \/ Starts(hs)[i].start > rIdx THEN hs
  ELSE LET h == Starts(hs)[i]
           back == TryInsertNesting(hs \ {h},
                     Move(h, h.start - n, IF force THEN h.end ELSE h.end - n))
           skipped == force /\ i > 1 /\ Cardinality(back) < Cardinality(hs)
       IN IF h.end = rIdx /\ h.start = rIdx
          THEN PutEmptyBack(back, IF skipped THEN i ELSE i + 1, rIdx, n, force)
          ELSE PutEmptyBack(hs, i + 1, rIdx, n, force)

Chars(n) == [i \in 1 .. n |-> "char"]

TextWith(p, s) == SubSeq(text, 1, p) \o s \o SubSeq(text, p + 1, Len(text))
TextWithout(p, n) == SubSeq(text, 1, p) \o SubSeq(text, p + n + 1, Len(text))

\* The hints after InsertText of n characters at p.
HintsInserted(hs, p, n, force) ==
  PutEmptyBack(UpdateInserted(hs, p, n, force), 1, p + n, n, force)

\* The hints after EraseText of n characters at p: those that end in the range go,
\* and a ruby that ends with it too, unless it is to keep its place.
HintsErased(hs, p, n, emptyExpand) ==
  LET Goes(h) ==
        /\ h.start \in p .. p + n
        /\ \/ h.end < p + n
           \/ h.end = p + n /\ ~emptyExpand /\ Which(h) = "CJK_RUBY"
           \/ h.start < p + n /\ HasDummyChar(h)
  IN UpdateErased({h \in hs : ~Goes(h)}, p, n)

\* No meta is erased but for its end, unless its character alone is erased.
NoMetaCutOff(p, n) ==
  \A h \in hints : HasDummyChar(h) /\ h.start \in p .. p + n - 1 =>
    h.end <= p + n \/ (h.start = p /\ n = 1)

\* The bounds leave room for n characters and k hints.
Room(n, k) ==
  /\ Len(text) + n <= MaxLen /\ Cardinality(hints) + k <= MaxHints
  /\ Len(text) + n + Cardinality(hints) + k <= MaxSize

InsertText(p, n, force) ==
  /\ Room(n, 0)
  /\ text' = TextWith(p, Chars(n))
  /\ hints' = HintsInserted(hints, p, n, force)
  /\ UNCHANGED strained

EraseText(p, n, emptyExpand) ==
  /\ p + n <= Len(text) /\ NoMetaCutOff(p, n)
  /\ text' = TextWithout(p, n)
  /\ hints' = HintsErased(hints, p, n, emptyExpand)
  /\ UNCHANGED strained

\* ReplaceText first erases the characters of metas in the range, and the metas
\* with them.  After each the loop goes on behind its place.
RECURSIVE MetasErased(_, _, _)
MetasErased(r, pos, end) ==
  LET here == {h \in r.hints : HasDummyChar(h) /\ h.start = pos}
  IN IF pos >= end THEN r
     ELSE IF here = {} THEN MetasErased(r, pos + 1, end)
     ELSE MetasErased([hints |-> HintsErased(r.hints, pos, 1, FALSE), len |-> r.len - 1],
                      pos + 1, end - 1)

NoAdjacentMetas(p, n) ==
  \A i \in p + 1 .. p + n - 1 : text[i] = "char" \/ text[i + 1] = "char"

\* The first character is replaced where it is, so that its hints expand.
ReplaceText(p, del, ins) ==
  LET r == MetasErased([hints |-> hints, len |-> del], p, p + del)
      first == IF r.len > 0 /\ ins > 0 THEN 1 ELSE 0
  IN /\ p < Len(text) /\ p + del <= Len(text) /\ del + ins > 0
     /\ del >= ins \/ Room(ins - del, 0)
     /\ NoMetaCutOff(p, del)
     /\ text' = SubSeq(text, 1, p) \o Chars(ins) \o SubSeq(text, p + del + 1, Len(text))
     /\ hints' = UpdateInserted(UpdateErased(r.hints, p + first, r.len - first),
                                p + first, ins - first, TRUE)
     /\ strained' = strained \cup IF NoAdjacentMetas(p, del) THEN {} ELSE {"adjacent"}

-----------------------------------------------------------------------------
(* Setting and resetting attributes.                                        *)

\* A fragment within an existing hint of its kind that overlaps with the new one:
\* what pass 2 asserts not to happen.
FragmentWithin(hs, new) ==
  LET fr == Fragments(hs, new)
  IN \E o \in ToSet(fr.overlapping), f \in ToSet(fr.split) :
       Which(o) = Which(f) /\ o.start <= f.start /\ f.end <= o.end

\* A hint that starts with a meta and ends in it, as the splitting at a new meta
\* leaves it: hints that are inserted in that meta later start behind its character,
\* and may overlap with this one.
CoversMetaChar(hs) ==
  \E m, o \in hs : HasDummyChar(m) /\ o.start = m.start /\ o.end < m.end

\* SetAttr of a link or ruby on a range that is not empty.
SetAttr(a, s, e) ==
  LET new == [attr |-> a, start |-> s, end |-> e]
  IN /\ isSplittable(new) /\ s < e /\ e <= Len(text) /\ Room(0, 1)
     /\ hints' = TryInsertNesting(hints, new)
     /\ text' = text
     /\ strained' = strained \cup (IF FragmentWithin(hints, new) THEN {"within"} ELSE {})
                    \cup (IF CoversMetaChar(hints) THEN {"covers"} ELSE {})

\* InsertHint of a meta: its character is inserted first, and erased again when the
\* meta cannot be inserted.
InsertMeta(a, s, e, force) ==
  LET new == [attr |-> a, start |-> s, end |-> e + 1]
      moved == HintsInserted(hints, s, 1, force)
  IN /\ HasDummyChar(new) /\ \A h \in hints : h.attr # a
     /\ s <= e /\ e <= Len(text) /\ Room(1, 1)
     /\ IF Fails(moved, new)
        THEN text' = text /\ hints' = HintsErased(moved, s, 1, FALSE)
        ELSE text' = TextWith(s, <<"CH_TXTATR">>) /\ hints' = TryInsertNesting(moved, new)
     /\ UNCHANGED strained

\* The hints of the kinds W without the range from s to e.  What is in front of it
\* stays where it is, what is behind it is inserted again if it is split off.
HintsReset(hs, W, s, e) ==
  LET hit == {h \in hs : Which(h) \in W /\ h.start < e /\ (h.start >= s \/ h.end > s)}
      behind == {[h EXCEPT !.start = e] : h \in {g \in hit : g.start >= s /\ g.end > e}}
      before == {[h EXCEPT !.end = s] : h \in {g \in hit : g.start < s}}
      split == {h \in hit : h.start < s /\ h.end > e}
  IN FoldLeft(LAMBDA x, h : TryInsertNesting(x, [h EXCEPT !.start = e]),
              (hs \ hit) \cup behind \cup before, Starts(split))

\* The range ends within a hint that is in one to be reset, but not reset itself.
CutsNested(W, s, e) ==
  \E h, g \in hints :
    /\ Which(h) \in W /\ Which(g) \notin W
    /\ h.start <= g.start /\ g.end <= h.end
    /\ \E v \in {s, e} : g.start < v /\ v < g.end

RstTextAttr(W, s, e) ==
  /\ s < e /\ e <= Len(text) /\ Room(0, 1)
  /\ hints' = HintsReset(hints, W, s, e)
  /\ text' = text
  /\ strained' = strained \cup (IF CutsNested(W, s, e) THEN {"cuts"} ELSE {})
                 \cup (IF CoversMetaChar(hints) THEN {"covers"} ELSE {})

-----------------------------------------------------------------------------
Init == text = <<>> /\ hints = {} /\ strained = {}

Next ==
  \E p \in 0 .. Len(text) :
    \/ \E n \in 1 .. MaxPiece, force \in BOOLEAN : InsertText(p, n, force)
    \/ \E n \in 1 .. MaxLen, emptyExpand \in BOOLEAN : EraseText(p, n, emptyExpand)
    \/ \E del \in 0 .. MaxLen, ins \in 0 .. MaxPiece : ReplaceText(p, del, ins)
    \/ \E a \in Attrs, e \in p .. Len(text) : SetAttr(a, p, e)
    \/ \E a \in Attrs, e \in p .. Len(text), force \in BOOLEAN : InsertMeta(a, p, e, force)
    \/ \E W \in SUBSET {"INETFMT", "CJK_RUBY"} \ {{}}, e \in p .. Len(text) :
         RstTextAttr(W, p, e)

Spec == Init /\ [][Next]_vars

-----------------------------------------------------------------------------
(* Properties.                                                              *)

TypeOK ==
  /\ text \in UNION {[1 .. n -> {"char", "CH_TXTATR"}] : n \in 0 .. MaxLen}
  /\ \A h \in hints :
       /\ h.attr \in Attrs /\ h.start \in 0 .. Len(text) /\ h.end \in h.start .. Len(text)

\* The characters of a hint.
Covers(h, i) == h.start < i /\ i <= h.end

\* The hints nest: no two overlap, whatever was split, shifted, shortened and put back
\* (thints.cxx:294: the core ensures that they "do not overlap").
NoOverlap == \A g, h \in hints : ~isOverlap(g, h)

\* No link is within another link and no ruby within another ruby, not even an empty
\* one (thints.cxx:297, "a Hyperlink must not be nested within another Hyperlink").
LinksNotNested ==
  \A g, h \in hints : g # h /\ Which(g) = Which(h) /\ isSplittable(g) =>
     /\ \A i \in 1 .. Len(text) : ~(Covers(g, i) /\ Covers(h, i))
     /\ ~(h.start < g.start /\ g.start < h.end)

\* Each CH_TXTATR is the first character of exactly one meta, and each meta has one:
\* editing and splitting never leave a character without its meta, nor a meta without
\* its character, nor two pieces of one (thints.cxx:300).
MetasHaveChars ==
  /\ \A i \in 1 .. Len(text) : text[i] = "CH_TXTATR" <=>
       \E h \in hints : HasDummyChar(h) /\ h.start = i - 1
  /\ \A g, h \in hints : g # h /\ HasDummyChar(g) /\ HasDummyChar(h) =>
       g.start # h.start /\ g.attr # h.attr
  /\ \A h \in hints : HasDummyChar(h) => h.start < h.end

\* All of it: the hints can be written as nested elements after any edits but the
\* four kinds that strained names, of which any may break it: NoOverlap, LinksNotNested
\* and MetasHaveChars are violated on their own.
HintsSound ==
  TypeOK /\ (strained = {} => NoOverlap /\ LinksNotNested /\ MetasHaveChars)

\* The meta whose own the i-th character is.
MetaOf(i) ==
  LET own == {h \in hints : HasDummyChar(h) /\ h.start = i - 1}
  IN IF own = {} THEN <<"META", 0>> ELSE (CHOOSE h \in own : TRUE).attr

\* The characters as CharAttributes sees them.
CharsWithAttributes ==
  [i \in 1 .. Len(text) |->
     [of |-> MetaOf(i), on |-> {h.attr : h \in {g \in hints : Covers(g, i)}}]]

CharAttrs == INSTANCE CharAttributes WITH chars <- CharsWithAttributes

\* Splitting is invisible: each character has the attributes that were set on its
\* range, less those reset or displaced there, however the hints were split for it,
\* as long as no edit, that one included, may have broken the nesting.
ImplementsCharAttributes ==
  CharAttrs!Init /\ [][strained' = {} => CharAttrs!Next]_CharsWithAttributes
=============================================================================
