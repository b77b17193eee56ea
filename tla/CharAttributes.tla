--------------------------- MODULE CharAttributes ---------------------------
(***************************************************************************)
(* What setting, resetting and editing promise about the attributes of     *)
(* each character, however the hints are split for it.  Only the           *)
(* characters that metas have of their own may lose a link or ruby then.   *)
(*                                                                         *)
(* A step is a relation of the characters c before and d after it.         *)
(***************************************************************************)
EXTENDS Naturals, Sequences

CONSTANT Attrs   \* the attributes: pairs of a kind and a number

VARIABLE chars   \* of each character the meta whose own it is, and its attributes

Kinds == {"INETFMT", "CJK_RUBY"}
OfKind(s, k) == {a \in s : a[1] = k}
NoMeta == <<"META", 0>>

Plain(on) == [of |-> NoMeta, on |-> on]

\* The character x has become y, with the attributes on.
Becomes(x, y, on) ==
  /\ y.of = x.of
  /\ IF x.of = NoMeta THEN y.on = on
     ELSE y.on \subseteq on /\ OfKind(y.on, "META") = OfKind(on, "META")

\* The attributes in front of and behind the position p.
Before(c, p) == IF p = 0 THEN {} ELSE c[p].on
Behind(c, p) == IF p = Len(c) THEN {} ELSE c[p + 1].on

\* A link or ruby takes the place of those of its kind, in its range.
Set(c, d, a, s, e) ==
  \A i \in 1 .. Len(c) :
    Becomes(c[i], d[i], IF i \in s + 1 .. e
                        THEN (c[i].on \ OfKind(c[i].on, a[1])) \cup {a} ELSE c[i].on)

Reset(c, d, W, s, e) ==
  \A i \in 1 .. Len(c) :
    Becomes(c[i], d[i], IF i \in s + 1 .. e
                        THEN c[i].on \ UNION {OfKind(c[i].on, k) : k \in W} ELSE c[i].on)

\* The n characters behind p are gone, and the metas whose own are among them.
Without(c, p, n) ==
  LET gone == {c[i].of : i \in p + 1 .. p + n}
      rest == SubSeq(c, 1, p) \o SubSeq(c, p + n + 1, Len(c))
  IN [i \in 1 .. Len(rest) |-> [rest[i] EXCEPT !.on = @ \ gone]]

Erase(c, d, p) ==
  LET n == Len(c) - Len(d)
  IN n > 0 /\ p + n <= Len(c) /\ d = Without(c, p, n)

\* What text inserted at p may have: a meta that is on both sides, and no link or ruby
\* that is not.  If attributes are to expand, those in front of it, but for kinds
\* of which the text of a link or ruby was erased there.
MayHave(c, p, force, on) ==
  LET l == Before(c, p)
      both == l \cap Behind(c, p)
  IN IF ~force THEN on \subseteq both /\ OfKind(on, "META") = OfKind(both, "META")
     ELSE /\ OfKind(on, "META") = OfKind(l, "META")
          /\ \A k \in Kinds : OfKind(on, k) = OfKind(l, k)
                              \/ \E a \in OfKind(Attrs, k) : OfKind(on, k) = {a}

Insert(c, d, p, force) ==
  LET n == Len(d) - Len(c)
  IN /\ Len(d) > Len(c)
     /\ \A i \in 1 .. Len(c) : Becomes(c[i], d[IF i <= p THEN i ELSE i + n], c[i].on)
     /\ \A i \in p + 1 .. p + n : d[i] = Plain(d[p + 1].on)
     /\ MayHave(c, p, force, d[p + 1].on)

\* A meta comes with a character in front of its range.
SetMeta(c, d, m, s, e) ==
  /\ m[1] = "META" /\ d[s + 1].of = m /\ m \in d[s + 1].on
  /\ \A i \in 1 .. Len(c) :
       /\ m \notin c[i].on
       /\ Becomes(c[i], d[IF i <= s THEN i ELSE i + 1],
                  IF i \in s + 1 .. e THEN c[i].on \cup {m} ELSE c[i].on)
  /\ \E force \in BOOLEAN : MayHave(c, s, force, d[s + 1].on \ {m})

\* Text that takes the place of other text has the attributes of the first of its
\* characters, or those in front of it if there is nothing to replace but metas'.
Replace(c, d, p, del) ==
  LET ins == Len(d) - (Len(c) - del)
      range == p + 1 .. p + del
      old == {i \in range : c[i].of = NoMeta}
      on == IF old = {} THEN Before(c, p) ELSE c[CHOOSE i \in old : \A k \in old : i <= k].on
      rest == Without(c, p, del)
  IN /\ p + del <= Len(c) /\ Len(d) >= Len(c) - del
     /\ d = SubSeq(rest, 1, p)
            \o [i \in 1 .. ins |-> Plain(on \ {c[k].of : k \in range})]
            \o SubSeq(rest, p + 1, Len(rest))

Step(c, d) ==
  \E p \in 0 .. Len(c) :
    \/ Erase(c, d, p)
    \/ \E force \in BOOLEAN : Insert(c, d, p, force)
    \/ Len(d) = Len(c) /\ \E e \in p .. Len(c) :
         \/ \E a \in {x \in Attrs : x[1] \in Kinds} : Set(c, d, a, p, e)
         \/ \E W \in SUBSET Kinds : Reset(c, d, W, p, e)
    \/ Len(d) = Len(c) + 1 /\ \E e \in p .. Len(c), m \in Attrs : SetMeta(c, d, m, p, e)
    \/ \E del \in 0 .. Len(c) : Replace(c, d, p, del)

Init == chars = <<>>

\* c and d are bound, so that TLC evaluates chars once for each state.
Next == \E c \in {chars}, d \in {chars'} : Step(c, d)

Spec == Init /\ [][Next]_chars
=============================================================================
