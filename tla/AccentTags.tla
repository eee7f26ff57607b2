----------------------------- MODULE AccentTags -----------------------------
(***************************************************************************)
(* What the accent passes of src/src/lxir.c do to one list of children.    *)
(* TeX sets an accented letter as two glyphs, the accent first; lxir.sty   *)
(* writes the tag textaccent before them.  The list holds texts, controls, *)
(* tags and, once the tags are replaced by elements, accents; the content  *)
(* of a text is a sequence of characters and of the accents that the       *)
(* passes have moved into it.                                              *)
(*                                                                         *)
(* A glyph is named by its text, its place in it and its letter.  A        *)
(* character is the glyphs it stands for: one, two once an accent is on a  *)
(* letter, none for a space.  A text may also hold bytes that were left on *)
(* the stack of the program, which are read as a character of no glyph.    *)
(***************************************************************************)
EXTENDS Integers, Sequences, Lists

CONSTANT Accents  (* the pairs <<letter, accent>> of accents.xml *)

ASSUME AccentsAssumption == \A p \in Accents : p = <<p[1], p[2]>>

Char(gs) == [k |-> "char", gs |-> gs]
Space == Char(<<>>)
Stray == [k |-> "stray", gs |-> <<>>]

(* An accent element, with the glyphs that an error has left in it. *)
Accent(gs) == [k |-> "accent", gs |-> gs]

IsText(ks, n)    == n \in 1 .. Len(ks) /\ ks[n].k = "text"
IsAccent(ks, n)  == n \in 1 .. Len(ks) /\ ks[n].k = "accent"
IsControl(ks, n) == n \in 1 .. Len(ks) /\ ks[n].k \in {"kern", "space", "push", "pop"}

(* lfm_get_accent *)
Known(base, accent) ==
  Len(base.gs) = 1 /\ Len(accent.gs) = 1 /\ <<base.gs[1].c, accent.gs[1].c>> \in Accents

(* utf8_is_accented_char: the character decomposes into letter and accent. *)
IsAccented(c) == Len(c.gs) = 2

----------------------------------------------------------------------------
(* make_accent: two texts, one of which is an accent alone.                *)

(* utf8_trim *)
Trim(items) ==
  LET kept == {p \in 1 .. Len(items) : items[p] # Space}
  IN  IF kept = {} THEN <<>>
      ELSE SubSeq(items, CHOOSE p \in kept : \A q \in kept : p <= q,
                         CHOOSE p \in kept : \A q \in kept : q <= p)

Pair(ks, n, m) == Trim(ks[n].items) \o Trim(ks[m].items)
Single(ks, n)  == Len(Trim(ks[n].items)) = 1

AccentBefore(ks, n, m) == Single(ks, n) /\ Single(ks, m) /\ Known(Pair(ks, n, m)[2], Pair(ks, n, m)[1])
AccentAfter(ks, n, m)  == Single(ks, n) /\ Single(ks, m) /\ Known(Pair(ks, n, m)[1], Pair(ks, n, m)[2])

(* remove_xxx_node_before(text2): the nearest tag before the n-th node,    *)
(* over controls and other specials.                                       *)
TagsBefore(ks, n) ==
  {m \in 1 .. n - 1 : ks[m].k = "tag" /\ \A i \in m + 1 .. n - 1 : IsControl(ks, i) \/ ks[i].k = "xxx"}

WithoutTagBefore(ks, n) ==
  IF TagsBefore(ks, n) = {} THEN ks ELSE Unlink(ks, CHOOSE m \in TagsBefore(ks, n) : TRUE)

(* The m-th node is given the accented letter and the n-th is freed. *)
Composed(ks, n, m) ==
  Unlink([ks EXCEPT ![m].items = <<Char(Pair(ks, n, m)[1].gs \o Pair(ks, n, m)[2].gs)>>], n)

(* When the accent comes first remove_xxx_node_before is given the text    *)
(* just freed: xmlUnlinkNode has left it without siblings and the tag      *)
(* stays, or its memory leads back to where it was and the tag goes.       *)
MakeAccent(ks, n, m) ==
  LET one == Composed(ks, n, m)
  IN  IF AccentBefore(ks, n, m) THEN {one, WithoutTagBefore(one, m - 1)}
      ELSE IF AccentAfter(ks, n, m) THEN {WithoutTagBefore(one, m - 1)}
      ELSE {ks}

----------------------------------------------------------------------------
(* replace_xxx_nodes, when every special stands alone: a tag becomes an    *)
(* element, but the last child of the root is lost (see Hierarchy).        *)
WithElements(ks) ==
  LET elements == [n \in 1 .. Len(ks) |-> IF ks[n].k = "tag" THEN Accent(<<>>) ELSE ks[n]]
  IN  IF ks # <<>> /\ ks[Len(ks)].k \in {"tag", "xxx"} THEN Unlink(elements, Len(ks)) ELSE elements

(* merge_accent_tags1: an accent between two texts is put into the first,  *)
(* and all that is in the second after it.                                 *)
Between(ks, n) == IsText(ks, n) /\ IsAccent(ks, n + 1) /\ IsText(ks, n + 2)

Gathered(ks, n) ==
  [Without(ks, n + 1, n + 2) EXCEPT ![n].items = @ \o <<ks[n + 1]>> \o ks[n + 2].items]

(* merge_accent_tags2: an accent before a text is put at its start. *)
InFront(ks, n) == IsAccent(ks, n) /\ IsText(ks, n + 1)

(* Mutant: the accent goes to the end of the text. *)
PutInFront_AtEnd(ks, n) == [Unlink(ks, n) EXCEPT ![n].items = Append(@, ks[n])]

PutInFront(ks, n) == [Unlink(ks, n) EXCEPT ![n].items = <<ks[n]>> \o @]

----------------------------------------------------------------------------
(* transform_accent_tags, at the accent a = <<text, place in it>>.         *)

(* get_char_from_next_text: the character that follows the accent or, when *)
(* no character does, the first one of the next text: also when what       *)
(* follows the accent in its own text is another accent.                   *)
OwnNext(ks, a) ==
  a[2] < Len(ks[a[1]].items) /\ ks[a[1]].items[a[2] + 1].k # "accent"

Source(ks, a) == IF OwnNext(ks, a) THEN <<a[1], a[2] + 1>> ELSE <<a[1] + 1, 1>>

HasChar(ks, s) == IsText(ks, s[1]) /\ s[2] <= Len(ks[s[1]].items) /\ ks[s[1]].items[s[2]].k # "accent"

CharAt(ks, s)      == ks[s[1]].items[s[2]]
WithoutChar(ks, s) == [ks EXCEPT ![s[1]].items = Unlink(@, s[2])]

Replaced(ks, a, item) == [ks EXCEPT ![a[1]].items[a[2]] = item]
WithStray(ks, a) ==
  [ks EXCEPT ![a[1]].items = SubSeq(@, 1, a[2]) \o <<Stray>> \o SubSeq(@, a[2] + 1, Len(@))]
Failed(ks, a, gs)     == [ks EXCEPT ![a[1]].items[a[2]].gs = @ \o gs]

=============================================================================
