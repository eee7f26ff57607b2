---------------------------- MODULE MCTextPasses ----------------------------
(***************************************************************************)
(* Instances of TextPasses.  Texts differ in their font and in their       *)
(* place, on the line of the text before, under its start or far below, or *)
(* in their letters: the accent ^, which goes on an e but on no a.         *)
(***************************************************************************)
EXTENDS TextPasses

MCAccents == {<<"e", "^">>}

UpTo(max, nodes) == UNION {[1 .. n -> nodes] : n \in 0 .. max}

Text(f, h, v) == [k |-> "text", font |-> f, h |-> h, v |-> v, chars |-> <<"a">>]
Word(chars) == [k |-> "text", font |-> 1, h |-> 0, v |-> 0, chars |-> chars]
Node(k) == [k |-> k]

(* Two fonts at one place, where every neighbour of the same font merges.  *)
OnePlace == {Text(1, 0, 0), Text(2, 0, 0), Node("kern"), Node("space"), Node("xxx"), Node("bop")}

(* Two fonts, two columns and three lines, the last one a gap away.        *)
Lines == {Text(f, h, v) : f \in 1 .. 2, h \in 0 .. 1, v \in {0, 1, 3}} \cup {Node("space"), Node("xxx")}

(* Tags and texts that hold an accent, a letter, both or more. *)
Accented == {Node("tag"), Node("xxx")}
              \cup {Word(w) : w \in {<<"^">>, <<"e">>, <<"a", " ">>, <<"^", "e">>, <<"^", "a", "^">>}}
Separate == {Node("tag"), Node("kern"), Word(<<"^">>), Word(<<"e">>)}

(* The boxes of an accent set too high or too low for its letter. *)
Boxed == {Node("tag"), Node("push"), Node("pop"), Word(<<"^">>), Word(<<"e">>)}

MCDocuments ==
  UNION {UpTo(4, OnePlace), UpTo(3, Lines), UpTo(4, Accented), UpTo(6, Separate), UpTo(6, Boxed)}

=============================================================================
