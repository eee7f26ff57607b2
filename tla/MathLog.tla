------------------------------ MODULE MathLog ------------------------------
(***************************************************************************)
(* Formulas, what TeX and the styles of src/texmf/tex leave of them in the *)
(* log, and what they say.  An item of a formula is a character or a       *)
(* construction: op names it, c is its character or name, num a number of  *)
(* it, args are the formulas it is made of.                                *)
(***************************************************************************)
EXTENDS MathTree

Item(op, c, num, args) == [op |-> op, c |-> c, num |-> num, args |-> args]
Chr(c)           == Item("chr", c, 0, <<>>)
Group(f)         == Item("group", "", 0, <<f>>)
Frac(x, y)       == Item("frac", "", 0, <<x, y>>)
Sub(b, x)        == Item("msub", "", 0, <<b, x>>)
Sup(b, x)        == Item("msup", "", 0, <<b, x>>)
SubSup(b, x, y)  == Item("msubsup", "", 0, <<b, x, y>>)
(* delta: half the italic correction of the base, by which TeX shifts.     *)
Under(b, x, delta)        == Item("munder", "", delta, <<b, x>>)
Over(b, y, delta)         == Item("mover", "", delta, <<b, y>>)
UnderOver(b, x, y, delta) == Item("munderover", "", delta, <<b, x, y>>)
Line(notation, f) == Item("line", notation, 0, <<f>>)
Sqrt(f)          == Item("sqrt", "", 0, <<f>>)
(* num: the height of the fences, more than 2 if they are made of pieces.  *)
Fenced(num, f)   == Item("fenced", "(", num, <<f>>)
Accent(type, f)  == Item("accent", type, 0, <<f>>)
(* num: the nodes that its name is parsed to, more than 1 if it has markup. *)
Symbol(type, c, num) == Item(type, c, num, <<>>)
(* num: the number of columns.                                             *)
Array(num, cells) == Item("array", "", num, cells)
Entity(c)        == Item("entity", c, 0, <<>>)

----------------------------------------------------------------------------
(* The log.  A node is a record like those of a tree, its kids are nodes.  *)

Node(kind, kids) == [Blank EXCEPT !.kind = kind, !.kids = kids]
Tag(words) == [Blank EXCEPT !.kind = "special", !.val = words]
Other(c)   == [Blank EXCEPT !.kind = "other", !.val = <<c>>, !.font = Font[c]]
Glue == Node("glue", <<>>)  Kern == Node("kern", <<>>)  Rule == Node("rule", <<>>)

Box(kind, shift, size, kids) ==
  Node(kind, <<[Blank EXCEPT !.kind = "param", !.shift = shift, !.size = size]>> \o kids)
HBox(kids) == Box("hbox", 0, IF kids = <<>> THEN 0 ELSE 2, kids)
VBox(kids) == Box("vbox", 0, 2, kids)

(* clean_box of TeX: a list that is one box is that box.                   *)
IsBox(n) == n.kind \in {"hbox", "vbox"}
CleanBox(kids) ==
  IF Len(kids) = 1 /\ IsBox(kids[1]) /\ kids[1].kids[1].shift = 0
  THEN kids[1] ELSE HBox(kids)
Shifted(by, box) ==
  [box EXCEPT !.kids[1].shift = by, !.kids[1].size = IF by = 0 \/ @ = 0 THEN @ ELSE 1]

ItalicCorrection(base) ==
  IF base # <<>> /\ Last(base).kind = "other" /\ Class[Last(base).val[1]] = "letter"
  THEN <<Kern>> ELSE <<>>

Delimiter(num, side) ==
  LET piece(i) == Pieces[side][IF i = 1 THEN 1 ELSE IF i = num THEN 3 ELSE 2]
  IN  IF num < 3 THEN Box("hbox", 0, num, <<Other(side)>>)
      ELSE VBox([i \in 1 .. num |-> Box("hbox", 0, 1, <<Other(piece(i))>>)])

RECURSIVE LogOf(_)
Log(f) == Concat(LAMBDA i : LogOf(f[i]), Len(f))
LogOf(item) ==
  LET arg(i) == CleanBox(Log(item.args[i]))
      base   == Log(item.args[1])
      delta  == item.num
      cell(i) == HBox(<<Glue, Node("mathon", <<>>), Tag(<<"begin", "math">>)>>
                       \o Log(item.args[i])
                       \o <<Node("mathoff", <<>>), Tag(<<"end", "math">>), Glue>>)
      row(i) == HBox(<<Glue>> \o [j \in 1 .. item.num |-> cell((i - 1) * item.num + j)])
  IN CASE item.op = "chr" /\ Class[item.c] = "operator" -> <<Glue, Other(item.c), Glue>>
       [] item.op = "chr" /\ Class[item.c] # "operator" -> <<Other(item.c)>>
       [] item.op = "group"   -> <<HBox(base)>>
       [] item.op = "frac"    ->
            <<HBox(<<HBox(<<>>), VBox(<<arg(1), Kern, Rule, Kern, arg(2)>>), HBox(<<>>)>>)>>
       [] item.op = "msub"    -> base \o <<Shifted(1, arg(2))>>
       [] item.op = "msup"    -> base \o ItalicCorrection(base) \o <<Shifted(-1, arg(2))>>
       [] item.op = "msubsup" -> base \o <<VBox(<<Shifted(1, arg(3)), Kern, arg(2)>>)>>
       [] item.op = "munder"  -> <<VBox(<<arg(1), Kern, Shifted(-delta, arg(2)), Kern>>)>>
       [] item.op = "mover"   -> <<VBox(<<Kern, Shifted(delta, arg(2)), Kern, arg(1)>>)>>
       [] item.op = "munderover" ->
            <<VBox(<<Kern, Shifted(delta, arg(3)), Kern, arg(1), Kern,
                     Shifted(-delta, arg(2)), Kern>>)>>
       [] item.op = "line"    ->
            <<VBox(IF item.c = "top" THEN <<Kern, Rule, Kern, arg(1)>>
                                     ELSE <<arg(1), Kern, Rule>>)>>
       [] item.op = "sqrt"    ->
            <<HBox(<<Shifted(-1, HBox(<<Other("sqrt")>>)), VBox(<<Kern, Rule, Kern, arg(1)>>)>>)>>
       [] item.op = "fenced"  ->
            <<HBox(<<Delimiter(item.num, "(")>> \o base \o <<Delimiter(item.num, ")")>>)>>
       [] item.op = "accent"  ->
            <<Tag(<<"begin", "above", item.c>>)>> \o base \o <<Tag(<<"end", "above", item.c>>)>>
       [] item.op \in {"mi", "mo"} ->
            <<HBox(<<Tag(<<"empty", item.op>> \o [i \in 1 .. item.num |-> item.c])>>)>>
       [] item.op = "array"   ->
            <<Tag(<<"begin", "array">>), Tag(<<"empty", "params">>),
              VBox([i \in 1 .. Len(item.args) \div item.num |-> row(i)]),
              Tag(<<"end", "array">>)>>
       [] item.op = "entity"  ->
            <<Other("["), Other("entity"), Other("!"), Other(item.c), Other("!"), Other("]")>>

(* The nodes of a list of logs, numbered from n on; the children of each   *)
(* come after all of its siblings.                                         *)
RECURSIVE Numbered(_, _)
Numbered(nodes, n) ==
  LET grown == FoldLeft(
        LAMBDA acc, node :
          LET first == n + Len(nodes) + Len(acc.below)
          IN  [here  |-> Append(acc.here, [node EXCEPT !.kids =
                           [i \in 1 .. Len(node.kids) |-> first + i - 1]]),
               below |-> acc.below \o Numbered(node.kids, first)],
        [here |-> <<>>, below |-> <<>>], nodes)
  IN  grown.here \o grown.below

(* The document <math-log> with one formula. *)
TreeOf(f, type) ==
  Numbered(<<Node("math-log", <<[Node("math", Log(f)) EXCEPT !.val = <<type>>]>>)>>, 1)
=============================================================================
