---------------------------- MODULE MathMarkup ----------------------------
(***************************************************************************)
(* The passes of src/src/log2xml.c that turn what is left of TeX's log in  *)
(* a formula into MathML: symbols, arrays, accents, tokens, entities, rows *)
(* and tables.  Each operator is one iteration of the loop of its pass, on *)
(* the p-th child of o.                                                    *)
(***************************************************************************)
EXTENDS MathTree

(* The place of the first of these nodes from p on, or 0. *)
FirstFrom(t, o, p, nodes) ==
  LET places == {q \in p .. Len(Kids(t, o)) : At(t, o, q) \in nodes}
  IN  IF places = {} THEN 0 ELSE CHOOSE q \in places : \A r \in places : q <= r

(* The content of a symbol is parsed: one text makes a token of the type,  *)
(* several nodes a row.                                                    *)
AddContent(t, type, content) ==
  LET text(c) == [Blank EXCEPT !.kind = "text", !.val = <<c>>]
  IN  IF Len(content) = 1
      THEN [Make(t, type, <<>>) EXCEPT ![New(t)].val = content]
      ELSE Make(t, "mrow", [i \in 1 .. Len(content) |-> New(t) + i])
             \o [i \in 1 .. Len(content) |-> text(content[i])]

(* A tag empty(name){mathtype=..}{mathchar=..} is a symbol of that type.  A *)
(* tag that is no symbol is not pushed.                                    *)
TransformMathsym(t, o, p) ==
  LET n       == At(t, o, p)
      content == SubSeq(t[n].val, 3, Len(t[n].val))
      made    == AddContent(t, t[n].val[2], content)
  IN  IF ~IsTag(t, n, <<"empty">>) THEN PushOn(t, o, p)
      ELSE IF content = <<>> THEN Done(t, <<>>, <<>>, o, p)
      ELSE Done(Free(Replace(made, o, p, 1, <<New(t)>>), n), <<>>, <<>>, o, p)

----------------------------------------------------------------------------
(* Arrays: of every cell the first mrow.                                   *)

HBoxes(t, n) == SelectSeq(Kids(t, n), LAMBDA m : Kind(t, m) = "hbox")

AddKid(t, o, n) == SetKids(t, o, Append(Kids(t, o), n))

ArrayCell(t, line, box) ==
  LET cell == New(t)
      made == AddKid(Make(t, "mtd", <<>>), line, cell)
      rows == SelectSeq(Kids(t, box), LAMBDA m : Kind(t, m) = "mrow")
  IN  IF rows = <<>> THEN made
      ELSE SetKids(Unlink(made, box, rows[1]), cell, <<rows[1]>>)

ArrayLine(t, array, box) ==
  LET line == New(t)
  IN  FoldLeft(LAMBDA u, cell : ArrayCell(u, line, cell),
               AddKid(Make(t, "mtr", <<>>), array, line), HBoxes(t, box))

TransformArray(t, o, p) ==
  LET vbox  == At(t, o, p + 2)
      array == New(t)
      made  == FoldLeft(LAMBDA u, box : ArrayLine(u, array, box),
                        Make(t, "mtable", <<>>), HBoxes(t, vbox))
      old   == SubSeq(Kids(t, o), p, p + 3)
  IN  IF /\ IsTag(t, At(t, o, p), <<"begin", "array">>)
         /\ IsTag(t, At(t, o, p + 1), <<"empty", "params">>)
         /\ Kind(t, vbox) = "vbox"
         /\ IsTag(t, At(t, o, p + 3), <<"end", "array">>)
      THEN Done(FreeAll(Replace(made, o, p, 4, <<array>>), Range(old)), <<>>, <<>>, o, p)
      ELSE PushOn(t, o, p)

----------------------------------------------------------------------------
(* Accents                                                                 *)

(* Everything up to the first end tag of the same accent. *)
TransformMathAbove1(t, o, p) ==
  LET n    == At(t, o, p)
      type == t[n].val[3]
      q    == FirstFrom(t, o, p + 1, {m \in DOMAIN t : IsTag(t, m, <<"end", "above", type>>)})
      made == [Make(t, "math-above", SubSeq(Kids(t, o), p + 1, q - 1))
                 EXCEPT ![New(t)].val = <<type>>]
  IN  IF ~IsTag(t, n, <<"begin", "above">>) THEN PushOn(t, o, p)
      ELSE IF q = 0 THEN GiveUp(t)
      ELSE Done(Free(Free(Replace(made, o, p, q - p + 1, <<New(t)>>), n), At(t, o, q)),
                <<>>, <<>>, o, p)

(* One token gets a combining character, anything else a <mover>. *)
TransformMathAbove2(t, o, p) ==
  LET n    == At(t, o, p)
      k    == Kids(t, n)
      sign == <<"accent", t[n].val[1]>>
      over == New(t)
      row  == over + 1
      kept == IF Len(k) = 1 THEN Make(Make(t, "mover", <<k[1], row>>), "mo", <<>>)
              ELSE Make(Make(Make(t, "mover", <<row, row + 1>>), "mrow", k), "mo", <<>>)
  IN  IF Kind(t, n) # "math-above" THEN PushOn(t, o, p)
      ELSE IF k = <<>> THEN GiveUp(t)
      ELSE IF Len(k) = 1 /\ Kind(t, k[1]) \in {"mo", "mi", "mn"}
      THEN Done([FreeAround(Replace(t, o, p, 1, k), n, k)
                   EXCEPT ![k[1]].val = Append(@, sign[2])], <<>>, <<>>, o, p)
      ELSE Done(FreeAround(Replace([kept EXCEPT ![Len(kept)].val = <<sign[2]>>],
                                   o, p, 1, <<over>>), n, k), <<>>, <<>>, o, p)

----------------------------------------------------------------------------
(* Tokens                                                                  *)

(* From here on font is the mathvariant of a token.                        *)
Token(kind, c, variant) == [Blank EXCEPT !.kind = kind, !.val = <<c>>, !.font = variant]

(* insert_character_mathml_type: a digit goes on with the number before    *)
(* it, which one in old style makes a number in script.                    *)
AddChar(tokens, other) ==
  LET c       == other.val[1]
      variant == Variant[other.font]
      grown   == [Last(tokens) EXCEPT !.val = Append(@, c)]
      goesOn  == tokens # <<>> /\ Last(tokens).kind = "mn"
  IN  CASE Class[c] = "digit" /\ goesOn  -> Append(Front(tokens), grown)
        [] Class[c] = "digit" /\ ~goesOn -> Append(tokens, Token("mn", c, variant))
        [] Class[c] = "old" /\ goesOn    -> Append(Front(tokens), [grown EXCEPT !.font = "script"])
        [] Class[c] = "old" /\ ~goesOn   -> Append(tokens, Token("mn", c, "script"))
        [] Class[c] = "operator"         -> Append(tokens, Token("mo", c, variant))
        [] Class[c] = "letter"           -> Append(tokens, Token("mi", c, variant))

(* Mutant: the variant of the token before is not asked for. *)
Fails_AnyToken(tokens, other) == Class[other.val[1]] = "old"

(* A digit in old style is refused after a token with a variant.  The      *)
(* variant of a number is compared with that of the font of a digit that   *)
(* is added to it, which must have one.                                    *)
Fails(tokens, other) ==
  /\ Last(tokens).font # ""
  /\ \/ Class[other.val[1]] = "old"
     \/ Class[other.val[1]] = "digit" /\ Last(tokens).kind = "mn" /\ Variant[other.font] = ""

RECURSIVE Tokens(_, _)
Tokens(t, run) ==
  IF run = <<>> THEN <<>> ELSE AddChar(Tokens(t, Front(run)), t[Last(run)])

(* The characters from the p-th child of o on in the font of the first.    *)
FontRun(t, o, p) ==
  LET font == t[At(t, o, p)].font
      end  == FirstFrom(t, o, p, {m \in DOMAIN t : Kind(t, m) # "other" \/ t[m].font # font})
  IN  SubSeq(Kids(t, o), p, IF end = 0 THEN Len(Kids(t, o)) ELSE end - 1)

(* A run gives way to its tokens. *)
Spelt(t, o, p, run, tokens) ==
  LET made == [i \in 1 .. Len(tokens) |-> Len(t) + i]
  IN  Step(FreeAll(Replace(t \o tokens, o, p, Len(run), made), Range(run)),
           <<>>, <<>>, <<>>, o, p + Len(made))

TransformRun(t, o, p, run) ==
  IF \E i \in 2 .. Len(run) : Fails(Tokens(t, SubSeq(run, 1, i - 1)), t[run[i]]) THEN GiveUp(t)
  ELSE Spelt(t, o, p, run, Tokens(t, run))

TransformString(t, o, p) ==
  IF Kind(t, At(t, o, p)) # "other" THEN PushOn(t, o, p)
  ELSE TransformRun(t, o, p, FontRun(t, o, p))

DroppedKinds ==
  {"write", "penalty", "glue", "special", "discretionary", "leaders", "kern"}

DropRemainingTexNodes(t, o, p) ==
  IF Kind(t, At(t, o, p)) \in DroppedKinds
  THEN Step(Free(Replace(t, o, p, 1, <<>>), At(t, o, p)), <<>>, <<>>, <<>>, o, p)
  ELSE PushOn(t, o, p)

(* An element whose children have places: base and scripts. *)
IsDual(t, n) ==
  \/ Kind(t, n) \in {"msub", "msup", "mover", "munder"} /\ Len(Kids(t, n)) <= 2
  \/ Kind(t, n) \in {"msubsup", "munderover"} /\ Len(Kids(t, n)) <= 3

(* The token takes the text of the next one, which is unlinked and kept. *)
Joined(t, o, p) ==
  Step(Replace([t EXCEPT ![At(t, o, p)].val = @ \o t[At(t, o, p + 1)].val], o, p + 1, 1, <<>>),
       <<>>, <<>>, <<>>, o, p)

MergeMnSequence(t, o, p) ==
  IF Kind(t, At(t, o, p)) = "mn" /\ Kind(t, At(t, o, p + 1)) = "mn" /\ ~IsDual(t, o)
  THEN Joined(t, o, p) ELSE PushOn(t, o, p)

MergeMiSequence(t, o, p) ==
  IF /\ Kind(t, At(t, o, p)) = "mi" /\ Kind(t, At(t, o, p + 1)) = "mi"
     /\ t[At(t, o, p)].font = t[At(t, o, p + 1)].font
  THEN Joined(t, o, p) ELSE PushOn(t, o, p)

(* Lines of two kinds around the same content are one element. *)
MergeMencloseSequence(t, o, p) ==
  LET n     == At(t, o, p)
      inner == Kids(t, n)[1]
  IN  IF ~(Kind(t, n) = "menclose" /\ Matches(t, n, <<{"menclose"}>>)) THEN PushOn(t, o, p)
      ELSE IF t[n].val = t[inner].val THEN Done(t, <<inner>>, <<>>, o, p)
      ELSE LET content == <<Kids(t, inner)[1]>>
               made    == [SetKids(t, n, content) EXCEPT ![n].val = @ \o t[inner].val]
           IN  Done(FreeAround(made, inner, content), <<n>>, <<>>, o, p)

----------------------------------------------------------------------------
(* [entity!code!] is the character of the code.                            *)

IsText(t, n, kind, text) == Kind(t, n) = kind /\ t[n].val = <<text>>

ReplaceEntities(t, o, p) ==
  LET q     == FirstFrom(t, o, p + 3, {m \in DOMAIN t : IsText(t, m, "mo", "!")})
      cont  == At(t, o, q + 1)
      code  == FlattenSeq([i \in 1 .. q - p - 3 |-> t[At(t, o, p + 2 + i)].val])
      token == Append(t, [Blank EXCEPT !.kind = "mo", !.val = code])
      child == Kids(t, cont)[1]
  IN  IF ~ /\ IsText(t, At(t, o, p), "mo", "[") /\ IsText(t, At(t, o, p + 1), "mi", "entity")
           /\ IsText(t, At(t, o, p + 2), "mo", "!") /\ Kind(t, At(t, o, p + 3)) = "mi"
      THEN PushOn(t, o, p)
      ELSE IF q # 0 /\ IsText(t, cont, "mo", "]")
      THEN Done(Replace(token, o, p, q - p + 2, <<New(t)>>), <<>>, <<>>, o, p)
      ELSE IF q # 0 /\ IsDual(t, cont) /\ IsText(t, child, "mo", "]")
      THEN Step(Replace(Replace(token, cont, 1, 1, <<New(t)>>), o, p, q - p + 1, <<>>),
                <<>>, <<>>, <<>>, o, p)
      ELSE Step(t, <<>>, <<>>, <<>>, o, p + 3)

----------------------------------------------------------------------------
(* Rows                                                                    *)

IsBoxWithParam(t, n, kind) ==
  Kind(t, n) = kind /\ Kids(t, n) # <<>> /\ Kind(t, Kids(t, n)[1]) = "param"

TransformMrow(t, o, p) ==
  LET n == At(t, o, p)
      bare == IF IsBoxWithParam(t, n, "hbox")
              THEN Free(SetKids(t, n, Tail(Kids(t, n))), Kids(t, n)[1]) ELSE t
  IN  IF Kind(t, n) = "hbox"
      THEN Done([bare EXCEPT ![n].kind = "mrow"], <<n>>, <<>>, o, p)
      ELSE PushOn(t, o, p)

(* An mrow of a formula is kept.  An empty mrow goes, an mrow around one   *)
(* node gives way to it, and one that is alone in an mrow gives it its     *)
(* children; the walk then goes on with that mrow, among its siblings.     *)
DropEmptyMrows(t, o, p) ==
  LET n == At(t, o, p)
      k == Kids(t, n)
      without == FreeAround(Replace(t, o, p, 1, k), n, k)
      up == Parent(t, o)
  IN  IF Kind(t, n) # "mrow" THEN PushOn(t, o, p)
      ELSE IF t[n].val # <<>> THEN Done(t, <<>>, <<>>, o, p)
      ELSE IF Len(k) <= 1 THEN Step(without, <<>>, <<>>, <<>>, o, p)
      ELSE IF Kids(t, o) = <<n>> /\ Kind(t, o) = "mrow"
      THEN Step(without, <<>>, <<>>, <<>>, up, PlaceIn(t, up, o))
      ELSE PushOn(t, o, p)

DropEmptyVbox(t, o, p) ==
  LET n == At(t, o, p)
  IN  IF Kind(t, n) = "vbox" /\ Matches(t, n, <<{"param"}>>)
      THEN Step(Free(Replace(t, o, p, 1, <<>>), n), <<>>, <<>>, <<>>, o, p)
      ELSE PushOn(t, o, p)

----------------------------------------------------------------------------
(* Roots and what is left of the vboxes                                    *)

IsSqrtSymbol(t, n) ==
  LET s == IF Kind(t, n) = "mrow" /\ Len(Kids(t, n)) = 1 THEN Kids(t, n)[1] ELSE n
  IN  Kind(t, s) = "mi" /\ IsPrefix(<<"sqrt">>, t[s].val)

TransformSqrt(t, o, p) ==
  LET n       == At(t, o, p)
      line    == At(t, o, p + 1)
      content == <<Kids(t, line)[1]>>
      made    == Replace(Make(t, "msqrt", content), o, p, 2, <<New(t)>>)
  IN  IF /\ \/ IsSqrtSymbol(t, n)
            \/ Kind(t, n) = "msup" /\ Kids(t, n) # <<>> /\ IsSqrtSymbol(t, Kids(t, n)[1])
            \/ Kind(t, n) = "vbox" /\ \A i \in 2 .. Len(Kids(t, n)) : IsSqrtSymbol(t, Kids(t, n)[i])
         /\ Kind(t, line) = "menclose" /\ t[line].val = <<"top">> /\ Kids(t, line) # <<>>
      THEN Done(Free(FreeAround(made, line, content), n), content, <<>>, o, p)
      ELSE PushOn(t, o, p)

AddTableLine(t, table, n) ==
  AddKid(Make(Make(t, "mtd", <<n>>), "mtr", <<New(t)>>), table, New(t) + 1)

TransformMtable(t, o, p) ==
  LET n     == At(t, o, p)
      lines == Tail(Kids(t, n))
      made  == FoldLeft(LAMBDA u, line : AddTableLine(u, New(t), line),
                        Make(t, "mtable", <<>>), lines)
  IN  IF IsBoxWithParam(t, n, "vbox")
      THEN Done(FreeAround(Replace(made, o, p, 1, <<New(t)>>), n, lines), lines, <<>>, o, p)
      ELSE PushOn(t, o, p)
=============================================================================
