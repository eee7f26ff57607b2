---------------------------- MODULE MathPasses ----------------------------
(***************************************************************************)
(* The list `math' of src/src/transformations.xml, applied by the engine   *)
(* to the log of a formula: the engine takes a node off its stack, the     *)
(* pass walks over the children of that node, edits them and pushes those  *)
(* it wants to be called on.                                               *)
(***************************************************************************)
EXTENDS MathBoxes, MathMarkup, LogFixes

CONSTANT
  Formulas  (* pairs of a formula and its type, "inline" or "display"      *)

VARIABLES
  formula,  (* the formula TeX was given                                   *)
  tree,     (* the tree made of the log                                    *)
  pass,     (* the place in the list                                       *)
  work,     (* the engine's stack                                          *)
  old,      (* the number of nodes made before this pass                   *)
  gaveUp    (* the program has ended                                       *)

vars == <<formula, tree, pass, work, old, gaveUp>>

Passes ==
  <<"decode_box_parameters", "transform_inline_math",
    "transform_left_and_right_pattern", "transform_underscript_pattern",
    "transform_overscript_pattern", "transform_underoverscript_pattern",
    "transform_over_pattern", "transform_subsup_pattern",
    "transform_sub_or_sup_pattern", "transform_simple_sub_or_sup_pattern",
    "transform_underline_pattern", "transform_overline_pattern",
    "transform_mathsym_patterns", "transform_array_pattern",
    "transform_math_above1", "drop_remaining_tex_nodes",
    "transform_string_patterns", "merge_mn_sequence", "merge_mi_sequence",
    "merge_menclose_sequence", "replace_entities_in_math",
    "transform_math_above2", "transform_mrow_pattern", "drop_empty_mrows",
    "drop_empty_vbox", "transform_sqrt_pattern", "transform_mtable_pattern",
    "xslt_proc">>

Iteration(name, t, o, p) ==
  CASE name = "decode_box_parameters"               -> DecodeBoxParameters(t, o, p)
    [] name = "transform_inline_math"               -> TransformInlineMath(t, o, p)
    [] name = "transform_left_and_right_pattern"    -> TransformLeftAndRight(t, o, p)
    [] name = "transform_underscript_pattern"       -> TransformUnderscript(t, o, p)
    [] name = "transform_overscript_pattern"        -> TransformOverscript(t, o, p)
    [] name = "transform_underoverscript_pattern"   -> TransformUnderoverscript(t, o, p)
    [] name = "transform_over_pattern"              -> TransformOver(t, o, p)
    [] name = "transform_subsup_pattern"            -> TransformSubsup(t, o, p)
    [] name = "transform_sub_or_sup_pattern"        -> TransformSubOrSup(t, o, p)
    [] name = "transform_simple_sub_or_sup_pattern" -> TransformSimpleSubOrSup(t, o, p)
    [] name = "transform_underline_pattern"         -> TransformUnderline(t, o, p)
    [] name = "transform_overline_pattern"          -> TransformOverline(t, o, p)
    [] name = "transform_mathsym_patterns"          -> TransformMathsym(t, o, p)
    [] name = "transform_array_pattern"             -> TransformArray(t, o, p)
    [] name = "transform_math_above1"               -> TransformMathAbove1(t, o, p)
    [] name = "drop_remaining_tex_nodes"            -> DropRemainingTexNodes(t, o, p)
    [] name = "transform_string_patterns"           -> TransformString(t, o, p)
    [] name = "merge_mn_sequence"                   -> MergeMnSequence(t, o, p)
    [] name = "merge_mi_sequence"                   -> MergeMiSequence(t, o, p)
    [] name = "merge_menclose_sequence"             -> MergeMencloseSequence(t, o, p)
    [] name = "replace_entities_in_math"            -> ReplaceEntities(t, o, p)
    [] name = "transform_math_above2"               -> TransformMathAbove2(t, o, p)
    [] name = "transform_mrow_pattern"              -> TransformMrow(t, o, p)
    [] name = "drop_empty_mrows"                    -> DropEmptyMrows(t, o, p)
    [] name = "drop_empty_vbox"                     -> DropEmptyVbox(t, o, p)
    [] name = "transform_sqrt_pattern"              -> TransformSqrt(t, o, p)
    [] OTHER                                        -> TransformMtable(t, o, p)

(* transform_simple_sub_or_sup_pattern returns at once from a display. *)
ReturnsAtOnce(name, t, o) ==
  /\ name = "transform_simple_sub_or_sup_pattern"
  /\ Kind(t, o) = "math" /\ t[o].val = <<"display">>

(* The walk of a pass from the p-th child of o on: the tree it leaves and  *)
(* what it has pushed.  Within an iteration the pass calls itself on nodes *)
(* in turn, and then frees others.                                         *)
RECURSIVE Walk(_, _, _, _, _), WalkEach(_, _, _, _), FreeEach(_, _)
WalkEach(name, t, nodes, push) ==
  IF nodes = <<>> THEN [tree |-> t, push |-> push]
  ELSE LET one == Walk(name, t, Head(nodes), 1, push)
       IN  WalkEach(name, one.tree, Tail(nodes), one.push)
FreeEach(t, nodes) ==
  IF nodes = <<>> THEN t
  ELSE LET n == Head(nodes)
       IN  FreeEach(Free(Unlink(t, Parent(t, n), n), n), Tail(nodes))
WalkOn(name, s, called) ==
  Walk(name, FreeEach(called.tree, s.late), s.owner, s.place, called.push)
Iterated(name, s, push) ==
  WalkOn(name, s, WalkEach(name, s.tree, s.calls, push \o s.push))
Walk(name, t, o, p, push) ==
  IF o = 0 THEN [tree |-> t, push |-> push, ok |-> FALSE]
  ELSE IF p > Len(Kids(t, o)) \/ ReturnsAtOnce(name, t, o)
  THEN [tree |-> t, push |-> push, ok |-> TRUE]
  ELSE Iterated(name, Iteration(name, t, o, p), push)

----------------------------------------------------------------------------
Init ==
  /\ formula \in Formulas
  /\ tree = TreeOf(formula[1], formula[2])
  /\ pass = 1 /\ work = <<1>> /\ old = Len(tree)
  /\ gaveUp = FALSE

Finished == pass > Len(Passes)

(* The memory of a freed node is that of the freed node, or has been given *)
(* to one that this pass made since.                                       *)
Roots(n) ==
  {n} \union (IF Kind(tree, n) # "freed" THEN {}
              ELSE {m \in old + 1 .. Len(tree) : Kind(tree, m) # "freed"})

(* xmlTransformationApply: a call of the pass on the top of the stack. *)
Call ==
  /\ ~Finished /\ ~gaveUp /\ work # <<>> /\ Passes[pass] # "xslt_proc"
  /\ \E root \in Roots(Last(work)) :
       LET walk == Walk(Passes[pass], tree, root, 1, <<>>)
       IN  /\ tree' = walk.tree
           /\ work' = Front(work) \o walk.push
           /\ gaveUp' = ~walk.ok
  /\ UNCHANGED <<formula, pass, old>>

(* The stylesheet log-fixes.xsl is applied to the document.               *)
XsltProc ==
  /\ ~Finished /\ ~gaveUp /\ work # <<>> /\ Passes[pass] = "xslt_proc"
  /\ tree' = LogFixes(tree)
  /\ work' = Front(work)
  /\ UNCHANGED <<formula, pass, old, gaveUp>>

NextPass ==
  /\ ~Finished /\ ~gaveUp /\ work = <<>>
  /\ pass' = pass + 1
  /\ work' = IF Finished' THEN <<>> ELSE <<1>>
  /\ old' = Len(tree)
  /\ UNCHANGED <<formula, tree, gaveUp>>

Ended == (Finished \/ gaveUp) /\ UNCHANGED vars

Next == Call \/ XsltProc \/ NextPass \/ Ended

Spec == Init /\ [][Next]_vars

----------------------------------------------------------------------------
(* What a formula says, and what the tree says: rows of tokens and of      *)
(* constructions with a row in each place.  A sign and a number without a  *)
(* variant are in roman, as with the variant "normal".                     *)

Says(op, val, slots) == <<[op |-> op, val |-> val, slots |-> slots]>>
Sign(op, c, variant) ==
  Says(op, <<c, IF op \in {"mo", "mn"} /\ variant = "normal" THEN "" ELSE variant>>, <<>>)
TokenKind == [digit |-> "mn", old |-> "mn", operator |-> "mo", letter |-> "mi"]
IsNumber(s) == s # <<>> /\ \A i \in DOMAIN s : s[i].op = "mn"

(* _2 a_3: a script without a base, and the script after it. *)
Prescript(single, script) ==
  LET slot(i) == script.slots[i]
      none    == Says("none", <<>>, <<>>)
      after   == CASE script.op = "msub" -> <<slot(1), slot(2), none>>
                   [] script.op = "msup" -> <<slot(1), none, slot(2)>>
                   [] OTHER              -> script.slots
      before  == IF single.op = "msub" THEN <<single.slots[2], none>> ELSE <<none, single.slots[2]>>
  IN  Says("mmultiscripts", <<>>, after \o <<Says("mprescripts", <<>>, <<>>)>> \o before)

(* A script is one of the whole number before it, and may have prescripts. *)
RECURSIVE Whole(_)
Whole(s) ==
  IF Len(s) < 2 THEN s
  ELSE LET first == s[1]
           rest  == Whole(Tail(s))
           next  == rest[1]
       IN  IF first.op = "mn" /\ next.op \in Scripts /\ IsNumber(next.slots[1])
           THEN <<[next EXCEPT !.slots[1] = <<first>> \o @]>> \o Tail(rest)
           ELSE IF first.op \in {"msub", "msup"} /\ first.slots[1] = <<>> /\ next.op \in Scripts
           THEN Prescript(first, next) \o Tail(rest)
           ELSE <<first>> \o rest

RECURSIVE MeaningOf(_)
Meaning(f) == Whole(Concat(LAMBDA i : MeaningOf(f[i]), Len(f)))
MeaningOf(item) ==
  LET slots == Concat(LAMBDA i : <<Meaning(item.args[i])>>, Len(item.args))
      lines == [i \in 1 .. Len(item.args) \div item.num |->
                  Says("mtr", <<>>, [j \in 1 .. item.num |->
                    Says("mtd", <<>>, <<slots[(i - 1) * item.num + j]>>)])]
  IN CASE item.op = "chr"    -> Sign(TokenKind[Class[item.c]], item.c,
                                   IF Class[item.c] = "old" THEN "script" ELSE Variant[Font[item.c]])
       [] item.op = "group"  -> slots[1]
       [] item.op = "frac"   -> Says("mfrac", <<>>, slots)
       [] item.op = "line"   -> Says("menclose", <<item.c>>, slots)
       [] item.op = "sqrt"   -> Says("msqrt", <<>>, slots)
       [] item.op = "fenced" -> Says("mfenced", <<"(", ")">>, slots)
       [] item.op = "accent" ->
            IF Len(item.args[1]) = 1 /\ item.args[1][1].op \in {"chr", "entity"}
            THEN slots[1] \o Sign(slots[1][1].op, item.c, slots[1][1].val[2])
            ELSE Says("mover", <<>>, Append(slots, Sign("mo", item.c, "")))
       [] item.op \in {"mi", "mo"} -> Sign(item.op, item.c, "")
       [] item.op = "array"  -> Says("mtable", <<>>, lines)
       [] item.op = "entity" -> Sign("mo", item.c, "")
       [] OTHER              -> Says(item.op, <<>>, slots)

Signs(kind, val, variant) ==
  Concat(LAMBDA i : IF val[i] = "-" THEN Sign("mo", "minus", "") ELSE Sign(kind, val[i], variant),
         Len(val))

RECURSIVE Reading(_, _)
ReadingAll(t, s) == Concat(LAMBDA i : Reading(t, s[i]), Len(s))
Reading(t, n) ==
  LET k     == Kids(t, n)
      slots == Concat(LAMBDA i : <<Reading(t, k[i])>>, Len(k))
  IN CASE Kind(t, n) \in {"math-log", "math", "mrow"} -> ReadingAll(t, k)
       [] Kind(t, n) \in {"mi", "mn", "mo"} -> Signs(Kind(t, n), t[n].val, t[n].font)
       [] Kind(t, n) = "menclose" ->
            FoldRight(LAMBDA notation, inner : Says("menclose", <<notation>>, <<inner>>),
                      t[n].val, ReadingAll(t, k))
       [] Kind(t, n) \in {"mfenced", "msqrt", "mtd"} ->
            Says(Kind(t, n), t[n].val, <<ReadingAll(t, k)>>)
       [] OTHER -> Says(Kind(t, n), t[n].val, slots)

(* The forms that the passes do not see through.  TeX makes no box of its  *)
(* own for an argument that is one box, and a box that is not the hbox of  *)
(* a list fits few patterns; an empty argument leaves no element; limits   *)
(* that TeX shifts are taken for scripts; an array in a cell is no row.    *)
Alone(f, ops) == Len(f) = 1 /\ f[1].op \in ops
Limits == {"munder", "mover", "munderover"}

HidesArg(item, i, type) ==
  LET f == item.args[i]
  IN  \/ /\ item.op \in {"frac", "sqrt"} \cup Limits \cup Scripts
         /\ Meaning(f) = <<>>
         /\ item.op \in {"msub", "msup"} /\ i = 1 => f # <<>>
      \/ item.op \in {"frac", "line", "sqrt"} /\ Alone(f, Limits)
      \/ item.op = "sqrt" /\ Alone(f, {"line"}) /\ f[1].c = "bottom"
      \/ /\ item.op \in Limits \cup {"msubsup"} \/ (item.op \in Scripts /\ i > 1)
         /\ Alone(f, Limits \cup {"line", "fenced"})
      \/ item.op \in {"munder", "mover"} /\ item.num # 0
      \/ item.op = "munderover" /\ item.num # 0 /\ type = "inline"
      \/ item.op = "array" /\ Alone(f, {"array"})

(* An accent is put on one token, of which only the last character gets    *)
(* it; inside it the tags of others are dropped, and after it no script    *)
(* finds its base.                                                         *)
RECURSIVE WithoutAccents(_)
WithoutAccents(f) ==
  Concat(LAMBDA i :
           IF f[i].op = "accent" THEN WithoutAccents(f[i].args[1])
           ELSE <<[f[i] EXCEPT !.args = Concat(LAMBDA j : <<WithoutAccents(@[j])>>, Len(@))]>>,
         Len(f))

OneToken(f) ==
  /\ \A i \in DOMAIN f : f[i].op = "chr"
  /\ \/ IsNumber(Meaning(f))
     \/ \A i \in DOMAIN f : Class[f[i].c] = "letter" /\ Variant[Font[f[i].c]] = Variant[Font[f[1].c]]

HidesAccent(item) ==
  \/ /\ item.op = "accent"
     /\ \/ Meaning(item.args[1]) = <<>>
        \/ WithoutAccents(item.args[1]) # item.args[1]
        \/ Len(item.args[1]) > 1 /\ OneToken(item.args[1])
  \/ item.op \in Scripts /\ item.args[1] # <<>> /\ Last(item.args[1]).op = "accent"

(* log-fixes.xsl takes for a row what stands in the places of an element,  *)
(* and writes the number after a minus sign, the only two of their row,    *)
(* without the variant.                                                    *)
RECURSIVE OneNumber(_)
OneNumber(f) ==
  /\ IsNumber(Meaning(f))
  /\ \/ \A i \in DOMAIN f : f[i].op = "chr"
     \/ Len(f) = 1 /\ OneNumber(f[1].args[1])
OneElement(f) == OneNumber(f) \/ Len(Meaning(f)) = 1

HidesFix(item) ==
  \/ /\ item.op \in {"frac"} \cup Limits \cup Scripts
     /\ \E i \in 2 .. Len(item.args) :
          LET before == Meaning(item.args[i - 1])
              after  == Meaning(item.args[i])
          IN  /\ OneElement(item.args[i - 1]) /\ OneElement(item.args[i])
              /\ Whole(before \o after) # before \o after
              /\ IsNumber(before) => after[1].op # "msubsup"
  \/ \E i \in DOMAIN item.args :
       LET s == Meaning(item.args[i])
       IN  /\ Len(s) > 1 /\ s[1] = Sign("mo", "minus", "")[1] /\ IsNumber(Tail(s))
           /\ s[2].val[2] # ""

(* A box between boxes of one character, or of one and none, is taken for  *)
(* what stands between fences.                                             *)
Boxed(item) ==
  CASE item.op \in {"group", "frac", "line", "sqrt"} \cup Limits -> DOMAIN item.args
    [] item.op \in Scripts -> 2 .. Len(item.args)
    [] OTHER -> {}

HidesBox(item) ==
  \E i \in Boxed(item) :
    LET nodes == Log(item.args[i])
        ends  == <<nodes[1], Last(nodes)>>
    IN  /\ Len(nodes) > 1
        /\ \A j \in {1, 2} :
             /\ ends[j].kind = "hbox" /\ Len(ends[j].kids) <= 2
             /\ \A m \in 2 .. Len(ends[j].kids) : ends[j].kids[m].kind = "other"
        /\ \E j \in {1, 2} : Len(ends[j].kids) = 2

Hides(item, type) ==
  \/ \E i \in DOMAIN item.args : HidesArg(item, i, type)
  \/ HidesAccent(item) \/ HidesFix(item) \/ HidesBox(item)
  \/ item.op \in {"mi", "mo"} /\ item.num > 1

Adjacent(f, A(_, _)) == \E i \in 2 .. Len(f) : A(f[i - 1], f[i])

(* Digits of two variants that become one number, also with those of the   *)
(* base of a script, and a number of which the last digit has two scripts. *)
Mixes(x, y) ==
  LET number == Meaning(<<x>>)
      digits == IF x.op = "chr" /\ y.op = "chr" THEN Meaning(<<y>>)
                ELSE IF y.op \in Scripts THEN Meaning(y.args[1]) ELSE <<>>
  IN  /\ IsNumber(number) /\ IsNumber(digits)
      /\ y.op = "msubsup" \/ Last(number).val[2] # digits[1].val[2]

(* Of a number in several elements the script after it gets the last one.  *)
Splits(f) ==
  \E n \in DOMAIN f : \E i \in 1 .. n - 2 :
    /\ f[n].op \in Scripts /\ IsNumber(Meaning(f[n].args[1]))
    /\ IsNumber(Meaning(SubSeq(f, i, n - 1))) /\ ~OneNumber(SubSeq(f, i, n - 1))

(* What the passes take for the base of a script that follows. *)
TakesScript(item) ==
  /\ item.op \notin Limits \union {"accent", "array"}
  /\ item.op = "chr" => Class[item.c] # "operator"
  /\ item.op \in {"msub", "msup"} => item.args[1] = <<>>

(* A script without a base stands before another script, inline. *)
LoneScript(f, n, type) ==
  /\ f[n].op \in {"msub", "msup"} /\ f[n].args[1] = <<>>
  /\ type = "inline" /\ n < Len(f) /\ f[n + 1].op \in Scripts => n > 1 /\ TakesScript(f[n - 1])

RECURSIVE Readable(_, _)
Readable(f, type) ==
  /\ ~Adjacent(f, Mixes) /\ ~Splits(f)
  /\ \A n \in DOMAIN f :
       /\ ~LoneScript(f, n, type) /\ ~Hides(f[n], type)
       /\ \A i \in DOMAIN f[n].args : Readable(f[n].args[i], type)

InOneRun(x, y) == x.op = "chr" /\ y.op = "chr" /\ Font[x.c] = Font[y.c]

(* Two characters of one font, the second of them in old style, unless the *)
(* font has no variant, or an accent over nothing.                         *)
Exits(x, y) ==
  /\ InOneRun(x, y)
  /\ IF Variant[Font[x.c]] # "" THEN Class[y.c] = "old"
     ELSE Class[x.c] = "old" /\ Class[y.c] \in {"old", "digit"}

RECURSIVE Fatal(_)
Fatal(f) ==
  \/ Adjacent(f, Exits)
  \/ \E n \in DOMAIN f :
       IF f[n].op = "accent"
       THEN LET inner == WithoutAccents(f[n].args[1])
            IN  inner = <<>> \/ Fatal(inner)
       ELSE \E i \in DOMAIN f[n].args : Fatal(f[n].args[i])

(* The MathML of a formula says what the formula said, whatever node is    *)
(* read in the place of one that a pass had freed; but for formulas of the *)
(* forms that Readable excludes, of which it always says something else.   *)
FormulaIsRead ==
  Finished => (Reading(tree, 1) = Meaning(formula[1]) <=> Readable(formula[1], formula[2]))

(* The program ends in a formula exactly if it has one of these. *)
EndsOnlyForFatal == (gaveUp => Fatal(formula[1])) /\ (Finished => ~Fatal(formula[1]))

(* No node that is freed is left below one that is not.  On the stack,     *)
(* what is freed while an entry is waiting for it has no children, and     *)
(* only the two passes that free a script push it.                         *)
OnlyParamsAreStale ==
  LET freed == {n \in DOMAIN tree : tree[n].kind = "freed"}
  IN  /\ \A n \in DOMAIN tree \ freed : \A i \in DOMAIN tree[n].kids : tree[n].kids[i] \notin freed
      /\ \A i \in DOMAIN work : work[i] \in freed =>
           /\ Kids(tree, work[i]) = <<>>
           /\ Passes[pass] \in {"transform_subsup_pattern", "transform_simple_sub_or_sup_pattern"}

=============================================================================
