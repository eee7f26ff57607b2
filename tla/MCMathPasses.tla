--------------------------- MODULE MCMathPasses ---------------------------
(* Formulas of MathPasses, in fonts as mathfonts.xml declares them, and in *)
(* one that the user declares without a mathvariant.                       *)
EXTENDS MathPasses

Characters == {"1", "2", "old", "point", "+", "minus", "[", "]", "!", "(", ")", "a", "b", "B",
               "entity", "code", "u", "u1", "uold"}
           \union {"sqrt", "(1", "(2", "(3", ")1", ")2", ")3"}
MCClass == [c \in Characters |->
  CASE c \in {"1", "2", "point", "u1"} -> "digit" [] c \in {"old", "uold"} -> "old"
    [] c \in {"+", "minus", "[", "]", "!", "(", ")"} -> "operator" [] OTHER -> "letter"]
MCFont == [c \in Characters |->
  CASE c \in {"a", "b", "old", "point"} -> "italic" [] c = "B" -> "bold"
    [] c \in {"u", "u1", "uold"} -> "user" [] OTHER -> "roman"]
MCVariant == [italic |-> "italic", bold |-> "boldnormal", roman |-> "normal", user |-> ""]
MCPieces == [c \in {"(", ")"} |-> IF c = "(" THEN <<"(1", "(2", "(3">> ELSE <<")1", ")2", ")3">>]

Chars(s) == [i \in DOMAIN s |-> Chr(s[i])]
a == Chars(<<"a">>)  n == Chars(<<"1", "2">>)  sum == Chars(<<"b", "+", "a">>)
neg == Chars(<<"minus", "1">>)
Sum == Symbol("mo", "sum", 1)

(* The constructions with formulas of F and G in their places. *)
Scripted(B, F, G) ==
  {Sub(b, x) : b \in B, x \in F} \union {Sup(b, x) : b \in B, x \in F}
  \union {SubSup(b, x, y) : b \in B, x \in F, y \in G}
Bases == {a, <<Group(n)>>, <<Entity("code")>>, <<Symbol("mi", "angle", 1)>>}
Over1(F, G) ==
  Scripted(Bases, F, G)
  \union {Frac(x, y) : x \in F, y \in G}
  \union {Group(x) : x \in F}
  \union {Under(b, x, 0) : b \in F, x \in G} \union {Over(b, x, 0) : b \in F, x \in G}
  \union {UnderOver(<<Sum>>, x, y, d) : x \in F, y \in G, d \in 0 .. 1}
  \union {Under(<<Sum>>, x, 1) : x \in G} \union {Over(<<Sum>>, x, 1) : x \in G}
  \union {Line(l, x) : l \in {"top", "bottom"}, x \in F}
  \union {Sqrt(x) : x \in F} \union {Fenced(h, x) : h \in 2 .. 4, x \in F}
  \union {Array(1, <<x, y>>) : x \in F, y \in G}
  \union {Accent(t, x) : t \in {"hat", "bar"}, x \in F}
  \union {Symbol("mi", "angle", 1), Symbol("mo", "name", 2), Entity("code")}

Level1 == Over1({a, n, sum, neg, Chars(<<"minus", "old">>), Chars(<<"a", "b">>)}, {a})
Level2 == Over1({<<i>> : i \in Over1({a}, {n})}, {a})
(* Side by side, one accent, one height of fences, and three bases.        *)
OneOfAKind ==
  {x \in Over1({a}, {n}) :
     /\ x.op = "accent" => x.c = "hat"
     /\ x.op = "fenced" => x.num = 3
     /\ x.op \in Scripts => x.args[1][1].op # "mi"}
Pairs  == {<<i, j>> : i, j \in OneOfAKind}

(* Nothing in a place: no item, or a group of none. *)
Nothing == {<<>>, <<Group(<<>>)>>}
Empties == Over1(Nothing, {a}) \union Over1({a}, Nothing) \union Scripted(Nothing, {a}, {a})

(* Scripts on accents; numbers and prescripts before scripts, in a row and *)
(* in the places of an element.                                            *)
OnAccents == Scripted({<<Accent("hat", a)>>, <<Accent("hat", n)>>}, {a}, {a})
Digits    == {Chars(<<"1">>), Chars(<<"old">>)}
OnDigits  == Scripted(Digits, {a}, {a}) \union Scripted({a}, {a}, {a})
Before    == {<<Group(d)>> : d \in Digits} \union {<<Accent("hat", d)>> : d \in Digits}
             \union Digits \union {n, <<Group(Chars(<<"1">>)), Chr("1")>>}
             \union {<<s>> : s \in Scripted({<<>>}, {a}, {})}
Rows      == {x \o <<s>> : x \in Before, s \in OnDigits}
             \union {<<Sub(<<>>, a)>> \o n \o <<s>> : s \in OnDigits}
Places    == {Frac(x, <<s>>) : x \in Before, s \in OnDigits}
             \union {Over(x, <<s>>, 0) : x \in Before, s \in OnDigits}
             \union {SubSup(a, x, <<s>>) : x \in Before, s \in OnDigits}
             \union {Accent("hat", r) : r \in Rows} \union {Group(r) : r \in Rows}

(* Three in a row: a number in three elements, and a prescript after what  *)
(* may be its base.                                                        *)
Numbers == {Chr("1"), Group(Chars(<<"1">>)), Accent("hat", Chars(<<"1">>))}
Triples == {<<x, y, s>> : x, y \in Numbers, s \in OnDigits}
           \union {<<x, Sub(<<>>, a), s>> : x \in Over1({a}, {n}) \union {Chr("a"), Chr("minus")},
                                           s \in Scripted({a, Chars(<<"1">>)}, {a}, {a})}
InAccents == {Accent("hat", <<Accent("hat", a)>> \o a), Accent("hat", a \o <<Accent("hat", a)>>),
              Accent("bar", <<Accent("hat", a)>> \o a), Accent("bar", a \o <<Accent("hat", a)>>)}

RunsOf(C, k) == UNION {[1 .. m -> {Chr(c) : c \in C}] : m \in 1 .. k}
Runs == RunsOf({"1", "old", "point", "a", "B"}, 3) \union RunsOf({"u", "u1", "uold", "+"}, 3)
        \union RunsOf({"1", "u1", "minus", "a", "uold"}, 2)

MCFormulas ==
  ({<<i>> : i \in Level1 \union Level2 \union Empties \union OnAccents \union Places
               \union InAccents}
     \union Pairs \union Triples \union Rows) \X {"inline", "display"}
  \union Runs \X {"inline"}
=============================================================================
