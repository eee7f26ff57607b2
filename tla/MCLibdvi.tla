------------------------------ MODULE MCLibdvi ------------------------------
(* DviFile with two fonts: 0 has a short map without spaces, like a font   *)
(* of Computer Modern; 1 is unknown to the tables and read as              *)
(* LxirNeutralFont, where a character is its byte, the character 0 is      *)
(* nothing and 32 is a space.                                              *)
EXTENDS DviFile

MCModes == {{"small"}, {"normal"}, {"small", "normal"}, {"small", "raw"}}

Encoding(n, vs) == [kind |-> "encoding", name |-> n, values |-> vs]
Font(n, e) == [kind |-> "font", name |-> n, encoding |-> e]
MathFont(n, e, v) == [kind |-> "mathfont", name |-> n, encoding |-> e, variant |-> v]
LigatureFor(v, w) == [kind |-> "ligature", src |-> v, dst |-> w]
Accent(b, a, c) == [kind |-> "accent", base |-> b, accent |-> a, char |-> c]
There(c) == [present |-> TRUE, optional |-> FALSE, content |-> c]

FontDef(i, n) == [code |-> "fnt_def", index |-> i, name |-> n, space |-> 2]
Code(c) == [code |-> c]

MCConfig ==
  <<There(<<LigatureFor(<<239>>, <<102, 105>>)>>),
    There(<<Font("cmr10", "OT1")>>),
    There(<<Encoding("OT1", [c \in 1 .. 33 |-> IF c = 1 THEN <<206, 147>> ELSE <<65>>])>>)>>
MCPostamble == <<FontDef(0, "cmr10"), Code("nop"), FontDef(1, "unknown"), Code("post_post")>>

(* Short files of any opcodes; longer ones of the opcodes that fill and    *)
(* close texts, without illegal parameters; and two pages of boxes.        *)
AllCodes == {"bop", "post", "nop", "other", "set", "put", "rule", "eop", "push",
             "pop", "right", "w", "x", "down", "y", "z", "fnt", "xxx", "fnt_def", "eof"}
PageFiles(modes, n, codes, args, length) ==
  [flags : modes, config : {MCConfig}, found : {TRUE}, wrong : {"nothing"},
   postamble : {MCPostamble}, nbpages : {n}, codes : {codes}, args : {args},
   length : {length}]
AnyFiles == PageFiles(MCModes, 1, AllCodes, -128 .. 255, 4)
TextFiles == PageFiles(MCModes \ {{"small", "raw"}}, 1,
                       {"bop", "eop", "set", "fnt", "w", "y"}, {0, 1, 3, 32}, 7)
BoxFiles == PageFiles({{"normal"}}, 2, {"bop", "eop", "push", "pop", "right", "xxx", "post"},
                      {0, 3}, 9)

(* Files with two characters, whose fonts are declared twice, in different *)
(* files or in one; and files that are wrong before their pages.           *)
Declarable == {LigatureFor(<<1>>, <<2>>), LigatureFor(<<1>>, <<3>>),
               Encoding("E", <<<<1>>, <<65>>>>), Encoding("E", <<<<66>>>>),
               Encoding("F", <<<<1>>>>), Font("cmr10", "E"), Font("cmr10", "F"),
               MathFont("teni", "E", "italic"), MathFont("teni", "F", "bold"),
               MathFont("tenrm", "F", "normal"),
               Accent("a", "^", 1), Accent("a", "^", 2)}
SeqsUpTo(S, n) == UNION {[1 .. k -> S] : k \in 0 .. n}
Contents(S, n) == {[present |-> TRUE, optional |-> FALSE, content |-> c] : c \in SeqsUpTo(S, n)}
TextFont == {Encoding("E", <<<<1>>, <<65>>>>), Encoding("F", <<<<1>>>>),
             Font("cmr10", "E"), Font("cmr10", "F"), Font("cmr10", "G")}
Absent == {[present |-> FALSE, optional |-> b, content |-> <<>>] : b \in BOOLEAN}
TwoInTwo == {<<There(<<a, b>>), There(<<c, d>>)>> : a, b, c, d \in Declarable}
OneInThree == {<<f, g, h>> : f, g, h \in Contents(TextFont, 1) \cup Absent} \cup {<<>>}
Opening(configs, postambles, modes, wrongs, founds, ns) ==
  [flags : modes, config : configs, found : founds, wrong : wrongs,
   postamble : postambles, nbpages : ns, codes : {{"bop", "fnt", "set", "eop", "post"}},
   args : {{0, 1}}, length : {5}]
OneFont == <<FontDef(0, "cmr10"), Code("post_post")>>
ConfigFiles == Opening(OneInThree, {OneFont}, {{"small"}}, {"nothing"}, {TRUE}, {1})
EmptyFiles ==
  [flags : {{"small"}}, config : TwoInTwo, found : {TRUE}, wrong : {"nothing"},
   postamble : {OneFont}, nbpages : {1}, codes : {{"post"}}, args : {{}}, length : {1}]
Postambles == {Append(p, Code("post_post")) :
                 p \in SeqsUpTo({FontDef(0, "cmr10"), FontDef(0, "cmtt10"), FontDef(1, "cmtt10"),
                                 Code("nop"), Code("other")}, 3)}
              \cup {<<>>, <<FontDef(0, "cmr10"), Code("post_post"), FontDef(0, "cmtt10")>>,
                    <<Code("post_post"), FontDef(0, "cmr10")>>}
TwoFonts == <<There(<<Font("cmr10", "E"), Font("cmtt10", "F"),
                      Encoding("E", <<<<66>>, <<65>>>>), Encoding("F", <<<<67>>>>)>>)>>
OpeningFiles ==
  Opening({TwoFonts, <<>>}, Postambles, {{"small"}, {"small", "cmtt10"}, {"small", "raw"}},
          {"nothing"}, {TRUE}, {1})
WrongFiles ==
  Opening({TwoFonts}, {MCPostamble}, {{"small"}, {"raw"}},
          {"nothing", "opcode", "version", "scale", "comment"}, BOOLEAN, {0, 1, 2 ^ 15})
MCFiles == {AnyFiles, TextFiles, BoxFiles, ConfigFiles, EmptyFiles, OpeningFiles, WrongFiles}

=============================================================================
