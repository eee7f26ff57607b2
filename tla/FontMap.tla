------------------------------ MODULE FontMap ------------------------------
(***************************************************************************)
(* The tables of libfontmap/libfontmap.c: ligatures, encodings, fonts,     *)
(* fonts of formulas and accents, read once from the files config.xml      *)
(* names, and looked up by the reader of the DVI file and by the passes.   *)
(* Each table is a linked list that grows at its head, and the list of the *)
(* files does so too: which of two declarations is found depends on both,  *)
(* and for fonts on an override in place as well (see FontChoice).         *)
(* A table is a sequence that begins at its head; but the encodings, which *)
(* the others point to, are in the order they are made, and a pointer is a *)
(* place among them.                                                       *)
(*                                                                         *)
(* An encoding has at most 256 values and each of its elements has one, as *)
(* the files of the program do.                                            *)
(***************************************************************************)
EXTENDS Integers, Sequences, SequencesExt, Lists

(* What the files declare, in their order; texts are the bytes of UTF-8.   *)
Text == Seq(0 .. 255)
Ligatures == [kind : {"ligature"}, src : Text, dst : Text]
Encodings == [kind : {"encoding"}, name : STRING, values : Seq(Text)]
Fonts     == [kind : {"font"}, name : STRING, encoding : STRING]
MathFonts == [kind : {"mathfont"}, name : STRING, encoding : STRING, variant : STRING]
Accents   == [kind : {"accent"}, base : STRING, accent : STRING, char : Nat]
Declarations == Ligatures \cup Encodings \cup Fonts \cup MathFonts \cup Accents
FontFiles == [present : BOOLEAN, optional : BOOLEAN, content : Seq(Declarations)]

NoTables == [users |-> 0, ligatures |-> <<>>, maps |-> <<>>, fonts |-> <<>>,
             mathfonts |-> <<>>, accents |-> <<>>]

Present(config) == {f \in ToSet(config) : f.present}

(* Mutant: a file is added at the end of the list.                         *)
Documents_InOrder(config) ==
  IF \E i \in DOMAIN config : ~config[i].present /\ ~config[i].optional THEN <<>>
  ELSE LET found == Among(config, Present(config))
       IN  [i \in DOMAIN found |-> found[i].content]

(* read_config: the files there are, or none when one that must be there   *)
(* is missing.                                                             *)
Documents(config) ==
  IF \E i \in DOMAIN config : ~config[i].present /\ ~config[i].optional THEN <<>>
  ELSE LET found == Reverse(Among(config, Present(config)))
       IN  [i \in DOMAIN found |-> found[i].content]

(* read_data: what one of the readers sees of the documents. *)
Declared(docs, kind) ==
  LET all == FlattenSeq(docs)
  IN  Among(all, {d \in ToSet(all) : d.kind = kind})

(* read_ligature_docs, find_ligature *)
ReadLigatures(r, docs) ==
  [r EXCEPT !.ligatures = Reverse(Declared(docs, "ligature")) \o @]
Ligature(r, value) ==
  LET i == SelectInSeq(r.ligatures, LAMBDA l : l.src = value)
  IN  IF i = 0 THEN value ELSE r.ligatures[i].dst

(* read_encoding_docs, find_encoding: 0 when there is none of that name.   *)
NewMap(r, d) ==
  [name |-> d.name,
   map |-> [c \in 0 .. Len(d.values) - 1 |-> Ligature(r, d.values[c + 1])]]
ReadEncodings(r, docs) ==
  LET es == Declared(docs, "encoding")
      ds == Among(es, {d \in ToSet(es) : d.values # <<>>})
  IN  [r EXCEPT !.maps = @ \o [i \in DOMAIN ds |-> NewMap(r, ds[i])]]
FindEncoding(r, name) == SelectLastInSeq(r.maps, LAMBDA m : m.name = name)
Named(table, name) == SelectInSeq(table, LAMBDA e : e.name = name)

(* read_font_docs: a font that is declared again is overridden in place. *)
DeclareFont(r, d) ==
  LET m == FindEncoding(r, d.encoding)
      f == Named(r.fonts, d.name)
  IN  IF m = 0 THEN r
      ELSE IF f # 0 THEN [r EXCEPT !.fonts[f].map = m]
      ELSE [r EXCEPT !.fonts = <<[name |-> d.name, map |-> m]>> \o @]
ReadFonts(r, docs) ==
  LET ds == Declared(docs, "font")
      read[i \in 0 .. Len(ds)] == IF i = 0 THEN r ELSE DeclareFont(read[i - 1], ds[i])
  IN  read[Len(ds)]

(* read_mathfont_docs *)
DeclareMathFont(r, d) ==
  LET m == FindEncoding(r, d.encoding)
  IN  IF m = 0 THEN r
      ELSE [r EXCEPT !.mathfonts = <<[name |-> d.name, map |-> m,
                                      variant |-> d.variant]>> \o @]
ReadMathFonts(r, docs) ==
  LET ds == Declared(docs, "mathfont")
      read[i \in 0 .. Len(ds)] == IF i = 0 THEN r ELSE DeclareMathFont(read[i - 1], ds[i])
  IN  read[Len(ds)]

(* read_accent_docs *)
ReadAccents(r, docs) ==
  [r EXCEPT !.accents = Reverse(Declared(docs, "accent")) \o @]

(* add_neutral_font: each character is its own byte, and 0 ends a string. *)
NeutralMap == [c \in 0 .. 255 |-> IF c = 0 THEN <<>> ELSE <<c>>]
WithNeutralFont(r) ==
  [r EXCEPT !.maps = Append(@, [name |-> "LxirNeutralEncoding", map |-> NeutralMap]),
            !.fonts = <<[name |-> "LxirNeutralFont", map |-> Len(r.maps) + 1]>> \o @]

(* lfm_init: the tables stay as they are read when no font is declared.    *)
LfmInit(r, config) ==
  LET docs == Documents(config)
      l == ReadLigatures(r, docs)
      e == ReadEncodings(l, docs)
      f == ReadFonts(e, docs)
      m == ReadMathFonts(f, docs)
      a == ReadAccents(m, docs)
  IN  IF r.users > 0 \/ docs = <<>> THEN r
      ELSE IF a.fonts = <<>> THEN a
      ELSE [WithNeutralFont(a) EXCEPT !.users = 1]

(* lfm_close *)
LfmClose(r) ==
  IF r.users = 0 THEN r
  ELSE IF r.users > 1 THEN [r EXCEPT !.users = @ - 1]
  ELSE NoTables

(* lfm_get_translation_map: the entry of the font, or that of the neutral  *)
(* font; 0 when there is neither, which ends the program.                  *)
FontFor(r, name) ==
  LET f == Named(r.fonts, name)
  IN  IF f # 0 THEN f ELSE Named(r.fonts, "LxirNeutralFont")

(* lfm_get_math_encoding_map: an unknown font is read as tenrm; 0 stands   *)
(* for the recursion that does not end when tenrm is unknown too.          *)
MathFontFor(r, name) ==
  LET f == Named(r.mathfonts, name)
  IN  IF f # 0 THEN f ELSE Named(r.mathfonts, "tenrm")

(* lfm_get_math_encoding_variant: an unknown font has none. *)
VariantFor(r, name) ==
  LET f == Named(r.mathfonts, name)
  IN  IF f = 0 THEN "none" ELSE r.mathfonts[f].variant

(* lfm_get_accent: 0 when the pair is unknown. *)
AccentFor(r, base, accent) ==
  SelectInSeq(r.accents, LAMBDA a : a.base = base /\ a.accent = accent)

=============================================================================
