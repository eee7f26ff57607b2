------------------------------ MODULE DviFile ------------------------------
(***************************************************************************)
(* A DVI file as main reads it with dvi_read of libdvi/libdvi.c: the       *)
(* tables of fonts are filled (FontMap), then the postamble at the end of  *)
(* the file is read, which declares the fonts, then the preamble, then the *)
(* pages (Libdvi).  The passes on accents and formulas use the tables too, *)
(* before main closes them.                                                *)
(*                                                                         *)
(* A font of the postamble has a name, as TeX writes it.                   *)
(***************************************************************************)
EXTENDS Libdvi

VARIABLES
  at,    (* the number of opcodes of the postamble that are read           *)
  list   (* the fonts declared by them                                     *)

fileVars == <<vars, at, list>>

Init ==
  /\ NewFile
  /\ at = 0 /\ list = <<>>
  /\ status = "start"

(* A step before or after the pages, which leads to st. *)
Outside(from, st) ==
  /\ status = from /\ status' = st
  /\ UNCHANGED <<file, op, stack, font, out, pages>>

(* main: whether lfm_init succeeds is not looked at. *)
InitFonts ==
  /\ registry' = LfmInit(registry, file.config)
  /\ Outside("start", "open") /\ UNCHANGED <<fonts, at, list>>

(* dvi_read, dvi_get_postamble_offset, dvi_read_nbpages: the number of     *)
(* pages is read as a signed one, and no array has a negative size.        *)
OpenFile ==
  /\ Outside("open", IF file.flags \cap {"small", "normal"} = {} THEN "DVIERR_INVALID_FLAGS"
                     ELSE IF ~file.found THEN "DVIERR_INVALID_POSTAMBLE"
                     ELSE IF file.nbpages >= 2 ^ 15 THEN "DVIERR_NOMEM"
                     ELSE "postamble")
  /\ UNCHANGED <<fonts, registry, at, list>>

(* The fonts that dvi_read_postamble declares. *)
NextInPostamble ==
  IF at < Len(file.postamble) THEN file.postamble[at + 1] ELSE [code |-> "eof"]
NameOf(d) == IF "cmtt10" \in flags /\ d.name = "cmtt10" THEN "LxirNeutralFont" ELSE d.name
DvifontOf(d) ==
  [index |-> d.index, space |-> d.space,
   map |-> IF "raw" \in flags THEN 0
           ELSE registry.fonts[FontFor(registry, NameOf(d))].map]

DefineFont ==
  LET d == NextInPostamble IN
  /\ d.code = "fnt_def"
  /\ at' = at + 1
  /\ IF "raw" \notin flags /\ FontFor(registry, NameOf(d)) = 0
     THEN Outside("postamble", "exit") /\ UNCHANGED list
     ELSE Outside("postamble", "postamble") /\ list' = <<DvifontOf(d)>> \o list
  /\ UNCHANGED <<fonts, registry>>
SkipInPostamble ==
  /\ NextInPostamble.code = "nop" /\ at' = at + 1
  /\ Outside("postamble", "postamble") /\ UNCHANGED <<fonts, registry, list>>
BreakInPostamble ==
  /\ NextInPostamble.code \notin {"fnt_def", "nop", "post_post"}
  /\ Outside("postamble", "DVIERR_INVALID_OPCODE") /\ UNCHANGED <<fonts, registry, at, list>>
EndPostamble ==
  /\ NextInPostamble.code = "post_post"
  /\ fonts' = list /\ list' = <<>> /\ at' = at + 1
  /\ Outside("postamble", "preamble") /\ UNCHANGED registry

(* dvi_read_preamble: a scale other than that of the postamble fails an    *)
(* assertion; the comment can be cut off.                                  *)
ReadPreamble ==
  /\ Outside("preamble",
             [nothing |-> "between", opcode |-> "DVIERR_INVALID_OPCODE",
              version |-> "DVIERR_UNKNOWN_VERSION", scale |-> "abort",
              comment |-> "DVIERR_UNEXPECTED_EOF"][file.wrong])
  /\ UNCHANGED <<fonts, registry, at, list>>

(* main: dvi_destroy and lfm_close, after the passes. *)
CloseFonts ==
  /\ registry' = LfmClose(registry) /\ fonts' = <<>>
  /\ Outside("end", "closed") /\ UNCHANGED <<at, list>>

Next ==
  \/ InitFonts \/ OpenFile \/ DefineFont \/ SkipInPostamble \/ BreakInPostamble
  \/ EndPostamble \/ ReadPreamble \/ CloseFonts
  \/ ReadPages /\ UNCHANGED <<at, list>>

Spec == Init /\ [][Next]_fileVars

----------------------------------------------------------------------------
Choice == INSTANCE FontChoice WITH Neutral <- NeutralMap

(* Whenever the tables are looked up, by the postamble or by the passes on *)
(* formulas and accents, what is found is what config.xml says (see        *)
(* FontChoice): though the files are read last first, and fonts are        *)
(* overridden in place where the rest is added before what is there, the   *)
(* declaration in force is for every kind that of the file named first.    *)
(* One name is not the files' to declare: the tables add LxirNeutralFont   *)
(* after they are read, and before what was read.                          *)
NamesIn(kind) ==
  {Choice!At(file.config, p).name : p \in Choice!Places(file.config, kind)} \cup {"unknown"}
FirstFileWins ==
  status \in {"postamble", "end"} /\ registry.users > 0 =>
    /\ \A n \in NamesIn("font") \ {"LxirNeutralFont"} :
         registry.maps[registry.fonts[FontFor(registry, n)].map].map
           = Choice!FontMapOf(file.config, n)
    /\ \A n \in NamesIn("mathfont") :
         LET own == Choice!Declarations(file.config, "mathfont", n)
             ds == IF own # {} THEN own
                   ELSE Choice!Declarations(file.config, "mathfont", "tenrm")
             m == MathFontFor(registry, n)
         IN  /\ IF ds = {} THEN m = 0
                ELSE registry.maps[registry.mathfonts[m].map].map
                       = Choice!Encoding(file.config, Choice!InForce(file.config, ds).encoding)
             /\ VariantFor(registry, n)
                  = IF own = {} THEN "none" ELSE Choice!InForce(file.config, own).variant
    /\ \A p \in Choice!Places(file.config, "accent") :
         LET d == Choice!At(file.config, p)
         IN  registry.accents[AccentFor(registry, d.base, d.accent)]
               = Choice!InForce(file.config, Choice!Accents(file.config, d.base, d.accent))

----------------------------------------------------------------------------
(* The nodes say what the page says: no byte, rule, move or special is     *)
(* lost, doubled, reordered or set in another font or line, and a skip     *)
(* that is a space is one; a number of a font is the font that the         *)
(* postamble declares last for it, in the encoding that FirstFileWins      *)
(* speaks of, and a file is given up before its pages just if it must be.  *)
(* Under "normal", where spaces are dropped around other nodes, they are   *)
(* left out on both sides.                                                 *)
Words(bytes) == IF "normal" \notin flags THEN bytes
                ELSE Among(bytes, (0 .. 255) \ {SPACE})
Said(node, buffer) ==
  CASE node.type = "bop" -> <<>>
    [] node.type = "text" ->
         LET bytes == Words(IF node.closed THEN node.content ELSE buffer)
         IN  [i \in DOMAIN bytes |->
                [byte |-> bytes[i], font |-> node.font, v |-> node.v]]
    [] node.type = "rule" -> <<[rule |-> <<node.h, node.v>>]>>
    [] node.type = "xxx" -> <<[special |-> TRUE]>>
    [] node.type = "control" ->
         <<[control |-> node.control, param |-> node.param]>>
SaidBy(nodes, buffer) ==
  FlattenSeq([i \in DOMAIN nodes |-> Said(nodes[i], buffer)])

(* The postamble ends with the first post_post; its fonts stand before it. *)
FontDefs == {i \in DOMAIN file.postamble :
               /\ file.postamble[i].code = "fnt_def"
               /\ \A j \in 1 .. i - 1 : file.postamble[j].code # "post_post"}
LastDefOf(f) == file.postamble[Max({i \in FontDefs : file.postamble[i].index = f})]
MapNamed(name) == registry.maps[registry.fonts[FontFor(registry, name)].map].map
Chars == Characters \cup {Signed(c) : c \in Characters}
GlyphsOf(f) ==
  IF "raw" \in flags THEN [a \in Chars |-> Words(<<a % 256>>)]
  ELSE LET map == MapNamed(NameOf(LastDefOf(f)))
       IN  [a \in Chars \cap DOMAIN map |-> Words(map[a])]
Glyphs ==
  IF registry.users = 0 /\ "raw" \notin flags THEN <<>>
  ELSE [f \in {file.postamble[i].index : i \in FontDefs} |-> GlyphsOf(f)]

DeclaresFont ==
  \E n \in NamesIn("font") : Choice!Declarations(file.config, "font", n) # {}
Sound ==
  /\ flags \cap {"small", "normal"} # {} /\ file.found /\ nbpages < 2 ^ 15
  /\ file.wrong = "nothing"
  /\ \E n \in DOMAIN file.postamble :
       /\ file.postamble[n].code = "post_post"
       /\ \A i \in 1 .. n - 1 : file.postamble[i].code \in {"fnt_def", "nop"}
  /\ \/ "raw" \in flags \/ FontDefs = {}
     \/ Choice!Usable(file.config) /\ DeclaresFont

Place == IF status \in {"between", "page"} THEN status
         ELSE IF status \in {"start", "open", "postamble", "preamble"} THEN "between"
         ELSE IF status \in {"end", "closed"} THEN "finished" ELSE "given up"

Spaces == IF "normal" \in flags THEN {} ELSE {1}
PageSays == SaidBy(out.nodes, out.buffer)
PagesSay == [k \in DOMAIN pages |-> SaidBy(pages[k], <<>>)]

Machine == INSTANCE DviMachine WITH
  sound <- Sound,
  glyphs <- Glyphs,
  spaces <- Spaces,
  frames <- stack,
  said <- PageSays,
  book <- PagesSay,
  place <- Place
ImplementsMachine == Machine!Spec

=============================================================================
