------------------------------- MODULE Libdvi -------------------------------
(***************************************************************************)
(* The pages of a DVI file as libdvi/libdvi.c reads them: the opcodes move *)
(* a position on a stack and select fonts; characters and skips fill a     *)
(* buffer that becomes the content of a text node when the next node, a    *)
(* change of line or of font closes it; every other opcode appends a node  *)
(* of its own.  dvi_read_page checks at the end that the stack is empty.   *)
(* DviFile adds what is read before the pages.                             *)
(*                                                                         *)
(* The file selects a font before it sets a character, as TeX writes it.   *)
(* Widths and kerns of text nodes are left out.                            *)
(***************************************************************************)
EXTENDS Integers, Sequences, SequencesExt, FontMap

CONSTANTS
  Files,       (* what the files that are read are like: see File          *)
  Characters,  (* the characters, fonts and distances a file may use       *)
  FontNumbers,
  Moves,
  BUFFER_SIZE  (* the size of the text buffer at first                     *)

SPACE == 32

(* The font before the first one is selected: no number of a font.        *)
Unset == -1000

(* A file: the flags given to dvi_read; the font files config.xml names;   *)
(* whether the offset of the postamble is found at the end, what is wrong  *)
(* in the preamble, if anything, the number of pages that the postamble    *)
(* declares and its fonts, as opcodes; and the bounds of its pages: the    *)
(* opcodes they are made of, their parameters, and how many there are.     *)
Flags == {"small", "normal", "raw", "cmtt10"}
Instructions == [code : {"fnt_def"}, index : FontNumbers, name : STRING, space : Nat]
                  \cup [code : STRING \ {"fnt_def"}]
File(f) ==
  /\ f.flags \subseteq Flags
  /\ f.found \in BOOLEAN /\ f.wrong \in {"nothing", "opcode", "version", "scale", "comment"}
  /\ f.config \in Seq(FontFiles)
  /\ f.nbpages \in 0 .. 2 ^ 16 - 1
  /\ f.postamble \in Seq(Instructions)
  /\ f.codes \subseteq STRING /\ f.args \subseteq Int /\ f.length \in Nat

ASSUME FilesAssumption == \A class \in Files : \A f \in class : File(f)
ASSUME InputAssumption ==
  /\ Characters \subseteq 0 .. 255 /\ FontNumbers \subseteq Int \ {Unset}
  /\ Moves \subseteq Int \ {0}
  /\ BUFFER_SIZE \in Nat \ {0}

VARIABLES
  file,    (* the file that is read, of one of the classes of Files        *)
  registry,  (* the tables of libfontmap                                   *)
  fonts,   (* s->file->fonts: number, map and word space of each font      *)
  op,      (* the last opcode: its number in the file, code and parameter  *)
  stack,   (* the positions; the current one is the last                   *)
  font,    (* current_font, or Unset before the first font of the file     *)
  out,     (* the list of nodes of the page, the buffer and its size       *)
  pages,   (* the lists of the finished pages                              *)
  status   (* what is read next: "between" pages, a "page", ..., or the    *)
           (*   error that ended the file                                  *)

vars == <<file, registry, fonts, op, stack, font, out, pages, status>>

flags   == file.flags
nbpages == file.nbpages

State == [h |-> 0, v |-> 0, w |-> 0, x |-> 0, y |-> 0, z |-> 0]
Top   == Last(stack)

(* dvi_new_fp *)
NewFile ==
  /\ \E class \in Files : file \in class
  /\ registry = NoTables /\ fonts = <<>>
  /\ op = [n |-> 0, code |-> "pre", arg |-> 0]
  /\ stack = <<>> /\ font = Unset
  /\ out = [nodes |-> <<>>, buffer |-> <<>>, buffer_size |-> BUFFER_SIZE]
  /\ pages = <<>>

----------------------------------------------------------------------------
(* Nodes and text.                                                         *)

IsOpen(nodes) ==
  nodes # <<>> /\ Last(nodes).type = "text" /\ ~Last(nodes).closed

(* Mutant: the buffer is not emptied.                                      *)
CloseText_KeepsBuffer(o) ==
  IF ~IsOpen(o.nodes) THEN o
  ELSE [o EXCEPT !.nodes[Len(o.nodes)].content = o.buffer,
                 !.nodes[Len(o.nodes)].closed = TRUE]
EndsWithSpace(b) == b # <<>> /\ Last(b) = SPACE

(* dvi_close_text_node *)
CloseText(o) ==
  LET text == IF "normal" \in flags /\ EndsWithSpace(o.buffer)
              THEN Front(o.buffer) ELSE o.buffer
  IN  IF ~IsOpen(o.nodes) THEN o
      ELSE [o EXCEPT !.nodes[Len(o.nodes)].content = text,
                     !.nodes[Len(o.nodes)].closed = TRUE,
                     !.buffer = <<>>]

AppendNode(o, node) == [o EXCEPT !.nodes = Append(@, node)]

(* dvi_append_rule_node, dvi_append_xxx_node, dvi_append_control_node *)
AppendRule(o, p) ==
  AppendNode(CloseText(o), [type |-> "rule", h |-> p.h, v |-> p.v])
AppendXxx(o) == AppendNode(CloseText(o), [type |-> "xxx"])
AppendControl(o, k, a) ==
  AppendNode(CloseText(o), [type |-> "control", control |-> k, param |-> a])

(* The text node that is open, or a new one at the position p. *)
OpenText(o, p) ==
  IF IsOpen(o.nodes) THEN o
  ELSE AppendNode(o, [type |-> "text", font |-> font, h |-> p.h, v |-> p.v,
                      closed |-> FALSE, content |-> <<>>])

(* Mutant: the buffer only grows when it is overrun by two.                *)
Extend_Late(o, bytes) ==
  LET size == Len(o.buffer) + Len(bytes)
  IN  [o EXCEPT !.buffer = @ \o bytes,
                !.buffer_size = IF size - 1 > @ THEN size ELSE @]

(* dvi_extend_buffer, and the copy of the bytes *)
Extend(o, bytes) ==
  LET size == Len(o.buffer) + Len(bytes)
      twice == 2 * o.buffer_size
  IN  [o EXCEPT !.buffer = @ \o bytes,
                !.buffer_size = IF size <= @ THEN @
                                ELSE IF size > twice THEN size ELSE twice]

(* Mutant: of two fonts of one number, the one declared first.             *)
CheckFont_First(f) == SelectLastInSeq(fonts, LAMBDA e : e.index = f)

(* dvi_check_font: the entry of the font, or 0. *)
CheckFont(f) == SelectInSeq(fonts, LAMBDA e : e.index = f)

MapOf(f) == registry.maps[fonts[CheckFont(f)].map].map
Known(ch) == CheckFont(font) # 0 /\ ch \in DOMAIN MapOf(font)
Glyph(ch) == IF "raw" \in flags THEN <<ch % 256>> ELSE MapOf(font)[ch]

(* dvi_append_text: the text node stays when the character is refused. *)
AppendText(o, ch) ==
  IF "raw" \in flags \/ Known(ch) THEN Extend(OpenText(o, Top), Glyph(ch))
  ELSE OpenText(o, Top)
TextError(ch) ==
  IF "raw" \in flags \/ Known(ch) THEN "page" ELSE "DVIERR_INVALID_CHAR"

(* Mutant: under "normal" a space is added whatever precedes it.           *)
AppendSpace_Always(o, p) ==
  IF "normal" \in flags /\ ~IsOpen(o.nodes) THEN o
  ELSE Extend(OpenText(o, p), <<SPACE>>)

(* dvi_append_space *)
AppendSpace(o, p) ==
  IF "normal" \notin flags THEN Extend(OpenText(o, p), <<SPACE>>)
  ELSE IF IsOpen(o.nodes) /\ o.buffer # <<>> /\ ~EndsWithSpace(o.buffer)
  THEN Extend(o, <<SPACE>>) ELSE o

(* is_space_skip: before the first font of the file s->font is read        *)
(* uninitialized under "normal".                                           *)
SpaceSkip(a) ==
  IF "small" \in flags /\ a = 1 THEN {TRUE}
  ELSE IF "normal" \notin flags THEN {FALSE}
  ELSE IF font = Unset THEN BOOLEAN
  ELSE {a > fonts[CheckFont(font)].space}
WithSpace(o, p, skip) == IF skip THEN AppendSpace(o, p) ELSE o

----------------------------------------------------------------------------
(* Reading.                                                                *)

Read(code, a) ==
  /\ op.n < file.length /\ code \in file.codes /\ a \in file.args
  /\ op' = [n |-> op.n + 1, code |-> code, arg |-> a]
  /\ UNCHANGED <<file, registry, fonts>>

(* dvi_read_pages *)
ReadBop ==
  /\ Read("bop", 0) /\ status = "between"
  /\ IF Len(pages) >= nbpages
     THEN /\ status' = "DVIERR_TOO_MANY_PAGES" /\ UNCHANGED <<stack, out>>
     ELSE /\ stack' = <<State>>
          /\ out' = [out EXCEPT !.nodes = <<[type |-> "bop"]>>]
          /\ status' = "page"
  /\ UNCHANGED <<font, pages>>
ReadPost ==
  /\ Read("post", 0) /\ status = "between"
  /\ status' = "end" /\ UNCHANGED <<stack, font, out, pages>>
ReadBetween ==
  /\ status = "between"
  /\ \/ Read("nop", 0) /\ status' = status
     \/ Read("other", 0) /\ status' = "DVIERR_INVALID_OPCODE"
  /\ UNCHANGED <<stack, font, out, pages>>

(* An opcode of a page that appends to o and leaves the positions st. *)
Opcode(code, a, o, st) ==
  /\ Read(code, a) /\ status = "page"
  /\ out' = o /\ stack' = st
  /\ UNCHANGED <<font, pages, status>>
WithTop(p) == Append(Front(stack), p)

(* SET_CHAR and SET1 to SET4 keep the low byte of the number; PUT1 to PUT4 *)
(* keep its sign.                                                          *)
SetChar(c) ==
  /\ font # Unset
  /\ Read("set", c) /\ status = "page"
  /\ out' = AppendText(out, c) /\ status' = TextError(c)
  /\ UNCHANGED <<stack, font, pages>>
Signed(c) == IF c < 128 THEN c ELSE c - 256
PutChar(c) ==
  /\ font # Unset
  /\ Read("put", Signed(c)) /\ status = "page"
  /\ out' = AppendText(out, Signed(c)) /\ status' = TextError(Signed(c))
  /\ UNCHANGED <<stack, font, pages>>

SetRule(a) == Opcode("rule", a, AppendRule(out, Top),
                     WithTop([Top EXCEPT !.h = @ + a]))
PutRule == Opcode("rule", 0, AppendRule(out, Top), stack)

EndOfPage ==
  /\ Read("eop", 0) /\ status = "page"
  /\ out' = CloseText(out)
  /\ IF Len(stack) > 1
     THEN status' = "DVIERR_INVALID_STACK" /\ UNCHANGED pages
     ELSE status' = "between" /\ pages' = Append(pages, CloseText(out).nodes)
  /\ UNCHANGED <<stack, font>>

Push == Opcode("push", 0, AppendControl(out, "push", 0), Append(stack, Top))

(* dvi_pop *)
Pop ==
  IF Len(stack) > 1
  THEN Opcode("pop", 0, AppendControl(out, "pop", 0), Front(stack))
  ELSE /\ Read("pop", 0) /\ status = "page"
       /\ status' = "DVIERR_INVALID_POP"
       /\ UNCHANGED <<stack, font, out, pages>>

Right(a) ==
  status = "page" /\ \E skip \in SpaceSkip(a) :
    Opcode("right", a, WithSpace(AppendControl(out, "right", a), Top, skip),
           WithTop([Top EXCEPT !.h = @ + a]))

(* W1 to W4 and X1 to X4 set the register r; W0 and X0 only use it. *)
SetAcross(r, a) ==
  LET p == [Top EXCEPT ![r] = a, !.h = @ + a]
  IN  status = "page" /\ \E skip \in SpaceSkip(a) :
        Opcode(r, a, WithSpace(AppendControl(out, r, a), p, skip), WithTop(p))
UseAcross(r) ==
  LET p == [Top EXCEPT !.h = @ + Top[r]]
  IN  status = "page" /\ \E skip \in SpaceSkip(Top[r]) :
        Opcode(r, 0, WithSpace(out, p, skip), WithTop(p))

Down(a) == Opcode("down", a, AppendControl(out, "down", a),
                  WithTop([Top EXCEPT !.v = @ + a]))

(* The same for Y and Z, which end the line of text. *)
SetAlong(r, a) == Opcode(r, a, AppendControl(out, r, a),
                         WithTop([Top EXCEPT ![r] = a, !.v = @ + a]))

(* Mutant: the text goes on in the next line.                              *)
UseAlong_KeepsText(r) == Opcode(r, 0, out, WithTop([Top EXCEPT !.v = @ + Top[r]]))

UseAlong(r) == Opcode(r, 0, CloseText(out),
                      WithTop([Top EXCEPT !.v = @ + Top[r]]))

(* FONT_NUM and FONT1 to FONT4, with dvi_check_font *)
SelectFont(f) ==
  /\ Read("fnt", f) /\ status = "page"
  /\ out' = CloseText(out)
  /\ font' = f
  /\ status' = IF CheckFont(f) # 0 THEN "page" ELSE "DVIERR_INVALID_FONT"
  /\ UNCHANGED <<stack, pages>>

Xxx == Opcode("xxx", 0, AppendXxx(out), stack)
Skipped == \E code \in {"nop", "fnt_def"} : Opcode(code, 0, out, stack)
Invalid ==
  /\ status = "page"
  /\ \E code \in {"bop", "other"} : Read(code, 0)
  /\ status' = "DVIERR_INVALID_OPCODE"
  /\ UNCHANGED <<stack, font, out, pages>>

(* The file ends within an opcode: those that end a text have closed it.   *)
Truncated ==
  /\ Read("eof", 0) /\ status = "page"
  /\ out' \in {out, CloseText(out)}
  /\ status' = "DVIERR_UNEXPECTED_EOF"
  /\ UNCHANGED <<stack, font, pages>>

ReadPages ==
  \/ ReadBop \/ ReadPost \/ ReadBetween
  \/ \E c \in Characters : SetChar(c) \/ PutChar(c)
  \/ \E a \in Moves : SetRule(a) \/ Right(a) \/ Down(a)
  \/ PutRule \/ EndOfPage \/ Push \/ Pop \/ Xxx \/ Skipped \/ Invalid \/ Truncated
  \/ \E f \in FontNumbers : SelectFont(f)
  \/ \E r \in {"w", "x"} : UseAcross(r) \/ \E a \in Moves : SetAcross(r, a)
  \/ \E r \in {"y", "z"} : UseAlong(r) \/ \E a \in Moves : SetAlong(r, a)

----------------------------------------------------------------------------
(* The last conjunct: dvi_append_text and dvi_append_space write into the  *)
(* buffer without another test, so its size is enlarged before it is       *)
(* overrun, and never shrinks.                                             *)
TypeOK ==
  /\ op.n \in 0 .. file.length
  /\ font \in FontNumbers \cup {Unset}
  /\ \A i \in DOMAIN stack : stack[i] \in [DOMAIN State -> Int]
  /\ \A i \in DOMAIN out.buffer : out.buffer[i] \in 0 .. 255
  /\ Len(pages) <= nbpages
  /\ out.buffer_size \in Nat
  /\ Len(out.buffer) <= out.buffer_size /\ BUFFER_SIZE <= out.buffer_size

(* The buffer belongs to one text node, the last one: it is empty unless   *)
(* that node is open, and every node before it is complete.  A text that   *)
(* is left open when another node is appended would lose its bytes to the  *)
(* next text.                                                              *)
BufferOfLastText ==
  /\ out.buffer # <<>> => IsOpen(out.nodes)
  /\ \A i \in 1 .. Len(out.nodes) - 1 :
       out.nodes[i].type = "text" => out.nodes[i].closed
  /\ \A k \in DOMAIN pages : \A i \in DOMAIN pages[k] :
       pages[k][i].type = "text" => pages[k][i].closed

(* Under "normal", and until main closes the tables, a text in a font that *)
(* has no glyph with a space holds single spaces, only between two glyphs. *)
Spaceless(f) == \A ch \in DOMAIN MapOf(f) : SPACE \notin ToSet(MapOf(f)[ch])
SpacesBetweenGlyphs ==
  "normal" \in flags /\ "raw" \notin flags /\ status # "closed" =>
    \A i \in DOMAIN out.nodes :
      LET n == out.nodes[i] IN
      n.type = "text" /\ n.closed => \A j \in DOMAIN n.content :
        n.content[j] = SPACE /\ Spaceless(n.font) =>
          /\ 1 < j /\ j < Len(n.content)
          /\ n.content[j - 1] # SPACE

=============================================================================
