----------------------------- MODULE DviMachine -----------------------------
(***************************************************************************)
(* What the pages of a DVI file say, without the nodes and the text buffer *)
(* that libdvi/libdvi.c makes of it: a font, a stack of positions, and for *)
(* each page the bytes, rules, moves and specials in the order of the      *)
(* file, each byte with the font and the line it is set in.  A skip by one *)
(* of the distances in spaces says a space; w0, x0, y0 and z0 move without *)
(* saying so.                                                              *)
(***************************************************************************)
EXTENDS Integers, Sequences, SequencesExt

CONSTANTS
  Moves,     (* the distances of the file                                  *)
  SPACE      (* the byte of a space                                        *)

VARIABLES
  sound,     (* whether all is right before and after the pages            *)
  glyphs,    (* glyphs[f]: the bytes of each character of the font f       *)
  spaces,    (* the distances that are spaces                              *)
  op,        (* the last opcode: its number, its code and its parameter    *)
  frames,    (* the positions: h, v and the registers w, x, y, z           *)
  font,      (* the font the page is set in                                *)
  said,      (* what the page said so far                                  *)
  book,      (* what the finished pages said                               *)
  place      (* "between" pages, in a "page", "finished" or "given up"     *)

vars == <<op, frames, font, said, book, place>>

Origin == [h |-> 0, v |-> 0, w |-> 0, x |-> 0, y |-> 0, z |-> 0]
Top    == Last(frames)
WithTop(p) == Append(Front(frames), p)
Byte(b) == [byte |-> b, font |-> font, v |-> Top.v]
Control(k, a) == [control |-> k, param |-> a]

Start ==
  /\ place = "between" /\ said = <<>> /\ book = <<>> /\ frames = <<>>
  /\ font \notin DOMAIN glyphs

Read(code, a) == op' = [n |-> op.n + 1, code |-> code, arg |-> a]

BeginPage ==
  /\ Read("bop", 0)
  /\ place = "between" /\ place' = "page"
  /\ frames' = <<Origin>> /\ said' = <<>>
  /\ UNCHANGED <<font, book>>

EndPage ==
  /\ Read("eop", 0)
  /\ place = "page" /\ place' = "between"
  /\ Len(frames) = 1
  /\ book' = Append(book, said)
  /\ UNCHANGED <<frames, font, said>>

(* An opcode of a page says what and leaves the positions ps. *)
Does(code, a, what, ps) ==
  /\ Read(code, a)
  /\ place = "page"
  /\ said' = said \o what /\ frames' = ps
  /\ UNCHANGED <<font, book, place>>

SetChar(code, a) ==
  /\ font \in DOMAIN glyphs /\ a \in DOMAIN glyphs[font]
  /\ Does(code, a, [i \in DOMAIN glyphs[font][a] |-> Byte(glyphs[font][a][i])],
          frames)

Space(a) == IF a \in spaces THEN <<Byte(SPACE)>> ELSE <<>>
Rule(a) == Does("rule", a, <<[rule |-> <<Top.h, Top.v>>]>>,
                WithTop([Top EXCEPT !.h = @ + a]))
Special == Does("xxx", 0, <<[special |-> TRUE]>>, frames)
Push == Does("push", 0, <<Control("push", 0)>>, Append(frames, Top))
Pop == Len(frames) > 1 /\ Does("pop", 0, <<Control("pop", 0)>>, Front(frames))
Right(a) == Does("right", a, <<Control("right", a)>> \o Space(a),
                 WithTop([Top EXCEPT !.h = @ + a]))
Down(a) == Does("down", a, <<Control("down", a)>>,
                WithTop([Top EXCEPT !.v = @ + a]))

(* A register moves the position by the distance it was last set to. *)
Across(r, a) == Does(r, a, <<Control(r, a)>> \o Space(a),
                     WithTop([Top EXCEPT ![r] = a, !.h = @ + a]))
Again(r) == Does(r, 0, Space(Top[r]), WithTop([Top EXCEPT !.h = @ + Top[r]]))
Along(r, a) == Does(r, a, <<Control(r, a)>>,
                    WithTop([Top EXCEPT ![r] = a, !.v = @ + a]))
AgainDown(r) == Does(r, 0, <<>>, WithTop([Top EXCEPT !.v = @ + Top[r]]))
Nothing == \E code \in {"nop", "fnt_def"} : Does(code, 0, <<>>, frames)

SelectFont(f) ==
  /\ Read("fnt", f)
  /\ place = "page" /\ font' = f
  /\ UNCHANGED <<frames, said, book, place>>

Skip ==
  /\ Read("nop", 0) /\ place = "between"
  /\ UNCHANGED <<frames, font, said, book, place>>

Finish ==
  /\ Read("post", 0)
  /\ place = "between" /\ place' = "finished"
  /\ UNCHANGED <<frames, font, said, book>>

(* The opcodes that no page can go on after. *)
Illegal(code, a) ==
  \/ code \in {"set", "put"} /\ (font \in DOMAIN glyphs => a \notin DOMAIN glyphs[font])
  \/ code = "pop" /\ Len(frames) = 1
  \/ code = "eop" /\ Len(frames) > 1
  \/ code = "fnt" /\ a \notin DOMAIN glyphs
  \/ code \in {"bop", "other", "eof"}
GiveUp ==
  /\ \E code \in {"set", "put", "pop", "eop", "fnt", "bop", "other",
                    "eof"},
        a \in {op'.arg} :
       Read(code, a) /\ Illegal(code, a)
  /\ place \in {"between", "page"} /\ place' = "given up"
  /\ book' = book

(* What is wrong before the pages is found before the first of them. *)
Refuse ==
  /\ ~sound /\ op.n = 0
  /\ place = "between" /\ place' = "given up"
  /\ UNCHANGED <<op, frames, font, said, book>>

ReadPages ==
  \/ BeginPage \/ EndPage \/ Special \/ Push \/ Pop \/ Nothing \/ Skip
  \/ Finish \/ GiveUp
  \/ \E a \in {op'.arg} : SetChar("set", a) \/ SetChar("put", a)
  \/ \E f \in DOMAIN glyphs : SelectFont(f)
  \/ \E a \in Moves \cup {0} : Rule(a)
  \/ \E a \in Moves : Right(a) \/ Down(a)
  \/ \E r \in {"w", "x"} : Again(r) \/ \E a \in Moves : Across(r, a)
  \/ \E r \in {"y", "z"} : AgainDown(r) \/ \E a \in Moves : Along(r, a)

Next == IF sound THEN ReadPages ELSE Refuse
Spec == Start /\ [][Next]_vars

=============================================================================
