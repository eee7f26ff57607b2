------------------------------ MODULE Verbatim ------------------------------
(***************************************************************************)
(* The way of a verbatim formula or macro from the LaTeX source into the   *)
(* document: escape_math of contrib/scripts/lxirlatex.py writes it without *)
(* the characters that TeX would act on, TeX carries it in an attribute of *)
(* a tag, fill_attributes of src/src/lxir.c finds it there, and            *)
(* transform_verbatim_content reads it back.  The attributes of other tags *)
(* are carried as they are.  A text is the sequence of its characters.     *)
(***************************************************************************)
EXTENDS Integers, Sequences, SequencesExt

CONSTANTS
  Characters, (* the characters of the formulas                            *)
  MaxLen      (* the most characters of a formula                          *)

ASSUME CharsAssumption == "!" \in Characters /\ MaxLen \in Nat

VARIABLES
  origin,   (* "formula", "macro", or "attribute" of another tag           *)
  written,  (* what was written                                            *)
  carried,  (* what has become of it                                       *)
  stage,    (* "escape", "carry", "read", "done" or "lost"                 *)
  call      (* the call of replace or transform_content that is next       *)

verbatimVars == <<origin, written, carried, stage, call>>

(* Mutant: the percent sign is forgotten. *)
Escapes_NoPercent ==
  << <<"!", "!">>, <<"{", "[">>, <<"}", "]">>, <<"^", "*">>, <<"_", "-">>,
     <<"\\", "/">>, <<"\n", "n">>, <<"#", "s">>, <<"~", "t">> >>

(* The calls of replace in escape_math, in order: what becomes what. *)
Escapes ==
  << <<"!", "!">>, <<"{", "[">>, <<"}", "]">>, <<"^", "*">>, <<"_", "-">>,
     <<"\\", "/">>, <<"\n", "n">>, <<"%", "p">>, <<"#", "s">>, <<"~", "t">> >>

(* Mutant: the escape character is the first to be read back. *)
Codes_MarkFirst ==
  << <<"!", "!">>, <<"t", "~">>, <<"s", "#">>, <<"p", "%">>, <<"n", "\n">>,
     <<"/", "\\">>, <<"-", "_">>, <<"*", "^">>, <<"[", "{">>, <<"]", "}">> >>

(* The calls of transform_content, in order: `!' and this stands for that. *)
Codes ==
  << <<"t", "~">>, <<"s", "#">>, <<"p", "%">>, <<"n", "\n">>, <<"/", "\\">>,
     <<"-", "_">>, <<"*", "^">>, <<"[", "{">>, <<"]", "}">>, <<"!", "!">> >>

(* str.replace: every c of s is written as `!' and d. *)
Replace(s, c, d) == FlattenSeq([p \in 1 .. Len(s) |-> IF s[p] = c THEN <<"!", d>> ELSE <<s[p]>>])

CodesFound(s, c) == {p \in 1 .. Len(s) - 1 : s[p] = "!" /\ s[p + 1] = c}

(* What TeX lets into an attribute as it is: braces in pairs.              *)
Depth(s) == FoldLeft(LAMBDA d, c : IF d < 0 THEN d ELSE IF c = "{" THEN d + 1
                                   ELSE IF c = "}" THEN d - 1 ELSE d, 0, s)
Balanced(s) == Depth(s) = 0

VerbatimInit ==
  /\ origin \in {"formula", "macro", "attribute"}
  /\ \E n \in 0 .. MaxLen : written \in [1 .. n -> Characters]
  /\ origin = "attribute" => Balanced(written)
  /\ carried = written
  /\ stage = (IF origin = "attribute" THEN "carry" ELSE "escape") /\ call = 1

EscapeChar ==
  /\ stage = "escape" /\ call <= Len(Escapes)
  /\ carried' = Replace(carried, Escapes[call][1], Escapes[call][2])
  /\ call' = call + 1
  /\ UNCHANGED <<origin, written, stage>>

Escaped ==
  /\ stage = "escape" /\ call > Len(Escapes)
  /\ stage' = "carry"
  /\ UNCHANGED <<origin, written, carried, call>>

(* The machine of fill_attributes: out of a group, in the name, in the     *)
(* value, at a depth of braces. An attribute is what ends at depth 0.      *)
NoAttribute == [state |-> 0, text |-> <<>>, depth |-> 0, found |-> <<>>]

(* Mutant: the first brace that closes ends the value.                     *)
ReadChar_FirstBrace(m, c) ==
  CASE m.state = 0 -> IF c = "{" THEN [m EXCEPT !.state = 1] ELSE m
    [] m.state = 1 -> IF c = "=" THEN [m EXCEPT !.state = 2, !.text = <<>>, !.depth = 0] ELSE m
    [] m.state = 2 /\ c = "}" -> [m EXCEPT !.state = 0, !.found = Append(@, m.text)]
    [] OTHER -> [m EXCEPT !.text = Append(@, c)]

ReadChar(m, c) ==
  CASE m.state = 0 -> IF c = "{" THEN [m EXCEPT !.state = 1] ELSE m
    [] m.state = 1 -> IF c = "=" THEN [m EXCEPT !.state = 2, !.text = <<>>, !.depth = 0] ELSE m
    [] m.state = 2 /\ c = "}" /\ m.depth = 0 ->
         [m EXCEPT !.state = 0, !.found = Append(@, m.text)]
    [] OTHER -> [m EXCEPT !.text = Append(@, c),
                          !.depth = IF c = "{" THEN @ + 1 ELSE IF c = "}" THEN @ - 1 ELSE @]
Attributes(s) == FoldLeft(ReadChar, NoAttribute, s).found

(* The tag: its name, another attribute, and the one that is followed.     *)
Tag == <<"a", "{", "n", "=", "a", "}", "{", "n", "=">> \o carried \o <<"}">>
Carry ==
  /\ stage = "carry"
  /\ IF Len(Attributes(Tag)) = 2
     THEN /\ carried' = Attributes(Tag)[2]
          /\ stage' = IF origin = "attribute" THEN "done" ELSE "read"
     ELSE carried' = <<>> /\ stage' = "lost"
  /\ call' = 1
  /\ UNCHANGED <<origin, written>>

(* The loop of transform_content: strstr finds the first, the rest of the  *)
(* string is moved to the left, and the search starts again at the front.  *)
ReadCode ==
  /\ stage = "read" /\ call <= Len(Codes)
  /\ LET found == CodesFound(carried, Codes[call][1])
     IN  /\ found # {}
         /\ LET p == CHOOSE p \in found : \A q \in found : p <= q
            IN  carried' = SubSeq(carried, 1, p - 1) \o <<Codes[call][2]>>
                             \o SubSeq(carried, p + 2, Len(carried))
  /\ UNCHANGED <<origin, written, stage, call>>

NextCode ==
  /\ stage = "read" /\ call <= Len(Codes)
  /\ CodesFound(carried, Codes[call][1]) = {}
  /\ call' = call + 1
  /\ UNCHANGED <<origin, written, carried, stage>>

(* transform_formula_content makes the text with xmlNewChild, for which an *)
(* ampersand begins a reference to an entity.  The formulas here have no   *)
(* end of a reference: what follows the ampersand, or the text, is lost.   *)
Parsed(s) ==
  IF \A p \in 1 .. Len(s) : s[p] # "&" THEN {s}
  ELSE {<<>>, SubSeq(s, 1, (CHOOSE p \in 1 .. Len(s) :
                              s[p] = "&" /\ \A q \in 1 .. p - 1 : s[q] # "&") - 1)}
PutFormula ==
  /\ stage = "read" /\ call > Len(Codes) /\ origin = "formula"
  /\ carried' \in Parsed(<<"$">> \o carried \o <<"$">>)
  /\ stage' = "done"
  /\ UNCHANGED <<origin, written, call>>

(* transform_macro_content makes it with xmlNewTextChild. *)
PutMacro ==
  /\ stage = "read" /\ call > Len(Codes) /\ origin = "macro"
  /\ stage' = "done"
  /\ UNCHANGED <<origin, written, carried, call>>

VerbatimNext ==
  \/ EscapeChar \/ Escaped \/ Carry
  \/ ReadCode \/ NextCode \/ PutFormula \/ PutMacro

VerbatimSpec == VerbatimInit /\ [][VerbatimNext]_verbatimVars

----------------------------------------------------------------------------
CodeChars == {Codes[n][1] : n \in 1 .. Len(Codes)}

(* No exclamation mark of s stands before a character that codes another.  *)
Unambiguous(s) == \A p \in 1 .. Len(s) - 1 : s[p] = "!" => s[p + 1] \notin CodeChars

(* When the ten calls of replace are done the text has no character left   *)
(* that ends or comments out the argument of the macro that carries it, or *)
(* that TeX would expand in it, whatever the later calls found in what the *)
(* earlier ones wrote.                                                     *)
InertInTeX ==
  (stage = "escape" /\ call > Len(Escapes))
    => \A p \in 1 .. Len(carried) :
         carried[p] \notin {"{", "}", "\\", "%", "#", "^", "_", "~", "\n"}

(* The formulas and macros that come back as they were written are exactly *)
(* those in which no exclamation mark stands before one of the ten code    *)
(* characters: the characters that are escaped may stand anywhere, also    *)
(* behind it.  A formula has no ampersand either, and is between dollars.  *)
(* An attribute of another tag comes back as it was written, however its   *)
(* braces nest.                                                            *)
Text == IF origin = "formula" THEN <<"$">> \o written \o <<"$">> ELSE written
UnambiguousSurvive ==
  /\ stage # "lost"
  /\ stage = "done" =>
       (carried = Text <=>
          CASE origin = "attribute" -> TRUE
            [] origin = "macro" -> Unambiguous(written)
            [] origin = "formula" -> /\ Unambiguous(written)
                                   /\ "&" \notin ToSet(written))

(* What the pairs of escape_math and of transform_verbatim_content say: `!'*)
(* is carried as `!!' (lxirlatex.py:41) and `!!' is read as `!'            *)
(* (lxir.c:1504), so that every formula is the same again at the end.      *)
EveryFormulaSurvives == (stage = "done" /\ origin # "attribute") => carried = Text

=============================================================================
