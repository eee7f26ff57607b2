----------------------------- MODULE MCFormulas -----------------------------
EXTENDS Formulas

(* Every display, before an empty line and one that holds a formula with   *)
(* another in it; and lines without a display, one of them broken.         *)
AllBlocks ==
  [display : {"none", "plain", "boxed", "eqnarray"}, line : {<<>>, <<"nested">>}]
  \cup [display : {"none"}, line : {<<"start", "plain">>, <<"plain", "nested">>}]

(* And what makes the program give up, among the rest. *)
BreakBlocks ==
  [display : {"none", "penalized"}, line : {<<>>, <<"plain", "broken">>}]

MCBlocks == AllBlocks \cup BreakBlocks

=============================================================================
