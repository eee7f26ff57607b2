------------------------- MODULE MCTransformations -------------------------
(* Transformations on the tree   1 (2 (3, 4), 5).                          *)
EXTENDS Transformations

MCNodes == 1 .. 5
MCChildren == <<<<2, 5>>, <<3, 4>>, <<>>, <<>>, <<>>>>
MCAbove == <<{}, {1}, {1, 2}, {1, 2}, {1}>>

MCRegistry ==
  [t \in Types |-> {"xslt_proc", "dump_tree", "merge"} \cup
                   IF t = "text" THEN {"replace_math_entities"} ELSE {}]

On(t, name) == [type |-> t, name |-> name, report |-> FALSE]

(* The order of the passes of transformations.xml: the formulas are taken  *)
(* from the mathdoc before the first stylesheet.  One more file has no     *)
(* list "math", a misspelt name and a dump.                                *)
RealScripts ==
  {<<On("text", "merge"), On("text", "replace_math_entities"),
     On("text", "xslt_proc"), On("text", "merge"), On("text", "xslt_proc"),
     On("math", "merge"), On("math", "merge"), On("math", "xslt_proc")>>,
   <<On("text", "misspelt"),
     [On("text", "replace_math_entities") EXCEPT !.report = TRUE],
     On("text", "xslt_proc")>>}

(* Every file of up to two lines, reports included, and every file of      *)
(* three lines that names these passes: a list may be missing, hold the    *)
(* same pass twice, or interleave with the other.                          *)
AllLines == {[type |-> t, name |-> n, report |-> r] :
               t \in Types, n \in {"merge", "xslt_proc", "misspelt"},
               r \in BOOLEAN}
AllScripts == UNION {[1 .. k -> AllLines] : k \in 0 .. 2}
                \cup [1 .. 3 -> {On("text", "merge"), On("text", "xslt_proc"),
                                 On("math", "merge")}]

MCScripts == RealScripts \cup AllScripts

=============================================================================
