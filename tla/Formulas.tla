------------------------------ MODULE Formulas ------------------------------
(***************************************************************************)
(* How a formula of the document gets its expression.  The DVI file holds  *)
(* what TeX made of a formula, the log what TeX was told: the tags that    *)
(* \everymath and \everydisplay write around every formula are in both,    *)
(* and their ids tell which belongs to which.  extract_all_math of         *)
(* src/src/log2xml.c moves the formulas of the log into a document of its  *)
(* own, transform_inline_math the formulas inside of those, and            *)
(* replace_math_entities of src/src/lxir.c looks every formula of the      *)
(* document up in it.                                                      *)
(*                                                                         *)
(* A tree is the sequence of its nodes in document order, each with its    *)
(* depth, as in the log itself.  The ids of the two tags of the formula f  *)
(* are both written f: only their equality is ever tested.                 *)
(***************************************************************************)
EXTENDS Integers, Sequences, FiniteSets, SequencesExt, Lists

CONSTANTS
  Blocks,     (* what a page is made of: [display, line], see Log         *)
  MaxBlocks,  (* the most blocks of a document                            *)
  MaxPages    (* the most pages of a document                             *)

ASSUME BlocksAssumption ==
  \A b \in Blocks :
    /\ b.display \in {"none", "plain", "boxed", "eqnarray", "penalized"}
    /\ b.line \in Seq({"plain", "nested", "start", "broken"})
ASSUME BoundsAssumption == MaxBlocks \in Nat /\ MaxPages \in Nat

VARIABLES
  pages,    (* the document, by pages of blocks                           *)
  log,      (* the tree of read_log_file                                  *)
  mathdoc,  (* the document of the formulas of the log                    *)
  cursor,   (* where the pass that runs is: in log, in mathdoc, in todo   *)
  pc,       (* the pass that runs, "done", or "exit"                      *)
  todo,     (* the formulas of the document that no other one contains    *)
  out       (* the expressions that replaced formulas of the document     *)

vars == <<pages, log, mathdoc, cursor, pc, todo, out>>

----------------------------------------------------------------------------
(* What TeX writes, for the document `pages'.                              *)

Node(k, d)      == [k |-> k, d |-> d, id |-> 0, id2 |-> 0]
Mark(k, d, f)   == [k |-> k, d |-> d, id |-> f, id2 |-> 0]

(* The formula j of the block b of the page p.  A display is 1 and what is *)
(* inside it 2, those of the line that follows are 3, 5... and what is     *)
(* inside them 4, 6...                                                     *)
Formula(p, b, j) == 100 * p + 10 * b + j

(* An inline formula in a list of depth d; a "nested" one holds a box with *)
(* another; at the "start" of a broken line TeX has discarded the math-on; *)
(* a "broken" one goes on in the next line.                                *)
InlineLog(kind, f, d) ==
  (IF kind = "start" THEN <<>> ELSE <<Node("mathon", d)>>)
  \o <<Mark("begin(math)", d, f), Mark("char", d, f)>>
  \o (IF kind = "broken" THEN <<Node("baselineskip", d - 1), Node("hbox", d - 1)>>
      ELSE IF kind # "nested" THEN <<>>
      ELSE <<Node("hbox", d), Node("mathon", d + 1), Mark("begin(math)", d + 1, f + 1),
             Mark("char", d + 1, f + 1), Node("mathoff", d + 1), Mark("end(math)", d + 1, f + 1)>>)
  \o <<Node("mathoff", d), Mark("end(math)", d, f)>>

(* A display in the list of the page.  eqnarray turns the tags off around  *)
(* its display and on in its cells; "penalized" is a \postdisplaypenalty   *)
(* that is not 0.                                                          *)
DisplayLog(kind, f) ==
  IF kind = "none" THEN <<>> ELSE
  <<Node("penalty(10000)", 1), Node("abovedisplayskip", 1), Node("baselineskip", 1), Node("hbox", 1)>>
  \o (IF kind = "eqnarray" THEN InlineLog("plain", f + 1, 2)
      ELSE <<Mark("begin(display)", 2, f), Mark("char", 2, f)>>)
  \o (IF kind = "boxed" THEN <<Node("hbox", 2)>> \o InlineLog("plain", f + 1, 3) ELSE <<>>)
  \o <<Node(IF kind = "penalized" THEN "penalty" ELSE "penalty(0)", 1), Node("belowdisplayskip", 1)>>

LineLog(line, f) ==
  FlattenSeq([n \in DOMAIN line |-> InlineLog(line[n], f + 2 * n, 2)])

BlockLog(blk, f) ==
  DisplayLog(blk.display, f)
  \o <<Node("baselineskip", 1), Node("hbox", 1)>>
  \o (IF blk.display \in {"plain", "boxed", "penalized"} THEN <<Mark("end(display)", 2, f)>> ELSE <<>>)
  \o LineLog(blk.line, f)

PageLog(p) ==
  <<Node("page", 0)>>
  \o FlattenSeq([n \in DOMAIN pages[p] |-> BlockLog(pages[p][n], Formula(p, n, 1))])

Log == FlattenSeq([p \in DOMAIN pages |-> PageLog(p)])

(* The formulas that replace_math_entities meets: all but those in others. *)
Displays(tagged) ==
  {Formula(q[1], q[2], 1) : q \in {r \in (1 .. MaxPages) \X (1 .. MaxBlocks) :
     /\ r[1] \in 1 .. Len(pages) /\ r[2] \in 1 .. Len(pages[r[1]])
     /\ pages[r[1]][r[2]].display \in (IF tagged THEN {"plain", "boxed", "penalized"} ELSE {"eqnarray"})}}
Inlines ==
  {f + 1 : f \in Displays(FALSE)} \cup
  {Formula(q[1], q[2], 1 + 2 * q[3]) : q \in {r \in (1 .. MaxPages) \X (1 .. MaxBlocks) \X (1 .. 4) :
     /\ r[1] \in 1 .. Len(pages) /\ r[2] \in 1 .. Len(pages[r[1]])
     /\ r[3] \in 1 .. Len(pages[r[1]][r[2]].line)}}

----------------------------------------------------------------------------
(* Trees as sequences with depths. *)

None == 0
Least(S) == CHOOSE p \in S : \A q \in S : p <= q
Greatest(S)  == CHOOSE p \in S : \A q \in S : q <= p

(* The positions after i that are below, or follow, the node i in its list. *)
Following(s, i) ==
  {j \in i + 1 .. Len(s) : \A q \in i + 1 .. j : s[q].d >= s[i].d}
Siblings(s, i)  == {j \in Following(s, i) : s[j].d = s[i].d}
Descendants(s, i) == {j \in i + 1 .. Len(s) : \A q \in i + 1 .. j : s[q].d > s[i].d}
Preceding(s, i) ==
  {j \in 1 .. i - 1 : s[j].d = s[i].d /\ \A q \in j .. i : s[q].d >= s[i].d}

Shifted(s, by) == [p \in 1 .. Len(s) |-> [s[p] EXCEPT !.d = @ + by]]
IdAt(s, S) == IF S = {} THEN None ELSE s[Least(S)].id
Removed(s, S) == IF S = {} THEN s ELSE Unlink(s, Least(S))

(* real_xml_extract_math_id: the first tag in document order.  The begin   *)
(* tag of an expression is looked for in it, its end tag from the node     *)
(* that ends it to the end of their list.                                  *)
BeginTag == [math |-> "begin(math)", display |-> "begin(display)"]
EndTag   == [math |-> "end(math)", display |-> "end(display)"]
BeginTags(body, type) == {p \in 1 .. Len(body) : body[p].k = BeginTag[type]}
EndTags(s, j, type) ==
  {p \in {j} \cup Following(s, j) : s[p].k = EndTag[type]}

(* The nodes between the siblings i and j, as the children of a node of    *)
(* the depth d named k.                                                    *)
(* Mutant: the last of them is left where it is. *)
Between_LastLeft(s, i, j) == SubSeq(s, i + 1, j - 2)

Between(s, i, j) == SubSeq(s, i + 1, j - 1)

Expression(k, d, s, i, j, type) ==
  LET body == Between(s, i, j)
      b    == BeginTags(body, type)
  IN  <<[k |-> k, d |-> d, id |-> IdAt(body, b), id2 |-> IdAt(s, EndTags(s, j, type))]>>
      \o Shifted(Removed(body, b), d + 1 - s[i].d)

(* Mutant: the nodes are copied and not moved. *)
Rest_Copied(s, i, j, type) == Removed(s, EndTags(s, j, type))

(* What is left of s when the nodes between i and j and the end tag are out. *)
Rest(s, i, j, type) ==
  LET rest == Removed(s, EndTags(s, j, type))
  IN  SubSeq(rest, 1, i) \o SubSeq(rest, j, Len(rest))

----------------------------------------------------------------------------
Init ==
  /\ \E n \in 1 .. MaxPages :
       pages \in {ps \in [1 .. n -> UNION {[1 .. m -> Blocks] : m \in 1 .. MaxBlocks}] :
                   LET total[q \in 0 .. n] == IF q = 0 THEN 0 ELSE total[q - 1] + Len(ps[q])
                   IN  total[n] <= MaxBlocks}
  /\ log = Log
  /\ mathdoc = <<>>
  /\ cursor = 1
  /\ pc = "display"
  /\ todo = Displays(TRUE) \cup Inlines
  /\ out = <<>>

(* extract_math_expr, and the node it returns added to the formulas. *)
ExtractExpr(s, i, j, type) ==
  /\ mathdoc' = mathdoc \o Expression("math", 0, s, i, j, type)
  /\ log' = Rest(s, i, j, type)

Walks(pass)  == pc = pass /\ cursor <= Len(log)
Pass(s, k)   == s[cursor].k = k
GoOn         == cursor' = cursor + 1 /\ UNCHANGED <<log, mathdoc>>
Exit         == pc' = "exit" /\ UNCHANGED <<pages, log, mathdoc, cursor, todo, out>>
NextPass(pass, next) ==
  /\ pc = pass /\ cursor = Len(log) + 1
  /\ cursor' = 1 /\ pc' = next
  /\ UNCHANGED <<pages, log, mathdoc, todo, out>>

(* extract_display_math: the states 1 and 2 of the code are the two nodes  *)
(* read ahead; a node that does not fit is tried as the first of three.    *)
Reads(s, c, ks) ==
  /\ c + Len(ks) - 1 <= Len(s)
  /\ \A q \in 1 .. Len(ks) : s[c + q - 1].k = ks[q] /\ s[c + q - 1].d = s[c].d
DisplayStarts(s, c) == Reads(s, c, <<"penalty(10000)", "abovedisplayskip", "baselineskip">>)
(* Mutant: the end is recognised by the glue of the start. *)
DisplayEnds_Above(s, i) ==
  {j \in Siblings(s, i) : Reads(s, j, <<"penalty(0)", "abovedisplayskip", "baselineskip">>)}

DisplayEnds(s, i) ==
  {j \in Siblings(s, i) : Reads(s, j, <<"penalty(0)", "belowdisplayskip", "baselineskip">>)}

ExtractDisplay ==
  /\ Walks("display")
  /\ \/ ~DisplayStarts(log, cursor) /\ GoOn
     \/ /\ DisplayStarts(log, cursor) /\ DisplayEnds(log, cursor + 2) # {}
        /\ ExtractExpr(log, cursor + 2, Least(DisplayEnds(log, cursor + 2)), "display")
        /\ cursor' = cursor + 3
  /\ UNCHANGED <<pages, pc, todo, out>>

ExitNoDisplayEnd ==
  /\ Walks("display")
  /\ DisplayStarts(log, cursor) /\ DisplayEnds(log, cursor + 2) = {}
  /\ Exit

(* extract_inline_math, transform_inline_math: from a math-on to the first *)
(* math-off among its siblings.                                            *)
MathOffs(s, i) == {j \in Siblings(s, i) : s[j].k = "mathoff"}

ExtractInline ==
  /\ Walks("inline")
  /\ \/ ~Pass(log, "mathon") /\ GoOn
     \/ /\ Pass(log, "mathon") /\ MathOffs(log, cursor) # {}
        /\ ExtractExpr(log, cursor, Least(MathOffs(log, cursor)), "math")
        /\ cursor' = cursor + 1
  /\ UNCHANGED <<pages, pc, todo, out>>

ExitNoMathOff ==
  /\ \/ Walks("inline") /\ Pass(log, "mathon") /\ MathOffs(log, cursor) = {}
     \/ /\ pc = "transform" /\ cursor <= Len(mathdoc)
        /\ Pass(mathdoc, "mathon") /\ MathOffs(mathdoc, cursor) = {}
  /\ Exit

(* extract_special_inline_math: from the nearest begin tag before a        *)
(* math-off, where a math-on is put, and again from that math-on.          *)
Starts(s, j) == {i \in Preceding(s, j) : s[i].k = "begin(math)"}
(* Mutant: the math-on is put after the begin tag. *)
WithMathOn_After(s, i) == SubSeq(s, 1, i) \o <<Node("mathon", s[i].d)>> \o SubSeq(s, i + 1, Len(s))

WithMathOn(s, i) == SubSeq(s, 1, i - 1) \o <<Node("mathon", s[i].d)>> \o SubSeq(s, i, Len(s))

ExtractSpecialInline ==
  /\ Walks("special")
  /\ \/ ~(Pass(log, "mathoff") /\ Starts(log, cursor) # {}) /\ GoOn
     \/ /\ Pass(log, "mathoff") /\ Starts(log, cursor) # {}
        /\ LET i == Greatest(Starts(log, cursor))
           IN  /\ ExtractExpr(WithMathOn(log, i), i, cursor + 1, "math")
               /\ cursor' = i
  /\ UNCHANGED <<pages, pc, todo, out>>

(* The pass of the list "math" that makes an mrow of a formula inside of   *)
(* another; it does not go on inside of that mrow.                         *)
TransformInline ==
  /\ pc = "transform" /\ cursor <= Len(mathdoc)
  /\ \/ /\ ~Pass(mathdoc, "mathon")
        /\ cursor' = cursor + 1 /\ UNCHANGED mathdoc
     \/ /\ Pass(mathdoc, "mathon") /\ MathOffs(mathdoc, cursor) # {}
        /\ LET j    == Least(MathOffs(mathdoc, cursor))
               mrow == Expression("mrow", mathdoc[cursor].d, mathdoc, cursor, j, "math")
               rest == Rest(mathdoc, cursor, j, "math")
           IN  /\ mathdoc' = SubSeq(rest, 1, cursor - 1) \o mrow \o SubSeq(rest, cursor + 2, Len(rest))
               /\ cursor' = cursor + Len(mrow)
  /\ UNCHANGED <<pages, log, pc, todo, out>>

LogRead ==
  \/ NextPass("display", "inline")
  \/ NextPass("inline", "special")
  \/ NextPass("special", "transform")

MathListApplied ==
  /\ pc = "transform" /\ cursor = Len(mathdoc) + 1
  /\ pc' = "replace"
  /\ UNCHANGED <<pages, log, mathdoc, cursor, todo, out>>

----------------------------------------------------------------------------
(* get_math_expr: the first node with both ids. *)

(* Mutant: the formulas inside of others, now mrows, are not looked at. *)
Found_MathOnly(f) ==
  {p \in 1 .. Len(mathdoc) :
     mathdoc[p].k = "math" /\ mathdoc[p].id = f /\ mathdoc[p].id2 = f}

Found(f) ==
  {p \in 1 .. Len(mathdoc) :
     mathdoc[p].k \in {"math", "mrow"} /\ mathdoc[p].id = f /\ mathdoc[p].id2 = f}

Chars(s, S) ==
  LET c[n \in 0 .. Len(s)] ==
        IF n = 0 THEN <<>>
        ELSE IF n \in S /\ s[n].k = "char" THEN Append(c[n - 1], s[n].id) ELSE c[n - 1]
  IN  c[Len(s)]

(* replace_math_entities: a formula that is not found is reported and left *)
(* as it is.                                                               *)
ReplaceFormula ==
  /\ pc = "replace" /\ todo # {}
  /\ LET f == Least(todo)
     IN  /\ todo' = todo \ {f}
         /\ out' = IF Found(f) = {} THEN out
                   ELSE [g \in DOMAIN out \cup {f} |->
                           IF g = f THEN Chars(mathdoc, Descendants(mathdoc, Least(Found(f)))) ELSE out[g]]
  /\ UNCHANGED <<pages, log, mathdoc, cursor, pc>>

AllReplaced ==
  /\ pc = "replace" /\ todo = {}
  /\ pc' = "done"
  /\ UNCHANGED <<pages, log, mathdoc, cursor, todo, out>>

Ended == pc \in {"done", "exit"} /\ UNCHANGED vars

Next ==
  \/ ExtractDisplay \/ ExitNoDisplayEnd \/ ExtractInline \/ ExitNoMathOff
  \/ ExtractSpecialInline \/ TransformInline \/ LogRead \/ MathListApplied
  \/ ReplaceFormula \/ AllReplaced \/ Ended

Spec == Init /\ [][Next]_vars

----------------------------------------------------------------------------
(* Properties. *)

Block(f) == pages[f \div 100][(f % 100) \div 10]
Place(f) == f % 10
Has(display, line) ==
  \E p \in 1 .. Len(pages) : \E b \in 1 .. Len(pages[p]) :
    \/ pages[p][b].display \in display
    \/ \E q \in 1 .. Len(pages[p][b].line) : pages[p][b].line[q] \in line

(* The characters of f, with those of the formula in it. *)
Written(f) ==
  IF \/ Place(f) = 1 /\ Block(f).display = "boxed"
     \/ Place(f) > 2 /\ Block(f).line[(Place(f) - 1) \div 2] = "nested"
  THEN <<f, f + 1>> ELSE <<f>>

(* No character of a formula is lost or copied while expressions are moved *)
(* out of the log and into each other (extract_math_expr).                 *)
CharsOf(s, f) == {q \in 1 .. Len(s) : s[q].k = "char" /\ s[q].id = f}
NumberOf(f)   == Cardinality(CharsOf(log, f)) + Cardinality(CharsOf(mathdoc, f))
Known         == {log[q].id : q \in 1 .. Len(log)} \cup {mathdoc[q].id : q \in 1 .. Len(mathdoc)}
MovedOnce     == [][\A f \in Known : NumberOf(f)' = NumberOf(f)]_<<log, mathdoc>>

(* An untagged display before f on its page: extract_math_expr looks for   *)
(* the end tag of that display and takes the next one there is.            *)
Robbed(f) ==
  /\ Place(f) = 1
  /\ \E g \in Displays(FALSE) : g < f /\ g \div 100 = f \div 100

(* A formula of the document is only ever replaced by its own expression,  *)
(* whole, with the formulas in it and nothing of its neighbours: the       *)
(* walks of log2xml.c may take the tags of one formula for another's, but  *)
(* the lookup by both ids then finds nothing.  When the passes are done,   *)
(* the formulas that were not found are the displays that follow an        *)
(* untagged display on their page, and those only.                         *)
OwnExpression ==
  /\ \A f \in DOMAIN out : out[f] = Written(f)
  /\ pc = "done" /\ ~Has({"penalized"}, {}) =>
       DOMAIN out = {f \in Displays(TRUE) \cup Inlines : ~Robbed(f)}

(* The program gives a log up only for a formula that TeX broke over two   *)
(* lines, or a display whose end has another penalty.                      *)
RefusedForBreaks == pc = "exit" => Has({"penalized"}, {"broken"})

(* Every walk ends, although that of extract_special_inline_math goes back *)
(* to the node it inserted: with every step a pass ends, or else there are *)
(* fewer begin tags in the log, or as many and less that is still to be    *)
(* walked over.                                                            *)
Rank == [display |-> 6, inline |-> 5, special |-> 4, transform |-> 3, replace |-> 2, done |-> 1, exit |-> 0]
ToDo ==
  <<Rank[pc], Cardinality(BeginTags(log, "math")),
    IF Rank[pc] > 3 THEN Len(log) + 1 - cursor
    ELSE IF pc = "transform" THEN Len(mathdoc) + 1 - cursor
    ELSE Cardinality(todo)>>
Less(a, b) == \E i \in 1 .. 3 : a[i] < b[i] /\ \A j \in 1 .. i - 1 : a[j] = b[j]
StepsRunOut == [][Less(ToDo', ToDo)]_vars

=============================================================================
