------------------------------ MODULE PostXml ------------------------------
(***************************************************************************)
(* The passes of src/src/postxml.c that rebuild the structure of the       *)
(* document.  LaTeX marks where an item, a paragraph or a section begins;  *)
(* rebuild_all_lists, rebuild_bibliography, rebuild_paragraphs and         *)
(* rebuild_sections move what follows a mark into it, list of siblings by  *)
(* list of siblings, while the engine keeps the nodes to be visited.       *)
(*                                                                         *)
(* A node is named by its place in the document, 0 is the root; the <par>s *)
(* are numbered on as they are made.                                       *)
(***************************************************************************)
EXTENDS Integers, Sequences, FiniteSets, SequencesExt, Lists

CONSTANT
  Documents  (* sequences of nodes in document order: kind, depth, level   *)

Kinds == {"text", "box", "chars", "list", "item", "thebibliography",
          "bibitem", "parsep", "section"}

(* Each node is at most one deeper than the node before it, and a parsep   *)
(* holds nothing: the styles write it as an empty tag.                     *)
ASSUME DocumentsAssumption ==
  \A d \in Documents :
    /\ d \in Seq([kind : Kinds, depth : Nat \ {0}, level : Int])
    /\ \A n \in 1 .. Len(d) :
         /\ d[n].depth <= (IF n = 1 THEN 0 ELSE d[n - 1].depth) + 1
         /\ n > 1 /\ d[n - 1].kind = "parsep" => d[n].depth <= d[n - 1].depth

VARIABLES
  doc,     (* the document before the passes                               *)
  kids,    (* kids[n]: the children of n                                   *)
  pass,    (* the pass that runs                                           *)
  work,    (* the nodes on the engine's stack                              *)
  at,      (* the node the pass was called on, -1 between two calls        *)
  cursor,  (* the place of `node' among its children                       *)
  found    (* rebuild_paragraphs has met a mark in this list               *)

vars == <<doc, kids, pass, work, at, cursor, found>>

N        == Len(doc)
Kind(n)  == IF n = 0 THEN "root" ELSE IF n > N THEN "par" ELSE doc[n].kind
NewPar(k) == Cardinality(DOMAIN k)
IsElement(n) == Kind(n) # "chars"
Level(n) == doc[n].level

(* The children in the document before the passes. *)
IsParent(d, p, n) ==
  /\ p < n /\ d[n].depth = (IF p = 0 THEN 0 ELSE d[p].depth) + 1
  /\ \A m \in p + 1 .. n - 1 : d[m].depth >= d[n].depth

Init ==
  /\ doc \in Documents
  /\ kids = [p \in 0 .. N |->
               Among([n \in 1 .. N |-> n], {n \in 1 .. N : IsParent(doc, p, n)})]
  /\ pass = "lists" /\ work = <<0>>
  /\ at = -1 /\ cursor = 1 /\ found = FALSE

----------------------------------------------------------------------------
Siblings == kids[at]
Node     == Siblings[cursor]
InLoop   == at # -1 /\ cursor <= Len(Siblings)
GoTo(p)  == cursor' = p
Push(s)  == work' = work \o s

(* xmlTransformationApply: the last entry is taken off the stack. *)
Call ==
  /\ at = -1 /\ work # <<>>
  /\ at' = Last(work) /\ work' = Front(work)
  /\ cursor' = 1 /\ found' = FALSE
  /\ UNCHANGED <<doc, kids, pass>>

Return ==
  /\ at # -1 /\ cursor > Len(Siblings)
  /\ at' = -1
  /\ UNCHANGED <<doc, kids, pass, work, cursor, found>>

After == [lists |-> "bibliography", bibliography |-> "paragraphs",
          paragraphs |-> "sections", sections |-> "done"]
NextPass ==
  /\ at = -1 /\ work = <<>> /\ pass # "done"
  /\ pass' = After[pass] /\ work' = IF pass' = "done" THEN <<>> ELSE <<0>>
  /\ UNCHANGED <<doc, kids, at, cursor, found>>

(* A node that the pass does nothing with but push. *)
Pass ==
  /\ GoTo(cursor + 1) /\ Push(<<Node>>)
  /\ UNCHANGED <<doc, kids, pass, at, found>>

----------------------------------------------------------------------------
(* A node goes to the end of the siblings that a mark before it holds      *)
(* (xmlUnlinkNode and xmlAddChild): by[p] has the place of that mark, if   *)
(* there is one, for the node at p.                                        *)

Pick(s, P) == LET kept == Among([p \in 1 .. Len(s) |-> p], P)
              IN  [i \in 1 .. Len(kept) |-> s[kept[i]]]

Left(s, by)     == Pick(s, {p \in 1 .. Len(s) : by[p] = {}})
Given(s, by, n) == Pick(s, {p \in 1 .. Len(s) : \E q \in by[p] : s[q] = n})

(* Mutant: what is moved goes before what the mark holds. *)
Moved_AddFirst(root, by) ==
  [n \in DOMAIN kids |-> IF n = root THEN Left(kids[root], by)
                         ELSE Given(kids[root], by, n) \o kids[n]]

Moved(root, by) ==
  [n \in DOMAIN kids |-> IF n = root THEN Left(kids[root], by)
                         ELSE kids[n] \o Given(kids[root], by, n)]

(* Mutant: only the node next to the mark is moved. *)
TakenBy_Next(s, name, p) ==
  {q \in {p - 1} \ {0} : Kind(s[q]) = name /\ IsElement(s[p]) /\ Kind(s[p]) # name}

(* close_siblings: each element is moved to the mark before it, unless a   *)
(* node that is no element stands between.                                 *)
TakenBy(s, name, p) ==
  {q \in 1 .. p - 1 : /\ Kind(s[q]) = name
                      /\ \A r \in q + 1 .. p : IsElement(s[r]) /\ Kind(s[r]) # name}

ClosedSiblings(root, name) ==
  Moved(root, [p \in 1 .. Len(kids[root]) |-> TakenBy(kids[root], name, p)])

CloseList ==
  /\ pass = "lists" /\ InLoop /\ Kind(Node) = "list"
  /\ kids' = ClosedSiblings(Node, "item")
  /\ GoTo(cursor + 1) /\ Push(<<Node>>)
  /\ UNCHANGED <<doc, pass, at, found>>

PassNoList == pass = "lists" /\ InLoop /\ Kind(Node) # "list" /\ Pass

CloseBibliography ==
  /\ pass = "bibliography" /\ InLoop /\ Kind(Node) = "thebibliography"
  /\ kids' = ClosedSiblings(Node, "bibitem")
  /\ GoTo(cursor + 1)
  /\ UNCHANGED <<doc, pass, work, at, found>>

PassNoBibliography ==
  pass = "bibliography" /\ InLoop /\ Kind(Node) # "thebibliography" /\ Pass

----------------------------------------------------------------------------
(* rebuild_paragraphs: a section or a parsep begins a paragraph.           *)

StopsParagraph(n) == Kind(n) \in {"section", "parsep"}
IsParEnd(n)       == StopsParagraph(n) \/ Kind(n) = "thebibliography"

PassNoMark ==
  pass = "paragraphs" /\ InLoop /\ ~StopsParagraph(Node) /\ Pass

(* A mark that is alone at the end of the list begins nothing. *)
LoneMark == ~found /\ cursor = Len(Siblings)

(* Mutant: a parsep stays in the list. *)
WithoutParsep_Never(k, p) == k

(* The mark at p is taken out of the list, unless it is a section. *)
WithoutParsep(k, p) ==
  IF Kind(k[at][p]) = "parsep" THEN [k EXCEPT ![at] = Unlink(@, p)] ELSE k

DropLoneMark ==
  /\ pass = "paragraphs" /\ InLoop /\ StopsParagraph(Node)
  /\ LoneMark
  /\ kids' = WithoutParsep(kids, cursor)
  /\ at' = -1
  /\ UNCHANGED <<doc, pass, work, cursor, found>>

(* Mutant: a paragraph goes on through the next mark. *)
LastOfPar_ToTheEnd(s, p) == Len(s)

(* Mutant: a paragraph ends at every node. *)
LastOfPar_OneNode(s, p) ==
  IF p < Len(s) /\ IsElement(s[p + 1]) /\ ~IsParEnd(s[p + 1]) THEN p + 1 ELSE p

(* The end of the paragraph that begins after the node at p. *)
LastOfPar(s, p) ==
  CHOOSE q \in p .. Len(s) :
    /\ \A r \in p + 1 .. q : IsElement(s[r]) /\ ~IsParEnd(s[r])
    /\ q < Len(s) => ~(IsElement(s[q + 1]) /\ ~IsParEnd(s[q + 1]))

(* A new <par> takes the place of the nodes from p to q, if there are any. *)
Wrapped(k, p, q) ==
  IF p > q THEN k
  ELSE [n \in DOMAIN k \cup {NewPar(k)} |->
          IF n = at THEN SubSeq(k[n], 1, p - 1) \o <<NewPar(k)>> \o SubSeq(k[n], q + 1, Len(k[n]))
          ELSE IF n = NewPar(k) THEN SubSeq(k[at], p, q)
          ELSE k[n]]

(* make_paragraph_before and what follows it: the mark comes to stand at m *)
(* when what is before it, and then what is after it, is in a paragraph.   *)
MakeParagraph ==
  /\ pass = "paragraphs" /\ InLoop /\ StopsParagraph(Node)
  /\ ~LoneMark
  /\ LET q    == LastOfPar(Siblings, cursor)
         left == found \/ cursor = 1
         k    == IF left THEN kids ELSE Wrapped(kids, 1, cursor - 1)
         m    == IF left THEN cursor ELSE 2
         both == Wrapped(k, m + 1, m + q - cursor)
         rest == Len(Siblings) - q
     IN  /\ kids' = WithoutParsep(both, m)
         /\ Push((IF found THEN <<>> ELSE SubSeq(Siblings, 1, cursor - 1)) \o SubSeq(Siblings, cursor + 1, q))
         /\ GoTo(Len(kids'[at]) - rest + 1)
  /\ found' = TRUE
  /\ UNCHANGED <<doc, pass, at>>

----------------------------------------------------------------------------
(* rebuild_sections: a section takes what follows it up to the next one    *)
(* that is not below it, or to the lists at the end of the paper.          *)

(* Mutant: a section ends only where a higher one begins. *)
StopsSection_Higher(n, level) ==
  \/ Kind(n) = "thebibliography"
  \/ Kind(n) = "section" /\ Level(n) < level

StopsSection(n, level) ==
  \/ Kind(n) = "thebibliography"
  \/ Kind(n) = "section" /\ Level(n) <= level

CloseSection ==
  /\ pass = "sections" /\ InLoop /\ Kind(Node) = "section"
  /\ LET content == {p \in cursor + 1 .. Len(Siblings) :
                        \A r \in cursor + 1 .. p : ~StopsSection(Siblings[r], Level(Node))}
     IN  kids' = Moved(at, [p \in 1 .. Len(Siblings) |-> IF p \in content THEN {cursor} ELSE {}])
  /\ GoTo(cursor + 1) /\ Push(<<Node>>)
  /\ UNCHANGED <<doc, pass, at, found>>

PassNoSection == pass = "sections" /\ InLoop /\ Kind(Node) # "section" /\ Pass

Done == pass = "done" /\ UNCHANGED vars

Rebuild ==
  \/ Call \/ Return \/ NextPass
  \/ CloseList \/ PassNoList \/ CloseBibliography \/ PassNoBibliography
  \/ PassNoMark \/ DropLoneMark \/ MakeParagraph
  \/ CloseSection \/ PassNoSection

Next == Rebuild \/ Done

Spec == Init /\ [][Next]_vars

----------------------------------------------------------------------------
(* The tree in reading order, each node before what it holds. *)
Preorder ==
  LET from[n \in DOMAIN kids] ==
        <<n>> \o FlattenSeq([i \in DOMAIN kids[n] |-> from[kids[n][i]]])
  IN  from[0]

ParentOf(n) == CHOOSE p \in DOMAIN kids : n \in ToSet(kids[p])
Dropped == 1 .. N \ ToSet(Preorder)

(* However often a list is taken apart and moved on, the paper is read in  *)
(* the same order: a node is in one place, and only marks are removed.     *)
ReadingOrderKept ==
  /\ Ascending(Among(Preorder, 1 .. N))
  /\ \A n \in Dropped : Kind(n) = "parsep"

Flat == \A n \in 1 .. N : doc[n].depth = 1
Ends(level, a, b) ==
  \E n \in a .. b : \/ Kind(n) = "thebibliography"
                    \/ Kind(n) = "section" /\ Level(n) <= level

(* The element around a node, or around the paragraph it is in. *)
Holder(n) == IF Kind(ParentOf(n)) = "par" THEN ParentOf(ParentOf(n)) ELSE ParentOf(n)

(* At the end each node of the text is in the nearest section before it    *)
(* that no section of its level or above, and no list of the end of the    *)
(* paper, has closed: sections nest by their levels, although rebuilding   *)
(* a section moves sections whose own rebuilding has not begun.            *)
SectionsNestByLevel ==
  pass = "done" /\ Flat =>
    \A n \in 1 .. N \ Dropped :
      LET open == {m \in 1 .. n - 1 : Kind(m) = "section" /\ ~Ends(Level(m), m + 1, n)}
      IN  IF open = {} THEN Holder(n) = 0 ELSE Holder(n) = CHOOSE m \in open : \A o \in open : o <= m

(* And each node of a list or of a bibliography is in the item before it,  *)
(* not in one before that, and outside of all of them if there is none or  *)
(* if characters stand between.                                            *)
ItemsHoldWhatFollows ==
  pass = "done" =>
    \A list, n \in 1 .. N :
      IsParent(doc, list, n) /\ Kind(list) \in {"list", "thebibliography"} =>
        LET name  == IF Kind(list) = "list" THEN "item" ELSE "bibitem"
            items == {m \in 1 .. n - 1 :
                        /\ IsParent(doc, list, m) /\ Kind(m) = name
                        /\ \A r \in m + 1 .. n :
                             IsParent(doc, list, r) => IsElement(r) /\ Kind(r) # name}
        IN  IF items = {} THEN Holder(n) = list ELSE items = {Holder(n)}

MarksHoldWhatFollows == SectionsNestByLevel /\ ItemsHoldWhatFollows

(* Two texts of a list are in one paragraph only if no mark was between    *)
(* them, and of two that follow each other directly both are in the same   *)
(* paragraph or none is in any.                                            *)
ParagraphsAreApart ==
  pass \in {"sections", "done"} =>
    \A a, b \in {n \in 1 .. N : Kind(n) = "text"} :
      /\ a < b /\ Kind(ParentOf(a)) = "par" /\ ParentOf(a) = ParentOf(b) =>
           ~\E n \in a .. b : doc[n].depth = doc[a].depth /\ StopsParagraph(n)
      /\ b = a + 1 /\ doc[b].depth = doc[a].depth => ParentOf(a) = ParentOf(b)

(* What precedes the first mark of a list is pushed twice, once as it is   *)
(* passed and once as it is moved into a paragraph, and so visited twice.  *)
(* That puts paragraphs into paragraphs where a section, which is the only *)
(* mark that stays in its list, stands in such a box; and nowhere else.    *)
PassedTwice(b) ==
  \E m \in b + 1 .. N : doc[m].depth = doc[b].depth /\ StopsParagraph(m)
ParsNestOnlyAroundSections ==
  \A p, q \in N + 1 .. NewPar(kids) - 1 :
    q \in ToSet(kids[p]) =>
      \E b \in 1 .. N :
        /\ PassedTwice(b)
        /\ \A n \in ToSet(kids[q]) : IsParent(doc, b, n)
        /\ \E n \in 1 .. N : IsParent(doc, b, n) /\ Kind(n) = "section"

=============================================================================
