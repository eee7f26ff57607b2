------------------------------- MODULE ReadLog -------------------------------
(***************************************************************************)
(* read_log_file of src/src/log2xml.c: the boxes that TeX writes to its    *)
(* log when it ships a page out, one line a node, are read back into a     *)
(* tree.  The dots before a node are its depth; a line that is no node     *)
(* belongs to the parameter of the last one; a blank line ends the box     *)
(* unless the next line has dots again.                                    *)
(*                                                                         *)
(* Nodes and pages are numbered as they are read, 0 is the document; a     *)
(* line longer than the buffer of 1024 bytes is read as several lines.     *)
(***************************************************************************)
EXTENDS Integers, Sequences, SequencesExt

CONSTANTS
  MaxLines,  (* bound: the lines of the log   *)
  MaxDots    (* bound: the dots before a node *)

ASSUME BoundsAssumption == MaxLines \in Nat /\ MaxDots \in Nat

VARIABLES
  lines,     (* how many lines were read                                   *)
  state,     (* "outside" of pages, in a "page" whose box is awaited, in   *)
             (*   its "box", after a "blank" line, or why the program exits *)
  current,   (* the last node, or the page                                 *)
  depth,     (* the dots of the last node                                  *)
  dots,      (* the nodes in the order of the log: Page, or their dots     *)
  kids,      (* kids[n]: the children of n, param aside                    *)
  texts      (* texts[n]: the lines added to the param of n                *)

vars == <<lines, state, current, depth, dots, kids, texts>>

Page  == -1
Nodes == DOMAIN dots
Parent(n) == CHOOSE p \in {0} \cup Nodes : n \in ToSet(kids[p])

Init ==
  /\ lines = 0 /\ state = "outside" /\ current = 0 /\ depth = 0
  /\ dots = <<>> /\ kids = [n \in {0} |-> <<>>] /\ texts = <<>>

----------------------------------------------------------------------------
ReadLine == lines < MaxLines /\ lines' = lines + 1
Fails(message) ==
  state' = message /\ UNCHANGED <<current, depth, dots, kids, texts>>

NewNode(d) == dots' = Append(dots, d) /\ current' = Len(dots) + 1
WithKids(p, s) ==
  kids' = [n \in DOMAIN kids \cup {Len(dots) + 1} |->
             IF n = p THEN s ELSE IF n \in DOMAIN kids THEN kids[n] ELSE <<>>]

(* xmlAddChild and xmlAddNextSibling of the new node *)
AddChild(p) == WithKids(p, Append(kids[p], Len(dots) + 1))
AddNextSibling(n) ==
  LET p == Parent(n)
      i == CHOOSE j \in DOMAIN kids[p] : kids[p][j] = n
  IN  WithKids(p, InsertAt(kids[p], i + 1, Len(dots) + 1))

(* Mutant: stops one node early.                                           *)
Ancestor_Early(n, k) ==
  LET up[i \in 0 .. k] == IF i = 0 THEN n ELSE Parent(up[i - 1])
  IN  IF k = 0 THEN n ELSE up[k - 1]

(* The node k levels above n. *)
Ancestor(n, k) ==
  LET up[i \in 0 .. k] == IF i = 0 THEN n ELSE Parent(up[i - 1])
  IN  up[k]

(* Outside a box: the marker of a page starts it, and only the line that   *)
(* TeX writes before a box opens it.                                       *)
StartMarker ==
  /\ ReadLine /\ state = "outside"
  /\ state' = "page"
  /\ NewNode(Page) /\ AddChild(0) /\ texts' = Append(texts, 0)
  /\ UNCHANGED depth

BoxMarker ==
  /\ ReadLine /\ state = "page"
  /\ state' = "box" /\ depth' = 0
  /\ UNCHANGED <<current, dots, kids, texts>>
OtherLine ==
  /\ ReadLine /\ state \in {"outside", "page"}
  /\ UNCHANGED <<state, current, depth, dots, kids, texts>>

(* The lines added to the param of current: the page has none. *)
WithText == IF dots[current] = Page THEN texts
            ELSE [texts EXCEPT ![current] = @ + 1]

(* Mutant: a node is not the last one once it is a sibling of the last.    *)
Place_SiblingNotCurrent(d, before) ==
  \/ /\ \/ d = depth /\ AddNextSibling(current) /\ current' = current
        \/ d = depth + 1 /\ AddChild(current) /\ current' = Len(dots) + 1
        \/ /\ d < depth /\ AddNextSibling(Ancestor(current, depth - d))
           /\ current' = Len(dots) + 1
     /\ dots' = Append(dots, d) /\ texts' = Append(before, 0)
     /\ depth' = d /\ state' = "box"
  \/ d > depth + 1 /\ Fails("INVALID node structure")

(* A node with d dots after one that has depth of them. *)
Place(d, before) ==
  \/ /\ \/ d = depth /\ AddNextSibling(current)
        \/ d = depth + 1 /\ AddChild(current)
        \/ d < depth /\ AddNextSibling(Ancestor(current, depth - d))
     /\ NewNode(d) /\ texts' = Append(before, 0)
     /\ depth' = d /\ state' = "box"
  \/ d > depth + 1 /\ Fails("INVALID node structure")

(* In the box, a node without dots is a child of what comes before it;     *)
(* once there are dots, a line without is no node.                         *)
BoxNode(d) ==
  /\ ReadLine /\ state = "box" /\ d > 0
  /\ Place(d, texts)
BoxRoot ==
  /\ ReadLine /\ state = "box" /\ depth = 0
  /\ AddChild(current) /\ NewNode(0) /\ texts' = Append(texts, 0)
  /\ UNCHANGED <<state, depth>>
BoxText ==
  /\ ReadLine /\ state = "box"
  /\ texts' = WithText
  /\ UNCHANGED <<state, current, depth, dots, kids>>
BlankLine ==
  /\ ReadLine /\ state = "box"
  /\ state' = "blank" /\ UNCHANGED <<current, depth, dots, kids, texts>>

(* After a blank line: a node goes on with the box, another line with dots *)
(* is refused, and any other line, a marker even, ends the page.           *)
NodeAfterBlank(d) ==
  /\ ReadLine /\ state = "blank" /\ d > 0
  /\ Place(d, WithText)
DotsAfterBlank == ReadLine /\ state = "blank" /\ Fails("Invalid line")
TextAfterBlank ==
  /\ ReadLine /\ state = "blank"
  /\ state' = "outside"
  /\ UNCHANGED <<current, depth, dots, kids, texts>>

Next ==
  \/ StartMarker \/ BoxMarker \/ OtherLine \/ BoxRoot \/ BoxText
  \/ BlankLine \/ DotsAfterBlank \/ TextAfterBlank
  \/ \E d \in 1 .. MaxDots : BoxNode(d) \/ NodeAfterBlank(d)

Spec == Init /\ [][Next]_vars

----------------------------------------------------------------------------
(* The tree is read in the order of the log, each node once.               *)
Preorder ==
  LET from[n \in 0 .. Len(dots)] ==
        <<n>> \o FlattenSeq([i \in DOMAIN kids[n] |-> from[kids[n][i]]])
  IN  from[0]
LinesInOrder == Preorder = [i \in 1 .. Len(dots) + 1 |-> i - 1]

(* In a page whose box begins with a node without dots, as TeX writes it,  *)
(* and has no other one, each node is as deep below its own page as it has *)
(* dots, whatever blank lines and texts stand between the nodes.           *)
PageOf(n) == CHOOSE p \in 1 .. n :
               dots[p] = Page /\ \A m \in p + 1 .. n : dots[m] # Page
WrittenByTeX(p) ==
  \A n \in p + 1 .. Len(dots) :
    PageOf(n) = p => (dots[n] = 0) = (n = p + 1)
NestingIsDots ==
  \A n \in Nodes :
    dots[n] # Page /\ WrittenByTeX(PageOf(n)) =>
      Ancestor(n, dots[n] + 1) = PageOf(n)

=============================================================================
