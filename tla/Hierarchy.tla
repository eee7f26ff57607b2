----------------------------- MODULE Hierarchy -----------------------------
(***************************************************************************)
(* The pass replace_xxx_nodes of src/src/lxir.c: the flat list of nodes    *)
(* under the document root holds the tags \xBegin, \xEnd and \xEmpty wrote *)
(* into the DVI file as <xxx> nodes, and the pass turns it into a tree of  *)
(* <node> elements.                                                        *)
(*                                                                         *)
(* A node is named by its position in the input document.  The element     *)
(* that replaces a tag keeps the name of that tag: the code links a fresh  *)
(* <node> where the <xxx> was and frees the <xxx>.                         *)
(***************************************************************************)
EXTENDS Integers, Sequences, FiniteSets, Lists

CONSTANTS
  Names,     (* the names that can stand between the parentheses of a tag *)
  Leaves,    (* the kinds of nodes that the documents hold besides tags   *)
  MaxNodes   (* the longest list of children of the root                  *)

ASSUME LeavesAssumption ==
  Leaves \subseteq {"text", "empty", "special", "unreadable"}
ASSUME MaxNodesAssumption == MaxNodes \in Nat

(* What is_xxx_valid_name says of a child of the root: an open or a close  *)
(* tag, whose names are compared; an empty tag; a special (any other       *)
(* \special); an <xxx> it cannot read; or, under the name "text", a node   *)
(* that is not an <xxx> at all (text, rule, font...).                      *)
Tag   == [kind : {"open", "close"}, name : Names]
Leaf  == [kind : Leaves]

VARIABLES
  doc,       (* the children of the root when the pass starts             *)
  kids,      (* the children of the root now                              *)
  inside,    (* inside[n]: the children given to the element n            *)
  built,     (* the tags already replaced by an element                   *)
  closedBy,  (* closedBy[n]: the tag whose attributes n has as "close-*"  *)
  stack,     (* struct node_stack, from first to last                     *)
  cursor,    (* the variable `node' of fill_node_stack                    *)
  pc         (* filling the stack, building, returned, or lxir_exit       *)

vars == <<doc, kids, inside, built, closedBy, stack, cursor, pc>>

Nodes   == 1 .. Len(doc)
Kind(n) == doc[n].kind
IsTag(n) == Kind(n) \in {"open", "close"}

None == 0    (* closedBy of an element that no close tag ended *)

Init ==
  /\ \E n \in 0 .. MaxNodes : doc \in [1 .. n -> Tag \cup Leaf]
  /\ kids = [n \in Nodes |-> n]
  /\ inside = [n \in Nodes |-> <<>>]
  /\ closedBy = [n \in Nodes |-> None]
  /\ built = {}
  /\ stack = <<>>
  /\ cursor = 1
  /\ pc = "fill"

----------------------------------------------------------------------------
(* fill_node_stack: one action per kind of node the cursor can be on.      *)

IsLastKid(n) == n = kids[Len(kids)]

(* Mutant: `next' read after the unlinking, so that no element is linked.  *)
ReplaceByElement_NextReadLate(n) ==
  /\ kids' = SelectSeq(kids, LAMBDA k : k # n)
  /\ UNCHANGED built

(* xmlAddPrevSibling(next, element) after xmlUnlinkNode(n): the element    *)
(* takes the place of n, unless n has no next sibling, when `next' is NULL *)
(* and the element is attached to nothing.                                 *)
ReplaceByElement(n) ==
  \/ /\ IsLastKid(n)
     /\ kids' = Unlink(kids, Len(kids))
     /\ UNCHANGED built
  \/ /\ ~IsLastKid(n)
     /\ built' = built \cup {n}
     /\ UNCHANGED kids

SkipNode ==
  /\ pc = "fill" /\ cursor \in Nodes
  /\ Kind(cursor) = "text"
  /\ cursor' = cursor + 1
  /\ UNCHANGED <<doc, kids, inside, built, closedBy, stack, pc>>

PushTag ==
  /\ pc = "fill" /\ cursor \in Nodes
  /\ IsTag(cursor)
  /\ stack' = Append(stack, cursor)
  /\ cursor' = cursor + 1
  /\ UNCHANGED <<doc, kids, inside, built, closedBy, pc>>

(* Mutant: the loop goes on from the sibling of `next'. *)
ReplaceEmptyOrSpecial_SkipsNext ==
  /\ pc = "fill" /\ cursor \in Nodes
  /\ Kind(cursor) \in {"empty", "special"}
  /\ ReplaceByElement(cursor)
  /\ cursor' = cursor + 2
  /\ UNCHANGED <<doc, inside, closedBy, stack, pc>>

ReplaceEmptyOrSpecial ==
  /\ pc = "fill" /\ cursor \in Nodes
  /\ Kind(cursor) \in {"empty", "special"}
  /\ ReplaceByElement(cursor)
  /\ cursor' = cursor + 1
  /\ UNCHANGED <<doc, inside, closedBy, stack, pc>>

RejectUnreadable ==
  /\ pc = "fill" /\ cursor \in Nodes
  /\ Kind(cursor) = "unreadable"
  /\ pc' = "exit"
  /\ UNCHANGED <<doc, kids, inside, built, closedBy, stack, cursor>>

StackFilled ==
  /\ pc = "fill" /\ cursor = Len(doc) + 1
  /\ pc' = "build"
  /\ UNCHANGED <<doc, kids, inside, built, closedBy, stack, cursor>>

----------------------------------------------------------------------------
(* build_hierarchy_step: one action per way out of it.                     *)

(* The first close tag of the stack is its f-th entry. *)
FirstClose(f) ==
  /\ f \in DOMAIN stack
  /\ Kind(stack[f]) = "close"
  /\ \A e \in 1 .. f - 1 : Kind(stack[e]) = "open"

(* Mutants: the name is not compared; the search does not stop at the      *)
(* first close tag of the name.                                            *)
Matches_AnyName(f, m) ==
  m \in f .. Len(stack) /\ Kind(stack[m]) = "close"
Matches_NotNearest(f, m) ==
  /\ m \in f .. Len(stack)
  /\ doc[stack[m]] = [kind |-> "close", name |-> doc[stack[f - 1]].name]

(* The m-th entry is the tag that the search for the match of the entry    *)
(* f - 1 stops at: it skips the close tags that have another name.         *)
Matches(f, m) ==
  /\ m \in f .. Len(stack)
  /\ doc[stack[m]] = [kind |-> "close", name |-> doc[stack[f - 1]].name]
  /\ \A e \in f .. m - 1 :
       /\ Kind(stack[e]) = "close"
       /\ doc[stack[e]].name # doc[stack[f - 1]].name

PosOf(n) == CHOOSE p \in DOMAIN kids : kids[p] = n

Return ==
  /\ pc = "build" /\ stack = <<>>
  /\ pc' = "done"
  /\ UNCHANGED <<doc, kids, inside, built, closedBy, stack, cursor>>

ExitOpenWithoutClose ==
  /\ pc = "build" /\ stack # <<>>
  /\ \A e \in DOMAIN stack : Kind(stack[e]) = "open"
  /\ pc' = "exit"
  /\ UNCHANGED <<doc, kids, inside, built, closedBy, stack, cursor>>

(* Mutant: the entry is not unlinked from the stack. *)
ReplaceOrphan_StaysOnStack ==
  /\ pc = "build" /\ FirstClose(1)
  /\ built' = built \cup {stack[1]}
  /\ UNCHANGED <<doc, kids, inside, closedBy, stack, cursor, pc>>

ReplaceOrphan ==
  /\ pc = "build" /\ FirstClose(1)
  /\ ReplaceByElement(stack[1])
  /\ stack' = Unlink(stack, 1)
  /\ UNCHANGED <<doc, inside, closedBy, cursor, pc>>

ExitNoMatch ==
  /\ pc = "build"
  /\ \E f \in 2 .. Len(stack) :
       /\ FirstClose(f)
       /\ \A m \in f .. Len(stack) : ~Matches(f, m)
  /\ pc' = "exit"
  /\ UNCHANGED <<doc, kids, inside, built, closedBy, stack, cursor>>

(* Mutants: the match is not moved; each sibling becomes the first child.  *)
BuildElement_MatchNotMoved(f, m) ==
  LET p == PosOf(stack[f - 1])
      q == PosOf(stack[f])
  IN  /\ inside' = [inside EXCEPT ![stack[f - 1]] = SubSeq(kids, p + 1, q - 1)]
      /\ kids' = Without(kids, p + 1, q)
      /\ built' = built \cup {stack[f - 1]}
      /\ closedBy' = [closedBy EXCEPT ![stack[f - 1]] = stack[m]]
      /\ stack' = Unlink(Unlink(stack, m), f - 1)
      /\ UNCHANGED <<doc, cursor, pc>>
BuildElement_AddFirst(f, m) ==
  LET p == PosOf(stack[f - 1])
      q == PosOf(stack[f])
      moved == MoveBefore(kids, q, PosOf(stack[m]))
  IN  /\ inside' = [inside EXCEPT ![stack[f - 1]] = [k \in 1 .. q - p - 1 |-> moved[q - k]]]
      /\ kids' = Without(moved, p + 1, q)
      /\ built' = built \cup {stack[f - 1]}
      /\ closedBy' = [closedBy EXCEPT ![stack[f - 1]] = stack[m]]
      /\ stack' = Unlink(Unlink(stack, m), f - 1)
      /\ UNCHANGED <<doc, cursor, pc>>

(* entry is the entry f - 1 and match the entry m.  The match is moved     *)
(* just before the tag of the entry f, then everything between the two     *)
(* tags becomes the content of the new element, and both tags go.          *)
BuildElement(f, m) ==
  LET entry == stack[f - 1]
      match == stack[m]
      p     == PosOf(entry)
      q     == PosOf(stack[f])
      moved == MoveBefore(kids, q, PosOf(match))
  IN  /\ inside' = [inside EXCEPT ![entry] = SubSeq(moved, p + 1, q - 1)]
      /\ kids' = Without(moved, p + 1, q)
      /\ built' = built \cup {entry}
      /\ closedBy' = [closedBy EXCEPT ![entry] = match]
      /\ stack' = Unlink(Unlink(stack, m), f - 1)
      /\ UNCHANGED <<doc, cursor, pc>>

Pair ==
  /\ pc = "build"
  /\ \E f \in 2 .. Len(stack) :
       /\ FirstClose(f)
       /\ \E m \in f .. Len(stack) : Matches(f, m) /\ BuildElement(f, m)

----------------------------------------------------------------------------
(* The pass is over: it returned, or the program exited. *)
Halted ==
  /\ pc \in {"done", "exit"}
  /\ UNCHANGED vars

Fill  == SkipNode \/ PushTag \/ ReplaceEmptyOrSpecial \/ RejectUnreadable
           \/ StackFilled
Build == Return \/ ExitOpenWithoutClose \/ ReplaceOrphan \/ ExitNoMatch \/ Pair

Next == Fill \/ Build \/ Halted

(* The pass is straight-line C code: a step that can be taken is taken. *)
Spec == Init /\ [][Next]_vars /\ WF_vars(Fill \/ Build)

----------------------------------------------------------------------------
TypeOK ==
  /\ doc \in Seq(Tag \cup Leaf)
  /\ kids \in Seq(Nodes)
  /\ inside \in [Nodes -> Seq(Nodes)]
  /\ built \subseteq Nodes
  /\ closedBy \in [Nodes -> Nodes \cup {None}]
  /\ stack \in Seq(Nodes)
  /\ cursor \in 1 .. Len(doc) + 1
  /\ pc \in {"fill", "build", "done", "exit"}

(* The stack is the tree's own list of tags: build_hierarchy_step walks    *)
(* the stack (entry->next, entry->prev) and edits the tree (node->next),   *)
(* and is right only while both list the same pending tags in the same     *)
(* order, although a match is moved in one and not in the other.           *)
StackMatchesTree ==
  /\ Ascending(kids)
  /\ Ascending(stack)
  /\ Elements(stack) = {n \in Elements(kids) :
                          IsTag(n) /\ n \notin built /\ n < cursor}

(* No tag that still waits for its partner is ever carried into an         *)
(* element: the loop over the siblings that become the content of the new  *)
(* <node> meets no tag of the stack.                                       *)
NoTagInsideElement ==
  \A n \in Nodes : \A x \in Elements(inside[n]) : IsTag(x) => x \in built

(* An element is ended by a close tag of its own name that comes later in  *)
(* the document, no tag ends two elements, and what it contains came       *)
(* before that tag.                                                        *)
ClosedByOwnName ==
  \A n \in built : closedBy[n] # None =>
    /\ doc[closedBy[n]] = [kind |-> "close", name |-> doc[n].name]
    /\ \A x \in Elements(inside[n]) : n < x /\ x < closedBy[n]
    /\ \A o \in built : closedBy[o] = closedBy[n] => o = n

(* A step only ever adds to what is built: an element keeps its content    *)
(* and its attributes whatever is done around it later.                    *)
BuiltIsFinal ==
  [][\A n \in built : /\ n \in built'
                      /\ inside'[n] = inside[n]
                      /\ closedBy'[n] = closedBy[n]]_vars

(* The loop `while (build_hierarchy_step(&stack))' ends on every document. *)
Terminates == <>(pc \in {"done", "exit"})

----------------------------------------------------------------------------
(* What the variables say of the pairing. *)
PendingTags == Elements(stack) \cup {n \in cursor .. Len(doc) : IsTag(n)}
TagPairs == {<<n, closedBy[n]>> : n \in {o \in built : closedBy[o] # None}}
Verdict  == CASE pc = "done" -> "accepted"
              [] pc = "exit" -> "refused"
              [] OTHER       -> "running"

Pairing == INSTANCE TagPairing
             WITH pending <- PendingTags, pairs <- TagPairs, verdict <- Verdict

(* build_hierarchy_step, which always takes the leftmost close tag and     *)
(* looks at the stack only, implements the pairing of TagPairing: it pairs *)
(* no tag with another than its nearest partner, and exits only when some  *)
(* open tag is cut off.                                                    *)
ImplementsTagPairing == Pairing!Spec

=============================================================================
