--------------------------- MODULE HierarchyTree ---------------------------
(***************************************************************************)
(* What replace_xxx_nodes promises about the whole tree, read back from    *)
(* the lists of children that Hierarchy keeps: the order of the document,  *)
(* what can be lost, and the tree of a document whose tags are balanced.   *)
(***************************************************************************)
EXTENDS Hierarchy, SequencesExt

(* The nodes reached from the elements of the list s, in document order.   *)
Preorder(s) ==
  LET from[n \in Nodes] ==
        <<n>> \o FlattenSeq([p \in DOMAIN inside[n] |-> from[inside[n][p]]])
  IN  FlattenSeq([p \in DOMAIN s |-> from[s[p]]])

Linked == Elements(Preorder(kids))     (* every node of the tree *)
Content(n) == Elements(Preorder(inside[n]))

(* Moving siblings into elements and a match tag before another one never  *)
(* changes the order in which the document is read, nor links a node       *)
(* twice.                                                                  *)
DocumentOrderKept == Ascending(Preorder(kids))

(* What is missing from the tree is a close tag that an element carries in *)
(* its "close-*" attributes, or a tag that only missing nodes follow: an   *)
(* element is only lost where its tag had no next sibling, and no text     *)
(* ever disappears, wherever the tags around it are.                       *)
LostOnlyAtTheEnd ==
  \A n \in Nodes \ Linked :
    \/ \E o \in built : closedBy[o] = n
    \/ /\ Kind(n) # "text"
       /\ \A m \in n + 1 .. Len(doc) : m \notin Linked

----------------------------------------------------------------------------
(* Balanced tags, by counting: the close tag of the open tag n is the      *)
(* first position where as many tags were closed as opened since n.        *)
Count(k, i, j) == Cardinality({n \in i .. j : Kind(n) = k})
Closes(n, c) ==
  /\ Kind(n) = "open" /\ Kind(c) = "close"
  /\ n < c
  /\ Count("open", n, c) = Count("close", n, c)
  /\ \A m \in n .. c - 1 : Count("open", n, m) > Count("close", n, m)

Balanced ==
  /\ \A n \in Nodes : Kind(n) # "unreadable"
  /\ \A n \in Nodes : Kind(n) = "open" =>
       \E c \in Nodes : Closes(n, c) /\ doc[n].name = doc[c].name
  /\ \A c \in Nodes : Kind(c) = "close" => \E n \in Nodes : Closes(n, c)

(* A document whose tags are balanced is never refused, and its tree is    *)
(* the one the tags denote: each element is ended by its own close tag and *)
(* holds all that stands between the two tags, except the close tags that  *)
(* became attributes.                                                      *)
BalancedRebuilt ==
  Balanced =>
    /\ pc # "exit"
    /\ pc = "done" =>
         \A n \in Nodes : Kind(n) = "open" =>
           /\ n \in built
           /\ Closes(n, closedBy[n])
           /\ Content(n) = {x \in n + 1 .. closedBy[n] - 1 : Kind(x) # "close"}

=============================================================================
