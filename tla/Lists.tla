------------------------------- MODULE Lists -------------------------------
(***************************************************************************)
(* The two linked lists that the passes over the document edit: the        *)
(* children of a libxml2 node (node->next, node->prev) and the node_stack  *)
(* of src/src/lxir.c.  A list is the sequence of its nodes.                *)
(***************************************************************************)
EXTENDS Integers, Sequences

Elements(s)  == {s[p] : p \in 1 .. Len(s)}
Ascending(s) == \A p, q \in 1 .. Len(s) : p < q => s[p] < s[q]

(* xmlUnlinkNode, unlink_node_stack: the list s without its e-th node. *)
Unlink(s, e) == SubSeq(s, 1, e - 1) \o SubSeq(s, e + 1, Len(s))

(* Unlinks the m-th node of the list s and links it again before the q-th. *)
MoveBefore(s, q, m) ==
  [p \in 1 .. Len(s) |-> IF p = q THEN s[m]
                         ELSE IF p \in q + 1 .. m THEN s[p - 1]
                         ELSE s[p]]

(* The nodes of s that are in S, in the order of s. *)
Among(s, S) ==
  LET among[i \in 0 .. Len(s)] ==
        IF i = 0 THEN <<>>
        ELSE IF s[i] \in S THEN Append(among[i - 1], s[i]) ELSE among[i - 1]
  IN  among[Len(s)]

(* What is left of s when its nodes from the p-th to the q-th are out. *)
Without(s, p, q) == SubSeq(s, 1, p - 1) \o SubSeq(s, q + 1, Len(s))

=============================================================================
