----------------------------- MODULE MathTree -----------------------------
(***************************************************************************)
(* The tree of a formula, as the passes of src/src/log2xml.c edit it, and  *)
(* the walk over a list of siblings that all of them are.                  *)
(*                                                                         *)
(* A tree maps a node to a record: its kind (the element's name), its kids *)
(* and what the passes read of its attributes and of its text:             *)
(*   val    the characters of a token, the words of a tag, the notations   *)
(*          of a <menclose>                                                *)
(*   font   the font of characters                                         *)
(*   shift  the sign of ", shifted" in the param of a box                  *)
(*   size   height and depth of a box together                             *)
(* Only the <param> of a box is a node of its own; that of a character, a  *)
(* tag, a kern or a rule is its val.  A freed node has the kind "freed".   *)
(***************************************************************************)
EXTENDS Integers, Sequences, FiniteSets, SequencesExt, Functions

CONSTANTS
  Font,    (* the font of each character                                   *)
  Class,   (* of each character: "digit", "old", "operator" or "letter"    *)
  Variant, (* the mathvariant mathfonts.xml gives each font; "" is none    *)
  Pieces   (* of a large fence: the upper one, those between, the lower one *)

Blank == [kind |-> "", kids |-> <<>>, val |-> <<>>, font |-> "", shift |-> 0,
          size |-> 0]

(* The sequences f(1), .., f(n), one after the other. *)
Concat(f(_), n) ==
  LET first[i \in 0 .. n] == IF i = 0 THEN <<>> ELSE first[i - 1] \o f(i)
  IN  first[n]

Kind(t, n) == IF n = 0 THEN "none" ELSE t[n].kind
Kids(t, n) == t[n].kids

(* The sibling i places after the p-th child of o, 0 if there is none. *)
At(t, o, p) == IF p \in DOMAIN Kids(t, o) THEN Kids(t, o)[p] ELSE 0

ValidMathBox ==
  {"hbox", "vbox", "other", "mrow", "msub", "msup", "msubsup", "mfenced",
   "menclose", "math-above"}

(* is_node_valid for a type and the beginning of a tag's text. *)
IsTag(t, n, words) == Kind(t, n) = "special" /\ IsPrefix(words, t[n].val)

(* The children of n are, in order, of the kinds of the pattern: a name, a *)
(* set of names, and nothing more.                                         *)
Matches(t, n, pattern) ==
  /\ Len(Kids(t, n)) = Len(pattern)
  /\ \A i \in 1 .. Len(pattern) : Kind(t, Kids(t, n)[i]) \in pattern[i]

----------------------------------------------------------------------------
(* What libxml2 does to the tree.                                          *)

SetKids(t, n, s) == [t EXCEPT ![n].kids = s]
WithoutNode(s, n) == SelectSeq(s, LAMBDA m : m # n)
Unlink(t, o, n)  == SetKids(t, o, WithoutNode(Kids(t, o), n))

(* The p-th child of o, and the k - 1 after it, give way to s. *)
Replace(t, o, p, k, s) ==
  SetKids(t, o, SubSeq(Kids(t, o), 1, p - 1) \o s
                  \o SubSeq(Kids(t, o), p + k, Len(Kids(t, o))))

Parent(t, n) == CHOOSE m \in DOMAIN t : Kind(t, m) # "freed" /\ n \in Range(Kids(t, m))
PlaceIn(t, o, n) == CHOOSE p \in DOMAIN Kids(t, o) : Kids(t, o)[p] = n

(* xmlNewNode: the next number. *)
New(t) == Len(t) + 1
Make(t, kind, kids) == Append(t, [Blank EXCEPT !.kind = kind, !.kids = kids])

RECURSIVE Below(_, _)
Below(t, n) ==
  {n} \union UNION {Below(t, Kids(t, n)[i]) : i \in DOMAIN Kids(t, n)}

(* xmlFreeNode, of each node of a set, with what is below.  What a freed   *)
(* node pointed to is still in its memory.                                 *)
FreeAll(t, nodes) ==
  LET dead == UNION {Below(t, n) : n \in nodes}
  IN  [m \in DOMAIN t |-> IF m \in dead THEN [t[m] EXCEPT !.kind = "freed"] ELSE t[m]]
Free(t, n) == FreeAll(t, {n})

(* A node is freed after those of kept have been unlinked from it. *)
FreeAround(t, n, kept) ==
  Free(SetKids(t, n, SelectSeq(Kids(t, n), LAMBDA m : m \notin Range(kept))), n)

(* Mutant: the node is freed before the kids have been unlinked from it.   *)
Build_FreedFirst(t, o, p, kind, kids) ==
  Free(Replace(Make(t, kind, kids), o, p, 1, <<New(t)>>), At(t, o, p))

(* The p-th child of o gives way to a new element that takes kids from it. *)
Build(t, o, p, kind, kids) ==
  FreeAround(Replace(Make(t, kind, kids), o, p, 1, <<New(t)>>), At(t, o, p), kids)

----------------------------------------------------------------------------
(* What one iteration of a pass does: the tree it leaves, the nodes it     *)
(* pushes, those it calls itself on at once, those it frees after that,    *)
(* and where it goes on: owner and place of the next node.                 *)
Step(t, push, calls, late, owner, place) ==
  [tree |-> t, push |-> push, calls |-> calls, late |-> late, owner |-> owner,
   place |-> place]

(* The iteration of a node that fits no pattern. *)
PushOn(t, o, p) == Step(t, <<At(t, o, p)>>, <<>>, <<>>, o, p + 1)

(* The iteration that puts one node in the place p. *)
Done(t, push, calls, o, p) == Step(t, push, calls, <<>>, o, p + 1)

(* exit(-1), or a null pointer that is followed. *)
GiveUp(t) == Step(t, <<>>, <<>>, <<>>, 0, 0)
=============================================================================
