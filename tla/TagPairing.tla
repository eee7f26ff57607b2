----------------------------- MODULE TagPairing -----------------------------
(***************************************************************************)
(* What the pairing of tags means, without the stack, the tree and the     *)
(* order in which build_hierarchy_step (src/src/lxir.c) works: an open tag *)
(* may be paired once no other open tag stands between it and the nearest  *)
(* close tag of its name, close tags of other names being passed over; a   *)
(* close tag that no open tag precedes is an orphan; an open tag that is   *)
(* cut off from every close tag of its name makes the document invalid.    *)
(* The pairs may be found in any order.                                    *)
(***************************************************************************)
EXTENDS Integers, Sequences

VARIABLES
  doc,      (* the nodes: records with a kind and, for a tag, a name *)
  pending,  (* the tags that are not dealt with                      *)
  pairs,    (* <<open tag, close tag>>                               *)
  verdict   (* "running", "accepted" or "refused"                    *)

vars == <<doc, pending, pairs, verdict>>

Tags == {n \in DOMAIN doc : doc[n].kind \in {"open", "close"}}

Opens  == {n \in pending : doc[n].kind = "open"}
Closes == {n \in pending : doc[n].kind = "close"}

Start ==
  /\ pending = Tags
  /\ pairs = {}
  /\ verdict = "running"

Pairable(o, c) ==
  /\ o < c
  /\ doc[o].name = doc[c].name
  /\ \A n \in Opens : ~(o < n /\ n < c)
  /\ \A n \in Closes : o < n /\ n < c => doc[n].name # doc[o].name

PairTags ==
  /\ verdict = "running"
  /\ \E o \in Opens, c \in Closes :
       /\ Pairable(o, c)
       /\ pending' = pending \ {o, c}
       /\ pairs' = pairs \cup {<<o, c>>}
  /\ UNCHANGED <<doc, verdict>>

DropOrphan ==
  /\ verdict = "running"
  /\ \E c \in Closes :
       /\ \A o \in Opens : c < o
       /\ pending' = pending \ {c}
  /\ UNCHANGED <<doc, pairs, verdict>>

Accept ==
  /\ verdict = "running" /\ pending = {}
  /\ verdict' = "accepted"
  /\ UNCHANGED <<doc, pending, pairs>>

Refuse ==
  /\ verdict = "running"
  /\ \/ \E n \in DOMAIN doc : doc[n].kind = "unreadable"
     \/ \E o \in Opens : \A c \in Closes : ~Pairable(o, c)
  /\ verdict' = "refused"
  /\ UNCHANGED <<doc, pending, pairs>>

Next == PairTags \/ DropOrphan \/ Accept \/ Refuse

Spec == Start /\ [][Next]_vars

=============================================================================
