-------------------------- MODULE HierarchyProofs --------------------------
(***************************************************************************)
(* Proofs about the pass replace_xxx_nodes, for every set of names and     *)
(* documents of every length: first about the pairing of the tags, then    *)
(* about the tree that it leaves.                                          *)
(***************************************************************************)
EXTENDS HierarchyTree, ListsProofs, FiniteSetTheorems

(* What the phases of the pass add to the invariants the runs check: the   *)
(* nodes that the cursor has not reached are untouched, nothing is built   *)
(* from pairs before the stack is complete, and the close tag of a built   *)
(* element has left the stack.                                             *)
Phases ==
  /\ pc = "fill" =>
       \A n \in Nodes : n >= cursor => n \in Elements(kids) /\ n \notin built
  /\ pc \in {"build", "done"} => cursor = Len(doc) + 1
  /\ \A n \in Nodes : closedBy[n] # None =>
       pc # "fill" /\ n \in built /\ closedBy[n] \notin Elements(stack)

IInv ==
  /\ TypeOK
  /\ StackMatchesTree
  /\ NoTagInsideElement
  /\ ClosedByOwnName
  /\ Phases

----------------------------------------------------------------------------
(* What the steps do to the two lists. *)

LEMMA NodesAreIntegers ==
  ASSUME TypeOK
  PROVE  /\ Len(doc) \in Nat
         /\ kids \in Seq(Int)
         /\ stack \in Seq(Int)
         /\ Elements(kids) \subseteq Nodes
         /\ Elements(stack) \subseteq Nodes
<1>1. doc \in Seq(Tag \cup Leaf) /\ kids \in Seq(Nodes) /\ stack \in Seq(Nodes)
  BY DEF TypeOK
<1>2. Len(doc) \in Nat /\ Nodes \subseteq Int
  BY <1>1, LenProperties DEF Nodes
<1>3. ASSUME NEW s \in Seq(Nodes)
      PROVE  s \in Seq(Int) /\ Elements(s) \subseteq Nodes
  <2>1. Elements(s) \subseteq Nodes
    BY ElementOfSeq DEF Elements
  <2>2. Len(s) \in Nat /\ s \in [1 .. Len(s) -> Int]
    BY <1>2, LenProperties
  <2>3. QED
    BY <2>1, <2>2, SeqDef
<1>4. QED
  BY <1>1, <1>2, <1>3

LEMMA UnlinkNode ==
  ASSUME NEW s \in Seq(Int), NEW S, Elements(s) \subseteq S, Ascending(s),
         NEW e \in 1 .. Len(s)
  PROVE  /\ Unlink(s, e) \in Seq(S)
         /\ Ascending(Unlink(s, e))
         /\ Elements(Unlink(s, e)) = Elements(s) \ {s[e]}
<1>1. Unlink(s, e) \in Seq(Int)
  BY UnlinkProperties, Zenon
<1>2. Ascending(Unlink(s, e)) /\ Elements(Unlink(s, e)) = Elements(s) \ {s[e]}
  BY UnlinkAscending, Zenon
<1>3. QED
  BY <1>1, <1>2, SeqOfElements

LEMMA PushEffect ==
  ASSUME TypeOK, PushTag
  PROVE  /\ stack' \in Seq(Int) /\ Len(stack) \in Nat
         /\ Len(stack') = Len(stack) + 1
         /\ \A k \in 1 .. Len(stack) : stack'[k] = stack[k]
         /\ stack'[Len(stack) + 1] = cursor
         /\ Elements(stack') = Elements(stack) \cup {cursor}
<1>1. cursor \in Int /\ stack \in Seq(Int)
  BY NodesAreIntegers DEF TypeOK
<1>2. /\ stack' \in Seq(Int) /\ Len(stack') = Len(stack) + 1
      /\ \A k \in 1 .. Len(stack) : stack'[k] = stack[k]
      /\ stack'[Len(stack) + 1] = cursor
      /\ Len(stack) \in Nat
  BY <1>1, AppendProperties, LenProperties DEF PushTag
<1>3. Elements(stack') = Elements(stack) \cup {cursor}
  BY <1>2 DEF Elements
<1>4. QED
  BY <1>2, <1>3

(* Replacing a node by its element takes it out of the children, or makes  *)
(* it a built one.                                                         *)
LEMMA ReplaceEffect ==
  ASSUME TypeOK, Ascending(kids), NEW n \in Elements(kids), ReplaceByElement(n)
  PROVE  /\ kids' \in Seq(Nodes) /\ Ascending(kids')
         /\ \/ Elements(kids') = Elements(kids) \ {n} /\ built' = built
            \/ kids' = kids /\ built' = built \cup {n}
<1>1. CASE IsLastKid(n) /\ kids' = Unlink(kids, Len(kids)) /\ built' = built
  <2>1. Len(kids) \in 1 .. Len(kids) /\ kids[Len(kids)] = n
    BY <1>1, NodesAreIntegers, LenProperties DEF Elements, IsLastKid
  <2>2. QED
    BY <1>1, <2>1, NodesAreIntegers, UnlinkNode
<1>2. CASE kids' = kids /\ built' = built \cup {n}
  BY <1>2 DEF TypeOK
<1>3. QED
  BY <1>1, <1>2 DEF ReplaceByElement

LEMMA PosOfNode ==
  ASSUME TypeOK, NEW n \in Elements(kids)
  PROVE  PosOf(n) \in 1 .. Len(kids) /\ kids[PosOf(n)] = n
<1>1. DOMAIN kids = 1 .. Len(kids)
  BY LenProperties DEF TypeOK
<1>2. \E p \in DOMAIN kids : kids[p] = n
  BY <1>1 DEF Elements
<1>3. QED
  BY <1>1, <1>2 DEF PosOf

(* The element is given the nodes between its open tag and the first close *)
(* tag; those, and the match, are what leaves the children.                *)
LEMMA PairEffect ==
  ASSUME TypeOK, StackMatchesTree,
         NEW f \in 2 .. Len(stack), NEW m \in f .. Len(stack),
         BuildElement(f, m)
  PROVE  /\ kids' \in Seq(Nodes) /\ Ascending(kids')
         /\ Elements(kids') = {x \in Elements(kids) :
                 x <= stack[f - 1] \/ stack[f] <= x} \ {stack[m]}
         /\ \E c \in Seq(Nodes) :
              /\ inside' = [inside EXCEPT ![stack[f - 1]] = c]
              /\ Ascending(c)
              /\ Elements(c) = {x \in Elements(kids) :
                                  stack[f - 1] < x /\ x < stack[f]}
         /\ stack' \in Seq(Nodes) /\ Ascending(stack')
         /\ Elements(stack') = Elements(stack) \ {stack[f - 1], stack[m]}
<1> DEFINE entry == stack[f - 1]
           match == stack[m]
           p == PosOf(entry)
           q == PosOf(stack[f])
           r == PosOf(match)
           c == SubSeq(MoveBefore(kids, q, r), p + 1, q - 1)
<1>1. /\ kids \in Seq(Int) /\ stack \in Seq(Int)
      /\ Elements(kids) \subseteq Nodes /\ Elements(stack) \subseteq Nodes
  BY NodesAreIntegers
<1>2. Ascending(kids) /\ Ascending(stack) /\ Elements(stack) \subseteq Elements(kids)
  BY DEF StackMatchesTree
<1>3. /\ Len(stack) \in Nat /\ f - 1 \in 1 .. Len(stack)
      /\ f \in 1 .. Len(stack) /\ m \in 1 .. Len(stack)
  BY <1>1, LenProperties
<1>4. /\ entry \in Elements(stack) /\ match \in Elements(stack)
      /\ stack[f] \in Elements(stack)
  BY <1>3 DEF Elements
<1>5. /\ p \in 1 .. Len(kids) /\ kids[p] = entry
      /\ q \in 1 .. Len(kids) /\ kids[q] = stack[f]
      /\ r \in 1 .. Len(kids) /\ kids[r] = match
  BY <1>2, <1>4, PosOfNode
<1>6. /\ kids' = Without(MoveBefore(kids, q, r), p + 1, q)
      /\ inside' = [inside EXCEPT ![entry] = c]
      /\ stack' = Unlink(Unlink(stack, m), f - 1)
  BY Zenon DEF BuildElement
<1> HIDE DEF entry, match, p, q, r
<1>7. entry < stack[f] /\ stack[f] <= match
  <2>1. stack[f - 1] < stack[f]
    <3>1. f - 1 < f
      BY <1>3
    <3>2. QED
      BY <1>1, <1>2, <1>3, <3>1, AscendingOrder, Zenon
  <2>2. CASE f = m
    BY <1>1, <1>3, <2>1, <2>2 DEF entry, match
  <2>3. CASE f < m
    BY <1>1, <1>2, <1>3, <2>1, <2>3 DEF Ascending, entry, match
  <2>4. QED
    BY <2>2, <2>3
<1>8. q \in p + 1 .. Len(kids) /\ r \in q .. Len(kids)
  <2>1. kids[p] < kids[q] /\ (kids[q] < kids[r] \/ kids[q] = kids[r])
    <3>1. stack[f] \in Int /\ match \in Int
      BY <1>1, <1>3 DEF match
    <3>2. stack[f] < match \/ stack[f] = match
      BY <1>7, <3>1
    <3>3. QED
      BY <1>5, <1>7, <3>2
  <2>2. \A i, j \in 1 .. Len(kids) : (kids[i] < kids[j] => i < j)
                                     /\ (kids[i] = kids[j] => i = j)
    BY <1>1, <1>2, AscendingReflects, Zenon
  <2>3. p < q /\ (q < r \/ q = r)
    BY <1>5, <2>1, <2>2
  <2>4. QED
    BY <1>5, <2>3
<1>9. /\ kids' \in Seq(Int) /\ Ascending(kids')
      /\ Elements(kids') = {x \in Elements(kids) : x <= entry \/ stack[f] <= x}
                             \ {match}
      /\ c \in Seq(Int) /\ Ascending(c)
      /\ Elements(c) = {x \in Elements(kids) : entry < x /\ x < stack[f]}
  <2>1. /\ Without(MoveBefore(kids, q, r), p + 1, q) \in Seq(Int)
        /\ Ascending(Without(MoveBefore(kids, q, r), p + 1, q))
        /\ \A x : x \in Elements(Without(MoveBefore(kids, q, r), p + 1, q)) <=>
             /\ x \in Elements(kids) /\ x # kids[r]
             /\ x <= kids[p] \/ kids[q] <= x
        /\ c \in Seq(Int) /\ Ascending(c)
        /\ \A x : x \in Elements(c) <=>
             x \in Elements(kids) /\ kids[p] < x /\ x < kids[q]
    BY <1>1, <1>2, <1>5, <1>8, TakeContentAscending, TakeContentTaken, Zenon
  <2> HIDE DEF c
  <2>2. QED
    BY <2>1, <1>5, <1>6
<1> HIDE DEF c
<1>10. kids' \in Seq(Nodes) /\ c \in Seq(Nodes)
  <2>1. Elements(kids') \subseteq Nodes /\ Elements(c) \subseteq Nodes
    BY <1>1, <1>9
  <2>2. QED
    BY <1>9, <2>1, SeqOfElements
<1>11. /\ stack' \in Seq(Nodes) /\ Ascending(stack')
       /\ Elements(stack') = Elements(stack) \ {entry, match}
  <2> DEFINE u == Unlink(stack, m)
  <2>1. /\ u \in Seq(Int) /\ Len(u) = Len(stack) - 1
        /\ \A k \in 1 .. m - 1 : u[k] = stack[k]
    BY <1>1, <1>3, UnlinkProperties, Zenon
  <2>2. Ascending(u) /\ Elements(u) = Elements(stack) \ {match}
    BY <1>1, <1>2, <1>3, UnlinkAscending, Zenon DEF match
  <2> HIDE DEF u
  <2>3. f - 1 \in 1 .. Len(u) /\ f - 1 \in 1 .. m - 1
    BY <1>3, <2>1
  <2>4. u[f - 1] = entry
    BY <2>1, <2>3, Zenon DEF entry
  <2>5. Elements(u) \subseteq Nodes
    BY <1>1, <2>2
  <2>6. /\ Unlink(u, f - 1) \in Seq(Nodes) /\ Ascending(Unlink(u, f - 1))
        /\ Elements(Unlink(u, f - 1)) = Elements(u) \ {u[f - 1]}
    BY <2>1, <2>2, <2>3, <2>5, UnlinkNode, Zenon
  <2>7. stack' = Unlink(u, f - 1)
    BY <1>6 DEF u
  <2>8. QED
    BY <2>2, <2>4, <2>6, <2>7
<1>12. QED
  BY <1>6, <1>9, <1>10, <1>11 DEF entry, match

----------------------------------------------------------------------------
(* IInv is inductive. *)

LEMMA InitIInv == Init => IInv
<1> SUFFICES ASSUME Init PROVE IInv
  OBVIOUS
<1>1. PICK n \in 0 .. MaxNodes : doc \in [1 .. n -> Tag \cup Leaf]
  BY DEF Init
<1>2. n \in Nat /\ doc \in Seq(Tag \cup Leaf) /\ Len(doc) = n
  BY <1>1, MaxNodesAssumption, SeqDef, LenProperties
<1>3. Nodes = 1 .. n /\ Nodes \subseteq Int
  BY <1>2 DEF Nodes
<1>4. /\ kids \in Seq(Nodes) /\ Len(kids) = n
      /\ \A k \in 1 .. n : kids[k] = k
  <2>1. kids \in [1 .. n -> Nodes]
    BY <1>3 DEF Init
  <2>2. QED
    BY <2>1, <1>2, <1>3, SeqDef, LenProperties DEF Init
<1>5. stack = <<>> /\ stack \in Seq(Nodes) /\ Elements(stack) = {}
  BY DEF Init, Elements
<1>6. TypeOK
  BY <1>2, <1>3, <1>4, <1>5, EmptySeq DEF Init, TypeOK
<1>7. StackMatchesTree
  <2>1. Ascending(kids)
    BY <1>4, <1>2 DEF Ascending
  <2>2. Ascending(stack)
    BY <1>5 DEF Ascending
  <2>3. \A x \in Elements(kids) : ~(x < cursor)
    BY <1>4, <1>2 DEF Elements, Init
  <2>4. QED
    BY <1>5, <2>1, <2>2, <2>3 DEF StackMatchesTree
<1>8. NoTagInsideElement
  BY DEF NoTagInsideElement, Init, Elements
<1>9. ClosedByOwnName
  BY DEF ClosedByOwnName, Init
<1>10. Phases
  <2>1. \A k \in Nodes : k \in Elements(kids)
    BY <1>2, <1>3, <1>4 DEF Elements
  <2>2. QED
    BY <2>1 DEF Phases, Init
<1>11. QED
  BY <1>6, <1>7, <1>8, <1>9, <1>10 DEF IInv

(* What all steps leave alone. *)
LEMMA DocFixed ==
  ASSUME [Next]_vars
  PROVE  doc' = doc /\ Nodes' = Nodes /\ \A n : IsTag(n)' = IsTag(n)
<1>1. doc' = doc
  BY DEF Next, vars, Fill, Build, SkipNode, PushTag, ReplaceEmptyOrSpecial,
         RejectUnreadable, StackFilled, Return, ExitOpenWithoutClose,
         ReplaceOrphan, ExitNoMatch, Pair, BuildElement, Halted
<1>2. QED
  BY <1>1 DEF Nodes, IsTag, Kind

LEMMA TypeStep == IInv /\ [Next]_vars => TypeOK'
<1> SUFFICES ASSUME IInv, [Next]_vars PROVE TypeOK'
  OBVIOUS
<1>1. doc' = doc /\ Nodes' = Nodes
  BY DocFixed
<1>2. Len(doc) \in Nat /\ Nodes = 1 .. Len(doc) /\ cursor \in 1 .. Len(doc) + 1
  BY NodesAreIntegers DEF IInv, TypeOK, Nodes
<1> USE DEF IInv, TypeOK
<1>3. CASE UNCHANGED vars
  BY <1>1, <1>3 DEF vars
<1>4. CASE SkipNode
  BY <1>1, <1>2, <1>4 DEF SkipNode, Nodes
<1>5. CASE PushTag
  <2>1. stack' \in Seq(Nodes)
    BY <1>5, AppendProperties DEF PushTag
  <2>2. QED
    BY <1>1, <1>2, <1>5, <2>1 DEF PushTag, Nodes
<1>6. CASE ReplaceEmptyOrSpecial
  <2>1. cursor \in Elements(kids)
    BY <1>2, <1>6 DEF Phases, ReplaceEmptyOrSpecial
  <2>2. kids' \in Seq(Nodes) /\ built' \subseteq Nodes
    BY <1>6, <2>1, ReplaceEffect DEF ReplaceEmptyOrSpecial, StackMatchesTree
  <2>3. QED
    BY <1>1, <1>2, <1>6, <2>2 DEF ReplaceEmptyOrSpecial, Nodes
<1>7. CASE RejectUnreadable
  BY <1>1, <1>7 DEF RejectUnreadable
<1>8. CASE StackFilled
  BY <1>1, <1>8 DEF StackFilled
<1>9. CASE Return
  BY <1>1, <1>9 DEF Return
<1>10. CASE ExitOpenWithoutClose
  BY <1>1, <1>10 DEF ExitOpenWithoutClose
<1>11. CASE ReplaceOrphan
  <2>1. 1 \in 1 .. Len(stack)
    BY <1>11, LenProperties DEF ReplaceOrphan, FirstClose
  <2>2. stack[1] \in Elements(stack) /\ stack[1] \in Nodes
    BY <2>1, NodesAreIntegers DEF Elements
  <2>3. kids' \in Seq(Nodes) /\ built' \subseteq Nodes
    <3>1. ReplaceByElement(stack[1])
      BY <1>11 DEF ReplaceOrphan
    <3>2. Ascending(kids) /\ stack[1] \in Elements(kids)
      BY <2>2 DEF StackMatchesTree
    <3>3. /\ kids' \in Seq(Nodes)
          /\ \/ built' = built
             \/ built' = built \cup {stack[1]}
      BY <3>1, <3>2, ReplaceEffect
    <3>4. QED
      BY <2>2, <3>3
  <2>4. stack' \in Seq(Nodes)
    BY <1>11, <2>1, NodesAreIntegers, UnlinkNode
       DEF ReplaceOrphan, StackMatchesTree
  <2>5. QED
    BY <1>1, <1>11, <2>3, <2>4 DEF ReplaceOrphan
<1>12. CASE ExitNoMatch
  BY <1>1, <1>12 DEF ExitNoMatch
<1>13. CASE Pair
  <2>0. PICK f \in 2 .. Len(stack) : \E m \in f .. Len(stack) : BuildElement(f, m)
    BY <1>13 DEF Pair
  <2>1. PICK m \in f .. Len(stack) : BuildElement(f, m)
    BY <2>0
  <2>2. /\ kids' \in Seq(Nodes) /\ stack' \in Seq(Nodes)
        /\ \E c \in Seq(Nodes) : inside' = [inside EXCEPT ![stack[f - 1]] = c]
    BY <2>1, PairEffect
  <2>3. stack[f - 1] \in Nodes /\ stack[m] \in Nodes
    BY NodesAreIntegers, LenProperties DEF Elements
  <2>4. inside' \in [Nodes -> Seq(Nodes)]
    BY <2>2
  <2>5. /\ built' = built \cup {stack[f - 1]}
        /\ closedBy' = [closedBy EXCEPT ![stack[f - 1]] = stack[m]]
        /\ UNCHANGED <<cursor, pc>>
    BY <2>1 DEF BuildElement
  <2>6. QED
    BY <1>1, <2>2, <2>3, <2>4, <2>5
<1>14. CASE Halted
  BY <1>1, <1>14 DEF Halted, vars
<1>15. QED
  BY <1>3, <1>4, <1>5, <1>6, <1>7, <1>8, <1>9, <1>10, <1>11, <1>12, <1>13,
     <1>14 DEF Next, Fill, Build

(* Between the open tag at the entry f - 1 and the next one of the stack,  *)
(* the children hold no tag that waits for its partner.                    *)
LEMMA NothingPendingBetween ==
  ASSUME IInv, pc = "build", NEW f \in 2 .. Len(stack), NEW x \in Elements(kids),
         stack[f - 1] < x, x < stack[f]
  PROVE  x \notin Elements(stack) /\ (IsTag(x) => x \in built)
<1>1. /\ stack \in Seq(Int) /\ Elements(kids) \subseteq Nodes
      /\ Len(doc) \in Nat /\ Len(stack) \in Nat
  BY NodesAreIntegers, LenProperties DEF IInv
<1>2. Ascending(stack) /\ f - 1 \in 1 .. Len(stack) /\ f \in 1 .. Len(stack)
  BY <1>1 DEF IInv, StackMatchesTree
<1>3. ASSUME NEW e \in 1 .. Len(stack), stack[e] = x PROVE FALSE
  <2>1. stack[f - 1] < stack[e] /\ stack[e] < stack[f]
    BY <1>3
  <2>2. f - 1 < e /\ e < f
    BY <1>1, <1>2, <2>1, AscendingReflects
  <2>3. QED
    BY <2>2, <1>2
<1>4. x \notin Elements(stack)
  BY <1>3 DEF Elements
<1>5. x < cursor
  BY <1>1 DEF IInv, Phases, Nodes
<1>6. QED
  BY <1>4, <1>5 DEF IInv, StackMatchesTree

(* A node that is on the stack, and what the two Replace actions do to it. *)
LEMMA TopOfStack ==
  ASSUME IInv, FirstClose(1)
  PROVE  /\ 1 \in 1 .. Len(stack)
         /\ stack[1] \in Elements(stack)
         /\ stack[1] \in Elements(kids)
         /\ stack[1] \notin built
<1>1. 1 \in 1 .. Len(stack)
  BY LenProperties DEF IInv, TypeOK, FirstClose
<1>2. stack[1] \in Elements(stack)
  BY <1>1 DEF Elements
<1>3. QED
  BY <1>1, <1>2 DEF IInv, StackMatchesTree

LEMMA StackStep == IInv /\ [Next]_vars => StackMatchesTree'
<1> SUFFICES ASSUME IInv, [Next]_vars PROVE StackMatchesTree'
  OBVIOUS
<1>1. doc' = doc /\ Nodes' = Nodes /\ \A n : IsTag(n)' = IsTag(n)
  BY DocFixed
<1>2. /\ Len(doc) \in Nat /\ Nodes = 1 .. Len(doc)
      /\ cursor \in 1 .. Len(doc) + 1
      /\ kids \in Seq(Int) /\ stack \in Seq(Int)
      /\ Elements(kids) \subseteq Nodes /\ Elements(stack) \subseteq Nodes
  BY NodesAreIntegers DEF IInv, TypeOK, Nodes
<1>3. /\ Ascending(kids) /\ Ascending(stack)
      /\ \A n : n \in Elements(stack) <=>
           n \in Elements(kids) /\ IsTag(n) /\ n \notin built /\ n < cursor
  BY DEF IInv, StackMatchesTree
<1>4. TypeOK
  BY DEF IInv
(* It is enough to follow the three parts of the invariant. *)
<1>5. ASSUME Ascending(kids)', Ascending(stack)',
             \A n \in Nodes :
               (n \in Elements(stack))' <=>
                 /\ (n \in Elements(kids))'
                 /\ IsTag(n) /\ n \notin built' /\ n < cursor'
      PROVE  StackMatchesTree'
  <2>1. Elements(stack)' \subseteq Nodes /\ Elements(kids)' \subseteq Nodes
    <3>1. TypeOK'
      BY TypeStep
    <3>2. stack' \in Seq(Nodes) /\ kids' \in Seq(Nodes)
      BY <1>1, <3>1 DEF TypeOK
    <3>3. QED
      BY <3>2, ElementOfSeq DEF Elements
  <2>2. QED
    BY <1>1, <1>5, <2>1 DEF StackMatchesTree
<1>6. CASE UNCHANGED <<kids, stack, built, cursor>>
  BY <1>3, <1>5, <1>6
<1>7. CASE SkipNode
  <2>1. ~IsTag(cursor)
    BY <1>7 DEF SkipNode, IsTag
  <2>2. QED
    BY <1>2, <1>3, <1>5, <1>7, <2>1 DEF SkipNode
<1>8. CASE PushTag
  <2>1. cursor \in Elements(kids) /\ cursor \notin built /\ IsTag(cursor)
    BY <1>2, <1>8 DEF PushTag, IInv, Phases
  <2>2. /\ stack' \in Seq(Int) /\ Len(stack') = Len(stack) + 1
        /\ \A k \in 1 .. Len(stack) : stack'[k] = stack[k]
        /\ stack'[Len(stack) + 1] = cursor
        /\ Len(stack) \in Nat
        /\ Elements(stack') = Elements(stack) \cup {cursor}
    BY <1>4, <1>8, PushEffect
  <2>3. \A k \in 1 .. Len(stack) : stack[k] < cursor
    BY <1>3 DEF Elements
  <2>4. Ascending(stack)'
    <3>1. \A i, j \in 1 .. Len(stack) : i < j => stack[i] < stack[j]
      BY <1>3 DEF Ascending
    <3>2. ASSUME NEW i \in 1 .. Len(stack'), NEW j \in 1 .. Len(stack'), i < j
          PROVE  stack'[i] < stack'[j]
      <4>1. i \in 1 .. Len(stack)
        BY <2>2, <3>2
      <4>2. CASE j \in 1 .. Len(stack)
        BY <2>2, <3>1, <3>2, <4>1, <4>2
      <4>3. CASE j = Len(stack) + 1
        BY <2>2, <2>3, <4>1, <4>3
      <4>4. QED
        BY <2>2, <4>2, <4>3
    <3>3. QED
      BY <3>2 DEF Ascending
  <2>5. Elements(stack)' = Elements(stack) \cup {cursor}
    BY <2>2
  <2>6. UNCHANGED <<kids, built>> /\ cursor' = cursor + 1
    BY <1>8 DEF PushTag
  <2>7. QED
    BY <1>2, <1>3, <1>5, <2>1, <2>4, <2>5, <2>6
<1>9. CASE ReplaceEmptyOrSpecial
  <2>1. cursor \in Elements(kids) /\ ~IsTag(cursor)
    BY <1>2, <1>9 DEF ReplaceEmptyOrSpecial, IInv, Phases, IsTag
  <2>2. /\ Ascending(kids')
        /\ \/ Elements(kids') = Elements(kids) \ {cursor} /\ built' = built
           \/ kids' = kids /\ built' = built \cup {cursor}
    BY <1>3, <1>4, <1>9, <2>1, ReplaceEffect DEF ReplaceEmptyOrSpecial
  <2>3. UNCHANGED stack /\ cursor' = cursor + 1
    BY <1>9 DEF ReplaceEmptyOrSpecial
  <2>4. QED
    BY <1>2, <1>3, <1>5, <2>1, <2>2, <2>3
<1>10. CASE ReplaceOrphan
  <2>1. /\ 1 \in 1 .. Len(stack) /\ stack[1] \in Elements(kids)
    BY <1>10, TopOfStack DEF ReplaceOrphan
  <2>2. /\ Ascending(kids')
        /\ \/ Elements(kids') = Elements(kids) \ {stack[1]} /\ built' = built
           \/ kids' = kids /\ built' = built \cup {stack[1]}
    BY <1>3, <1>4, <1>10, <2>1, ReplaceEffect DEF ReplaceOrphan
  <2>3. Ascending(stack') /\ Elements(stack') = Elements(stack) \ {stack[1]}
    BY <1>2, <1>3, <1>10, <2>1, UnlinkNode DEF ReplaceOrphan
  <2>4. UNCHANGED cursor
    BY <1>10 DEF ReplaceOrphan
  <2>5. QED
    BY <1>3, <1>5, <2>2, <2>3, <2>4
<1>11. CASE Pair
  <2>0. PICK f \in 2 .. Len(stack) : \E m \in f .. Len(stack) : BuildElement(f, m)
    BY <1>11 DEF Pair
  <2>1. PICK m \in f .. Len(stack) : BuildElement(f, m)
    BY <2>0
  <2>2. pc = "build"
    BY <1>11 DEF Pair
  <2>3. /\ Ascending(kids') /\ Ascending(stack')
        /\ Elements(kids') = {x \in Elements(kids) :
                x <= stack[f - 1] \/ stack[f] <= x} \ {stack[m]}
        /\ Elements(stack') = Elements(stack) \ {stack[f - 1], stack[m]}
    BY <1>4, <2>1, PairEffect DEF IInv
  <2>4. built' = built \cup {stack[f - 1]} /\ UNCHANGED cursor
    BY <2>1 DEF BuildElement
  <2>5. ASSUME NEW n \in Elements(stack)
        PROVE  n <= stack[f - 1] \/ stack[f] <= n
    <3>1. n \in Elements(kids) /\ n \in Int
      BY <1>2, <1>3
    <3>2. stack[f - 1] \in Int /\ stack[f] \in Int
      BY <1>2, LenProperties
    <3>3. QED
      BY <3>1, <3>2, <2>2, NothingPendingBetween
  <2>6. QED
    BY <1>3, <1>5, <2>3, <2>4, <2>5
<1>12. QED
  BY <1>6, <1>7, <1>8, <1>9, <1>10, <1>11
     DEF Next, vars, Fill, Build, RejectUnreadable, StackFilled, Return,
         ExitOpenWithoutClose, ExitNoMatch, Halted

(* What the pairing of a step changes, in one statement. *)
LEMMA PairFacts ==
  ASSUME IInv, Pair
  PROVE  \E f \in 2 .. Len(stack) : \E m \in f .. Len(stack) :
           /\ FirstClose(f) /\ Matches(f, m)
           /\ stack[f - 1] \in Nodes /\ stack[m] \in Nodes
           /\ stack[f - 1] \in Elements(stack) /\ stack[m] \in Elements(stack)
           /\ stack[f - 1] < stack[f] /\ stack[f] <= stack[m]
           /\ stack[f - 1] \notin built
           /\ built' = built \cup {stack[f - 1]}
           /\ closedBy' = [closedBy EXCEPT ![stack[f - 1]] = stack[m]]
           /\ \E c \in Seq(Nodes) :
                /\ inside' = [inside EXCEPT ![stack[f - 1]] = c]
                /\ Elements(c) = {x \in Elements(kids) :
                                    stack[f - 1] < x /\ x < stack[f]}
           /\ Elements(stack') = Elements(stack) \ {stack[f - 1], stack[m]}
           /\ UNCHANGED <<cursor, pc>>
<1>1. PICK f \in 2 .. Len(stack) : \E m \in f .. Len(stack) :
        FirstClose(f) /\ Matches(f, m) /\ BuildElement(f, m)
  BY DEF Pair
<1>2. PICK m \in f .. Len(stack) :
        FirstClose(f) /\ Matches(f, m) /\ BuildElement(f, m)
  BY <1>1
<1>3. TypeOK /\ StackMatchesTree
  BY DEF IInv
<1>4. /\ stack \in Seq(Int) /\ Len(stack) \in Nat
      /\ Elements(stack) \subseteq Nodes /\ Ascending(stack)
  BY <1>3, NodesAreIntegers, LenProperties DEF StackMatchesTree
<1>5. /\ f - 1 \in 1 .. Len(stack) /\ f \in 1 .. Len(stack)
      /\ m \in 1 .. Len(stack)
  BY <1>4
<1>6. stack[f - 1] \in Elements(stack) /\ stack[m] \in Elements(stack)
  BY <1>5 DEF Elements
<1>7. stack[f - 1] < stack[f] /\ stack[f] <= stack[m]
  <2>1. stack[f - 1] < stack[f]
    BY <1>4, <1>5 DEF Ascending
  <2>2. CASE f = m
    BY <1>4, <1>5, <2>2, <2>1, LenProperties
  <2>3. CASE f < m
    BY <1>4, <1>5, <2>1, <2>3 DEF Ascending
  <2>4. QED
    BY <2>1, <2>2, <2>3
<1>8. stack[f - 1] \notin built
  BY <1>3, <1>6 DEF StackMatchesTree
<1>9. /\ built' = built \cup {stack[f - 1]}
      /\ closedBy' = [closedBy EXCEPT ![stack[f - 1]] = stack[m]]
      /\ UNCHANGED <<cursor, pc>>
  BY <1>2 DEF BuildElement
<1>10. /\ \E c \in Seq(Nodes) :
            /\ inside' = [inside EXCEPT ![stack[f - 1]] = c]
            /\ Elements(c) = {x \in Elements(kids) :
                                stack[f - 1] < x /\ x < stack[f]}
       /\ Elements(stack') = Elements(stack) \ {stack[f - 1], stack[m]}
  BY <1>2, <1>3, PairEffect
<1>11. stack[f - 1] \in Nodes /\ stack[m] \in Nodes
  BY <1>4, <1>6
<1> HIDE DEF Nodes
<1>12. QED
  BY <1>2, <1>6, <1>7, <1>8, <1>9, <1>10, <1>11

LEMMA NoTagStep == IInv /\ [Next]_vars => NoTagInsideElement'
<1> SUFFICES ASSUME IInv, [Next]_vars PROVE NoTagInsideElement'
  OBVIOUS
<1>1. doc' = doc /\ Nodes' = Nodes /\ \A n : IsTag(n)' = IsTag(n)
  BY DocFixed
<1>2. \A n \in Nodes : \A x \in Elements(inside[n]) : IsTag(x) => x \in built
  BY DEF IInv, NoTagInsideElement
<1>3. CASE UNCHANGED inside /\ built \subseteq built'
  BY <1>1, <1>2, <1>3 DEF NoTagInsideElement
<1>4. CASE ReplaceEmptyOrSpecial \/ ReplaceOrphan
  BY <1>3, <1>4 DEF ReplaceEmptyOrSpecial, ReplaceOrphan, ReplaceByElement
<1>5. CASE Pair
  <2>0. PICK f \in 2 .. Len(stack) :
          /\ stack[f - 1] \in Nodes
          /\ built' = built \cup {stack[f - 1]}
          /\ \E c \in Seq(Nodes) :
               /\ inside' = [inside EXCEPT ![stack[f - 1]] = c]
               /\ Elements(c) = {x \in Elements(kids) :
                                   stack[f - 1] < x /\ x < stack[f]}
    BY <1>5, PairFacts
  <2>1. PICK c \in Seq(Nodes) :
          /\ inside' = [inside EXCEPT ![stack[f - 1]] = c]
          /\ Elements(c) = {x \in Elements(kids) :
                              stack[f - 1] < x /\ x < stack[f]}
    BY <2>0
  <2>2. \A x \in Elements(c) : IsTag(x) => x \in built
    BY <1>5, <2>1, NothingPendingBetween DEF Pair
  <2>3. \A n \in Nodes : inside'[n] = IF n = stack[f - 1] THEN c ELSE inside[n]
    BY <2>1 DEF IInv, TypeOK
  <2>4. \A n \in Nodes : \A x \in Elements(inside'[n]) : IsTag(x) => x \in built
    BY <1>2, <2>2, <2>3
  <2>5. QED
    BY <1>1, <2>0, <2>4 DEF NoTagInsideElement
<1>6. QED
  BY <1>3, <1>4, <1>5
     DEF Next, vars, Fill, Build, SkipNode, PushTag, RejectUnreadable,
         StackFilled, Return, ExitOpenWithoutClose, ExitNoMatch, Halted

LEMMA PhasesStep == IInv /\ [Next]_vars => Phases'
<1> SUFFICES ASSUME IInv, [Next]_vars PROVE Phases'
  OBVIOUS
<1>1. doc' = doc /\ Nodes' = Nodes /\ \A n : IsTag(n)' = IsTag(n)
  BY DocFixed
<1>2. /\ Len(doc) \in Nat /\ Nodes = 1 .. Len(doc)
      /\ cursor \in 1 .. Len(doc) + 1
      /\ Elements(stack) \subseteq Nodes
  BY NodesAreIntegers DEF IInv, TypeOK, Nodes
<1>3. TypeOK /\ StackMatchesTree /\ Phases
  BY DEF IInv
<1>4. CASE SkipNode
  BY <1>1, <1>2, <1>3, <1>4 DEF SkipNode, Phases
<1>5. CASE PushTag
  <2>1. \A n \in Nodes : closedBy[n] = None
    BY <1>3, <1>5 DEF PushTag, Phases
  <2>2. QED
    BY <1>1, <1>2, <1>3, <1>5, <2>1 DEF PushTag, Phases
<1>6. CASE ReplaceEmptyOrSpecial
  <2>1. cursor \in Elements(kids)
    BY <1>2, <1>3, <1>6 DEF ReplaceEmptyOrSpecial, Phases
  <2>2. \/ Elements(kids') = Elements(kids) \ {cursor} /\ built' = built
        \/ kids' = kids /\ built' = built \cup {cursor}
    BY <1>3, <1>6, <2>1, ReplaceEffect
       DEF ReplaceEmptyOrSpecial, StackMatchesTree
  <2>3. \A n \in Nodes : n >= cursor + 1 =>
          n \in Elements(kids') /\ n \notin built'
    BY <1>2, <1>3, <1>6, <2>2 DEF ReplaceEmptyOrSpecial, Phases
  <2>4. QED
    BY <1>1, <1>3, <1>6, <2>3 DEF ReplaceEmptyOrSpecial, Phases
<1>7. CASE RejectUnreadable \/ StackFilled
  BY <1>1, <1>2, <1>3, <1>7 DEF RejectUnreadable, StackFilled, Phases
<1>8. CASE Return \/ ExitOpenWithoutClose \/ ExitNoMatch
  BY <1>1, <1>3, <1>8 DEF Return, ExitOpenWithoutClose, ExitNoMatch, Phases
<1>9. CASE ReplaceOrphan
  <2>1. /\ 1 \in 1 .. Len(stack) /\ stack[1] \in Elements(kids)
    BY <1>9, TopOfStack DEF ReplaceOrphan
  <2>2. Elements(stack') = Elements(stack) \ {stack[1]}
    BY <1>3, <1>9, <2>1, NodesAreIntegers, UnlinkNode
       DEF ReplaceOrphan, StackMatchesTree
  <2>3. built \subseteq built'
    BY <1>9 DEF ReplaceOrphan, ReplaceByElement
  <2>4. pc = "build" /\ UNCHANGED <<closedBy, cursor, pc>>
    BY <1>9 DEF ReplaceOrphan
  <2>5. QED
    BY <1>1, <1>3, <2>2, <2>3, <2>4 DEF Phases
<1>10. CASE Pair
  <2>1. PICK f \in 2 .. Len(stack) : \E m \in f .. Len(stack) :
          /\ stack[f - 1] \in Nodes
          /\ built' = built \cup {stack[f - 1]}
          /\ closedBy' = [closedBy EXCEPT ![stack[f - 1]] = stack[m]]
          /\ Elements(stack') = Elements(stack) \ {stack[f - 1], stack[m]}
          /\ UNCHANGED <<cursor, pc>>
    BY <1>10, PairFacts DEF IInv
  <2>2. PICK m \in f .. Len(stack) :
          /\ closedBy' = [closedBy EXCEPT ![stack[f - 1]] = stack[m]]
          /\ Elements(stack') = Elements(stack) \ {stack[f - 1], stack[m]}
          /\ UNCHANGED <<cursor, pc>>
    BY <2>1
  <2>3. pc = "build"
    BY <1>10 DEF Pair
  <2>4. \A n \in Nodes : closedBy'[n] # None =>
          n \in built' /\ closedBy'[n] \notin Elements(stack')
    BY <1>3, <2>1, <2>2 DEF TypeOK, Phases
  <2>5. QED
    BY <1>1, <1>3, <2>2, <2>3, <2>4 DEF Phases
<1>11. CASE UNCHANGED vars
  BY <1>1, <1>3, <1>11 DEF vars, Phases
<1>12. QED
  BY <1>4, <1>5, <1>6, <1>7, <1>8, <1>9, <1>10, <1>11
     DEF Next, Fill, Build, Halted

LEMMA ClosedByStep == IInv /\ [Next]_vars => ClosedByOwnName'
<1> SUFFICES ASSUME IInv, [Next]_vars PROVE ClosedByOwnName'
  OBVIOUS
<1>1. doc' = doc /\ Nodes' = Nodes
  BY DocFixed
<1>2. TypeOK /\ ClosedByOwnName /\ Phases
  BY DEF IInv
<1>3. CASE UNCHANGED <<inside, closedBy>> /\ built' \subseteq Nodes
  <2>1. \A n \in built' : closedBy[n] # None => n \in built
    BY <1>2, <1>3 DEF Phases
  <2>2. QED
    BY <1>1, <1>2, <1>3, <2>1 DEF ClosedByOwnName
<1>4. CASE Pair
  <2>1. PICK f \in 2 .. Len(stack) : \E m \in f .. Len(stack) :
          /\ FirstClose(f) /\ Matches(f, m)
          /\ stack[f - 1] \in Nodes /\ stack[m] \in Nodes
          /\ stack[m] \in Elements(stack)
          /\ stack[f - 1] < stack[f] /\ stack[f] <= stack[m]
          /\ built' = built \cup {stack[f - 1]}
          /\ closedBy' = [closedBy EXCEPT ![stack[f - 1]] = stack[m]]
          /\ \E c \in Seq(Nodes) :
               /\ inside' = [inside EXCEPT ![stack[f - 1]] = c]
               /\ Elements(c) = {x \in Elements(kids) :
                                   stack[f - 1] < x /\ x < stack[f]}
    BY <1>4, PairFacts
  <2>2. PICK m \in f .. Len(stack) :
          /\ Matches(f, m)
          /\ stack[m] \in Elements(stack)
          /\ stack[f] <= stack[m]
          /\ closedBy' = [closedBy EXCEPT ![stack[f - 1]] = stack[m]]
    BY <2>1
  <2>3. PICK c \in Seq(Nodes) :
          /\ inside' = [inside EXCEPT ![stack[f - 1]] = c]
          /\ Elements(c) = {x \in Elements(kids) :
                              stack[f - 1] < x /\ x < stack[f]}
    BY <2>1
  <2> DEFINE entry == stack[f - 1]
             match == stack[m]
  <2>4. /\ entry \in Nodes /\ built' = built \cup {entry}
        /\ doc[match] = [kind |-> "close", name |-> doc[entry].name]
        /\ inside'[entry] = c /\ closedBy'[entry] = match
        /\ \A n \in Nodes \ {entry} :
             inside'[n] = inside[n] /\ closedBy'[n] = closedBy[n]
    BY <1>2, <2>1, <2>2, <2>3 DEF Matches, TypeOK
  <2>5. \A n \in Nodes : closedBy[n] # None => n \in built /\ closedBy[n] # match
    BY <1>2, <2>2 DEF Phases
  <2>6. \A x \in Elements(c) : entry < x /\ x < match
    <3>1. /\ Elements(kids) \subseteq Int /\ stack[f] \in Int /\ match \in Int
      BY <1>2, NodesAreIntegers, LenProperties DEF Nodes
    <3>2. QED
      BY <2>2, <2>3, <3>1
  <2>7. built' \subseteq Nodes
    BY <1>2, <2>4 DEF TypeOK
  <2> HIDE DEF entry, match
  <2>8. ASSUME NEW n \in built', closedBy'[n] # None
        PROVE  /\ doc[closedBy'[n]] = [kind |-> "close", name |-> doc[n].name]
               /\ \A x \in Elements(inside'[n]) : n < x /\ x < closedBy'[n]
               /\ \A o \in built' : closedBy'[o] = closedBy'[n] => o = n
    <3>1. CASE n = entry
      BY <2>4, <2>5, <2>6, <2>7, <3>1, <2>8
    <3>2. CASE n # entry
      <4>1. /\ n \in built /\ closedBy[n] # None /\ closedBy[n] # match
            /\ closedBy'[n] = closedBy[n] /\ inside'[n] = inside[n]
        BY <2>4, <2>5, <2>7, <2>8, <3>2
      <4>2. \A o \in built' : closedBy'[o] = closedBy[n] => o = n
        <5> SUFFICES ASSUME NEW o \in built', closedBy'[o] = closedBy[n]
                     PROVE  o = n
          OBVIOUS
        <5>1. o # entry
          BY <2>4, <4>1
        <5>2. o \in built /\ closedBy'[o] = closedBy[o]
          BY <2>4, <2>7, <5>1
        <5>3. QED
          BY <1>2, <4>1, <5>2 DEF ClosedByOwnName
      <4>3. QED
        BY <1>2, <4>1, <4>2 DEF ClosedByOwnName
    <3>3. QED
      BY <3>1, <3>2
  <2>9. QED
    BY <1>1, <2>8 DEF ClosedByOwnName
<1>5. built' \subseteq Nodes
  BY <1>1, TypeStep DEF TypeOK
<1>6. QED
  BY <1>3, <1>4, <1>5
     DEF Next, vars, Fill, Build, SkipNode, PushTag, ReplaceEmptyOrSpecial,
         RejectUnreadable, StackFilled, Return, ExitOpenWithoutClose,
         ReplaceOrphan, ExitNoMatch, Halted

LEMMA StepIInv == IInv /\ [Next]_vars => IInv'
<1> SUFFICES ASSUME IInv, [Next]_vars PROVE IInv'
  OBVIOUS
<1>1. TypeOK'
  BY TypeStep
<1>2. StackMatchesTree'
  BY StackStep
<1>3. NoTagInsideElement'
  BY NoTagStep
<1>4. ClosedByOwnName'
  BY ClosedByStep
<1>5. Phases'
  BY PhasesStep
<1>6. QED
  BY <1>1, <1>2, <1>3, <1>4, <1>5 DEF IInv

LEMMA IInvAlways == Spec => []IInv
  BY InitIInv, StepIInv, PTL DEF Spec

----------------------------------------------------------------------------

(* Every variable of the pass keeps its type on every document: an element *)
(* only holds nodes of the document and only tags it has go on the stack.  *)
THEOREM TypeCorrect == Spec => []TypeOK
<1>1. IInv => TypeOK
  BY DEF IInv
<1>2. QED
  BY <1>1, IInvAlways, PTL

(* build_hierarchy_step moves a match in the tree and not in the stack, and *)
(* still both keep listing the same pending tags in document order.        *)
THEOREM StackAndTreeAgree == Spec => []StackMatchesTree
<1>1. IInv => StackMatchesTree
  BY DEF IInv
<1>2. QED
  BY <1>1, IInvAlways, PTL

(* The siblings that become the content of an element never include a tag  *)
(* that still waits for its partner.                                       *)
THEOREM NoPendingTagInside == Spec => []NoTagInsideElement
<1>1. IInv => NoTagInsideElement
  BY DEF IInv
<1>2. QED
  BY <1>1, IInvAlways, PTL

(* Every element is ended by a close tag of its own name, which ends no    *)
(* other, and holds only nodes from between its two tags.                  *)
THEOREM ElementsClosedByOwnName == Spec => []ClosedByOwnName
<1>1. IInv => ClosedByOwnName
  BY DEF IInv
<1>2. QED
  BY <1>1, IInvAlways, PTL

(* An element keeps its content and its "close-*" attributes for ever.     *)
THEOREM ElementsAreFinal == Spec => BuiltIsFinal
<1> DEFINE Kept == \A n \in built : /\ n \in built'
                                    /\ inside'[n] = inside[n]
                                    /\ closedBy'[n] = closedBy[n]
<1>1. IInv /\ [Next]_vars => [Kept]_vars
  <2> SUFFICES ASSUME IInv, Next PROVE Kept
    BY DEF vars
  <2>1. CASE UNCHANGED <<inside, closedBy>> /\ built \subseteq built'
    BY <2>1
  <2>2. CASE Pair
    <3>1. PICK f \in 2 .. Len(stack) : \E m \in f .. Len(stack) :
            /\ stack[f - 1] \in Nodes /\ stack[f - 1] \notin built
            /\ built' = built \cup {stack[f - 1]}
            /\ closedBy' = [closedBy EXCEPT ![stack[f - 1]] = stack[m]]
            /\ \E c \in Seq(Nodes) : inside' = [inside EXCEPT ![stack[f - 1]] = c]
      BY <2>2, PairFacts
    <3>2. QED
      BY <3>1 DEF IInv, TypeOK
  <2>3. CASE ReplaceEmptyOrSpecial \/ ReplaceOrphan
    BY <2>1, <2>3 DEF ReplaceEmptyOrSpecial, ReplaceOrphan, ReplaceByElement
  <2>4. QED
    BY <2>1, <2>2, <2>3
       DEF Next, vars, Fill, Build, SkipNode, PushTag, RejectUnreadable,
           StackFilled, Return, ExitOpenWithoutClose, ExitNoMatch, Halted
<1> HIDE DEF Kept
<1>2. Spec => [][Kept]_vars
  BY <1>1, IInvAlways, PTL DEF Spec
<1>3. QED
  BY <1>2 DEF BuiltIsFinal, Kept

----------------------------------------------------------------------------
(* The refinement of TagPairing, step by step. *)

LEMMA PairingInit == Init => Pairing!Start
<1> SUFFICES ASSUME Init PROVE Pairing!Start
  OBVIOUS
<1>1. IInv
  BY InitIInv
<1>2. /\ Len(doc) \in Nat /\ DOMAIN doc = 1 .. Len(doc)
      /\ stack = <<>> /\ cursor = 1 /\ built = {} /\ pc = "fill"
  BY <1>1, NodesAreIntegers, LenProperties DEF IInv, TypeOK, Init
<1>3. PendingTags = Pairing!Tags
  BY <1>2 DEF PendingTags, Pairing!Tags, Elements, IsTag, Kind
<1>4. TagPairs = {}
  BY <1>2 DEF TagPairs
<1>5. QED
  BY <1>2, <1>3, <1>4 DEF Pairing!Start, Verdict

(* What is pending while the stack is filled, and after. *)
LEMMA PendingWhenBuilding ==
  ASSUME IInv, pc \in {"build", "done"}
  PROVE  PendingTags = Elements(stack)
  BY NodesAreIntegers DEF IInv, Phases, PendingTags

LEMMA PairingStep ==
  IInv /\ IInv' /\ [Next]_vars => [Pairing!Next]_(Pairing!vars)
<1> SUFFICES ASSUME IInv, IInv', [Next]_vars
             PROVE  [Pairing!Next]_(Pairing!vars)
  OBVIOUS
<1>1. /\ doc' = doc /\ Nodes' = Nodes /\ \A n : IsTag(n)' = IsTag(n)
      /\ \A n : Kind(n)' = Kind(n)
  BY DocFixed DEF Kind
<1>2. /\ Len(doc) \in Nat /\ Nodes = 1 .. Len(doc) /\ DOMAIN doc = 1 .. Len(doc)
      /\ cursor \in 1 .. Len(doc) + 1
      /\ kids \in Seq(Int) /\ stack \in Seq(Int) /\ Len(stack) \in Nat
      /\ Elements(stack) \subseteq Nodes
  BY NodesAreIntegers, LenProperties DEF IInv, TypeOK, Nodes
<1>3. TypeOK /\ StackMatchesTree /\ Phases /\ Ascending(stack)
  BY DEF IInv, StackMatchesTree
<1>4. ASSUME PendingTags' = PendingTags, TagPairs' = TagPairs, Verdict' = Verdict
      PROVE  [Pairing!Next]_(Pairing!vars)
  BY <1>1, <1>4 DEF Pairing!vars
(* An element with no close tag makes no pair. *)
<1>5. ASSUME closedBy' = closedBy, \A n \in built' \ built : n \in Nodes,
             built \subseteq built'
      PROVE  TagPairs' = TagPairs
  <2>1. \A n \in Nodes : closedBy[n] # None => n \in built
    BY <1>3 DEF Phases
  <2>2. {o \in built' : closedBy[o] # None} = {o \in built : closedBy[o] # None}
    BY <1>5, <2>1
  <2>3. QED
    BY <1>5, <2>2 DEF TagPairs
<1>6. CASE UNCHANGED vars
  BY <1>1, <1>4, <1>6 DEF vars, PendingTags, TagPairs, Verdict
<1>7. CASE SkipNode
  <2>1. PendingTags' = PendingTags
    BY <1>1, <1>2, <1>7 DEF SkipNode, PendingTags, IsTag, Kind
  <2>2. QED
    BY <1>4, <1>5, <1>7, <2>1 DEF SkipNode, Verdict
<1>8. CASE PushTag
  <2>1. Elements(stack') = Elements(stack) \cup {cursor}
    BY <1>3, <1>8, PushEffect
  <2>2. PendingTags' = PendingTags
    BY <1>1, <1>2, <1>8, <2>1 DEF PushTag, PendingTags
  <2>3. QED
    BY <1>4, <1>5, <1>8, <2>2 DEF PushTag, Verdict
<1>9. CASE ReplaceEmptyOrSpecial
  <2>1. PendingTags' = PendingTags
    BY <1>1, <1>2, <1>9 DEF ReplaceEmptyOrSpecial, PendingTags, IsTag, Kind
  <2>2. TagPairs' = TagPairs
    BY <1>2, <1>5, <1>9 DEF ReplaceEmptyOrSpecial, ReplaceByElement
  <2>3. QED
    BY <1>4, <1>9, <2>1, <2>2 DEF ReplaceEmptyOrSpecial, Verdict
<1>10. CASE RejectUnreadable
  <2>1. \E n \in DOMAIN doc : doc[n].kind = "unreadable"
    BY <1>2, <1>10 DEF RejectUnreadable, Kind
  <2>2. /\ PendingTags' = PendingTags /\ TagPairs' = TagPairs
        /\ Verdict = "running" /\ Verdict' = "refused"
    BY <1>1, <1>10 DEF RejectUnreadable, PendingTags, TagPairs, Verdict
  <2>3. Pairing!Refuse
    BY <1>1, <2>1, <2>2 DEF Pairing!Refuse
  <2>4. QED
    BY <2>3 DEF Pairing!Next
<1>11. CASE StackFilled
  BY <1>1, <1>4, <1>11 DEF StackFilled, PendingTags, TagPairs, Verdict
<1>12. CASE Return
  <2>1. PendingTags = {}
    BY <1>12, PendingWhenBuilding DEF Return, Elements
  <2>2. /\ PendingTags' = PendingTags /\ TagPairs' = TagPairs
        /\ Verdict = "running" /\ Verdict' = "accepted"
    BY <1>1, <1>12 DEF Return, PendingTags, TagPairs, Verdict
  <2>3. Pairing!Accept
    BY <1>1, <2>1, <2>2 DEF Pairing!Accept
  <2>4. QED
    BY <2>3 DEF Pairing!Next
<1>13. CASE ExitOpenWithoutClose
  <2>1. PendingTags = Elements(stack)
    BY <1>13, PendingWhenBuilding DEF ExitOpenWithoutClose
  <2>2. \A n \in Elements(stack) : doc[n].kind = "open"
    BY <1>2, <1>13 DEF ExitOpenWithoutClose, Elements, Kind
  <2>3. 1 \in 1 .. Len(stack)
    BY <1>2, <1>13, EmptySeq DEF ExitOpenWithoutClose
  <2>4. stack[1] \in Pairing!Opens
    BY <2>1, <2>2, <2>3 DEF Pairing!Opens, Elements
  <2>5. Pairing!Closes = {}
    BY <2>1, <2>2 DEF Pairing!Closes
  <2>6. /\ PendingTags' = PendingTags /\ TagPairs' = TagPairs
        /\ Verdict = "running" /\ Verdict' = "refused"
    BY <1>1, <1>13 DEF ExitOpenWithoutClose, PendingTags, TagPairs, Verdict
  <2>7. Pairing!Refuse
    BY <1>1, <2>4, <2>5, <2>6 DEF Pairing!Refuse
  <2>8. QED
    BY <2>7 DEF Pairing!Next
<1>14. CASE Halted
  BY <1>6, <1>14 DEF Halted
<1>15. CASE ReplaceOrphan
  <2>1. /\ 1 \in 1 .. Len(stack) /\ stack[1] \in Elements(stack)
    BY <1>15, TopOfStack DEF ReplaceOrphan
  <2>2. PendingTags = Elements(stack) /\ PendingTags' = Elements(stack')
    <3>1. pc = "build" /\ pc' = "build"
      BY <1>15 DEF ReplaceOrphan
    <3>2. cursor = Len(doc) + 1 /\ cursor' = cursor
      BY <1>3, <1>15, <3>1 DEF ReplaceOrphan, Phases
    <3>3. QED
      BY <1>1, <1>2, <3>2 DEF PendingTags
  <2>3. Elements(stack') = Elements(stack) \ {stack[1]}
    BY <1>2, <1>3, <1>15, <2>1, UnlinkNode DEF ReplaceOrphan
  <2>4. stack[1] \in Pairing!Closes
    BY <1>15, <2>1, <2>2 DEF ReplaceOrphan, FirstClose, Kind, Pairing!Closes
  <2>5. \A o \in Pairing!Opens : stack[1] < o
    <3> SUFFICES ASSUME NEW o \in Elements(stack), doc[o].kind = "open"
                 PROVE  stack[1] < o
      BY <2>2 DEF Pairing!Opens
    <3>1. PICK k \in 1 .. Len(stack) : stack[k] = o
      BY DEF Elements
    <3>2. k # 1
      BY <3>1, <2>4 DEF Pairing!Closes
    <3>3. 1 < k
      BY <3>1, <3>2
    <3>4. QED
      BY <1>2, <1>3, <2>1, <3>1, <3>3, AscendingOrder
  <2>6. TagPairs' = TagPairs
    BY <1>2, <1>5, <1>15, <2>1 DEF ReplaceOrphan, ReplaceByElement
  <2>7. Verdict = "running" /\ Verdict' = "running"
    BY <1>15 DEF ReplaceOrphan, Verdict
  <2>8. Pairing!DropOrphan
    BY <1>1, <2>2, <2>3, <2>4, <2>5, <2>6, <2>7 DEF Pairing!DropOrphan
  <2>9. QED
    BY <2>8 DEF Pairing!Next
<1>16. CASE ExitNoMatch
  <2>1. PICK f \in 2 .. Len(stack) :
          FirstClose(f) /\ \A m \in f .. Len(stack) : ~Matches(f, m)
    BY <1>16 DEF ExitNoMatch
  <2> DEFINE o == stack[f - 1]
  <2>2. PendingTags = Elements(stack)
    BY <1>16, PendingWhenBuilding DEF ExitNoMatch
  <2>3. f - 1 \in 1 .. Len(stack) /\ f - 1 \in 1 .. f - 1 /\ Kind(o) = "open"
    <3>1. f - 1 \in 1 .. Len(stack) /\ f - 1 \in 1 .. f - 1
      BY <1>2
    <3>2. Kind(stack[f - 1]) = "open"
      BY <2>1, <3>1, Zenon DEF FirstClose
    <3>3. QED
      BY <3>1, <3>2
  <2>4. o \in Pairing!Opens
    BY <2>2, <2>3 DEF Pairing!Opens, Elements, Kind
  <2>5. ASSUME NEW c \in Pairing!Closes, Pairing!Pairable(o, c) PROVE FALSE
    <3>1. c \in Elements(stack) /\ doc[c].kind = "close"
      BY <2>2 DEF Pairing!Closes
    <3>2. PICK j \in 1 .. Len(stack) : stack[j] = c
      BY <3>1 DEF Elements
    <3>3. j \in f .. Len(stack)
      <4>1. stack[f - 1] < stack[j]
        BY <2>5, <3>2 DEF Pairing!Pairable
      <4>2. f - 1 < j
        BY <1>2, <1>3, <2>3, <4>1, AscendingReflects
      <4>3. QED
        BY <4>2, <2>3
    <3>4. doc[c] = [kind |-> "close", name |-> doc[o].name]
      <4>1. c \in 1 .. Len(doc)
        BY <1>2, <3>1
      <4>2. doc[c] \in Tag \cup Leaf
        BY <1>3, <4>1, ElementOfSeq DEF TypeOK
      <4>3. doc[c] \in Tag
        BY <3>1, <4>2, LeavesAssumption DEF Leaf
      <4>4. doc[c].name = doc[o].name
        BY <2>5 DEF Pairing!Pairable
      <4>5. QED
        BY <3>1, <4>3, <4>4 DEF Tag
    <3>5. ASSUME NEW e \in f .. j - 1
          PROVE  Kind(stack[e]) = "close" /\ doc[stack[e]].name # doc[o].name
      <4>1. e \in 1 .. Len(stack) /\ f - 1 < e /\ e < j
        BY <2>3, <3>3
      <4>2. stack[e] \in Elements(stack) /\ o < stack[e] /\ stack[e] < c
        BY <1>2, <1>3, <2>3, <3>2, <4>1 DEF Ascending, Elements
      <4>3. IsTag(stack[e])
        BY <1>3, <4>2 DEF StackMatchesTree
      <4>4. stack[e] \notin Pairing!Opens
        BY <2>5, <4>2 DEF Pairing!Pairable
      <4>5. doc[stack[e]].kind = "close"
        BY <2>2, <4>2, <4>3, <4>4 DEF Pairing!Opens, IsTag, Kind
      <4>6. stack[e] \in Pairing!Closes
        BY <2>2, <4>2, <4>5 DEF Pairing!Closes
      <4>7. QED
        BY <2>5, <4>2, <4>5, <4>6 DEF Pairing!Pairable, Kind
    <3>6. Matches(f, j)
      BY <3>2, <3>3, <3>4, <3>5 DEF Matches
    <3>7. QED
      BY <2>1, <3>3, <3>6
  <2>6. /\ PendingTags' = PendingTags /\ TagPairs' = TagPairs
        /\ Verdict = "running" /\ Verdict' = "refused"
    BY <1>1, <1>16 DEF ExitNoMatch, PendingTags, TagPairs, Verdict
  <2>7. Pairing!Refuse
    BY <1>1, <2>4, <2>5, <2>6 DEF Pairing!Refuse
  <2>8. QED
    BY <2>7 DEF Pairing!Next
<1>17. CASE Pair
  <2>1. PICK f \in 2 .. Len(stack) : \E m \in f .. Len(stack) :
          /\ FirstClose(f) /\ Matches(f, m)
          /\ stack[f - 1] \in Nodes /\ stack[m] \in Nodes
          /\ stack[f - 1] \in Elements(stack) /\ stack[m] \in Elements(stack)
          /\ stack[f - 1] < stack[f] /\ stack[f] <= stack[m]
          /\ built' = built \cup {stack[f - 1]}
          /\ closedBy' = [closedBy EXCEPT ![stack[f - 1]] = stack[m]]
          /\ Elements(stack') = Elements(stack) \ {stack[f - 1], stack[m]}
          /\ UNCHANGED <<cursor, pc>>
    BY <1>17, PairFacts
  <2>2. PICK m \in f .. Len(stack) :
          /\ FirstClose(f) /\ Matches(f, m)
          /\ stack[f - 1] \in Nodes /\ stack[m] \in Nodes
          /\ stack[f - 1] \in Elements(stack) /\ stack[m] \in Elements(stack)
          /\ stack[f - 1] < stack[f] /\ stack[f] <= stack[m]
          /\ built' = built \cup {stack[f - 1]}
          /\ closedBy' = [closedBy EXCEPT ![stack[f - 1]] = stack[m]]
          /\ Elements(stack') = Elements(stack) \ {stack[f - 1], stack[m]}
          /\ UNCHANGED <<cursor, pc>>
    BY <2>1
  <2> DEFINE o == stack[f - 1]
             c == stack[m]
  <2>3. PendingTags = Elements(stack) /\ PendingTags' = Elements(stack')
    <3>1. pc = "build" /\ cursor = Len(doc) + 1 /\ cursor' = cursor
      BY <1>3, <1>17, <2>2 DEF Pair, Phases
    <3>2. QED
      BY <1>1, <1>2, <3>1 DEF PendingTags
  <2>4. f - 1 \in 1 .. Len(stack) /\ f - 1 \in 1 .. f - 1 /\ m \in 1 .. Len(stack)
    BY <1>2
  <2>5. o \in Pairing!Opens
    BY <2>2, <2>3, <2>4 DEF Pairing!Opens, FirstClose, Kind
  <2>6. c \in Pairing!Closes /\ doc[c].name = doc[o].name
    BY <2>2, <2>3 DEF Pairing!Closes, Matches
  <2>7. ASSUME NEW n \in Elements(stack), o < n, n < c
        PROVE  doc[n].kind = "close" /\ doc[n].name # doc[o].name
    <3>1. PICK e \in 1 .. Len(stack) : stack[e] = n
      BY DEF Elements
    <3>2. f - 1 < e /\ e < m
      BY <1>2, <1>3, <2>4, <2>7, <3>1, AscendingReflects
    <3>3. e \in f .. m - 1
      BY <2>4, <3>1, <3>2
    <3>4. QED
      BY <2>2, <3>1, <3>3 DEF Matches, Kind
  <2>8. o < c
    <3>1. stack[f - 1] \in Int /\ stack[f] \in Int /\ stack[m] \in Int
      BY <1>2, <2>4
    <3>2. QED
      BY <2>2, <3>1
  <2>9. Pairing!Pairable(o, c)
    BY <2>3, <2>6, <2>7, <2>8
       DEF Pairing!Pairable, Pairing!Opens, Pairing!Closes
  <2>10. TagPairs' = TagPairs \cup {<<o, c>>}
    <3>1. /\ closedBy'[o] = c /\ c # None
          /\ \A n \in Nodes \ {o} : closedBy'[n] = closedBy[n]
          /\ built \subseteq Nodes /\ o \in Nodes
      <4>1. /\ closedBy' = [closedBy EXCEPT ![o] = c] /\ o \in Nodes
            /\ c \in Nodes
        BY <2>2
      <4>2. closedBy \in [Nodes -> Nodes \cup {None}] /\ built \subseteq Nodes
        BY <1>3 DEF TypeOK
      <4> HIDE DEF o, c
      <4>3. c # None
        BY <1>2, <4>1 DEF None
      <4>4. QED
        BY <4>1, <4>2, <4>3
    <3>2. closedBy[o] = None
      <4>1. o \notin built
        BY <1>3, <2>2 DEF StackMatchesTree
      <4>2. QED
        BY <1>3, <3>1, <4>1 DEF Phases
    <3>3. built' = built \cup {o}
      BY <2>2
    <3> HIDE DEF o, c
    <3>4. {n \in built' : closedBy'[n] # None} =
            {n \in built : closedBy[n] # None} \cup {o}
      BY <3>1, <3>3
    <3>5. \A n \in {k \in built : closedBy[k] # None} : closedBy'[n] = closedBy[n]
      BY <3>1, <3>2
    <3>6. QED
      BY <3>1, <3>4, <3>5 DEF TagPairs, None
  <2>11. Verdict = "running" /\ Verdict' = "running"
    BY <1>17, <2>2 DEF Pair, Verdict
  <2>12. PendingTags' = PendingTags \ {o, c}
    BY <2>2, <2>3
  <2>13. Pairing!PairTags
    BY <1>1, <2>5, <2>6, <2>9, <2>10, <2>11, <2>12 DEF Pairing!PairTags
  <2>14. QED
    BY <2>13 DEF Pairing!Next
<1>18. QED
  BY <1>6, <1>7, <1>8, <1>9, <1>10, <1>11, <1>12, <1>13, <1>14, <1>15, <1>16,
     <1>17 DEF Next, Fill, Build

(* Whatever the document, the pass pairs each tag with its nearest partner *)
(* as TagPairing allows, and refuses a document only when TagPairing does. *)
THEOREM PassImplementsPairing == Spec => ImplementsTagPairing
  BY PairingInit, PairingStep, IInvAlways, PTL
     DEF Spec, ImplementsTagPairing, Pairing!Spec

-----------------------------------------------------------------------------
(* The tree that replace_xxx_nodes leaves, read in document order: what    *)
(* Preorder, which is defined by recursion over the tree, makes of the     *)
(* lists of children, and what the pass does to them.                      *)

(* Every node of a comes before every node of b. *)
Before(a, b) == \A x \in Elements(a) : \A y \in Elements(b) : x < y
Separate(ss) ==
  \A i \in 1 .. Len(ss) :
    Ascending(ss[i]) /\ \A j \in 1 .. Len(ss) : i < j => Before(ss[i], ss[j])

(* The tree is read downwards: hi[n] bounds the nodes below n, and those   *)
(* of a node come before its next sibling and before the tag that ends it. *)
Ordered(s, hi) ==
  Ascending(s) /\ \A x, y \in Elements(s) : x < y => hi[x] < y
Nested(hi) ==
  /\ hi \in [Nodes -> Nodes]
  /\ Ordered(kids, hi)
  /\ \A n \in Nodes :
       /\ Ordered(inside[n], hi)
       /\ \A x \in Elements(inside[n]) : n < x /\ hi[x] <= hi[n]
       /\ n <= hi[n]
       /\ n \notin built => inside[n] = <<>> /\ hi[n] = n
       /\ closedBy[n] # None => hi[n] < closedBy[n]

(* What Preorder reads below n when it reads g[x] for each node x. *)
Below(n, g) == <<n>> \o FlattenSeq([p \in DOMAIN inside[n] |-> g[inside[n][p]]])
Reading(g)  == g = [n \in Nodes |-> Below(n, g)]

(* What is read in s is the subtree of n. *)
Subtree(n, s, hi) ==
  /\ s \in Seq(Nodes) /\ Ascending(s)
  /\ n \in Elements(s)
  /\ \A x \in Elements(s) :
       /\ n <= x /\ x <= hi[n]
       /\ Elements(inside[x]) \subseteq Elements(s)
       /\ x = n \/ \E o \in Elements(s) : x \in Elements(inside[o])

----------------------------------------------------------------------------
(* Lists in a row. *)

LEMMA InOrder ==
  ASSUME NEW s \in Seq(Int)
  PROVE  Ascending(s) <=> Rises(s, Int)
<1>1. \A i \in 1 .. Len(s) : s[i] \in Int
  BY ElementOfSeq
<1>2. QED
  BY <1>1 DEF Ascending, Rises

LEMMA ConcatAscending ==
  ASSUME NEW a \in Seq(Int), NEW b \in Seq(Int),
         Ascending(a), Ascending(b), Before(a, b)
  PROVE  Ascending(a \o b)
<1>1. Rises(a, Int) /\ Rises(b, Int)
  BY InOrder
<1>2. Apart(a, b, Int)
  BY DEF Before, Apart
<1>3. Rises(a \o b, Int)
  BY <1>1, <1>2, JoinedRises
<1>4. a \o b \in Seq(Int)
  BY Glue
<1>5. QED
  BY <1>3, <1>4, InOrder

LEMMA FlattenAscending ==
  ASSUME NEW ss \in Seq(Seq(Int)), Separate(ss)
  PROVE  /\ FlattenSeq(ss) \in Seq(Int)
         /\ Ascending(FlattenSeq(ss))
         /\ \A x : x \in Elements(FlattenSeq(ss)) <=>
                   \E i \in 1 .. Len(ss) : x \in Elements(ss[i])
<1>1. AllApart(ss, Int)
  <2>1. \A i \in 1 .. Len(ss) : ss[i] \in Seq(Int)
    BY ElementOfSeq
  <2>2. \A i \in 1 .. Len(ss) : Rises(ss[i], Int)
    BY <2>1, InOrder DEF Separate
  <2>3. \A i, j \in 1 .. Len(ss) : i < j => Apart(ss[i], ss[j], Int)
    BY DEF Separate, Before, Apart
  <2>4. QED
    BY <2>2, <2>3 DEF AllApart
<1>2. /\ FlattenSeq(ss) \in Seq(Int)
      /\ Rises(FlattenSeq(ss), Int)
      /\ \A x : x \in Elements(FlattenSeq(ss)) <=>
                \E i \in 1 .. Len(ss) : x \in Elements(ss[i])
  BY <1>1, FlattenRises
<1>3. QED
  BY <1>2, InOrder

----------------------------------------------------------------------------
(* Preorder is defined by recursion, from a node to those it contains.     *)

(* What an element contains comes after it in the document. *)
Deeper == \A n \in Nodes : \A x \in Elements(inside[n]) : n < x

LEMMA BelowType ==
  ASSUME TypeOK, NEW g \in [Nodes -> Seq(Nodes)], NEW n \in Nodes
  PROVE  Below(n, g) \in Seq(Nodes)
<1> DEFINE s  == inside[n]
           ss == [p \in DOMAIN s |-> g[s[p]]]
<1>1. s \in Seq(Nodes)
  BY DEF TypeOK
<1> HIDE DEF s
<1>2. /\ DOMAIN s = 1 .. Len(s) /\ Len(s) \in Nat
      /\ \A p \in 1 .. Len(s) : s[p] \in Nodes
  BY <1>1, LenProperties, ElementOfSeq
<1>3. \A p \in 1 .. Len(s) : g[s[p]] \in Seq(Nodes)
  BY <1>2
<1>4. ss \in Seq(Seq(Nodes))
  BY <1>2, <1>3
<1> HIDE DEF ss
<1>5. FlattenSeq(ss) \in Seq(Nodes) /\ <<n>> \in Seq(Nodes)
  BY <1>4, FlattenType
<1>6. <<n>> \o FlattenSeq(ss) \in Seq(Nodes)
  BY <1>5
<1>7. QED
  BY <1>6 DEF Below, ss, s

(* It depends on what is read for the children only. *)
SameFor(S, g, h) == \A x \in S : g[x] = h[x]

LEMMA BelowSame ==
  ASSUME TypeOK, NEW n \in Nodes, NEW g, NEW h, SameFor(Elements(inside[n]), g, h)
  PROVE  Below(n, g) = Below(n, h)
<1> DEFINE s == inside[n]
<1>1. s \in Seq(Nodes)
  BY DEF TypeOK
<1>2. SameFor(Elements(s), g, h)
  OBVIOUS
<1> HIDE DEF s
<1>3. DOMAIN s = 1 .. Len(s)
  BY <1>1, LenProperties
<1>4. \A p \in DOMAIN s : g[s[p]] = h[s[p]]
  BY <1>2, <1>3 DEF SameFor, Elements
<1>5. [p \in DOMAIN s |-> g[s[p]]] = [p \in DOMAIN s |-> h[s[p]]]
  BY ONLY <1>4
<1>6. <<n>> \o FlattenSeq([p \in DOMAIN s |-> g[s[p]]])
        = <<n>> \o FlattenSeq([p \in DOMAIN s |-> h[s[p]]])
  BY ONLY <1>5
<1>7. QED
  BY <1>6 DEF Below, s

(* Reading the tree from the leaves up: after as many rounds as there are  *)
(* nodes, nothing that is read changes any more.                           *)
LEMMA ReadingExists ==
  ASSUME TypeOK, Deeper
  PROVE  \E g : Reading(g)
<1> DEFINE N == Len(doc)
           M == N + 1
           T == [Nodes -> Seq(Nodes)]
           base == [n \in Nodes |-> <<>>]
           step == [i \in 1 .. M |-> [g \in T |-> [n \in Nodes |-> Below(n, g)]]]
<1>1. N \in Nat /\ Nodes = 1 .. N
  BY NodesAreIntegers DEF Nodes
<1> HIDE DEF N
<1>2. M \in Nat /\ base \in T
  BY <1>1
<1>3. IsStep(step, M, T)
  <2>1. ASSUME NEW i \in 1 .. M, NEW g \in T
        PROVE  step[i][g] \in T
    <3>1. \A n \in Nodes : Below(n, g) \in Seq(Nodes)
      BY BelowType
    <3>2. [n \in Nodes |-> Below(n, g)] \in T
      BY <3>1
    <3>3. QED
      BY <3>2
  <2> HIDE DEF step, T
  <2>2. QED
    BY <2>1 DEF IsStep
<1> HIDE DEF base
<1>4. PICK f : Iterates(f, base, step, M, T)
  <2> HIDE DEF step, T, M
  <2>1. QED
    BY <1>2, <1>3, Recursion
<1>5. f \in [0 .. M -> T]
  BY <1>4 DEF Iterates
<1>6. \A i \in 1 .. M : \A n \in Nodes : f[i][n] = Below(n, f[i - 1])
  <2> SUFFICES ASSUME NEW i \in 1 .. M, NEW n \in Nodes
               PROVE  f[i][n] = Below(n, f[i - 1])
    OBVIOUS
  <2>1. f[i] = step[i][f[i - 1]]
    BY <1>4 DEF Iterates
  <2>2. f[i - 1] \in T
    <3>1. i - 1 \in 0 .. M
      BY <1>2
    <3> HIDE DEF T, M
    <3>2. QED
      BY ONLY <3>1, <1>5
  <2> HIDE DEF T
  <2>3. step[i][f[i - 1]] = [m \in Nodes |-> Below(m, f[i - 1])]
    BY <2>2
  <2>4. QED
    BY <2>1, <2>3
<1> HIDE DEF step, T
<1> DEFINE Same(k) == \A n \in Nodes : n > N - k => f[k + 1][n] = f[k][n]
           H == {k \in 0 .. N : Same(k)}
<1>7. 0 \in H
  BY <1>1
<1>8. ASSUME NEW k \in 0 .. N - 1, k \in H
      PROVE  k + 1 \in H
  <2>1. /\ k + 1 \in 1 .. M /\ k + 2 \in 1 .. M /\ (k + 2) - 1 = k + 1
        /\ (k + 1) - 1 = k /\ (k + 1) + 1 = k + 2 /\ k + 1 \in 0 .. N
    BY <1>1
  <2>2. ASSUME NEW n \in Nodes, n > N - (k + 1)
        PROVE  f[k + 2][n] = f[k + 1][n]
    <3>1. SameFor(Elements(inside[n]), f[k + 1], f[k])
      <4> SUFFICES ASSUME NEW x \in Elements(inside[n])
                   PROVE  f[k + 1][x] = f[k][x]
        BY DEF SameFor
      <4>1. n < x /\ x \in Nodes
        BY ElementOfSeq DEF Deeper, TypeOK, Elements
      <4>2. x > N - k
        BY <4>1, <2>2, <1>1
      <4>3. Same(k)
        BY <1>8
      <4>4. QED
        BY <4>1, <4>2, <4>3
    <3>2. Below(n, f[k + 1]) = Below(n, f[k])
      BY <3>1, BelowSame
    <3>3. f[k + 2][n] = Below(n, f[k + 1]) /\ f[k + 1][n] = Below(n, f[k])
      BY ONLY <2>1, <1>6, n \in Nodes
    <3>4. QED
      BY <3>2, <3>3
  <2>3. Same(k + 1)
    BY <2>1, <2>2
  <2>4. QED
    BY <2>1, <2>3
<1> HIDE DEF H
<1>9. \A k \in 0 .. N : k \in H
  BY <1>1, <1>7, <1>8, BoundedInduction, Zenon
<1>10. N \in H
  BY <1>9, <1>1
<1>11. \A n \in Nodes : f[M][n] = f[N][n]
  <2>1. Same(N)
    BY <1>10 DEF H
  <2>2. \A n \in Nodes : n > N - N
    BY <1>1
  <2>3. QED
    BY <2>1, <2>2
<1>12. \A n \in Nodes : f[N][n] = Below(n, f[N])
  <2>1. M \in 1 .. M /\ M - 1 = N
    BY <1>1
  <2>2. \A n \in Nodes : f[M][n] = Below(n, f[N])
    BY ONLY <2>1, <1>6
  <2>3. QED
    BY <2>2, <1>11
<1>13. f[N] = [n \in Nodes |-> f[N][n]]
  <2>1. N \in 0 .. M
    BY <1>1
  <2>2. f[N] \in [Nodes -> Seq(Nodes)]
    BY <2>1, <1>5 DEF T
  <2>3. QED
    BY <2>2
<1>14. [n \in Nodes |-> f[N][n]] = [n \in Nodes |-> Below(n, f[N])]
  BY <1>12
<1>15. Reading(f[N])
  BY <1>13, <1>14 DEF Reading
<1>16. QED
  BY <1>15

LEMMA PreorderReads ==
  ASSUME TypeOK, Deeper
  PROVE  \E g : /\ Reading(g)
                /\ \A s : Preorder(s) = FlattenSeq([p \in DOMAIN s |-> g[s[p]]])
<1> DEFINE Unfolds(g) ==
             g = [n \in Nodes |->
                   <<n>> \o FlattenSeq([p \in DOMAIN inside[n] |-> g[inside[n][p]]])]
           g == CHOOSE g : Unfolds(g)
<1>1. \A h : Unfolds(h) <=> Reading(h)
  BY DEF Reading, Below
<1>2. \E h : Unfolds(h)
  BY <1>1, ReadingExists
<1>3. \A s : Preorder(s) = FlattenSeq([p \in DOMAIN s |-> g[s[p]]])
  BY DEF Preorder
<1> HIDE DEF Unfolds
<1>4. Unfolds(g)
  BY <1>2
<1> HIDE DEF g
<1>5. Reading(g)
  BY <1>1, <1>4
<1>6. QED
  BY <1>3, <1>5

----------------------------------------------------------------------------
(* What is read in a nested tree. *)

Subtrees(S, g, hi) == \A x \in S : Subtree(x, g[x], hi)

(* Siblings in order: what is read for them, in a row. *)
LEMMA RowOfSubtrees ==
  ASSUME TypeOK, NEW hi \in [Nodes -> Nodes], NEW s \in Seq(Nodes), Ordered(s, hi),
         NEW g, Subtrees(Elements(s), g, hi),
         NEW row, row = FlattenSeq([p \in DOMAIN s |-> g[s[p]]])
  PROVE  /\ row \in Seq(Nodes) /\ Ascending(row)
         /\ \A x : x \in Elements(row) <=>
              \E k \in Elements(s) : x \in Elements(g[k])
<1> DEFINE ss == [p \in DOMAIN s |-> g[s[p]]]
<1>1. /\ DOMAIN s = 1 .. Len(s) /\ Len(s) \in Nat /\ Nodes \subseteq Int
      /\ \A p \in 1 .. Len(s) : s[p] \in Nodes /\ s[p] \in Elements(s)
  <2>1. DOMAIN s = 1 .. Len(s) /\ Len(s) \in Nat
    BY LenProperties
  <2>2. \A p \in 1 .. Len(s) : s[p] \in Nodes
    BY ElementOfSeq
  <2>3. \A p \in 1 .. Len(s) : s[p] \in Elements(s)
    BY DEF Elements
  <2>4. QED
    BY <2>1, <2>2, <2>3 DEF Nodes
<1>2. \A p \in 1 .. Len(s) : Subtree(s[p], g[s[p]], hi)
  BY <1>1 DEF Subtrees
<1>3. \A p \in 1 .. Len(s) : g[s[p]] \in Seq(Nodes) /\ Ascending(g[s[p]])
  BY <1>2 DEF Subtree
<1>4. \A p \in 1 .. Len(s) : g[s[p]] \in Seq(Int) /\ Elements(g[s[p]]) \subseteq Int
  <2>1. ASSUME NEW t \in Seq(Nodes)
        PROVE  t \in Seq(Int) /\ Elements(t) \subseteq Int
    <3>1. Elements(t) \subseteq Int
      BY <1>1, ElementOfSeq DEF Elements
    <3>2. QED
      BY <3>1, SeqOfElements
  <2>2. QED
    BY <1>3, <2>1
<1>5. /\ ss \in Seq(Seq(Nodes)) /\ ss \in Seq(Seq(Int)) /\ Len(ss) = Len(s)
      /\ \A p \in 1 .. Len(s) : ss[p] = g[s[p]]
  BY <1>1, <1>3, <1>4
<1>6. row = FlattenSeq(ss)
  OBVIOUS
<1> HIDE DEF ss
<1>7. Separate(ss)
  <2>1. ASSUME NEW i \in 1 .. Len(s), NEW j \in 1 .. Len(s), i < j
        PROVE  Before(ss[i], ss[j])
    <3>1. s[i] < s[j] /\ hi[s[i]] < s[j] /\ s[j] \in Int
      <4>1. s[i] < s[j]
        BY <2>1 DEF Ordered, Ascending
      <4>2. QED
        BY <4>1, <1>1 DEF Ordered
    <3>2. ASSUME NEW x \in Elements(ss[i]), NEW y \in Elements(ss[j])
          PROVE  x < y
      <4>1. x \in Elements(g[s[i]]) /\ y \in Elements(g[s[j]])
        BY <1>5
      <4>2. x <= hi[s[i]] /\ s[j] <= y
        BY <4>1, <1>2 DEF Subtree
      <4>3. x \in Int /\ y \in Int /\ hi[s[i]] \in Int
        <5>1. x \in Int /\ y \in Int
          BY <4>1, <1>4
        <5>2. hi[s[i]] \in Nodes
          BY <1>1
        <5>3. QED
          BY <5>1, <5>2, <1>1
      <4>4. QED
        BY <4>2, <4>3, <3>1
    <3>3. QED
      BY <3>2 DEF Before
  <2>2. \A i \in 1 .. Len(s) : Ascending(ss[i])
    BY <1>3, <1>5
  <2>3. QED
    BY <2>1, <2>2, <1>5 DEF Separate
<1>8. /\ row \in Seq(Nodes) /\ Ascending(row)
      /\ \A x : x \in Elements(row) <=> \E i \in 1 .. Len(s) : x \in Elements(ss[i])
  <2>1. row \in Seq(Nodes)
    BY <1>5, <1>6, FlattenType
  <2>2. /\ Ascending(row)
        /\ \A x : x \in Elements(row) <=>
             \E i \in 1 .. Len(ss) : x \in Elements(ss[i])
    BY <1>5, <1>6, <1>7, FlattenAscending
  <2>3. QED
    BY <2>1, <2>2, <1>5
<1>9. ASSUME NEW x
      PROVE  x \in Elements(row) <=> \E k \in Elements(s) : x \in Elements(g[k])
  <2>1. Elements(s) = {s[i] : i \in 1 .. Len(s)}
    BY DEF Elements
  <2>2. x \in Elements(row) <=> \E i \in 1 .. Len(s) : x \in Elements(g[s[i]])
    BY ONLY <1>5, <1>8
  <2>3. QED
    BY ONLY <2>1, <2>2
<1>10. QED
  BY <1>8, <1>9


LEMMA SubtreeBelow ==
  ASSUME TypeOK, NEW hi, Nested(hi), NEW n \in Nodes,
         NEW g, Subtrees(Elements(inside[n]), g, hi)
  PROVE  Subtree(n, Below(n, g), hi)
<1> DEFINE s   == inside[n]
           row == FlattenSeq([p \in DOMAIN s |-> g[s[p]]])
           t   == <<n>> \o row
<1>1. /\ hi \in [Nodes -> Nodes] /\ s \in Seq(Nodes) /\ Ordered(s, hi)
      /\ \A k \in Elements(s) : n < k /\ hi[k] <= hi[n]
      /\ n <= hi[n] /\ Subtrees(Elements(s), g, hi)
  BY DEF TypeOK, Nested
<1>2. Below(n, g) = t
  BY DEF Below
<1>3. /\ Nodes \subseteq Int
      /\ \A r \in Seq(Nodes) : Elements(r) \subseteq Nodes /\ r \in Seq(Int)
  <2>1. Nodes \subseteq Int
    BY DEF Nodes
  <2>2. ASSUME NEW r \in Seq(Nodes)
        PROVE  Elements(r) \subseteq Nodes /\ r \in Seq(Int)
    <3>1. Elements(r) \subseteq Nodes
      BY ElementOfSeq DEF Elements
    <3>2. QED
      BY <3>1, <2>1, SeqOfElements
  <2>3. QED
    BY <2>1, <2>2
<1> HIDE DEF s
<1>4. /\ row \in Seq(Nodes) /\ Ascending(row)
      /\ \A x : x \in Elements(row) <=> \E k \in Elements(s) : x \in Elements(g[k])
  BY <1>1, RowOfSubtrees
<1> HIDE DEF row
<1>5. ASSUME NEW k \in Elements(s)
      PROVE  /\ k \in Nodes /\ k \in Elements(g[k])
             /\ Elements(g[k]) \subseteq Elements(row)
             /\ \A x \in Elements(g[k]) :
                  /\ x \in Nodes /\ n < x /\ x <= hi[n]
                  /\ Elements(inside[x]) \subseteq Elements(g[k])
                  /\ x = k \/ \E o \in Elements(g[k]) : x \in Elements(inside[o])
  <2>1. Subtree(k, g[k], hi) /\ k \in Nodes /\ n < k /\ hi[k] <= hi[n]
    BY <1>1, <1>3 DEF Subtrees
  <2>2. Elements(g[k]) \subseteq Elements(row)
    BY <1>4
  <2>3. ASSUME NEW x \in Elements(g[k])
        PROVE  x \in Nodes /\ n < x /\ x <= hi[n]
    <3>1. x \in Nodes /\ k <= x /\ x <= hi[k]
      BY <2>1, <1>3 DEF Subtree
    <3>2. /\ x \in Int /\ k \in Int /\ n \in Int
          /\ hi[k] \in Int /\ hi[n] \in Int
      BY <3>1, <2>1, <1>1, <1>3
    <3>3. QED
      BY <3>1, <3>2, <2>1
  <2>4. QED
    BY <2>1, <2>2, <2>3 DEF Subtree
<1>6. Elements(<<n>>) = {n} /\ <<n>> \in Seq(Nodes)
  <2>1. Len(<<n>>) = 1 /\ <<n>>[1] = n /\ 1 .. 1 = {1}
    OBVIOUS
  <2>2. Elements(<<n>>) = {<<n>>[p] : p \in {1}}
    BY ONLY <2>1 DEF Elements
  <2>3. QED
    BY <2>1, <2>2
<1>7. Ascending(<<n>>)
  BY DEF Ascending
<1>8. Before(<<n>>, row)
  <2>1. ASSUME NEW y \in Elements(row)
        PROVE  n < y
    <3>1. PICK k \in Elements(s) : y \in Elements(g[k])
      BY <1>4
    <3>2. QED
      BY <3>1, <1>5
  <2>2. QED
    BY <2>1, <1>6 DEF Before
<1>9. Ascending(t) /\ Elements(t) = {n} \cup Elements(row) /\ t \in Seq(Nodes)
  <2> DEFINE a == <<n>>
  <2>1. /\ a \in Seq(Nodes) /\ a \in Seq(Int) /\ row \in Seq(Int)
        /\ Ascending(a) /\ Elements(a) = {n} /\ Before(a, row)
    BY <1>3, <1>4, <1>6, <1>7, <1>8
  <2>2. t = a \o row
    OBVIOUS
  <2> HIDE DEF t, a
  <2>3. Ascending(a \o row)
    BY <2>1, <1>4, ConcatAscending
  <2>4. Elements(a \o row) = Elements(a) \cup Elements(row)
    BY <2>1, ConcatElements
  <2>5. a \o row \in Seq(Nodes)
    BY <2>1, <1>4
  <2>6. QED
    BY <2>1, <2>2, <2>3, <2>4, <2>5
<1> HIDE DEF t
<1>10. ASSUME NEW x \in Elements(t)
       PROVE  /\ n <= x /\ x <= hi[n]
              /\ Elements(inside[x]) \subseteq Elements(t)
              /\ x = n \/ \E o \in Elements(t) : x \in Elements(inside[o])
  <2>1. CASE x = n
    <3>1. n <= n
      BY <1>3
    <3>2. Elements(inside[n]) \subseteq Elements(row)
      BY <1>5 DEF s
    <3>3. QED
      BY <2>1, <3>1, <3>2, <1>1, <1>9
  <2>2. CASE x \in Elements(row)
    <3>1. PICK k \in Elements(s) : x \in Elements(g[k])
      BY <2>2, <1>4
    <3>2. /\ x \in Nodes /\ n < x /\ x <= hi[n]
          /\ Elements(inside[x]) \subseteq Elements(row)
          /\ x = k \/ \E o \in Elements(row) : x \in Elements(inside[o])
      BY <3>1, <1>5
    <3>3. n <= x
      BY <3>2, <1>3
    <3>4. k \in Elements(inside[n])
      BY DEF s
    <3>5. QED
      BY <3>2, <3>3, <3>4, <1>9
  <2>3. QED
    BY <2>1, <2>2, <1>9
<1>11. QED
  BY <1>2, <1>9, <1>10 DEF Subtree

LEMMA SubtreesRead ==
  ASSUME TypeOK, NEW hi, Nested(hi), NEW g, Reading(g)
  PROVE  Subtrees(Nodes, g, hi)
<1> DEFINE N == Len(doc)
           Read(k) == \A n \in Nodes : n > N - k => Subtree(n, g[n], hi)
           H == {k \in 0 .. N : Read(k)}
<1>1. N \in Nat /\ Nodes = 1 .. N
  BY NodesAreIntegers DEF Nodes
<1> HIDE DEF N
<1>2. \A n \in Nodes : g[n] = Below(n, g)
  <2> DEFINE r == [n \in Nodes |-> Below(n, g)]
  <2>1. \A n \in Nodes : r[n] = Below(n, g)
    OBVIOUS
  <2>2. g = r
    BY DEF Reading
  <2> HIDE DEF r
  <2>3. QED
    BY <2>1, <2>2
<1>3. 0 \in H
  BY <1>1
<1>4. ASSUME NEW k \in 0 .. N - 1, k \in H
      PROVE  k + 1 \in H
  <2>1. Read(k) /\ k + 1 \in 0 .. N
    BY <1>4, <1>1
  <2>2. ASSUME NEW n \in Nodes, n > N - (k + 1)
        PROVE  Subtree(n, g[n], hi)
    <3>1. ASSUME NEW x \in Elements(inside[n])
          PROVE  Subtree(x, g[x], hi)
      <4>1. x \in Nodes
        BY ElementOfSeq DEF TypeOK, Elements
      <4>2. n < x
        BY DEF Nested
      <4>3. x > N - k
        BY <4>1, <4>2, <2>2, <1>1
      <4>4. QED
        BY <4>1, <4>3, <2>1
    <3>2. Subtrees(Elements(inside[n]), g, hi)
      BY <3>1 DEF Subtrees
    <3>3. QED
      BY <3>2, <1>2, SubtreeBelow
  <2>3. QED
    BY <2>1, <2>2
<1> HIDE DEF H
<1>5. \A k \in 0 .. N : k \in H
  BY <1>1, <1>3, <1>4, BoundedInduction, Zenon
<1>6. Read(N)
  BY <1>1, <1>5 DEF H
<1>7. \A n \in Nodes : n > N - N
  BY <1>1
<1>8. QED
  BY <1>6, <1>7 DEF Subtrees

(* What Preorder reads of the siblings s: each of them, with all that is   *)
(* below, and each node that is read has been linked somewhere.            *)
Rowed(s, hi) ==
  /\ Preorder(s) \in Seq(Nodes) /\ Ascending(Preorder(s))
  /\ Elements(s) \subseteq Elements(Preorder(s))
  /\ \A x \in Elements(Preorder(s)) :
       /\ Elements(inside[x]) \subseteq Elements(Preorder(s))
       /\ \E k \in Elements(s) :
            /\ k <= x /\ x <= hi[k]
            /\ \/ x = k
               \/ \E o \in Elements(Preorder(s)) : k <= o
                    /\ x \in Elements(inside[o])

LEMMA RowRead ==
  ASSUME TypeOK, NEW hi, Nested(hi), NEW s \in Seq(Nodes), Ordered(s, hi)
  PROVE  Rowed(s, hi)
<1>1. Deeper /\ hi \in [Nodes -> Nodes]
  BY DEF Nested, Deeper
<1>2. PICK g : /\ Reading(g)
               /\ \A r : Preorder(r) = FlattenSeq([p \in DOMAIN r |-> g[r[p]]])
  BY <1>1, PreorderReads
<1>3. Subtrees(Nodes, g, hi)
  BY <1>2, SubtreesRead
<1>4. Elements(s) \subseteq Nodes
  BY ElementOfSeq DEF Elements
<1>5. Subtrees(Elements(s), g, hi)
  BY <1>3, <1>4 DEF Subtrees
<1> DEFINE row == Preorder(s)
<1>6. row = FlattenSeq([p \in DOMAIN s |-> g[s[p]]])
  BY <1>2
<1> HIDE DEF row
<1>7. /\ row \in Seq(Nodes) /\ Ascending(row)
      /\ \A x : x \in Elements(row) <=> \E k \in Elements(s) : x \in Elements(g[k])
  BY <1>1, <1>5, <1>6, RowOfSubtrees
<1>8. \A k \in Elements(s) : Subtree(k, g[k], hi)
        /\ Elements(g[k]) \subseteq Elements(row)
  BY <1>5, <1>7 DEF Subtrees
<1>9. Elements(s) \subseteq Elements(row)
  BY <1>8 DEF Subtree
<1>10. ASSUME NEW x \in Elements(row)
       PROVE  /\ Elements(inside[x]) \subseteq Elements(row)
              /\ \E k \in Elements(s) :
                   /\ k <= x /\ x <= hi[k]
                   /\ \/ x = k
                      \/ \E o \in Elements(row) : k <= o
                           /\ x \in Elements(inside[o])
  <2>1. PICK k \in Elements(s) : x \in Elements(g[k])
    BY <1>7
  <2>2. Subtree(k, g[k], hi) /\ Elements(g[k]) \subseteq Elements(row)
    BY <1>8
  <2>3. /\ Elements(inside[x]) \subseteq Elements(row) /\ k <= x /\ x <= hi[k]
    BY <2>1, <2>2 DEF Subtree
  <2>4. x = k \/ \E o \in Elements(row) : k <= o /\ x \in Elements(inside[o])
    <3>1. x = k \/ \E o \in Elements(g[k]) : x \in Elements(inside[o])
      BY <2>1, <2>2 DEF Subtree
    <3>2. \A o \in Elements(g[k]) : k <= o
      BY <2>2 DEF Subtree
    <3>3. QED
      BY <3>1, <3>2, <2>2
  <2>5. QED
    BY <2>3, <2>4
<1>11. QED
  BY <1>7, <1>9, <1>10 DEF Rowed, row

----------------------------------------------------------------------------
(* The steps of the pass, as the tree sees them: nothing happens to it; a  *)
(* tag that no pair is made of is replaced, or lost; an element is built.  *)

SameTree == UNCHANGED <<kids, inside, built, closedBy>>

Replaced(n) ==
  /\ n \in Elements(kids) /\ n \notin built
  /\ Kind(n) \in {"empty", "special", "close"}
  /\ UNCHANGED <<inside, closedBy>>
  /\ Ascending(kids')
  /\ \/ /\ IsLastKid(n) /\ built' = built
        /\ Elements(kids') = Elements(kids) \ {n}
     \/ kids' = kids /\ built' = built \cup {n}

Paired(entry, first, match) ==
  /\ entry \in Elements(stack) /\ first \in Elements(stack)
     /\ match \in Elements(stack)
  /\ entry < first /\ first <= match
  /\ Kind(first) = "close"
  /\ \A e \in Elements(stack) : e < first => Kind(e) = "open" /\ e <= entry
  /\ doc[match] = [kind |-> "close", name |-> doc[entry].name]
  /\ doc[first].name = doc[entry].name => match = first
  /\ built' = built \cup {entry}
  /\ closedBy' = [closedBy EXCEPT ![entry] = match]
  /\ Ascending(kids')
  /\ Elements(kids') = {x \in Elements(kids) : x <= entry \/ first <= x} \ {match}
  /\ \E c \in Seq(Nodes) :
       /\ inside' = [inside EXCEPT ![entry] = c]
       /\ Ascending(c)
       /\ Elements(c) = {x \in Elements(kids) : entry < x /\ x < first}
  /\ Elements(stack') = Elements(stack) \ {entry, match}
  /\ UNCHANGED <<cursor, pc>>

(* The entry before the first close tag, and what is before that one. *)
LEMMA BeforeFirstClose ==
  ASSUME IInv, NEW f \in 2 .. Len(stack), FirstClose(f)
  PROVE  /\ stack[f] \in Elements(stack) /\ stack[f - 1] \in Elements(stack)
         /\ stack[f - 1] < stack[f] /\ Kind(stack[f]) = "close"
         /\ \A e \in Elements(stack) :
              e < stack[f] => Kind(e) = "open" /\ e <= stack[f - 1]
<1>1. /\ stack \in Seq(Int) /\ Len(stack) \in Nat /\ Ascending(stack)
      /\ DOMAIN stack = 1 .. Len(stack)
  BY NodesAreIntegers, LenProperties DEF IInv, StackMatchesTree
<1>2. f \in 1 .. Len(stack) /\ f - 1 \in 1 .. Len(stack) /\ f - 1 < f
  BY <1>1
<1>3. stack[f] \in Elements(stack) /\ stack[f - 1] \in Elements(stack)
  BY <1>2 DEF Elements
<1>4. stack[f - 1] < stack[f]
  BY <1>1, <1>2, AscendingOrder
<1>5. ASSUME NEW i \in 1 .. Len(stack), stack[i] < stack[f]
      PROVE  Kind(stack[i]) = "open" /\ stack[i] <= stack[f - 1]
  <2>1. i < f
    BY <1>1, <1>2, <1>5, AscendingReflects
  <2>2. i \in 1 .. f - 1 /\ i <= f - 1
    BY <2>1, <1>1
  <2>3. stack[i] <= stack[f - 1]
    BY <1>1, <1>2, <2>2, AscendingByPosition
  <2>4. QED
    BY <2>2, <2>3 DEF FirstClose
<1>6. Kind(stack[f]) = "close"
  BY DEF FirstClose
<1>7. \A e \in Elements(stack) : \E i \in 1 .. Len(stack) : e = stack[i]
  BY DEF Elements
<1>8. QED
  BY <1>3, <1>4, <1>5, <1>6, <1>7

LEMMA PairOfTree ==
  ASSUME IInv, Pair
  PROVE  \E entry, first, match \in Nodes : Paired(entry, first, match)
<1>1. PICK f \in 2 .. Len(stack) : \E m \in f .. Len(stack) :
        FirstClose(f) /\ Matches(f, m) /\ BuildElement(f, m)
  BY DEF Pair
<1>2. PICK m \in f .. Len(stack) :
        FirstClose(f) /\ Matches(f, m) /\ BuildElement(f, m)
  BY <1>1
<1> DEFINE entry == stack[f - 1]
           first == stack[f]
           match == stack[m]
<1>3. TypeOK /\ StackMatchesTree
  BY DEF IInv
<1>4. /\ stack \in Seq(Int) /\ Len(stack) \in Nat /\ Ascending(stack)
      /\ Elements(stack) \subseteq Nodes
  BY <1>3, NodesAreIntegers, LenProperties DEF StackMatchesTree
<1>5. f \in 1 .. Len(stack) /\ m \in 1 .. Len(stack) /\ f <= m
  BY <1>4
<1>6. /\ first \in Elements(stack) /\ entry \in Elements(stack)
      /\ entry < first /\ Kind(first) = "close"
      /\ \A e \in Elements(stack) : e < first => Kind(e) = "open" /\ e <= entry
  BY <1>2, BeforeFirstClose
<1>7. match \in Elements(stack) /\ first <= match
  BY <1>4, <1>5, AscendingByPosition DEF Elements
<1>8. /\ doc[match] = [kind |-> "close", name |-> doc[entry].name]
      /\ doc[first].name = doc[entry].name => match = first
  <2>1. doc[match] = [kind |-> "close", name |-> doc[entry].name]
    BY <1>2 DEF Matches
  <2>2. ASSUME f # m
        PROVE  doc[first].name # doc[entry].name
    <3>1. f \in f .. m - 1
      BY <1>5, <2>2
    <3>2. QED
      BY <3>1, <1>2 DEF Matches
  <2>3. QED
    BY <2>1, <2>2
<1>9. /\ built' = built \cup {entry}
      /\ closedBy' = [closedBy EXCEPT ![entry] = match]
      /\ UNCHANGED <<cursor, pc>>
  BY <1>2 DEF BuildElement
<1>10. /\ Ascending(kids')
       /\ Elements(kids') = {x \in Elements(kids) :
            x <= entry \/ first <= x} \ {match}
       /\ \E c \in Seq(Nodes) :
            /\ inside' = [inside EXCEPT ![entry] = c]
            /\ Ascending(c)
            /\ Elements(c) = {x \in Elements(kids) : entry < x /\ x < first}
       /\ Elements(stack') = Elements(stack) \ {entry, match}
  BY <1>2, <1>3, PairEffect
<1> HIDE DEF entry, first, match
<1>11. Paired(entry, first, match)
  BY <1>6, <1>7, <1>8, <1>9, <1>10 DEF Paired
<1>12. entry \in Nodes /\ first \in Nodes /\ match \in Nodes
  BY <1>4, <1>6, <1>7
<1>13. QED
  BY <1>11, <1>12

LEMMA ReplacedOfTree ==
  ASSUME IInv, ReplaceEmptyOrSpecial \/ ReplaceOrphan
  PROVE  \E n \in Nodes : Replaced(n)
<1>1. TypeOK /\ Ascending(kids) /\ Elements(kids) \subseteq Nodes
  BY NodesAreIntegers DEF IInv, StackMatchesTree
<1>2. ASSUME NEW n \in Elements(kids), n \notin built, ReplaceByElement(n),
             Kind(n) \in {"empty", "special", "close"}, UNCHANGED <<inside, closedBy>>
      PROVE  \E m \in Nodes : Replaced(m)
  <2>1. CASE IsLastKid(n) /\ kids' = Unlink(kids, Len(kids)) /\ built' = built
    <3>1. Len(kids) \in 1 .. Len(kids) /\ kids[Len(kids)] = n /\ kids \in Seq(Int)
      BY <2>1, <1>1, <1>2, NodesAreIntegers, LenProperties DEF Elements, IsLastKid
    <3>2. Ascending(kids') /\ Elements(kids') = Elements(kids) \ {n}
      BY <2>1, <3>1, <1>1, UnlinkNode
    <3>3. QED
      BY <2>1, <3>2, <1>1, <1>2 DEF Replaced
  <2>2. CASE kids' = kids /\ built' = built \cup {n}
    BY <2>2, <1>1, <1>2 DEF Replaced
  <2>3. QED
    BY <1>2, <2>1, <2>2 DEF ReplaceByElement
<1>3. CASE ReplaceEmptyOrSpecial
  <2>1. cursor \in Elements(kids) /\ cursor \notin built
    BY <1>3, NodesAreIntegers DEF ReplaceEmptyOrSpecial, IInv, Phases, Nodes
  <2>2. /\ ReplaceByElement(cursor) /\ UNCHANGED <<inside, closedBy>>
        /\ Kind(cursor) \in {"empty", "special", "close"}
    BY <1>3 DEF ReplaceEmptyOrSpecial
  <2>3. QED
    BY <2>1, <2>2, <1>2
<1>4. CASE ReplaceOrphan
  <2>1. /\ FirstClose(1) /\ ReplaceByElement(stack[1])
           /\ UNCHANGED <<inside, closedBy>>
    BY <1>4 DEF ReplaceOrphan
  <2>2. stack[1] \in Elements(kids) /\ stack[1] \notin built
    BY <2>1, TopOfStack
  <2>3. Kind(stack[1]) = "close"
    BY <2>1 DEF FirstClose
  <2>4. QED
    BY <2>1, <2>2, <2>3, <1>2
<1>5. QED
  BY <1>3, <1>4

LEMMA StepsOfTree ==
  ASSUME IInv, [Next]_vars
  PROVE  \/ SameTree
         \/ \E n \in Nodes : Replaced(n)
         \/ \E entry, first, match \in Nodes : Paired(entry, first, match)
<1>1. CASE UNCHANGED vars \/ SkipNode \/ PushTag \/ RejectUnreadable \/ StackFilled
           \/ Return \/ ExitOpenWithoutClose \/ ExitNoMatch \/ Halted
  BY <1>1 DEF SameTree, vars, SkipNode, PushTag, RejectUnreadable, StackFilled,
              Return, ExitOpenWithoutClose, ExitNoMatch, Halted
<1>2. CASE ReplaceEmptyOrSpecial \/ ReplaceOrphan
  BY <1>2, ReplacedOfTree
<1>3. CASE Pair
  BY <1>3, PairOfTree
<1>4. QED
  BY <1>1, <1>2, <1>3 DEF Next, Fill, Build

----------------------------------------------------------------------------
(* The tree stays nested. *)

LEMMA NestedAtFirst ==
  ASSUME Init
  PROVE  Nested([n \in Nodes |-> n])
<1> DEFINE hi == [n \in Nodes |-> n]
<1>1. TypeOK /\ Ascending(kids)
  BY InitIInv DEF IInv, StackMatchesTree
<1>2. /\ inside = [n \in Nodes |-> <<>>] /\ \A n \in Nodes : closedBy[n] = None
      /\ Elements(kids) \subseteq Nodes /\ Nodes \subseteq Int
  BY <1>1, NodesAreIntegers DEF Init, Nodes
<1>3. hi \in [Nodes -> Nodes] /\ \A n \in Nodes : hi[n] = n
  OBVIOUS
<1> HIDE DEF hi
<1>4. Ordered(kids, hi)
  BY <1>1, <1>2, <1>3 DEF Ordered
<1>5. ASSUME NEW n \in Nodes
      PROVE  /\ Ordered(inside[n], hi) /\ Elements(inside[n]) = {}
             /\ inside[n] = <<>> /\ closedBy[n] = None /\ n <= hi[n]
  <2>1. inside[n] = <<>> /\ closedBy[n] = None
    BY <1>2
  <2>2. Elements(<<>>) = {} /\ Ascending(<<>>)
    BY DEF Elements, Ascending
  <2>3. n <= n
    BY <1>2
  <2>4. QED
    BY <2>1, <2>2, <2>3, <1>3 DEF Ordered
<1>6. QED
  BY <1>3, <1>4, <1>5 DEF Nested, hi

LEMMA NestedStep ==
  ASSUME IInv, [Next]_vars, NEW hi, Nested(hi)
  PROVE  /\ SameTree => Nested(hi)'
         /\ \A n \in Nodes : Replaced(n) => Nested(hi)'
         /\ \A entry, first, match \in Nodes :
              Paired(entry, first, match) =>
                \E h : h = [hi EXCEPT ![entry] = first - 1] /\ Nested(h)'
<1>1. /\ hi \in [Nodes -> Nodes] /\ Nodes' = Nodes /\ Nodes \subseteq Int
      /\ \A n \in Nodes : hi[n] \in Int
  BY DocFixed DEF Nested, Nodes
<1>2. SameTree => Nested(hi)'
  BY <1>1 DEF SameTree, Nested, Ordered
<1>3. ASSUME NEW n \in Nodes, Replaced(n)
      PROVE  Nested(hi)'
  <2>1. /\ inside' = inside /\ built \subseteq built' /\ closedBy' = closedBy
        /\ Elements(kids') \subseteq Elements(kids) /\ Ascending(kids')
    BY <1>3 DEF Replaced, Nested, Ordered
  <2>2. Ordered(kids', hi)
    BY <2>1 DEF Nested, Ordered
  <2>3. QED
    BY <1>1, <2>1, <2>2 DEF Nested, Ordered
<1>4. ASSUME NEW entry \in Nodes, NEW first \in Nodes, NEW match \in Nodes,
             Paired(entry, first, match)
      PROVE  \E h : h = [hi EXCEPT ![entry] = first - 1] /\ Nested(h)'
  <2>0. PICK h : h = [hi EXCEPT ![entry] = first - 1]
    OBVIOUS
  <2>1. PICK c \in Seq(Nodes) :
          /\ inside' = [inside EXCEPT ![entry] = c]
          /\ Ascending(c)
          /\ Elements(c) = {x \in Elements(kids) : entry < x /\ x < first}
    BY <1>4 DEF Paired
  <2>2. /\ entry < first /\ built' = built \cup {entry} /\ Ascending(kids')
        /\ Elements(kids') = {x \in Elements(kids) :
             x <= entry \/ first <= x} \ {match}
        /\ entry \in Elements(stack) /\ first \in Elements(stack)
        /\ closedBy' = [closedBy EXCEPT ![entry] = match] /\ first <= match
    BY <1>4 DEF Paired
  <2>3. /\ entry \in Elements(kids) /\ first \in Elements(kids)
        /\ IsTag(entry) /\ entry \notin built
    BY <2>2 DEF IInv, StackMatchesTree
  <2>4. first - 1 \in Nodes /\ entry <= first - 1
    BY <2>2, NodesAreIntegers DEF IInv, Nodes
  <2>5. /\ h \in [Nodes -> Nodes] /\ h[entry] = first - 1
        /\ \A n \in Nodes : n # entry => h[n] = hi[n]
    BY <1>1, <2>0, <2>4
  <2>6. /\ inside \in [Nodes -> Seq(Nodes)]
        /\ inside'[entry] = c
        /\ \A n \in Nodes : n # entry => inside'[n] = inside[n]
    BY <2>1 DEF IInv, TypeOK
  <2>7. /\ Elements(kids) \subseteq Nodes
        /\ \A n \in Nodes : Elements(inside[n]) \subseteq Nodes
    BY <2>6, NodesAreIntegers, ElementOfSeq DEF IInv, Elements
  <2>8. /\ \A x, y \in Elements(kids) : x < y => hi[x] < y
        /\ \A n \in Nodes :
             /\ Ordered(inside[n], hi)
             /\ \A x \in Elements(inside[n]) : n < x /\ hi[x] <= hi[n]
             /\ n <= hi[n]
             /\ n \notin built => inside[n] = <<>> /\ hi[n] = n
             /\ closedBy[n] # None => hi[n] < closedBy[n]
    BY DEF Nested, Ordered
  <2>9. Ordered(kids', h)
    <3>1. ASSUME NEW x \in Elements(kids'), NEW y \in Elements(kids'), x < y
          PROVE  h[x] < y
      <4>1. /\ x \in Elements(kids) /\ y \in Elements(kids)
            /\ x \in Nodes /\ y \in Nodes /\ (y <= entry \/ first <= y)
        BY <2>2, <2>7
      <4>2. CASE x = entry
        <5>1. first <= y
          BY <4>1, <4>2, <3>1, <1>1
        <5>2. QED
          BY <5>1, <4>1, <4>2, <2>5, <1>1
      <4>3. CASE x # entry
        BY <4>1, <4>3, <3>1, <2>5, <2>8
      <4>4. QED
        BY <4>2, <4>3
    <3>2. QED
      BY <3>1, <2>2 DEF Ordered
  <2>10. ASSUME NEW n \in Nodes, n # entry
         PROVE  /\ Ordered(inside'[n], h)
                /\ \A x \in Elements(inside'[n]) : n < x /\ h[x] <= h[n]
                /\ n <= h[n]
                /\ n \notin built' => inside'[n] = <<>> /\ h[n] = n
                /\ closedBy'[n] # None => h[n] < closedBy'[n]
    <3>1. entry \notin Elements(inside[n])
      BY <2>3 DEF IInv, NoTagInsideElement
    <3>2. \A x \in Elements(inside[n]) : h[x] = hi[x]
      BY <3>1, <2>5, <2>7
    <3>3. /\ inside'[n] = inside[n] /\ h[n] = hi[n] /\ closedBy'[n] = closedBy[n]
          /\ n \notin built' => n \notin built
      <4>1. closedBy'[n] = closedBy[n]
        BY <2>2, <2>10 DEF IInv, TypeOK
      <4>2. QED
        BY <4>1, <2>2, <2>5, <2>6, <2>10
    <3>4. Ordered(inside[n], h)
      BY <3>2, <2>8 DEF Ordered
    <3>5. QED
      BY <3>2, <3>3, <3>4, <2>8
  <2>11. /\ Ordered(inside'[entry], h)
         /\ \A x \in Elements(inside'[entry]) : entry < x /\ h[x] <= h[entry]
         /\ entry <= h[entry] /\ entry \in built' /\ h[entry] < closedBy'[entry]
    <3>0. closedBy'[entry] = match /\ first - 1 < match
      BY <2>2, <1>1 DEF IInv, TypeOK
    <3>1. ASSUME NEW x \in Elements(c)
          PROVE  /\ x \in Elements(kids) /\ x \in Nodes
                 /\ entry < x /\ x < first /\ h[x] = hi[x]
      <4>1. x \in Elements(kids) /\ x \in Nodes /\ entry < x /\ x < first
        BY <2>1, <2>7
      <4>2. x # entry
        BY <4>1, <1>1
      <4>3. QED
        BY <4>1, <4>2, <2>5
    <3>2. \A x, y \in Elements(c) : x < y => h[x] < y
      BY <3>1, <2>8
    <3>3. ASSUME NEW x \in Elements(c)
          PROVE  h[x] <= first - 1
      <4>1. hi[x] < first
        BY ONLY <3>1, <2>3, <2>8
      <4>2. hi[x] \in Int /\ h[x] = hi[x]
        BY <3>1, <1>1
      <4>3. first \in Int
        BY <1>1
      <4>4. QED
        BY ONLY <4>1, <4>2, <4>3
    <3>4. QED
      BY <3>0, <3>1, <3>2, <3>3, <2>1, <2>2, <2>4, <2>5, <2>6 DEF Ordered
  <2>12. ASSUME NEW n \in Nodes
         PROVE  /\ Ordered(inside'[n], h)
                /\ \A x \in Elements(inside'[n]) : n < x /\ h[x] <= h[n]
                /\ n <= h[n]
                /\ n \notin built' => inside'[n] = <<>> /\ h[n] = n
                /\ closedBy'[n] # None => h[n] < closedBy'[n]
    <3>1. CASE n = entry
      BY <3>1, <2>11
    <3>2. CASE n # entry
      BY <3>2, <2>10
    <3>3. QED
      BY <3>1, <3>2
  <2>13. Nested(h)'
    BY <1>1, <2>5, <2>9, <2>12 DEF Nested
  <2>14. QED
    BY <2>0, <2>13
<1>5. QED
  BY <1>2, <1>3, <1>4

----------------------------------------------------------------------------
(* Where the nodes are.  What is in some list of children is what is read. *)

Placed(n) == n \in Elements(kids) \/ \E o \in built : n \in Elements(inside[o])

(* What is nowhere: a match that an element carries as attributes, or a    *)
(* tag that was replaced when nothing came after it any more.              *)
Gone(n)   == Kind(n) # "text" /\ \A m \in Nodes : n < m => ~Placed(m)
Accounted ==
  /\ \A n \in built : Placed(n)
  /\ \A n \in Nodes : Placed(n) \/ (\E o \in built : closedBy[o] = n) \/ Gone(n)

LEMMA LinkedIsPlaced ==
  ASSUME TypeOK, Accounted, NEW hi, Nested(hi)
  PROVE  /\ Rowed(kids, hi)
         /\ \A n \in Nodes : n \in Linked <=> Placed(n)
<1>1. Rowed(kids, hi)
  BY RowRead DEF TypeOK, Nested
<1>2. /\ Linked \subseteq Nodes /\ Elements(kids) \subseteq Linked
      /\ \A x \in Linked :
           /\ Elements(inside[x]) \subseteq Linked
           /\ x \in Elements(kids) \/ \E o \in Linked : x \in Elements(inside[o])
  <2>1. Preorder(kids) \in Seq(Nodes)
    BY <1>1 DEF Rowed
  <2>2. Linked \subseteq Nodes
    BY <2>1, ElementOfSeq DEF Linked, Elements
  <2>3. QED
    BY <1>1, <2>2 DEF Rowed, Linked
<1>3. \A n \in Nodes \ built : Elements(inside[n]) = {}
  <2>1. Elements(<<>>) = {}
    BY DEF Elements
  <2>2. QED
    BY <2>1 DEF Nested
<1>4. \A x \in Linked : Placed(x)
  BY <1>2, <1>3 DEF Placed
<1> DEFINE N == Len(doc)
           Read(k) == \A n \in Nodes : n <= k => (Placed(n) => n \in Linked)
           H == {k \in 0 .. N : Read(k)}
<1>5. N \in Nat /\ Nodes = 1 .. N /\ built \subseteq Nodes
  BY NodesAreIntegers DEF Nodes, TypeOK
<1> HIDE DEF N
<1>6. 0 \in H
  BY <1>5
<1>7. ASSUME NEW k \in 0 .. N - 1, k \in H
      PROVE  k + 1 \in H
  <2>1. Read(k) /\ k + 1 \in 0 .. N
    BY <1>7, <1>5
  <2>2. ASSUME NEW n \in Nodes, n <= k + 1, Placed(n), n \notin Elements(kids)
        PROVE  n \in Linked
    <3>1. PICK o \in built : n \in Elements(inside[o])
      BY <2>2 DEF Placed
    <3>2. o \in Nodes /\ Placed(o) /\ o < n
      BY <3>1, <1>5 DEF Accounted, Nested
    <3>3. o <= k
      BY <3>2, <2>2, <1>5
    <3>4. o \in Linked
      BY <3>2, <3>3, <2>1
    <3>5. QED
      BY <3>1, <3>4, <1>2
  <2>3. Read(k + 1)
    BY <2>2, <1>2
  <2>4. QED
    BY <2>1, <2>3
<1> HIDE DEF H
<1>8. \A k \in 0 .. N : k \in H
  BY <1>5, <1>6, <1>7, BoundedInduction, Zenon
<1>9. Read(N)
  BY <1>5, <1>8 DEF H
<1>10. \A n \in Nodes : n <= N
  BY <1>5
<1>11. QED
  BY <1>1, <1>4, <1>9, <1>10

(* Nothing is read after the last of the children while no element is made *)
(* of it.                                                                  *)
LEMMA NoneAfter ==
  ASSUME IInv, Accounted, NEW hi, Nested(hi),
         NEW n \in Elements(kids), n \notin built, IsLastKid(n)
  PROVE  \A m \in Nodes : n < m => ~Placed(m)
<1>1. /\ TypeOK /\ Ascending(kids) /\ kids \in Seq(Int) /\ Len(kids) \in Nat
      /\ Elements(kids) \subseteq Nodes /\ Nodes \subseteq Int
  BY NodesAreIntegers, LenProperties DEF IInv, StackMatchesTree, Nodes
<1>2. n \in Nodes /\ hi[n] = n /\ hi \in [Nodes -> Nodes]
  BY <1>1 DEF Nested
<1>3. \A k \in Elements(kids) : k = n \/ k < n
  <2>1. /\ n = kids[Len(kids)]
        /\ \A p \in 1 .. Len(kids) : p = Len(kids) \/ p < Len(kids)
        /\ Len(kids) \in 1 .. Len(kids)
    BY <1>1 DEF IsLastKid, Elements
  <2>2. \A k \in Elements(kids) : \E p \in 1 .. Len(kids) : k = kids[p]
    BY DEF Elements
  <2>3. QED
    BY <2>1, <2>2, <1>1 DEF Ascending
<1>4. ASSUME NEW m \in Nodes, n < m, Placed(m)
      PROVE  FALSE
  <2>1. m \in Elements(Preorder(kids)) /\ Rowed(kids, hi)
    BY <1>1, <1>4, LinkedIsPlaced DEF Linked
  <2>2. PICK k \in Elements(kids) : k <= m /\ m <= hi[k]
    BY <2>1 DEF Rowed
  <2>3. k # n
    BY <2>2, <1>1, <1>2, <1>4
  <2>4. hi[k] < n
    BY <2>3, <1>3 DEF Nested, Ordered
  <2>5. hi[k] \in Int /\ m \in Int /\ n \in Int
    BY <1>1, <1>2
  <2>6. QED
    BY <2>2, <2>4, <2>5, <1>4
<1>5. QED
  BY <1>4

LEMMA AccountedAtFirst ==
  ASSUME Init
  PROVE  Accounted
<1>1. TypeOK
  BY InitIInv DEF IInv
<1>2. kids = [n \in Nodes |-> n] /\ built = {} /\ Nodes = 1 .. Len(doc)
        /\ Len(doc) \in Nat
  BY <1>1, NodesAreIntegers DEF Init, Nodes
<1>3. Len(kids) = Len(doc)
  BY <1>2
<1>4. \A n \in Nodes : n \in Elements(kids)
  BY <1>2, <1>3 DEF Elements
<1>5. QED
  BY <1>2, <1>4 DEF Accounted, Placed

(* Replacing a tag puts nothing anywhere else, and building an element     *)
(* puts its match, and nothing else, out of the tree.                      *)
LEMMA AccountedWhenReplaced ==
  ASSUME IInv, [Next]_vars, Accounted, NEW hi, Nested(hi),
         NEW n \in Nodes, Replaced(n)
  PROVE  Accounted'
<1>1. /\ n \in Elements(kids) /\ n \notin built /\ Kind(n) # "text"
      /\ inside' = inside /\ closedBy' = closedBy
      /\ \/ IsLastKid(n) /\ built' = built /\ Elements(kids') = Elements(kids) \ {n}
         \/ kids' = kids /\ built' = built \cup {n}
  BY DEF Replaced
<1>2. Nodes' = Nodes /\ \A x : Kind(x)' = Kind(x)
  BY DocFixed DEF Kind
<1>3. Elements(inside[n]) = {}
  <2>1. Elements(<<>>) = {}
    BY DEF Elements
  <2>2. QED
    BY <1>1, <2>1 DEF Nested
<1>4. CASE kids' = kids /\ built' = built \cup {n}
  <2>1. \A x : Placed(x)' <=> Placed(x)
    BY <1>1, <1>3, <1>4 DEF Placed
  <2>2. Placed(n)
    BY <1>1 DEF Placed
  <2>3. QED
    BY <1>1, <1>2, <1>4, <2>1, <2>2 DEF Accounted, Gone
<1>5. CASE IsLastKid(n) /\ built' = built /\ Elements(kids') = Elements(kids) \ {n}
  <2>1. /\ \A x : Placed(x)' => Placed(x)
        /\ \A x : Placed(x) /\ x # n => Placed(x)'
    BY <1>1, <1>5 DEF Placed
  <2>2. \A m \in Nodes : n < m => ~Placed(m)
    BY <1>1, <1>5, NoneAfter
  <2>3. Gone(n)'
    BY <1>1, <1>2, <2>1, <2>2 DEF Gone
  <2>4. QED
    BY <1>1, <1>2, <1>5, <2>1, <2>3 DEF Accounted, Gone
<1>6. QED
  BY <1>1, <1>4, <1>5

LEMMA AccountedWhenPaired ==
  ASSUME IInv, [Next]_vars, Accounted, NEW hi, Nested(hi),
         NEW entry \in Nodes, NEW first \in Nodes, NEW match \in Nodes,
         Paired(entry, first, match)
  PROVE  Accounted'
<1>1. /\ entry \in Elements(stack) /\ match \in Elements(stack)
      /\ entry < first /\ first <= match
      /\ built' = built \cup {entry}
         /\ closedBy' = [closedBy EXCEPT ![entry] = match]
      /\ Elements(kids') = {x \in Elements(kids) :
           x <= entry \/ first <= x} \ {match}
  BY DEF Paired
<1>2. /\ entry \in Elements(kids) /\ entry \notin built /\ match \notin built
      /\ Elements(kids) \subseteq Nodes /\ Nodes \subseteq Int
      /\ built \subseteq Nodes /\ entry # match
  <2>1. /\ entry \in Elements(kids) /\ entry \notin built /\ match \notin built
    BY <1>1 DEF IInv, StackMatchesTree
  <2>2. Elements(kids) \subseteq Nodes /\ Nodes \subseteq Int
          /\ built \subseteq Nodes
    BY NodesAreIntegers DEF IInv, TypeOK, Nodes
  <2>3. QED
    BY <1>1, <2>1, <2>2
<1>3. /\ closedBy'[entry] = match
      /\ \A o \in built : closedBy'[o] = closedBy[o]
  BY <1>1, <1>2 DEF IInv, TypeOK
<1>4. PICK c \in Seq(Nodes) :
        /\ inside' = [inside EXCEPT ![entry] = c]
        /\ Elements(c) = {x \in Elements(kids) : entry < x /\ x < first}
  BY DEF Paired
<1>5. inside'[entry] = c /\ \A o \in built : inside'[o] = inside[o]
  BY <1>2, <1>4 DEF IInv, TypeOK
<1>6. Nodes' = Nodes /\ \A x : Kind(x)' = Kind(x)
  BY DocFixed DEF Kind
<1>7. ASSUME NEW x, Placed(x)'
      PROVE  Placed(x)
  <2>1. x \in Elements(kids') => x \in Elements(kids)
    BY <1>1
  <2>2. ASSUME NEW o \in built', x \in Elements(inside'[o])
        PROVE  x \in Elements(kids) \/ \E i \in built : x \in Elements(inside[i])
    BY <1>1, <1>4, <1>5, <2>2
  <2>3. QED
    BY <1>7, <2>1, <2>2 DEF Placed
<1>8. ASSUME NEW x, Placed(x), x # match
      PROVE  Placed(x)'
  <2>1. CASE x \in Elements(kids)
    <3>1. x <= entry \/ first <= x \/ (entry < x /\ x < first)
      BY <1>2, <2>1
    <3>2. CASE x <= entry \/ first <= x
      BY <1>1, <1>8, <2>1, <3>2 DEF Placed
    <3>3. CASE entry < x /\ x < first
      BY <1>1, <1>4, <1>5, <2>1, <3>3 DEF Placed
    <3>4. QED
      BY <3>1, <3>2, <3>3
  <2>2. CASE \E o \in built : x \in Elements(inside[o])
    BY <1>1, <1>5, <2>2 DEF Placed
  <2>3. QED
    BY <1>8, <2>1, <2>2 DEF Placed
<1>9. ASSUME NEW x \in built'
      PROVE  Placed(x)'
  <2>1. Placed(entry)
    BY <1>2 DEF Placed
  <2>2. x # match /\ Placed(x)
    BY <1>1, <1>2, <2>1 DEF Accounted
  <2>3. QED
    BY <2>2, <1>8
<1>10. ASSUME NEW x \in Nodes
       PROVE  Placed(x)' \/ (\E o \in built' : closedBy'[o] = x) \/ Gone(x)'
  <2>1. CASE Placed(x)
    BY <2>1, <1>1, <1>3, <1>8
  <2>2. CASE \E o \in built : closedBy[o] = x
    BY <2>2, <1>1, <1>3
  <2>3. CASE Gone(x)
    BY <2>3, <1>6, <1>7 DEF Gone
  <2>4. QED
    BY <2>1, <2>2, <2>3 DEF Accounted
<1>11. QED
  BY <1>6, <1>9, <1>10 DEF Accounted

----------------------------------------------------------------------------
(* The invariant of the tree, whatever the document. *)

TreeInv == IInv /\ Accounted /\ \E hi : Nested(hi)

LEMMA TreeAtFirst == Init => TreeInv
  BY InitIInv, NestedAtFirst, AccountedAtFirst DEF TreeInv

LEMMA TreeStep == TreeInv /\ [Next]_vars => TreeInv'
<1> SUFFICES ASSUME TreeInv, [Next]_vars PROVE TreeInv'
  OBVIOUS
<1>1. IInv /\ Accounted /\ IInv'
  BY StepIInv DEF TreeInv
<1>2. PICK hi : Nested(hi)
  BY DEF TreeInv
<1>3. Accounted' /\ \E h : Nested(h)'
  <2>1. CASE SameTree
    <3>1. Accounted'
      BY <1>1, <2>1, DocFixed DEF SameTree, Accounted, Placed, Gone, Kind
    <3>2. QED
      BY <1>1, <1>2, <2>1, <3>1, NestedStep
  <2>2. CASE \E n \in Nodes : Replaced(n)
    BY <1>1, <1>2, <2>2, NestedStep, AccountedWhenReplaced
  <2>3. CASE \E entry, first, match \in Nodes : Paired(entry, first, match)
    BY <1>1, <1>2, <2>3, NestedStep, AccountedWhenPaired
  <2>4. QED
    BY <1>1, <2>1, <2>2, <2>3, StepsOfTree
<1>4. QED
  BY <1>1, <1>3 DEF TreeInv

LEMMA TreeAlways == Spec => []TreeInv
  BY TreeAtFirst, TreeStep, PTL DEF Spec

(* However elements are nested and matches are moved, reading the tree     *)
(* from its root meets the nodes in the order of the document, and none of *)
(* them twice.                                                             *)
THEOREM ReadInOrder == Spec => []DocumentOrderKept
<1>1. TreeInv => DocumentOrderKept
  BY LinkedIsPlaced DEF TreeInv, IInv, Rowed, DocumentOrderKept
<1>2. QED
  BY <1>1, TreeAlways, PTL

(* A node that is no longer reached from the root is the close tag of an   *)
(* element, or a tag after which nothing is reached; a text always is.     *)
THEOREM OnlyTheEndIsLost == Spec => []LostOnlyAtTheEnd
<1>1. ASSUME TreeInv PROVE LostOnlyAtTheEnd
  <2>1. /\ \A n \in Nodes : n \in Linked <=> Placed(n)
        /\ TypeOK /\ Accounted
    BY <1>1, LinkedIsPlaced DEF TreeInv, IInv
  <2>2. \A n \in Nodes : \A m \in n + 1 .. Len(doc) : m \in Nodes /\ n < m
    BY NodesAreIntegers, <2>1 DEF Nodes
  <2>3. QED
    BY <2>1, <2>2 DEF LostOnlyAtTheEnd, Accounted, Gone
<1>2. QED
  BY <1>1, TreeAlways, PTL

----------------------------------------------------------------------------
(* Documents whose tags are balanced. *)

LEMMA CountSplit ==
  ASSUME NEW k, NEW i \in Int, NEW m \in Int, NEW j \in Int, i <= m, m <= j
  PROVE  /\ Count(k, i, m) \in Nat /\ Count(k, m + 1, j) \in Nat
         /\ Count(k, i, j) = Count(k, i, m) + Count(k, m + 1, j)
<1> DEFINE A == {n \in i .. m : Kind(n) = k}
           B == {n \in m + 1 .. j : Kind(n) = k}
<1>1. IsFiniteSet(A) /\ IsFiniteSet(B)
  <2>1. IsFiniteSet(i .. m) /\ IsFiniteSet(m + 1 .. j)
    BY FS_Interval
  <2>2. A \subseteq i .. m /\ B \subseteq m + 1 .. j
    OBVIOUS
  <2> HIDE DEF A, B
  <2>3. QED
    BY <2>1, <2>2, FS_Subset
<1>2. A \cap B = {} /\ A \cup B = {n \in i .. j : Kind(n) = k}
  OBVIOUS
<1>3. Cardinality(A) = Count(k, i, m) /\ Cardinality(B) = Count(k, m + 1, j)
  BY DEF Count
<1> HIDE DEF A, B
<1>4. Cardinality(A \cup B) = Count(k, i, j)
  BY <1>2 DEF Count
<1>5. Cardinality(A) \in Nat /\ Cardinality(B) \in Nat
  BY <1>1, FS_CardinalityType
<1>6. Cardinality(A \cup B)
        = Cardinality(A) + Cardinality(B) - Cardinality(A \cap B)
  BY <1>1, FS_Union
<1>7. Cardinality(A \cap B) = 0
  BY <1>2, FS_EmptySet
<1>8. QED
  BY <1>3, <1>4, <1>5, <1>6, <1>7

(* An open tag has one partner, and two pairs do not overlap. *)
LEMMA OnePartner ==
  ASSUME NEW n \in Int, NEW c \in Int, NEW d \in Int, Closes(n, c), Closes(n, d)
  PROVE  c = d
<1>1. ASSUME NEW a \in Int, NEW b \in Int, Closes(n, a), Closes(n, b), a < b
      PROVE  FALSE
  <2>1. a \in n .. b - 1
    BY <1>1 DEF Closes
  <2>2. /\ Count("open", n, a) > Count("close", n, a)
        /\ Count("open", n, a) = Count("close", n, a)
    BY <1>1, <2>1 DEF Closes
  <2>3. Count("open", n, a) \in Nat
    BY <1>1, CountSplit DEF Closes
  <2>4. QED
    BY <2>2, <2>3
<1>2. QED
  BY <1>1

LEMMA NoCrossing ==
  ASSUME NEW e \in Int, NEW n \in Int, NEW c \in Int, NEW d \in Int,
         Closes(e, c), Closes(n, d), e < n, n <= c, c <= d
  PROVE  FALSE
<1>1. n - 1 \in e .. c - 1 /\ e <= n - 1 /\ n - 1 <= c /\ (n - 1) + 1 = n
  OBVIOUS
<1>2. /\ Count("open", e, n - 1) > Count("close", e, n - 1)
      /\ Count("open", e, c) = Count("close", e, c)
  BY <1>1 DEF Closes
<1>3. Count("open", n, c) >= Count("close", n, c)
  <2>1. CASE c = d
    <3>1. Count("open", n, c) = Count("close", n, c)
      BY <2>1 DEF Closes
    <3>2. Count("open", n, c) \in Nat
      BY CountSplit
    <3>3. QED
      BY <3>1, <3>2
  <2>2. CASE c < d
    <3>1. c \in n .. d - 1
      BY <2>2
    <3>2. Count("open", n, c) > Count("close", n, c)
      BY <3>1 DEF Closes
    <3>3. Count("open", n, c) \in Nat /\ Count("close", n, c) \in Nat
      BY CountSplit
    <3>4. QED
      BY <3>2, <3>3
  <2>3. QED
    BY <2>1, <2>2
<1>4. /\ Count("open", e, n - 1) \in Nat /\ Count("close", e, n - 1) \in Nat
      /\ Count("open", n, c) \in Nat /\ Count("close", n, c) \in Nat
      /\ Count("open", e, c) = Count("open", e, n - 1) + Count("open", n, c)
      /\ Count("close", e, c) = Count("close", e, n - 1) + Count("close", n, c)
  <2>1. \A k : /\ Count(k, e, n - 1) \in Nat /\ Count(k, n, c) \in Nat
               /\ Count(k, e, c) = Count(k, e, n - 1) + Count(k, n, c)
    <3>1. n - 1 \in Int
      OBVIOUS
    <3>2. QED
      BY ONLY <1>1, <3>1, e \in Int, c \in Int, CountSplit
  <2>2. QED
    BY <2>1
<1>5. QED
  BY ONLY <1>2, <1>3, <1>4

LEMMA BalanceFixed ==
  ASSUME [Next]_vars
  PROVE  /\ Balanced' <=> Balanced
         /\ \A n, c : Closes(n, c)' <=> Closes(n, c)
<1>1. /\ doc' = doc /\ Nodes' = Nodes /\ \A n : Kind(n)' = Kind(n)
  BY DocFixed DEF Kind
<1>2. \A k, i, j : Count(k, i, j)' = Count(k, i, j)
  BY <1>1 DEF Count
<1>3. \A n, c : Closes(n, c)' <=> Closes(n, c)
  BY <1>1, <1>2 DEF Closes
<1>4. QED
  BY <1>1, <1>3 DEF Balanced

(* All that stands between the tags of an element, close tags apart, is in *)
(* an element that begins after it, or in it.                              *)
Filled(n) ==
  \A x \in Nodes : n < x /\ x < closedBy[n] /\ Kind(x) # "close" =>
    \E o \in built : n <= o /\ x \in Elements(inside[o])

(* What the pass has done of the tags before the cursor. *)
Rebuilt ==
  /\ pc # "exit"
  /\ pc = "done" => stack = <<>>
  /\ \A n \in built : Kind(n) # "close"
  /\ \A n \in Nodes : closedBy[n] # None => Closes(n, closedBy[n]) /\ Filled(n)
  /\ \A t \in Nodes : IsTag(t) /\ t < cursor =>
       \/ t \in Elements(stack)
       \/ closedBy[t] # None
       \/ \E o \in Nodes : closedBy[o] = t

(* While elements are built, the stack holds both tags of a pair or none. *)
LEMMA PartnersOnStack ==
  ASSUME IInv, Balanced, Rebuilt, pc = "build", NEW t \in Elements(stack)
  PROVE  /\ t \in Nodes /\ Kind(t) \in {"open", "close"}
         /\ Kind(t) = "open" =>
              \E c \in Elements(stack) : Closes(t, c) /\ doc[t].name = doc[c].name
         /\ Kind(t) = "close" => \E n \in Elements(stack) : Closes(n, t)
<1>1. /\ t \in Nodes /\ IsTag(t) /\ t \notin built /\ Nodes \subseteq Int
      /\ cursor = Len(doc) + 1 /\ \A n \in Nodes : n < cursor
  BY NodesAreIntegers DEF IInv, StackMatchesTree, Phases, Nodes
<1>2. /\ \A n \in Nodes : closedBy[n] # None =>
           /\ n \in built /\ closedBy[n] \notin Elements(stack)
           /\ closedBy[n] \in Nodes /\ Closes(n, closedBy[n])
      /\ \A n \in Nodes : IsTag(n) =>
           \/ n \in Elements(stack)
           \/ closedBy[n] # None
           \/ \E o \in Nodes : closedBy[o] = n
  BY <1>1 DEF IInv, Phases, TypeOK, Rebuilt
<1>3. \A n, c : Closes(n, c) => Kind(n) = "open" /\ Kind(c) = "close"
  BY DEF Closes
<1>4. \A n \in Nodes : n # None
  BY NodesAreIntegers DEF IInv, Nodes, None
<1>5. ASSUME Kind(t) = "open"
      PROVE  \E c \in Elements(stack) : Closes(t, c) /\ doc[t].name = doc[c].name
  <2>1. PICK c \in Nodes : Closes(t, c) /\ doc[t].name = doc[c].name
    BY <1>1, <1>5 DEF Balanced
  <2>2. Kind(c) = "close" /\ IsTag(c)
    BY <2>1, <1>3 DEF IsTag
  <2>3. closedBy[c] = None
    BY <2>2, <1>2, <1>3
  <2>4. ASSUME NEW o \in Nodes, closedBy[o] = c
        PROVE  FALSE
    <3>1. Closes(o, c) /\ o \in built
      BY <2>4, <1>2, <1>4
    <3>2. o # t
      BY <3>1, <1>1
    <3>3. o < t \/ t < o
      BY <3>2, <1>1
    <3>4. o < c /\ t < c
      BY <3>1, <2>1 DEF Closes
    <3>5. o \in Int /\ t \in Int /\ c \in Int
      BY <1>1
    <3>6. t <= c /\ o <= c /\ c <= c
      BY <3>4, <3>5
    <3>7. QED
      BY ONLY <3>1, <2>1, <3>3, <3>5, <3>6, NoCrossing
  <2>5. c \in Elements(stack)
    BY <2>2, <2>3, <2>4, <1>2
  <2>6. QED
    BY <2>1, <2>5
<1>6. ASSUME Kind(t) = "close"
      PROVE  \E n \in Elements(stack) : Closes(n, t)
  <2>1. PICK n \in Nodes : Closes(n, t)
    BY <1>1, <1>6 DEF Balanced
  <2>2. Kind(n) = "open" /\ IsTag(n)
    BY <2>1, <1>3 DEF IsTag
  <2>3. ASSUME closedBy[n] # None
        PROVE  FALSE
    <3>1. Closes(n, closedBy[n]) /\ closedBy[n] \in Nodes
            /\ closedBy[n] \notin Elements(stack)
      BY <2>3, <1>2
    <3>2. closedBy[n] = t
      <4>1. n \in Int /\ closedBy[n] \in Int /\ t \in Int
        BY <3>1, <1>1
      <4>2. QED
        BY <4>1, <3>1, <2>1, OnePartner
    <3>3. QED
      BY <3>1, <3>2
  <2>4. \A o \in Nodes : closedBy[o] # n
    BY <2>2, <1>2, <1>3, <1>4
  <2>5. QED
    BY <2>1, <2>2, <2>3, <2>4, <1>2
<1>7. QED
  BY <1>1, <1>5, <1>6 DEF IsTag

(* The first close tag of the stack ends the open tag before it. *)
LEMMA FirstPair ==
  ASSUME IInv, Balanced, Rebuilt, pc = "build",
         NEW entry \in Elements(stack), NEW first \in Elements(stack),
         entry < first, Kind(first) = "close",
         \A e \in Elements(stack) : e < first => Kind(e) = "open" /\ e <= entry
  PROVE  Closes(entry, first) /\ doc[entry].name = doc[first].name
<1>1. /\ entry \in Int /\ first \in Int
      /\ \A t \in Elements(stack) : t \in Int
  BY NodesAreIntegers DEF IInv, Nodes
<1>2. PICK n \in Elements(stack) : Closes(n, first)
  BY PartnersOnStack
<1>3. n < first /\ n <= entry /\ Kind(entry) = "open"
  BY <1>2 DEF Closes
<1>4. PICK c \in Elements(stack) : Closes(entry, c) /\ doc[entry].name = doc[c].name
  BY <1>3, PartnersOnStack
<1>5. Kind(c) = "close" /\ entry < c
  BY <1>4 DEF Closes
<1>6. first <= c
  <2>1. ~(c < first)
    BY <1>5
  <2>2. QED
    BY <2>1, <1>1
<1>7. ~(n < entry)
  <2>1. entry <= first
    BY <1>1
  <2>2. QED
    BY ONLY <2>1, <1>1, <1>2, <1>4, <1>6, NoCrossing
<1>8. n = entry
  BY <1>1, <1>3, <1>7
<1>9. c = first
  BY <1>1, <1>2, <1>4, <1>8, OnePartner
<1>10. QED
  BY <1>4, <1>9

LEMMA NeverRefused ==
  ASSUME IInv, Balanced, Rebuilt
  PROVE  ~RejectUnreadable /\ ~ExitOpenWithoutClose /\ ~ReplaceOrphan
           /\ ~ExitNoMatch
<1>1. /\ stack \in Seq(Int) /\ Len(stack) \in Nat /\ DOMAIN stack = 1 .. Len(stack)
      /\ Ascending(stack) /\ Elements(stack) \subseteq Nodes /\ Nodes \subseteq Int
  BY NodesAreIntegers, LenProperties DEF IInv, StackMatchesTree, Nodes
<1>2. ~RejectUnreadable
  BY DEF RejectUnreadable, Balanced
<1>3. ASSUME ExitOpenWithoutClose
      PROVE  FALSE
  <2>1. 1 \in 1 .. Len(stack) /\ pc = "build"
    BY <1>1, <1>3, EmptySeq DEF ExitOpenWithoutClose
  <2>2. \A t \in Elements(stack) : Kind(t) = "open"
    BY <1>1, <1>3 DEF ExitOpenWithoutClose, Elements
  <2>3. stack[1] \in Elements(stack)
    BY <2>1 DEF Elements
  <2>4. PICK c \in Elements(stack) : Closes(stack[1], c)
    BY <2>1, <2>2, <2>3, PartnersOnStack
  <2>5. QED
    BY <2>2, <2>4 DEF Closes
<1>4. ASSUME ReplaceOrphan
      PROVE  FALSE
  <2>1. pc = "build" /\ FirstClose(1)
    BY <1>4 DEF ReplaceOrphan
  <2>2. 1 \in 1 .. Len(stack) /\ stack[1] \in Elements(stack)
          /\ Kind(stack[1]) = "close"
    BY <2>1, TopOfStack DEF FirstClose
  <2>3. PICK n \in Elements(stack) : Closes(n, stack[1])
    BY <2>1, <2>2, PartnersOnStack
  <2>4. n < stack[1]
    BY <2>3 DEF Closes
  <2>5. PICK i \in 1 .. Len(stack) : stack[i] = n
    BY DEF Elements
  <2>6. i < 1
    BY <1>1, <2>2, <2>4, <2>5, AscendingReflects
  <2>7. QED
    BY <2>6
<1>5. ASSUME ExitNoMatch
      PROVE  FALSE
  <2>1. PICK f \in 2 .. Len(stack) :
          FirstClose(f) /\ \A m \in f .. Len(stack) : ~Matches(f, m)
    BY <1>5 DEF ExitNoMatch
  <2> DEFINE entry == stack[f - 1]
             first == stack[f]
  <2>2. /\ first \in Elements(stack) /\ entry \in Elements(stack)
        /\ entry < first /\ Kind(first) = "close"
        /\ \A e \in Elements(stack) : e < first => Kind(e) = "open" /\ e <= entry
    BY <2>1, BeforeFirstClose
  <2> HIDE DEF entry, first
  <2>3. pc = "build"
    BY <1>5 DEF ExitNoMatch
  <2>4. doc[entry].name = doc[first].name
    BY <2>2, <2>3, FirstPair
  <2>5. doc[first] = [kind |-> "close", name |-> doc[entry].name]
    <3>1. first \in 1 .. Len(doc) /\ doc[first].kind = "close"
      BY <1>1, <2>2 DEF Nodes, Kind
    <3>2. doc[first] \in Tag \cup Leaf
      BY <3>1, ElementOfSeq DEF IInv, TypeOK
    <3>3. doc[first] \in Tag
      BY <3>1, <3>2, LeavesAssumption DEF Leaf
    <3>4. QED
      BY <2>4, <3>1, <3>3 DEF Tag
  <2>6. f \in f .. Len(stack) /\ f .. f - 1 = {}
    BY <1>1
  <2>7. Matches(f, f)
    BY <2>5, <2>6 DEF Matches, entry, first
  <2>8. QED
    BY <2>1, <2>6, <2>7
<1>6. QED
  BY <1>2, <1>3, <1>4, <1>5

(* The element that takes the nodes between two partners is filled. *)
LEMMA FilledWhenPaired ==
  ASSUME IInv, Accounted, NEW hi, Nested(hi), Balanced, Rebuilt, pc = "build",
         NEW entry \in Nodes, NEW first \in Nodes, NEW match \in Nodes,
         Paired(entry, first, match)
  PROVE  /\ match = first /\ Closes(entry, first)
         /\ \A x \in Nodes : entry < x /\ x < first /\ Kind(x) # "close" =>
              \E o \in built' : entry <= o /\ x \in Elements(inside'[o])
<1>1. /\ entry \in Elements(stack) /\ first \in Elements(stack) /\ entry < first
      /\ built' = built \cup {entry}
      /\ entry \in Elements(kids) /\ first \in Elements(kids) /\ entry \notin built
      /\ Nodes \subseteq Int /\ built \subseteq Nodes /\ TypeOK
  <2>1. /\ entry \in Elements(stack) /\ first \in Elements(stack) /\ entry < first
        /\ built' = built \cup {entry}
    BY DEF Paired
  <2>2. TypeOK /\ StackMatchesTree
    BY DEF IInv
  <2>3. QED
    BY <2>1, <2>2 DEF StackMatchesTree, Nodes, TypeOK
<1>2. Closes(entry, first) /\ match = first
  <2>1. Closes(entry, first) /\ doc[entry].name = doc[first].name
    BY FirstPair DEF Paired
  <2>2. QED
    BY <2>1 DEF Paired
<1>3. PICK c \in Seq(Nodes) :
        /\ inside' = [inside EXCEPT ![entry] = c]
        /\ Elements(c) = {x \in Elements(kids) : entry < x /\ x < first}
  BY DEF Paired
<1>4. inside'[entry] = c /\ \A o \in built : inside'[o] = inside[o]
  BY <1>1, <1>3 DEF TypeOK
<1>5. /\ Rowed(kids, hi)
      /\ \A n \in Nodes : n \in Linked <=> Placed(n)
  BY <1>1, LinkedIsPlaced
<1>6. /\ hi \in [Nodes -> Nodes] /\ hi[entry] = entry
      /\ \A k \in Elements(kids) : k < entry => hi[k] < entry
  BY <1>1 DEF Nested, Ordered
<1>7. ASSUME NEW x \in Nodes, entry < x, x < first, Kind(x) # "close"
      PROVE  \E o \in built' : entry <= o /\ x \in Elements(inside'[o])
  <2>1. Placed(x)
    <3>1. ~Gone(x)
      BY <1>1, <1>7 DEF Gone, Placed
    <3>2. \A o \in built : closedBy[o] # x
      <4>1. \A o \in built : closedBy[o] # None => Kind(closedBy[o]) = "close"
        BY <1>1 DEF Rebuilt, Closes
      <4>2. x # None
        BY NodesAreIntegers, <1>1 DEF None, Nodes
      <4>3. QED
        BY <4>1, <4>2, <1>7
    <3>3. QED
      BY <3>1, <3>2 DEF Accounted
  <2>2. CASE x \in Elements(kids)
    <3>1. x \in Elements(inside'[entry])
      BY <1>3, <1>4, <1>7, <2>2
    <3>2. entry <= entry
      BY <1>1
    <3>3. QED
      BY <1>1, <3>1, <3>2
  <2>3. CASE x \notin Elements(kids)
    <3>1. PICK k \in Elements(kids) :
            /\ k <= x /\ x <= hi[k]
            /\ \/ x = k
               \/ \E o \in Linked : k <= o /\ x \in Elements(inside[o])
      BY <1>5, <2>1 DEF Rowed, Linked
    <3>2. k \in Int /\ hi[k] \in Int
      BY <1>1, <1>6, NodesAreIntegers DEF Nested
    <3>3. entry < k
      BY <1>1, <1>6, <1>7, <3>1, <3>2
    <3>4. PICK o \in Linked : k <= o /\ x \in Elements(inside[o])
      BY <3>1, <2>3
    <3>5. o \in Nodes
      BY <1>5, ElementOfSeq DEF Rowed, Linked, Elements
    <3>6. o \in built
      <4>1. Elements(<<>>) = {}
        BY DEF Elements
      <4>2. QED
        BY <3>4, <3>5, <4>1 DEF Nested
    <3>7. entry <= o
      BY <1>1, <3>2, <3>3, <3>4, <3>5
    <3>8. QED
      BY <1>1, <1>4, <3>4, <3>6, <3>7
  <2>4. QED
    BY <2>2, <2>3
<1>8. QED
  BY <1>2, <1>7

LEMMA RebuiltAtFirst ==
  ASSUME Init
  PROVE  Rebuilt
<1>1. cursor = 1 /\ pc = "fill" /\ built = {} /\ \A n \in Nodes : closedBy[n] = None
  BY DEF Init
<1>2. \A n \in Nodes : ~(n < 1)
  BY InitIInv, NodesAreIntegers DEF IInv, Nodes
<1>3. QED
  BY <1>1, <1>2 DEF Rebuilt

LEMMA RebuiltStep ==
  ASSUME IInv, Accounted, NEW hi, Nested(hi), Balanced, Rebuilt, [Next]_vars
  PROVE  Rebuilt'
<1>1. /\ Nodes' = Nodes /\ \A n : Kind(n)' = Kind(n)
      /\ \A n : IsTag(n)' <=> IsTag(n)
      /\ \A n, c : Closes(n, c)' <=> Closes(n, c)
  BY DocFixed, BalanceFixed DEF Kind
<1>2. TypeOK /\ StackMatchesTree /\ Phases /\ Nodes \subseteq Int /\ cursor \in Int
  BY DEF IInv, TypeOK, Nodes
<1> DEFINE Closed == \A n \in Nodes : closedBy[n] # None =>
                       Closes(n, closedBy[n]) /\ Filled(n)
<1>3. ASSUME closedBy' = closedBy, inside' = inside, built \subseteq built'
      PROVE  Closed'
  BY <1>1, <1>3 DEF Rebuilt, Filled
<1>4. CASE SameTree /\ (stack' = stack /\ cursor' = cursor) /\ pc' = pc
  <2>1. Closed'
    BY <1>3, <1>4 DEF SameTree
  <2>2. QED
    BY <1>1, <1>4, <2>1 DEF Rebuilt, SameTree
<1>5. CASE SkipNode
  <2>1. ~IsTag(cursor) /\ \A t \in Nodes : t < cursor + 1 =>
          t < cursor \/ t = cursor
    BY <1>2, <1>5 DEF SkipNode, IsTag
  <2>2. Closed'
    BY <1>3, <1>5 DEF SkipNode
  <2>3. QED
    BY <1>1, <1>5, <2>1, <2>2 DEF Rebuilt, SkipNode
<1>6. CASE PushTag
  <2>1. \A t \in Nodes : t < cursor + 1 => t < cursor \/ t = cursor
    BY <1>2
  <2>2. Elements(stack') = Elements(stack) \cup {cursor}
    BY <1>2, <1>6, PushEffect
  <2>3. Closed'
    BY <1>3, <1>6 DEF PushTag
  <2>4. QED
    BY <1>1, <1>6, <2>1, <2>2, <2>3 DEF Rebuilt, PushTag
<1>7. CASE ReplaceEmptyOrSpecial
  <2>1. /\ ~IsTag(cursor) /\ Kind(cursor) # "close"
        /\ \A t \in Nodes : t < cursor + 1 => t < cursor \/ t = cursor
    BY <1>2, <1>7 DEF ReplaceEmptyOrSpecial, IsTag
  <2>2. built \subseteq built' /\ built' \subseteq built \cup {cursor}
    BY <1>7 DEF ReplaceEmptyOrSpecial, ReplaceByElement
  <2>3. Closed'
    BY <1>3, <1>7, <2>2 DEF ReplaceEmptyOrSpecial
  <2>4. QED
    BY <1>1, <1>7, <2>1, <2>2, <2>3 DEF Rebuilt, ReplaceEmptyOrSpecial
<1>8. CASE StackFilled \/ Return
  <2>1. /\ pc' # "exit" /\ stack' = stack /\ cursor' = cursor
        /\ pc' = "done" => stack = <<>>
        /\ SameTree
    BY <1>8 DEF StackFilled, Return, SameTree
  <2>2. Closed'
    BY <1>3, <2>1 DEF SameTree
  <2>3. QED
    BY <1>1, <2>1, <2>2 DEF Rebuilt, SameTree
<1>9. CASE Pair
  <2>1. PICK entry \in Nodes, first \in Nodes, match \in Nodes :
               Paired(entry, first, match)
    BY <1>9, PairOfTree
  <2>2. pc = "build"
    BY <1>9 DEF Pair
  <2>3. /\ built' = built \cup {entry} /\ cursor' = cursor /\ pc' = pc
        /\ closedBy' = [closedBy EXCEPT ![entry] = match]
        /\ Elements(stack') = Elements(stack) \ {entry, match}
        /\ entry \in Elements(stack)
    BY <2>1 DEF Paired
  <2>4. /\ match = first /\ Closes(entry, first)
        /\ \A x \in Nodes : entry < x /\ x < first /\ Kind(x) # "close" =>
             \E o \in built' : entry <= o /\ x \in Elements(inside'[o])
    BY <2>1, <2>2, FilledWhenPaired
  <2>5. /\ closedBy'[entry] = first /\ first # None
        /\ \A n \in Nodes : n # entry => closedBy'[n] = closedBy[n]
    BY <2>3, <2>4, <1>2, NodesAreIntegers DEF TypeOK, None, Nodes
  <2>6. \A o \in built : inside'[o] = inside[o]
    <3>1. entry \notin built
      BY <1>2, <2>3 DEF StackMatchesTree
    <3>2. \E c : inside' = [inside EXCEPT ![entry] = c]
      BY <2>1 DEF Paired
    <3>3. QED
      BY <3>1, <3>2, <1>2 DEF TypeOK
  <2>7. ASSUME NEW n \in Nodes, closedBy'[n] # None
        PROVE  Closes(n, closedBy'[n]) /\ Filled(n)'
    <3>1. CASE n = entry
      BY <3>1, <2>4, <2>5, <1>1 DEF Filled
    <3>2. CASE n # entry
      <4>1. closedBy'[n] = closedBy[n] /\ Closes(n, closedBy[n]) /\ Filled(n)
        BY <3>2, <2>5, <2>7 DEF Rebuilt
      <4>2. Filled(n)'
        BY <4>1, <2>3, <2>6, <1>1 DEF Filled
      <4>3. QED
        BY <4>1, <4>2
    <3>3. QED
      BY <3>1, <3>2
  <2>8. Closed'
    BY <2>7, <1>1
  <2>9. Kind(entry) # "close"
    BY <2>4 DEF Closes
  <2>10. ASSUME NEW t \in Nodes, IsTag(t), t < cursor
         PROVE  \/ t \in Elements(stack')
                \/ closedBy'[t] # None
                \/ \E o \in Nodes : closedBy'[o] = t
    <3>1. closedBy[entry] = None
      BY <1>2, <2>3 DEF StackMatchesTree, Phases
    <3>2. CASE t \in Elements(stack)
      BY <3>2, <2>3, <2>4, <2>5
    <3>3. CASE closedBy[t] # None
      BY <3>1, <3>3, <2>5
    <3>4. CASE \E o \in Nodes : closedBy[o] = t
      <4>1. t # None
        BY <1>2, NodesAreIntegers DEF None, Nodes
      <4>2. QED
        BY <3>1, <3>4, <4>1, <2>5
    <3>5. QED
      BY <2>10, <3>2, <3>3, <3>4 DEF Rebuilt
  <2>11. pc' # "exit" /\ (pc' = "done" => stack' = <<>>)
    BY <2>2, <2>3
  <2>12. QED
    BY <1>1, <2>3, <2>8, <2>9, <2>10, <2>11 DEF Rebuilt
<1>10. CASE UNCHANGED vars \/ Halted
  BY <1>4, <1>10 DEF vars, Halted, SameTree
<1>11. QED
  BY <1>5, <1>6, <1>7, <1>8, <1>9, <1>10, NeverRefused DEF Next, Fill, Build

(* What an element ended by its own tag holds in the end. *)
LEMMA ContentOfPair ==
  ASSUME IInv, NEW hi, Nested(hi), Rebuilt, NEW n \in Nodes, closedBy[n] # None
  PROVE  Content(n) = {x \in n + 1 .. closedBy[n] - 1 : Kind(x) # "close"}
<1>1. /\ TypeOK /\ NoTagInsideElement /\ Nodes \subseteq Int
      /\ inside[n] \in Seq(Nodes) /\ Ordered(inside[n], hi)
      /\ \A x \in Nodes : Kind(x) = "close" => x \notin built
  <2>1. TypeOK /\ NoTagInsideElement /\ Nodes \subseteq Int
    BY DEF IInv, Nodes
  <2>2. inside[n] \in Seq(Nodes) /\ Ordered(inside[n], hi)
    BY <2>1 DEF TypeOK, Nested
  <2>3. \A x \in Nodes : Kind(x) = "close" => x \notin built
    BY DEF Rebuilt
  <2>4. QED
    BY <2>1, <2>2, <2>3
<1>2. Rowed(inside[n], hi)
  BY <1>1, RowRead
<1>3. /\ Content(n) \subseteq Nodes /\ Elements(inside[n]) \subseteq Content(n)
      /\ \A x \in Content(n) :
           /\ Elements(inside[x]) \subseteq Content(n)
           /\ \E k \in Elements(inside[n]) :
                /\ k <= x /\ x <= hi[k]
                /\ x = k \/ \E o \in Content(n) : x \in Elements(inside[o])
  <2>1. Preorder(inside[n]) \in Seq(Nodes)
    BY <1>2 DEF Rowed
  <2>2. Content(n) \subseteq Nodes
    BY <2>1, ElementOfSeq DEF Content, Elements
  <2>3. QED
    BY <1>2, <2>2 DEF Rowed, Content
<1>4. /\ hi[n] < closedBy[n] /\ Filled(n) /\ closedBy[n] \in Nodes
      /\ \A k \in Elements(inside[n]) : n < k /\ hi[k] <= hi[n] /\ k \in Nodes
      /\ \A k \in Nodes : hi[k] \in Int
  <2>1. \A k \in Elements(inside[n]) : k \in Nodes
    BY <1>1, ElementOfSeq DEF Elements
  <2>2. QED
    BY <1>1, <2>1 DEF Nested, Rebuilt, TypeOK
<1>5. ASSUME NEW x \in Content(n)
      PROVE  x \in n + 1 .. closedBy[n] - 1 /\ Kind(x) # "close"
  <2>1. PICK k \in Elements(inside[n]) :
          /\ k <= x /\ x <= hi[k]
          /\ x = k \/ \E o \in Content(n) : x \in Elements(inside[o])
    BY <1>3
  <2>2. n < x /\ x < closedBy[n]
    <3>1. /\ n \in Int /\ k \in Int /\ x \in Int /\ hi[k] \in Int /\ hi[n] \in Int
          /\ closedBy[n] \in Int
      BY <1>1, <1>3, <1>4
    <3>2. n < k /\ hi[k] <= hi[n] /\ hi[n] < closedBy[n]
      BY <1>4
    <3>3. QED
      BY ONLY <2>1, <3>1, <3>2
  <2>3. \E o \in Nodes : x \in Elements(inside[o])
    BY <1>3, <2>1
  <2>4. Kind(x) # "close"
    BY <1>1, <1>3, <2>3 DEF NoTagInsideElement, IsTag
  <2>5. x \in Int /\ n \in Int /\ closedBy[n] \in Int
    BY <1>1, <1>3, <1>4
  <2>6. QED
    BY ONLY <2>2, <2>4, <2>5
<1> DEFINE N == Len(doc)
           Read(k) == \A x \in Nodes :
             x <= k /\ n < x /\ x < closedBy[n]
               /\ Kind(x) # "close" => x \in Content(n)
           H == {k \in 0 .. N : Read(k)}
<1>6. N \in Nat /\ Nodes = 1 .. N
  BY <1>1, NodesAreIntegers DEF Nodes
<1> HIDE DEF N
<1>7. 0 \in H
  BY <1>6
<1>8. ASSUME NEW k \in 0 .. N - 1, k \in H
      PROVE  k + 1 \in H
  <2>1. Read(k) /\ k + 1 \in 0 .. N
    BY <1>6, <1>8
  <2>2. ASSUME NEW x \in Nodes, x <= k + 1, n < x, x < closedBy[n], Kind(x) # "close"
        PROVE  x \in Content(n)
    <3>1. PICK o \in built : n <= o /\ x \in Elements(inside[o])
      BY <1>4, <2>2 DEF Filled
    <3>2. o \in Nodes /\ o < x /\ Kind(o) # "close"
      BY <1>1, <3>1 DEF TypeOK, Nested
    <3>3. CASE o = n
      BY <3>1, <3>3, <1>3
    <3>4. CASE o # n
      <4>1. o <= k /\ n < o /\ o < closedBy[n]
        BY <1>4, <1>6, <2>2, <3>1, <3>2, <3>4
      <4>2. o \in Content(n)
        BY <2>1, <3>2, <4>1
      <4>3. QED
        BY <3>1, <4>2, <1>3
    <3>5. QED
      BY <3>3, <3>4
  <2>3. Read(k + 1)
    BY <2>2
  <2>4. QED
    BY <2>1, <2>3
<1> HIDE DEF H
<1>9. \A k \in 0 .. N : k \in H
  BY <1>6, <1>7, <1>8, BoundedInduction, Zenon
<1>10. Read(N)
  BY <1>6, <1>9 DEF H
<1>11. ASSUME NEW x \in n + 1 .. closedBy[n] - 1, Kind(x) # "close"
       PROVE  x \in Content(n)
  <2>1. x \in Nodes /\ n < x /\ x < closedBy[n] /\ x <= N
    BY <1>4, <1>6
  <2>2. QED
    BY <2>1, <1>10, <1>11
<1>12. QED
  BY <1>5, <1>11

(* The invariant of the pass on a document whose tags are balanced. *)
BalancedInv == TreeInv /\ (Balanced => Rebuilt)

LEMMA BalancedAtFirst == Init => BalancedInv
  BY TreeAtFirst, RebuiltAtFirst DEF BalancedInv

LEMMA BalancedStep == BalancedInv /\ [Next]_vars => BalancedInv'
  BY TreeStep, BalanceFixed, RebuiltStep DEF BalancedInv, TreeInv

LEMMA BalancedAlways == Spec => []BalancedInv
  BY BalancedAtFirst, BalancedStep, PTL DEF Spec

(* When the tags of a document are balanced, in names too, the pass never  *)
(* refuses it, and in the end each open tag is an element that its own     *)
(* close tag ended, holding exactly what stood between the two, except the *)
(* close tags, which became attributes.                                    *)
THEOREM BalancedAreRebuilt == Spec => []BalancedRebuilt
<1>1. ASSUME BalancedInv PROVE BalancedRebuilt
  <2> SUFFICES ASSUME Balanced PROVE BalancedRebuilt
    BY DEF BalancedRebuilt
  <2>1. IInv /\ Rebuilt /\ pc # "exit"
    BY <1>1 DEF BalancedInv, TreeInv, Rebuilt
  <2>2. PICK hi : Nested(hi)
    BY <1>1 DEF BalancedInv, TreeInv
  <2>3. ASSUME pc = "done", NEW n \in Nodes, Kind(n) = "open"
        PROVE  /\ n \in built
               /\ Closes(n, closedBy[n])
               /\ Content(n) = {x \in n + 1 .. closedBy[n] - 1 : Kind(x) # "close"}
    <3>1. n < cursor /\ Elements(stack) = {} /\ IsTag(n) /\ n # None
      <4>1. stack = <<>> /\ cursor = Len(doc) + 1
        BY <2>1, <2>3 DEF Rebuilt, IInv, Phases
      <4>2. Elements(<<>>) = {}
        BY DEF Elements
      <4>3. n < cursor /\ n # None
        BY <2>1, <4>1, NodesAreIntegers DEF IInv, Nodes, None
      <4>4. QED
        BY <2>3, <4>1, <4>2, <4>3 DEF IsTag
    <3>2. \A o \in Nodes : closedBy[o] # n
      BY <2>1, <2>3, <3>1 DEF Rebuilt, Closes
    <3>3. closedBy[n] # None
      BY <2>1, <3>1, <3>2 DEF Rebuilt
    <3>4. n \in built /\ Closes(n, closedBy[n])
      BY <2>1, <3>3 DEF Rebuilt, IInv, Phases
    <3>5. QED
      BY <2>1, <2>2, <3>3, <3>4, ContentOfPair
  <2>4. QED
    BY <2>1, <2>3 DEF BalancedRebuilt
<1>2. QED
  BY <1>1, BalancedAlways, PTL

=============================================================================
