---------------------------- MODULE PostXmlProofs ----------------------------
(***************************************************************************)
(* Proofs about the passes of src/src/postxml.c, for every document: they  *)
(* keep its nodes in order.  A node stands for a piece of the document,    *)
(* from lo[n] to hi[n]; a mark that takes its siblings stands for a longer *)
(* one, a paragraph for what its content stands for.                       *)
(***************************************************************************)
EXTENDS PostXml, ListsProofs, FiniteSetTheorems

----------------------------------------------------------------------------
(* The tree: the nodes 0 .. m with their children.  The pieces of siblings *)
(* follow each other and lie in that of their parent, after the parent     *)
(* where it is a node of the document; up[n] is the parent of n, and h[n]  *)
(* is above what its children have.  Only a <parsep>, which holds nothing, *)
(* may be in no list.                                                      *)
Typed(k, m, lo, hi, up, h) ==
  /\ m \in Nat /\ N \in Nat /\ N <= m
  /\ k \in [0 .. m -> Seq(0 .. m)] /\ up \in [0 .. m -> 0 .. m]
  /\ lo \in [0 .. m -> Int] /\ hi \in [0 .. m -> Int] /\ h \in [0 .. m -> Nat]
Ordered(s, lo, hi) ==
  \A i, j \in 1 .. Len(s) : i < j => hi[s[i]] < lo[s[j]]
Holds(n, c, lo, hi, up, h) ==
  /\ up[c] = n /\ h[c] < h[n]
  /\ lo[n] <= lo[c] /\ hi[c] <= hi[n]
  /\ n <= N => n < lo[c]
Fits(n, k, lo, hi, up, h) ==
  /\ h[n] <= h[0] /\ lo[n] <= hi[n] /\ (n <= N => lo[n] = n)
  /\ Ordered(k[n], lo, hi)
  /\ \A c \in Elements(k[n]) : Holds(n, c, lo, hi, up, h)
IsTree(k, m, lo, hi, up, h) ==
  /\ Typed(k, m, lo, hi, up, h)
  /\ \A n \in 0 .. m : Fits(n, k, lo, hi, up, h)
  /\ \A n \in 1 .. m : n \in Elements(k[up[n]]) \/ Kind(n) = "parsep"
  /\ \A n \in 0 .. m : Kind(n) = "parsep" => Elements(k[n]) = {}
Tree(k) == \E m, lo, hi, up, h : IsTree(k, m, lo, hi, up, h)

(* What is read below n when g[c] is read for each child c. *)
Below(n, g) == <<n>> \o FlattenSeq([i \in DOMAIN kids[n] |-> g[kids[n][i]]])
Reading(g)  == g = [n \in DOMAIN kids |-> Below(n, g)]

(* What is read in s is the subtree of n. *)
Subtree(n, s, m, lo, hi) ==
  /\ s \in Seq(0 .. m) /\ Rises(s, 1 .. N)
  /\ n \in Elements(s)
  /\ \A x \in Elements(s) :
       /\ lo[n] <= lo[x] /\ hi[x] <= hi[n]
       /\ Elements(kids[x]) \subseteq Elements(s)

LEMMA SeqOfMore ==
  ASSUME NEW E, NEW S, E \subseteq S
  PROVE  Seq(E) \subseteq Seq(S)
<1> SUFFICES ASSUME NEW s \in Seq(E)
             PROVE  s \in Seq(S)
  OBVIOUS
<1>1. Elements(s) \subseteq S
  BY LenProperties, ElementOfSeq DEF Elements
<1>2. QED
  BY <1>1, SeqOfElements

LEMMA ChildrenAre ==
  ASSUME NEW k, NEW m, NEW lo, NEW hi, NEW up, NEW h, Typed(k, m, lo, hi, up, h),
         NEW n \in 0 .. m
  PROVE  /\ k[n] \in Seq(0 .. m) /\ DOMAIN k[n] = 1 .. Len(k[n])
         /\ Len(k[n]) \in Nat
         /\ Elements(k[n]) \subseteq 0 .. m
         /\ \A i \in 1 .. Len(k[n]) : k[n][i] \in 0 .. m /\ k[n][i] \in Elements(k[n])
<1>1. k[n] \in Seq(0 .. m)
  BY DEF Typed
<1> DEFINE s == k[n]
<1>2. s \in Seq(0 .. m)
  BY <1>1
<1> HIDE DEF s
<1>3. /\ DOMAIN s = 1 .. Len(s) /\ Len(s) \in Nat
      /\ \A i \in 1 .. Len(s) : s[i] \in 0 .. m
  BY <1>2, LenProperties, ElementOfSeq
<1>4. \A i \in 1 .. Len(s) : s[i] \in Elements(s)
  BY DEF Elements
<1>5. Elements(s) \subseteq 0 .. m
  BY <1>3 DEF Elements
<1>6. QED
  BY <1>2, <1>3, <1>4, <1>5 DEF s

LEMMA BelowType ==
  ASSUME NEW m, NEW lo, NEW hi, NEW up, NEW h, Typed(kids, m, lo, hi, up, h),
         NEW g \in [0 .. m -> Seq(0 .. m)], NEW n \in 0 .. m
  PROVE  Below(n, g) \in Seq(0 .. m)
<1> DEFINE s  == kids[n]
           nodes == 0 .. m
           ss == [i \in DOMAIN s |-> g[s[i]]]
<1>1. /\ s \in Seq(nodes) /\ DOMAIN s = 1 .. Len(s) /\ Len(s) \in Nat
      /\ \A i \in 1 .. Len(s) : s[i] \in nodes
      /\ g \in [nodes -> Seq(nodes)] /\ n \in nodes
  BY ChildrenAre
<1> HIDE DEF s, nodes
<1>2. \A i \in 1 .. Len(s) : g[s[i]] \in Seq(nodes)
  BY <1>1
<1>3. ss \in Seq(Seq(nodes))
  BY <1>1, <1>2
<1> HIDE DEF ss
<1>4. FlattenSeq(ss) \in Seq(nodes) /\ <<n>> \in Seq(nodes)
  BY <1>1, <1>3, FlattenType
<1>5. <<n>> \o FlattenSeq(ss) \in Seq(nodes)
  BY <1>4
<1>6. QED
  BY <1>5 DEF Below, ss, s, nodes

(* It depends on what is read for the children only. *)
SameFor(S, g, f) == \A x \in S : g[x] = f[x]

LEMMA BelowSame ==
  ASSUME NEW m, NEW lo, NEW hi, NEW up, NEW h, Typed(kids, m, lo, hi, up, h),
         NEW n \in 0 .. m, NEW g, NEW f, SameFor(Elements(kids[n]), g, f)
  PROVE  Below(n, g) = Below(n, f)
<1> DEFINE s == kids[n]
<1>1. DOMAIN s = 1 .. Len(s) /\ \A i \in 1 .. Len(s) : s[i] \in Elements(s)
  BY ChildrenAre
<1>2. SameFor(Elements(s), g, f)
  OBVIOUS
<1> HIDE DEF s
<1>3. \A i \in DOMAIN s : g[s[i]] = f[s[i]]
  BY <1>1, <1>2 DEF SameFor
<1>4. [i \in DOMAIN s |-> g[s[i]]] = [i \in DOMAIN s |-> f[s[i]]]
  BY ONLY <1>3
<1>5. <<n>> \o FlattenSeq([i \in DOMAIN s |-> g[s[i]]])
        = <<n>> \o FlattenSeq([i \in DOMAIN s |-> f[s[i]]])
  BY ONLY <1>4
<1>6. QED
  BY <1>5 DEF Below, s

(* Reading the tree from the leaves up: after as many rounds as the root   *)
(* is high, nothing that is read changes any more.                         *)
LEMMA ReadingExists ==
  ASSUME NEW m, NEW lo, NEW hi, NEW up, NEW h, IsTree(kids, m, lo, hi, up, h)
  PROVE  \E g : Reading(g)
<1> DEFINE H == h[0]
           M == H + 2
           nodes == 0 .. m
           T == [nodes -> Seq(nodes)]
           base == [n \in nodes |-> <<>>]
           step == [i \in 1 .. M |-> [g \in T |-> [n \in nodes |-> Below(n, g)]]]
<1>1. /\ Typed(kids, m, lo, hi, up, h) /\ 0 \in nodes /\ DOMAIN kids = nodes
      /\ h \in [nodes -> Nat]
      /\ \A n \in nodes : h[n] <= H /\ \A c \in Elements(kids[n]) : h[c] < h[n]
  <2>1. Typed(kids, m, lo, hi, up, h) /\ \A n \in nodes : Fits(n, kids, lo, hi, up, h)
    BY DEF IsTree
  <2>2. 0 \in nodes /\ DOMAIN kids = nodes /\ h \in [nodes -> Nat]
    <3>1. m \in Nat /\ h \in [nodes -> Nat]
      BY <2>1 DEF Typed
    <3>2. DOMAIN kids = nodes
      BY <2>1 DEF Typed
    <3>3. QED
      BY <3>1, <3>2
  <2>3. \A n \in nodes : h[n] <= H /\ \A c \in Elements(kids[n]) : h[c] < h[n]
    BY <2>1 DEF Fits, Holds
  <2>4. QED
    BY <2>1, <2>2, <2>3
<1>2. H \in Nat
  BY <1>1
<1> HIDE DEF H
<1>3. M \in Nat /\ base \in T
  BY <1>2
<1>4. IsStep(step, M, T)
  <2>1. ASSUME NEW i \in 1 .. M, NEW g \in T
        PROVE  step[i][g] \in T
    <3>1. \A n \in nodes : Below(n, g) \in Seq(nodes)
      BY <1>1, BelowType
    <3> HIDE DEF nodes
    <3>2. [n \in nodes |-> Below(n, g)] \in T
      BY <3>1
    <3>3. QED
      BY <3>2
  <2> HIDE DEF step, T
  <2>2. QED
    BY <2>1 DEF IsStep
<1> HIDE DEF base
<1>5. PICK f : Iterates(f, base, step, M, T)
  <2> HIDE DEF step, T, M
  <2>1. QED
    BY <1>3, <1>4, Recursion
<1>6. f \in [0 .. M -> T]
  BY <1>5 DEF Iterates
<1>7. \A i \in 1 .. M : \A n \in nodes : f[i][n] = Below(n, f[i - 1])
  <2> SUFFICES ASSUME NEW i \in 1 .. M, NEW n \in nodes
               PROVE  f[i][n] = Below(n, f[i - 1])
    OBVIOUS
  <2>1. f[i] = step[i][f[i - 1]]
    BY <1>5 DEF Iterates
  <2>2. f[i - 1] \in T
    <3>1. i - 1 \in 0 .. M
      BY <1>3
    <3> HIDE DEF T, M
    <3>2. QED
      BY ONLY <3>1, <1>6
  <2> HIDE DEF T, nodes
  <2>3. step[i][f[i - 1]] = [x \in nodes |-> Below(x, f[i - 1])]
    BY <2>2
  <2>4. QED
    BY <2>1, <2>3
<1> HIDE DEF step, T, M, nodes
<1> DEFINE Same(d) == \A n \in nodes : h[n] <= d => f[d + 2][n] = f[d + 1][n]
           G == {d \in 0 .. H : Same(d)}
<1>8. \A d \in 0 .. H : /\ d + 1 \in 1 .. M /\ d + 2 \in 1 .. M
                        /\ (d + 2) - 1 = d + 1 /\ (d + 1) - 1 = d
  BY <1>2 DEF M
<1>9. 0 \in G
  <2>1. ASSUME NEW n \in nodes, h[n] <= 0
        PROVE  f[2][n] = f[1][n]
    <3>1. \A c \in Elements(kids[n]) : FALSE
      <4> SUFFICES ASSUME NEW c \in Elements(kids[n])
                   PROVE  FALSE
        OBVIOUS
      <4>1. h[c] < h[n] /\ c \in nodes
        BY <1>1, ChildrenAre DEF nodes
      <4>2. QED
        BY <4>1, <2>1, <1>1
    <3>2. SameFor(Elements(kids[n]), f[1], f[0])
      BY <3>1 DEF SameFor
    <3>3. Below(n, f[1]) = Below(n, f[0])
      BY <3>2, <1>1, BelowSame DEF nodes
    <3>4. 0 \in 0 .. H /\ 0 + 1 = 1 /\ 0 + 2 = 2
      BY <1>2
    <3>5. f[2][n] = Below(n, f[1]) /\ f[1][n] = Below(n, f[0])
      <4>1. 1 \in 1 .. M /\ 2 \in 1 .. M /\ 2 - 1 = 1 /\ 1 - 1 = 0
        BY <1>2 DEF M
      <4>2. QED
        BY ONLY <4>1, <1>7, n \in nodes
    <3>6. QED
      BY <3>3, <3>5
  <2>2. 0 \in 0 .. H /\ 0 + 1 = 1 /\ 0 + 2 = 2
    BY <1>2
  <2>3. QED
    BY <2>1, <2>2
<1>10. ASSUME NEW d \in 0 .. H - 1, d \in G
       PROVE  d + 1 \in G
  <2>1. /\ d \in 0 .. H /\ d + 1 \in 0 .. H
        /\ (d + 1) + 1 = d + 2 /\ (d + 1) + 2 = d + 3
        /\ d + 3 \in 1 .. M /\ d + 2 \in 1 .. M /\ (d + 3) - 1 = d + 2 /\ (d + 2) - 1 = d + 1
    BY <1>2 DEF M
  <2>2. ASSUME NEW n \in nodes, h[n] <= d + 1
        PROVE  f[d + 3][n] = f[d + 2][n]
    <3>1. SameFor(Elements(kids[n]), f[d + 2], f[d + 1])
      <4> SUFFICES ASSUME NEW x \in Elements(kids[n])
                   PROVE  f[d + 2][x] = f[d + 1][x]
        BY DEF SameFor
      <4>1. h[x] < h[n] /\ x \in nodes
        BY <1>1, ChildrenAre DEF nodes
      <4>2. h[x] \in Nat /\ h[n] \in Nat
        BY <4>1, <1>1
      <4>3. h[x] <= d
        BY <4>1, <4>2, <2>2
      <4>4. Same(d)
        BY <1>10
      <4>5. QED
        BY <4>1, <4>3, <4>4
    <3>2. Below(n, f[d + 2]) = Below(n, f[d + 1])
      BY <3>1, <1>1, BelowSame DEF nodes
    <3>3. f[d + 3][n] = Below(n, f[d + 2]) /\ f[d + 2][n] = Below(n, f[d + 1])
      BY ONLY <2>1, <1>7, n \in nodes
    <3>4. QED
      BY <3>2, <3>3
  <2>3. Same(d + 1)
    BY <2>1, <2>2
  <2>4. QED
    BY <2>1, <2>3
<1> HIDE DEF G
<1>11. \A d \in 0 .. H : d \in G
  BY <1>2, <1>9, <1>10, BoundedInduction, Zenon
<1>12. H \in G
  BY <1>11, <1>2
<1>13. \A n \in nodes : f[H + 2][n] = f[H + 1][n]
  <2>1. Same(H)
    BY <1>12 DEF G
  <2>2. QED
    BY <2>1, <1>1
<1>14. \A n \in nodes : f[H + 1][n] = Below(n, f[H + 1])
  <2>1. H \in 0 .. H
    BY <1>2
  <2>2. H + 2 \in 1 .. M /\ (H + 2) - 1 = H + 1
    BY <2>1, <1>8
  <2>3. \A n \in nodes : f[H + 2][n] = Below(n, f[H + 1])
    BY ONLY <2>2, <1>7
  <2>4. QED
    BY <2>3, <1>13
<1>15. f[H + 1] = [n \in nodes |-> f[H + 1][n]]
  <2>1. H + 1 \in 0 .. M
    BY <1>2 DEF M
  <2>2. f[H + 1] \in [nodes -> Seq(nodes)]
    BY <2>1, <1>6 DEF T
  <2>3. QED
    BY <2>2
<1>16. [n \in nodes |-> f[H + 1][n]] = [n \in nodes |-> Below(n, f[H + 1])]
  BY <1>14
<1>17. Reading(f[H + 1])
  BY <1>1, <1>15, <1>16 DEF Reading
<1>18. QED
  BY <1>17

LEMMA PreorderReads ==
  ASSUME NEW m, NEW lo, NEW hi, NEW up, NEW h, IsTree(kids, m, lo, hi, up, h)
  PROVE  \E g : Reading(g) /\ Preorder = g[0]
<1> DEFINE Unfolds(g) ==
             g = [n \in DOMAIN kids |->
                   <<n>> \o FlattenSeq([i \in DOMAIN kids[n] |-> g[kids[n][i]]])]
           g == CHOOSE g : Unfolds(g)
<1>1. \A f : Unfolds(f) <=> Reading(f)
  BY DEF Reading, Below
<1>2. \E f : Unfolds(f)
  BY <1>1, ReadingExists
<1>3. Preorder = g[0]
  BY DEF Preorder
<1> HIDE DEF Unfolds
<1>4. Unfolds(g)
  BY <1>2
<1> HIDE DEF g
<1>5. Reading(g)
  BY <1>1, <1>4
<1>6. QED
  BY <1>3, <1>5

(* Facts of a tree, one node or one child at a time.                       *)
LEMMA TreeAt ==
  ASSUME NEW k, NEW m, NEW lo, NEW hi, NEW up, NEW h, IsTree(k, m, lo, hi, up, h),
         NEW n \in 0 .. m
  PROVE  /\ h[n] \in Nat /\ lo[n] \in Int /\ hi[n] \in Int /\ up[n] \in 0 .. m
         /\ m \in Nat /\ N \in Nat /\ N <= m
         /\ h[n] <= h[0] /\ lo[n] <= hi[n] /\ (n <= N => lo[n] = n)
         /\ Ordered(k[n], lo, hi)
         /\ \A c \in Elements(k[n]) : Holds(n, c, lo, hi, up, h)
         /\ (Kind(n) = "parsep" => Elements(k[n]) = {})
         /\ (n # 0 => n \in Elements(k[up[n]]) \/ Kind(n) = "parsep")
<1>1. Typed(k, m, lo, hi, up, h) /\ Fits(n, k, lo, hi, up, h)
  BY DEF IsTree
<1>2. m \in Nat /\ N \in Nat /\ N <= m
  BY <1>1 DEF Typed
<1>3. h[n] \in Nat /\ lo[n] \in Int /\ hi[n] \in Int /\ up[n] \in 0 .. m
  BY <1>1 DEF Typed
<1>4. /\ h[n] <= h[0] /\ lo[n] <= hi[n] /\ (n <= N => lo[n] = n)
      /\ Ordered(k[n], lo, hi)
      /\ \A c \in Elements(k[n]) : Holds(n, c, lo, hi, up, h)
  BY <1>1 DEF Fits
<1>5. Kind(n) = "parsep" => Elements(k[n]) = {}
  BY DEF IsTree
<1>6. ASSUME n # 0
      PROVE  n \in Elements(k[up[n]]) \/ Kind(n) = "parsep"
  <2>1. n \in 1 .. m
    BY <1>2, <1>6
  <2>2. QED
    BY <2>1 DEF IsTree
<1>7. QED
  BY <1>2, <1>3, <1>4, <1>5, <1>6

LEMMA TreeChild ==
  ASSUME NEW k, NEW m, NEW lo, NEW hi, NEW up, NEW h, IsTree(k, m, lo, hi, up, h),
         NEW n \in 0 .. m, NEW c \in Elements(k[n])
  PROVE  /\ c \in 0 .. m /\ up[c] = n
         /\ h[c] \in Nat /\ h[n] \in Nat /\ h[c] < h[n]
         /\ lo[c] \in Int /\ hi[c] \in Int /\ lo[n] \in Int /\ hi[n] \in Int
         /\ lo[n] <= lo[c] /\ hi[c] <= hi[n] /\ lo[c] <= hi[c]
         /\ (n <= N => n < lo[c])
<1>1. Holds(n, c, lo, hi, up, h)
  BY TreeAt
<1>2. c \in 0 .. m
  <2>1. Typed(k, m, lo, hi, up, h)
    BY DEF IsTree
  <2>2. QED
    BY <2>1, ChildrenAre
<1>3. /\ h[c] \in Nat /\ lo[c] \in Int /\ hi[c] \in Int /\ lo[c] <= hi[c]
      /\ h[n] \in Nat /\ lo[n] \in Int /\ hi[n] \in Int
  BY <1>2, TreeAt
<1>4. QED
  BY <1>1, <1>2, <1>3 DEF Holds

(* A node and the subtrees of its children make its subtree.               *)
AllSubtrees(S, g, m, lo, hi) == \A c \in S : Subtree(c, g[c], m, lo, hi)

LEMMA SubtreeGrows ==
  ASSUME NEW m, NEW lo, NEW hi, NEW up, NEW h, IsTree(kids, m, lo, hi, up, h),
         NEW n \in 0 .. m, NEW g, AllSubtrees(Elements(kids[n]), g, m, lo, hi)
  PROVE  Subtree(n, Below(n, g), m, lo, hi)
<1> DEFINE nodes == 0 .. m
           D  == 1 .. N
           s  == kids[n]
           ss == [i \in DOMAIN s |-> g[s[i]]]
           F  == FlattenSeq(ss)
<1>1. /\ s \in Seq(nodes) /\ DOMAIN s = 1 .. Len(s) /\ Len(s) \in Nat
      /\ \A i \in 1 .. Len(s) : s[i] \in nodes /\ s[i] \in Elements(s)
  <2>1. Typed(kids, m, lo, hi, up, h)
    BY DEF IsTree
  <2>2. QED
    BY <2>1, ChildrenAre
<1>2. /\ nodes \subseteq Int /\ n \in nodes
      /\ \A x \in nodes : x \in Int /\ lo[x] \in Int /\ hi[x] \in Int /\ lo[x] <= hi[x] /\ (x \in D => lo[x] = x)
  <2>1. ASSUME NEW x \in nodes
        PROVE  x \in Int /\ lo[x] \in Int /\ hi[x] \in Int /\ lo[x] <= hi[x] /\ (x \in D => lo[x] = x)
    BY TreeAt
  <2>2. QED
    BY <2>1
<1>3. \A c \in Elements(s) :
        /\ c \in nodes /\ lo[n] <= lo[c] /\ hi[c] <= hi[n] /\ (n \in D => n < lo[c])
  <2> SUFFICES ASSUME NEW c \in Elements(s)
               PROVE  c \in nodes /\ lo[n] <= lo[c] /\ hi[c] <= hi[n] /\ (n \in D => n < lo[c])
    OBVIOUS
  <2>1. c \in nodes /\ lo[n] <= lo[c] /\ hi[c] <= hi[n] /\ (n <= N => n < lo[c])
    BY TreeChild
  <2>2. N \in Nat
    BY TreeAt
  <2>3. QED
    BY <2>1, <2>2
<1>4. \A i, j \in 1 .. Len(s) : i < j => hi[s[i]] < lo[s[j]]
  <2>1. Ordered(s, lo, hi)
    BY TreeAt
  <2>2. QED
    BY <2>1 DEF Ordered
<1>5. \A i \in 1 .. Len(s) : Subtree(s[i], g[s[i]], m, lo, hi)
  BY <1>1 DEF AllSubtrees
<1>6. Elements(s) = {s[i] : i \in 1 .. Len(s)}
  BY DEF Elements
<1> HIDE DEF s, D
<1>7. \A i \in 1 .. Len(s) :
        /\ g[s[i]] \in Seq(nodes) /\ Rises(g[s[i]], D) /\ s[i] \in Elements(g[s[i]])
        /\ \A x \in Elements(g[s[i]]) :
             /\ x \in nodes /\ lo[s[i]] <= lo[x] /\ hi[x] <= hi[s[i]]
             /\ Elements(kids[x]) \subseteq Elements(g[s[i]])
  <2> SUFFICES ASSUME NEW i \in 1 .. Len(s)
               PROVE  /\ g[s[i]] \in Seq(nodes) /\ Rises(g[s[i]], D) /\ s[i] \in Elements(g[s[i]])
                      /\ \A x \in Elements(g[s[i]]) :
                           /\ x \in nodes /\ lo[s[i]] <= lo[x] /\ hi[x] <= hi[s[i]]
                           /\ Elements(kids[x]) \subseteq Elements(g[s[i]])
    OBVIOUS
  <2> DEFINE t == g[s[i]]
  <2>1. /\ t \in Seq(nodes) /\ Rises(t, D) /\ s[i] \in Elements(t)
        /\ \A x \in Elements(t) : /\ lo[s[i]] <= lo[x] /\ hi[x] <= hi[s[i]]
                                  /\ Elements(kids[x]) \subseteq Elements(t)
    BY <1>5 DEF Subtree, D
  <2> HIDE DEF t, nodes
  <2>2. Elements(t) \subseteq nodes
    BY <2>1, LenProperties, ElementOfSeq DEF Elements
  <2>3. QED
    BY <2>1, <2>2 DEF t
<1> HIDE DEF nodes
<1>8. /\ ss \in Seq(Seq(nodes)) /\ ss \in Seq(Seq(Int)) /\ Len(ss) = Len(s)
      /\ \A i \in 1 .. Len(s) : ss[i] = g[s[i]]
  <2>1. \A i \in DOMAIN s : g[s[i]] \in Seq(nodes)
    BY <1>1, <1>7
  <2>2. Seq(nodes) \subseteq Seq(Int)
    <3>1. nodes \subseteq Int
      BY <1>2
    <3>2. QED
      BY <3>1, SeqOfMore
  <2>3. ss \in Seq(Seq(nodes)) /\ Len(ss) = Len(s) /\ \A i \in 1 .. Len(s) : ss[i] = g[s[i]]
    BY <2>1, <1>1
  <2>4. ss \in Seq(Seq(Int))
    <3> HIDE DEF ss
    <3>1. QED
      BY <2>2, <2>3
  <2>5. QED
    BY <2>3, <2>4
<1> HIDE DEF ss
<1>9. AllApart(ss, D)
  <2>1. \A i \in 1 .. Len(ss) : Rises(ss[i], D)
    BY <1>7, <1>8
  <2>2. ASSUME NEW i \in 1 .. Len(ss), NEW j \in 1 .. Len(ss), i < j
        PROVE  Apart(ss[i], ss[j], D)
    <3> SUFFICES ASSUME NEW x \in Elements(ss[i]), NEW y \in Elements(ss[j]), x \in D, y \in D
                 PROVE  x < y
      BY DEF Apart
    <3>1. x \in nodes /\ hi[x] <= hi[s[i]] /\ y \in nodes /\ lo[s[j]] <= lo[y]
      BY <1>7, <1>8
    <3>2. s[i] \in nodes /\ s[j] \in nodes /\ hi[s[i]] < lo[s[j]]
      BY <1>1, <1>4, <1>8, <2>2
    <3>3. x \in Int /\ y \in Int /\ lo[x] = x /\ lo[x] <= hi[x] /\ lo[y] = y
      BY <1>2, <3>1
    <3>4. hi[x] \in Int /\ hi[s[i]] \in Int /\ lo[s[j]] \in Int
      BY <1>2, <3>1, <3>2
    <3>5. QED
      BY ONLY <3>1, <3>2, <3>3, <3>4
  <2>3. QED
    BY <2>1, <2>2 DEF AllApart
<1>10. /\ F \in Seq(Int) /\ Rises(F, D)
       /\ \A x : x \in Elements(F) <=> \E i \in 1 .. Len(s) : x \in Elements(ss[i])
  <2>1. /\ F \in Seq(Int) /\ Rises(F, D)
        /\ \A x : x \in Elements(F) <=> \E i \in 1 .. Len(ss) : x \in Elements(ss[i])
    BY <1>8, <1>9, FlattenRises
  <2>2. QED
    BY <2>1, <1>8
<1>11. F \in Seq(nodes)
  BY <1>8, FlattenType
<1> HIDE DEF F
<1>12. /\ <<n>> \in Seq(Int) /\ <<n>> \in Seq(nodes) /\ Elements(<<n>>) = {n} /\ Rises(<<n>>, D)
  <2>1. n \in Int /\ n \in nodes
    BY <1>2
  <2>2. <<n>> \in Seq(Int) /\ <<n>> \in Seq(nodes) /\ Len(<<n>>) = 1 /\ <<n>>[1] = n
    BY <2>1
  <2>3. Elements(<<n>>) = {n}
    BY <2>2 DEF Elements
  <2>4. Rises(<<n>>, D)
    BY <2>2 DEF Rises
  <2>5. QED
    BY <2>2, <2>3, <2>4
<1>13. \A x \in Elements(F) :
         /\ x \in nodes
         /\ lo[n] <= lo[x] /\ hi[x] <= hi[n]
         /\ (n \in D => n < lo[x])
         /\ Elements(kids[x]) \subseteq Elements(F)
  <2> SUFFICES ASSUME NEW x \in Elements(F)
               PROVE  /\ x \in nodes
                      /\ lo[n] <= lo[x] /\ hi[x] <= hi[n]
                      /\ (n \in D => n < lo[x])
                      /\ Elements(kids[x]) \subseteq Elements(F)
    OBVIOUS
  <2>1. PICK i \in 1 .. Len(s) : x \in Elements(ss[i])
    BY <1>10
  <2>2. /\ x \in nodes /\ lo[s[i]] <= lo[x] /\ hi[x] <= hi[s[i]]
        /\ Elements(kids[x]) \subseteq Elements(ss[i])
    BY <2>1, <1>7, <1>8
  <2>3. /\ s[i] \in nodes /\ lo[n] <= lo[s[i]] /\ hi[s[i]] <= hi[n] /\ (n \in D => n < lo[s[i]])
    BY <1>1, <1>3
  <2>4. /\ lo[n] \in Int /\ hi[n] \in Int /\ lo[x] \in Int /\ hi[x] \in Int
        /\ lo[s[i]] \in Int /\ hi[s[i]] \in Int /\ n \in Int
    BY <1>2, <2>2, <2>3
  <2>5. Elements(ss[i]) \subseteq Elements(F)
    BY <1>10
  <2>6. Elements(kids[x]) \subseteq Elements(F)
    BY <2>2, <2>5
  <2>7. lo[n] <= lo[x] /\ hi[x] <= hi[n] /\ (n \in D => n < lo[x])
    BY ONLY <2>2, <2>3, <2>4
  <2>8. QED
    BY <2>2, <2>6, <2>7
<1>14. Apart(<<n>>, F, D)
  <2> SUFFICES ASSUME NEW y \in Elements(F), n \in D, y \in D
               PROVE  n < y
    BY <1>12 DEF Apart
  <2>1. y \in nodes /\ n < lo[y]
    BY <1>13
  <2>2. lo[y] = y
    BY <1>2, <2>1
  <2>3. QED
    BY <2>1, <2>2
<1> DEFINE w == <<n>> \o F
<1>15. /\ w \in Seq(nodes) /\ Rises(w, D) /\ Elements(w) = {n} \cup Elements(F)
  <2>1. w \in Seq(nodes)
    BY <1>11, <1>12
  <2>2. Rises(w, D)
    BY <1>10, <1>12, <1>14, JoinedRises
  <2>3. Elements(w) = Elements(<<n>>) \cup Elements(F)
    BY <1>10, <1>12, ConcatElements
  <2>4. QED
    BY <2>1, <2>2, <2>3, <1>12
<1> HIDE DEF w
<1>16. Elements(s) \subseteq Elements(F)
  <2>1. ASSUME NEW i \in 1 .. Len(s)
        PROVE  s[i] \in Elements(F)
    <3>1. s[i] \in Elements(ss[i])
      BY <1>7, <1>8
    <3>2. QED
      BY <3>1, <1>10
  <2>2. QED
    BY <2>1, <1>6
<1>17. \A x \in Elements(w) :
         /\ lo[n] <= lo[x] /\ hi[x] <= hi[n]
         /\ Elements(kids[x]) \subseteq Elements(w)
  <2>1. lo[n] <= lo[n] /\ hi[n] <= hi[n] /\ Elements(kids[n]) \subseteq Elements(w)
    <3>1. lo[n] \in Int /\ hi[n] \in Int
      BY <1>2
    <3>2. Elements(kids[n]) \subseteq Elements(w)
      BY <1>15, <1>16 DEF s
    <3>3. QED
      BY <3>1, <3>2
  <2>2. \A x \in Elements(F) : Elements(kids[x]) \subseteq Elements(w)
    BY <1>13, <1>15
  <2>3. QED
    BY ONLY <2>1, <2>2, <1>13, <1>15
<1>18. Subtree(n, w, m, lo, hi)
  BY <1>15, <1>17 DEF Subtree, nodes, D
<1>19. QED
  BY <1>18 DEF w, F, ss, s, Below

(* By induction on the height of a node.                                   *)
LEMMA SubtreesRead ==
  ASSUME NEW m, NEW lo, NEW hi, NEW up, NEW h, IsTree(kids, m, lo, hi, up, h),
         NEW g, Reading(g)
  PROVE  \A n \in 0 .. m : Subtree(n, g[n], m, lo, hi)
<1> DEFINE nodes == 0 .. m
           H == h[0]
           Read(d) == \A n \in nodes : h[n] <= d => Subtree(n, g[n], m, lo, hi)
           G == {d \in 0 .. H : Read(d)}
<1>1. /\ H \in Nat
      /\ \A n \in nodes : h[n] \in Nat /\ h[n] <= H
  <2>1. m \in Nat
    BY DEF IsTree, Typed
  <2>2. QED
    BY <2>1, TreeAt
<1>2. \A n \in nodes : g[n] = Below(n, g)
  <2>1. DOMAIN kids = nodes
    BY DEF IsTree, Typed
  <2>2. g = [n \in nodes |-> Below(n, g)]
    BY <2>1 DEF Reading
  <2>3. QED
    BY <2>2
<1> HIDE DEF H, nodes
<1>3. ASSUME NEW d \in Int, NEW n \in nodes, h[n] <= d,
             \A x \in nodes : h[x] < d => Subtree(x, g[x], m, lo, hi)
      PROVE  Subtree(n, g[n], m, lo, hi)
  <2>1. AllSubtrees(Elements(kids[n]), g, m, lo, hi)
    <3> SUFFICES ASSUME NEW c \in Elements(kids[n])
                 PROVE  Subtree(c, g[c], m, lo, hi)
      BY DEF AllSubtrees
    <3>1. c \in nodes /\ h[c] \in Nat /\ h[n] \in Nat /\ h[c] < h[n]
      BY TreeChild DEF nodes
    <3>2. h[c] < d
      BY <3>1, <1>3
    <3>3. QED
      BY <3>1, <3>2, <1>3
  <2>2. Subtree(n, Below(n, g), m, lo, hi)
    BY <2>1, SubtreeGrows DEF nodes
  <2>3. QED
    BY <2>2, <1>2
<1>4. 0 \in G
  <2>1. Read(0)
    <3> SUFFICES ASSUME NEW n \in nodes, h[n] <= 0
                 PROVE  Subtree(n, g[n], m, lo, hi)
      OBVIOUS
    <3>1. \A x \in nodes : h[x] < 0 => Subtree(x, g[x], m, lo, hi)
      BY <1>1
    <3>2. QED
      BY <3>1, <1>3
  <2>2. QED
    BY <2>1, <1>1
<1>5. ASSUME NEW d \in 0 .. H - 1, d \in G
      PROVE  d + 1 \in G
  <2>1. Read(d + 1)
    <3> SUFFICES ASSUME NEW n \in nodes, h[n] <= d + 1
                 PROVE  Subtree(n, g[n], m, lo, hi)
      OBVIOUS
    <3>1. \A x \in nodes : h[x] < d + 1 => Subtree(x, g[x], m, lo, hi)
      <4>1. Read(d)
        BY <1>5
      <4>2. QED
        BY <4>1, <1>1
    <3>2. QED
      BY <3>1, <1>3
  <2>2. QED
    BY <2>1, <1>1
<1> HIDE DEF G
<1>6. \A d \in 0 .. H : d \in G
  BY <1>1, <1>4, <1>5, BoundedInduction, Zenon
<1>7. H \in G
  BY <1>6, <1>1
<1>8. QED
  BY <1>7, <1>1 DEF G, nodes

(* Every node is read, unless it is a mark that was removed: by induction  *)
(* on the way from the root.                                               *)
LEMMA NodesRead ==
  ASSUME NEW m, NEW lo, NEW hi, NEW up, NEW h, IsTree(kids, m, lo, hi, up, h),
         NEW s, Subtree(0, s, m, lo, hi)
  PROVE  \A n \in 0 .. m : n \in Elements(s) \/ Kind(n) = "parsep"
<1> DEFINE nodes == 0 .. m
           H == h[0]
           Read(d) == \A n \in nodes : h[n] >= H - d => n \in Elements(s) \/ Kind(n) = "parsep"
           G == {d \in 0 .. H : Read(d)}
<1>1. /\ H \in Nat
      /\ \A n \in nodes : h[n] \in Nat /\ h[n] <= H
  <2>1. m \in Nat
    BY DEF IsTree, Typed
  <2>2. QED
    BY <2>1, TreeAt
<1>2. 0 \in Elements(s) /\ \A x \in Elements(s) : Elements(kids[x]) \subseteq Elements(s)
  BY DEF Subtree
<1> HIDE DEF H, nodes
<1>3. ASSUME NEW d \in Int, NEW n \in nodes, h[n] >= H - d,
             \A x \in nodes : h[x] > H - d => x \in Elements(s) \/ Kind(x) = "parsep"
      PROVE  n \in Elements(s) \/ Kind(n) = "parsep"
  <2>1. CASE n = 0
    BY <2>1, <1>2
  <2>2. CASE Kind(n) = "parsep"
    BY <2>2
  <2>3. CASE n # 0 /\ Kind(n) # "parsep"
    <3> DEFINE p == up[n]
    <3>1. p \in nodes /\ n \in Elements(kids[p])
      BY <2>3, TreeAt DEF nodes
    <3> HIDE DEF p
    <3>2. h[n] < h[p] /\ h[p] \in Nat /\ h[n] \in Nat
      BY <3>1, TreeChild DEF nodes
    <3>3. p \in Elements(s) \/ Kind(p) = "parsep"
      BY <3>1, <3>2, <1>1, <1>3
    <3>4. Kind(p) = "parsep" => Elements(kids[p]) = {}
      BY <3>1, TreeAt DEF nodes
    <3>5. Kind(p) # "parsep"
      BY <3>1, <3>4
    <3>6. QED
      BY <3>1, <3>3, <3>5, <1>2
  <2>4. QED
    BY <2>1, <2>2, <2>3
<1>4. 0 \in G
  <2>1. Read(0)
    <3> SUFFICES ASSUME NEW n \in nodes, h[n] >= H - 0
                 PROVE  n \in Elements(s) \/ Kind(n) = "parsep"
      OBVIOUS
    <3>1. \A x \in nodes : h[x] > H - 0 => x \in Elements(s) \/ Kind(x) = "parsep"
      BY <1>1
    <3>2. QED
      BY <3>1, <1>3
  <2>2. QED
    BY <2>1, <1>1
<1>5. ASSUME NEW d \in 0 .. H - 1, d \in G
      PROVE  d + 1 \in G
  <2>1. Read(d + 1)
    <3> SUFFICES ASSUME NEW n \in nodes, h[n] >= H - (d + 1)
                 PROVE  n \in Elements(s) \/ Kind(n) = "parsep"
      OBVIOUS
    <3>1. \A x \in nodes : h[x] > H - (d + 1) => x \in Elements(s) \/ Kind(x) = "parsep"
      <4>1. Read(d)
        BY <1>5
      <4>2. QED
        BY <4>1, <1>1
    <3>2. QED
      BY <3>1, <1>3
  <2>2. QED
    BY <2>1, <1>1
<1> HIDE DEF G
<1>6. \A d \in 0 .. H : d \in G
  BY <1>1, <1>4, <1>5, BoundedInduction, Zenon
<1>7. H \in G
  BY <1>6, <1>1
<1>8. QED
  BY <1>7, <1>1 DEF G, nodes

(* A tree is read in the order of the document.                            *)
LEMMA TreeInOrder ==
  ASSUME Tree(kids)
  PROVE  ReadingOrderKept
<1>1. PICK m, lo, hi, up, h : IsTree(kids, m, lo, hi, up, h)
  BY DEF Tree
<1>2. PICK g : Reading(g) /\ Preorder = g[0]
  BY <1>1, PreorderReads
<1> DEFINE s == Preorder
<1>3. m \in Nat /\ N \in Nat /\ N <= m
  BY <1>1 DEF IsTree, Typed
<1>4. Subtree(0, s, m, lo, hi)
  <2>1. \A n \in 0 .. m : Subtree(n, g[n], m, lo, hi)
    BY <1>1, <1>2, SubtreesRead
  <2>2. QED
    BY <2>1, <1>2, <1>3
<1>5. \A n \in 0 .. m : n \in Elements(s) \/ Kind(n) = "parsep"
  <2> HIDE DEF s
  <2>1. QED
    BY <1>1, <1>4, NodesRead
<1> HIDE DEF s
<1>6. s \in Seq(0 .. m) /\ Rises(s, 1 .. N)
  BY <1>4 DEF Subtree
<1>7. s \in Seq(Int)
  <2>1. 0 .. m \subseteq Int
    BY <1>3
  <2>2. QED
    BY <2>1, <1>6, SeqOfMore
<1>8. Ascending(Among(s, 1 .. N))
  BY <1>6, <1>7, AmongRises
<1>9. ToSet(s) = Elements(s)
  <2>1. DOMAIN s = 1 .. Len(s)
    BY <1>6, LenProperties
  <2>2. QED
    BY <2>1 DEF ToSet, Elements
<1>10. \A n \in 1 .. N : n \notin ToSet(s) => Kind(n) = "parsep"
  BY <1>3, <1>5, <1>9
<1>11. QED
  BY <1>8, <1>10 DEF ReadingOrderKept, Dropped, s

----------------------------------------------------------------------------
(* What is picked from a list, and lists that are put together.            *)
LEMMA Greatest ==
  ASSUME NEW a \in Int, NEW b \in Int, NEW P \in SUBSET (a .. b), P # {}
  PROVE  \E x \in P : \A y \in P : y <= x
<1> DEFINE T == {b - x : x \in P}
<1>1. T \in SUBSET Nat /\ T # {}
  <2>1. \A x \in P : b - x \in Nat
    OBVIOUS
  <2>2. PICK x \in P : TRUE
    OBVIOUS
  <2>3. b - x \in T
    BY <2>2
  <2>4. QED
    BY <2>1, <2>3
<1>2. PICK n \in T : \A k \in T : n <= k
  <2> HIDE DEF T
  <2>1. QED
    BY <1>1, LeastNatural
<1>3. PICK x \in P : n = b - x
  BY <1>2
<1>4. ASSUME NEW y \in P
      PROVE  y <= x
  <2>1. n <= b - y
    BY <1>2
  <2>2. QED
    BY <2>1, <1>3
<1>5. QED
  BY <1>4

FromLeft(t, s, P) ==
  \A i, j \in 1 .. Len(t) :
    i < j => \E p, q \in P : p < q /\ t[i] = s[p] /\ t[j] = s[q]

LEMMA PickIs ==
  ASSUME NEW E, NEW s \in Seq(E), NEW P \in SUBSET (1 .. Len(s))
  PROVE  /\ Pick(s, P) \in Seq(E)
         /\ Elements(Pick(s, P)) = {s[p] : p \in P}
         /\ FromLeft(Pick(s, P), s, P)
<1> DEFINE n == Len(s)
           all == [p \in 1 .. n |-> p]
           kept == Among(all, P)
           t == [i \in 1 .. Len(kept) |-> s[kept[i]]]
<1>1. n \in Nat /\ \A p \in 1 .. n : s[p] \in E
  BY LenProperties, ElementOfSeq
<1>2. Pick(s, P) = t
  BY DEF Pick
<1>3. P \in SUBSET (1 .. n)
  OBVIOUS
<1> HIDE DEF n
<1>4. all \in Seq(Int) /\ Ascending(all) /\ Elements(all) = 1 .. n
  <2>1. all \in Seq(Int) /\ Len(all) = n
    BY <1>1
  <2>2. Ascending(all)
    BY <2>1 DEF Ascending
  <2>3. Elements(all) = 1 .. n
    BY <2>1 DEF Elements
  <2>4. QED
    BY <2>1, <2>2, <2>3
<1> HIDE DEF all
<1>5. kept \in Seq(Int) /\ Ascending(kept) /\ Elements(kept) = P
  <2>1. kept \in Seq(Int) /\ Elements(kept) = Elements(all) \cap P
    BY <1>4, AmongProperties
  <2>2. Ascending(kept)
    BY <1>4, AmongAscending
  <2>3. QED
    BY <2>1, <2>2, <1>3, <1>4
<1> HIDE DEF kept
<1>6. /\ Len(kept) \in Nat
      /\ \A i \in 1 .. Len(kept) : kept[i] \in P
      /\ \A p \in P : \E i \in 1 .. Len(kept) : p = kept[i]
  BY <1>5, LenProperties DEF Elements
<1>7. t \in Seq(E) /\ Len(t) = Len(kept) /\ \A i \in 1 .. Len(kept) : t[i] = s[kept[i]]
  <2>1. \A i \in 1 .. Len(kept) : s[kept[i]] \in E
    BY <1>1, <1>3, <1>6
  <2>2. QED
    BY ONLY <2>1, <1>6
<1> HIDE DEF t
<1>8. Elements(t) = {s[p] : p \in P}
  <2>1. \A x : x \in Elements(t) <=> \E i \in 1 .. Len(kept) : x = s[kept[i]]
    BY ONLY <1>7 DEF Elements
  <2>2. \A x : x \in {s[p] : p \in P} <=> \E i \in 1 .. Len(kept) : x = s[kept[i]]
    BY <1>6
  <2>3. QED
    BY <2>1, <2>2
<1>9. FromLeft(t, s, P)
  <2>1. ASSUME NEW i \in 1 .. Len(t), NEW j \in 1 .. Len(t), i < j
        PROVE  \E p, q \in P : p < q /\ t[i] = s[p] /\ t[j] = s[q]
    <3>1. kept[i] \in P /\ kept[j] \in P /\ t[i] = s[kept[i]] /\ t[j] = s[kept[j]]
      BY <1>6, <1>7
    <3>2. kept[i] < kept[j]
      BY <1>5, <1>7, <2>1 DEF Ascending
    <3>3. QED
      BY <3>1, <3>2
  <2>2. QED
    BY <2>1 DEF FromLeft
<1>10. QED
  BY <1>2, <1>7, <1>8, <1>9

LEMMA PickFits ==
  ASSUME NEW E, NEW s \in Seq(E), NEW P \in SUBSET (1 .. Len(s)), NEW lo, NEW hi,
         \A p, q \in P : p < q => hi[s[p]] < lo[s[q]]
  PROVE  Ordered(Pick(s, P), lo, hi)
<1> DEFINE t == Pick(s, P)
<1>1. FromLeft(t, s, P)
  BY PickIs
<1> HIDE DEF t
<1>2. ASSUME NEW i \in 1 .. Len(t), NEW j \in 1 .. Len(t), i < j
      PROVE  hi[t[i]] < lo[t[j]]
  <2>1. PICK p \in P, q \in P : p < q /\ t[i] = s[p] /\ t[j] = s[q]
    BY <1>1, <1>2 DEF FromLeft
  <2>2. QED
    BY <2>1
<1>3. QED
  BY <1>2 DEF Ordered, t

LEMMA JoinedFits ==
  ASSUME NEW a \in Seq(Int), NEW b \in Seq(Int), NEW lo, NEW hi,
         Ordered(a, lo, hi), Ordered(b, lo, hi),
         \A x \in Elements(a), y \in Elements(b) : hi[x] < lo[y]
  PROVE  Ordered(a \o b, lo, hi)
<1> DEFINE c == a \o b
           m == Len(a)
           n == Len(b)
<1>1. /\ Len(c) = m + n /\ m \in Nat /\ n \in Nat
      /\ \A i \in 1 .. m : c[i] = a[i] /\ a[i] \in Elements(a)
      /\ \A i \in 1 .. n : c[m + i] = b[i] /\ b[i] \in Elements(b)
  BY Glue, LenProperties DEF Elements
<1>2. /\ \A i, j \in 1 .. m : i < j => hi[a[i]] < lo[a[j]]
      /\ \A i, j \in 1 .. n : i < j => hi[b[i]] < lo[b[j]]
  BY DEF Ordered
<1> HIDE DEF c, m, n
<1>3. ASSUME NEW i \in 1 .. Len(c), NEW j \in 1 .. Len(c), i < j
      PROVE  hi[c[i]] < lo[c[j]]
  <2>1. CASE j <= m
    <3>1. i \in 1 .. m /\ j \in 1 .. m
      BY <2>1, <1>1, <1>3
    <3>2. QED
      BY <3>1, <1>1, <1>2, <1>3
  <2>2. CASE i <= m /\ m < j
    <3>1. i \in 1 .. m /\ j - m \in 1 .. n /\ j = m + (j - m)
      BY <2>2, <1>1
    <3>2. c[i] \in Elements(a) /\ c[j] \in Elements(b)
      BY <3>1, <1>1
    <3>3. QED
      BY <3>2
  <2>3. CASE m < i
    <3>1. /\ i - m \in 1 .. n /\ i = m + (i - m) /\ j - m \in 1 .. n /\ j = m + (j - m)
          /\ i - m < j - m
      BY <2>3, <1>1, <1>3
    <3>2. c[i] = b[i - m] /\ c[j] = b[j - m]
      BY <3>1, <1>1
    <3>3. QED
      BY <3>1, <3>2, <1>2
  <2>4. QED
    BY <2>1, <2>2, <2>3, <1>1
<1>4. QED
  BY <1>3 DEF Ordered, c

----------------------------------------------------------------------------
(* The siblings of a list.                                                 *)
LEMMA SiblingsAre ==
  ASSUME NEW k, NEW m, NEW lo, NEW hi, NEW up, NEW h, IsTree(k, m, lo, hi, up, h),
         NEW n \in 0 .. m
  PROVE  /\ k[n] \in Seq(0 .. m) /\ k[n] \in Seq(Int) /\ Len(k[n]) \in Nat
         /\ DOMAIN k[n] = 1 .. Len(k[n])
         /\ Elements(k[n]) = {k[n][i] : i \in 1 .. Len(k[n])}
         /\ \A i \in 1 .. Len(k[n]) :
              /\ k[n][i] \in Elements(k[n]) /\ k[n][i] \in 0 .. m /\ k[n][i] # n
              /\ lo[k[n][i]] \in Int /\ hi[k[n][i]] \in Int
              /\ lo[k[n][i]] <= hi[k[n][i]]
         /\ \A i, j \in 1 .. Len(k[n]) : i < j => hi[k[n][i]] < lo[k[n][j]]
         /\ \A i, j \in 1 .. Len(k[n]) : k[n][i] = k[n][j] => i = j
<1> DEFINE s == k[n]
           nodes == 0 .. m
<1>1. Typed(k, m, lo, hi, up, h) /\ m \in Nat
  BY DEF IsTree, Typed
<1>2. /\ s \in Seq(nodes) /\ DOMAIN s = 1 .. Len(s) /\ Len(s) \in Nat
      /\ \A i \in 1 .. Len(s) : s[i] \in nodes /\ s[i] \in Elements(s)
  BY <1>1, ChildrenAre
<1>3. s \in Seq(Int)
  <2>1. nodes \subseteq Int
    BY <1>1
  <2> HIDE DEF nodes, s
  <2>2. QED
    BY <2>1, <1>2, SeqOfMore
<1>4. \A i \in 1 .. Len(s) :
        /\ lo[s[i]] \in Int /\ hi[s[i]] \in Int /\ lo[s[i]] <= hi[s[i]] /\ s[i] # n
  <2> SUFFICES ASSUME NEW i \in 1 .. Len(s)
               PROVE  /\ lo[s[i]] \in Int /\ hi[s[i]] \in Int /\ lo[s[i]] <= hi[s[i]]
                      /\ s[i] # n
    OBVIOUS
  <2>1. s[i] \in Elements(s)
    BY <1>2
  <2>2. /\ lo[s[i]] \in Int /\ hi[s[i]] \in Int /\ lo[s[i]] <= hi[s[i]]
        /\ h[s[i]] \in Nat /\ h[s[i]] < h[n]
    BY <2>1, TreeChild
  <2>3. QED
    BY <2>2
<1>5. \A i, j \in 1 .. Len(s) : i < j => hi[s[i]] < lo[s[j]]
  <2>1. Ordered(s, lo, hi)
    BY TreeAt
  <2>2. QED
    BY <2>1 DEF Ordered
<1>6. Elements(s) = {s[i] : i \in 1 .. Len(s)}
  BY DEF Elements
<1> HIDE DEF s, nodes
<1>7. ASSUME NEW i \in 1 .. Len(s), NEW j \in 1 .. Len(s), s[i] = s[j]
      PROVE  i = j
  <2>1. ~(i < j) /\ ~(j < i)
    BY <1>4, <1>5, <1>7
  <2>2. QED
    BY <2>1, <1>2
<1>8. QED
  BY <1>2, <1>3, <1>4, <1>5, <1>6, <1>7 DEF s, nodes

(* The marks of a list, each a node of the document, and what they take.   *)
Takes(s, by) ==
  \A p \in 1 .. Len(s) : \A q \in by[p] :
    /\ q \in 1 .. p - 1 /\ by[q] = {} /\ \A r \in q + 1 .. p : by[r] = {q}
    /\ s[q] \in 1 .. N /\ Kind(s[q]) # "parsep"
IsMark(x, s, by)  == \E p \in 1 .. Len(s) : \E q \in by[p] : x = s[q]
IsTaken(x, s, by) == \E p \in 1 .. Len(s) : x = s[p] /\ by[p] # {}

(* A mark comes to stand for what its last sibling ended with; what it     *)
(* takes is below it; it stays below the list.                             *)
Reaches(hi2, s, by, m, hi) ==
  /\ hi2 \in [0 .. m -> Int]
  /\ \A x \in 0 .. m : ~IsMark(x, s, by) => hi2[x] = hi[x]
  /\ \A p \in 1 .. Len(s) : \A q \in by[p] :
       \E e \in p .. Len(s) : by[e] = {q} /\ hi2[s[q]] = hi[s[e]]
Rehung(up2, s, by, m, up) ==
  /\ up2 \in [0 .. m -> 0 .. m]
  /\ \A x \in 0 .. m : ~IsTaken(x, s, by) => up2[x] = up[x]
  /\ \A p \in 1 .. Len(s) : \A q \in by[p] : up2[s[p]] = s[q]
Raised(h2, s, by, m, h, top) ==
  /\ h2 \in [0 .. m -> Nat]
  /\ \A x \in 0 .. m : h2[x] = IF IsMark(x, s, by) THEN 2 * top - 1 ELSE 2 * h[x]

LEMMA MarksReach ==
  ASSUME NEW m, NEW lo, NEW hi, NEW up, NEW h, IsTree(kids, m, lo, hi, up, h),
         NEW root \in 0 .. m, NEW by, Takes(kids[root], by)
  PROVE  \E hi2 : Reaches(hi2, kids[root], by, m, hi)
<1> DEFINE s == kids[root]
           n == Len(s)
           nodes == 0 .. m
           EndOf(q, e) == /\ e \in 1 .. n /\ by[e] = {q}
                          /\ \A p \in 1 .. n : q \in by[p] => p <= e
           IsEnd(x, v) == \E q, e \in 1 .. n : x = s[q] /\ EndOf(q, e) /\ v = hi[s[e]]
           hi2 == [x \in nodes |-> IF IsMark(x, s, by) THEN CHOOSE v : IsEnd(x, v) ELSE hi[x]]
<1>1. /\ n \in Nat /\ \A i \in 1 .. n : s[i] \in nodes /\ hi[s[i]] \in Int
      /\ \A i, j \in 1 .. n : s[i] = s[j] => i = j
  BY SiblingsAre
<1>2. \A x \in nodes : hi[x] \in Int
  BY TreeAt
<1>3. \A p \in 1 .. n : \A q \in by[p] : q \in 1 .. n /\ by[p] = {q}
  <2> SUFFICES ASSUME NEW p \in 1 .. n, NEW q \in by[p]
               PROVE  q \in 1 .. n /\ by[p] = {q}
    OBVIOUS
  <2>1. q \in 1 .. p - 1 /\ \A r \in q + 1 .. p : by[r] = {q}
    BY DEF Takes
  <2>2. p \in q + 1 .. p /\ q \in 1 .. n
    BY <2>1, <1>1
  <2>3. QED
    BY <2>1, <2>2
<1> HIDE DEF s, n, nodes
<1>4. ASSUME NEW p \in 1 .. n, NEW q \in by[p]
      PROVE  \E e \in 1 .. n : EndOf(q, e)
  <2> DEFINE P == {e \in 1 .. n : q \in by[e]}
  <2>1. P \in SUBSET (1 .. n) /\ P # {}
    BY <1>4
  <2>2. PICK e \in P : \A y \in P : y <= e
    <3> HIDE DEF P
    <3>1. 1 \in Int /\ n \in Int
      BY <1>1
    <3>2. QED
      BY ONLY <3>1, <2>1, Greatest
  <2>3. by[e] = {q}
    BY <2>2, <1>3
  <2>4. QED
    BY <2>2, <2>3
<1> HIDE DEF EndOf
<1>5. ASSUME NEW x, IsMark(x, s, by)
      PROVE  IsEnd(x, CHOOSE v : IsEnd(x, v))
  <2>1. PICK p \in 1 .. n : \E q \in by[p] : x = s[q]
    BY <1>5 DEF IsMark, n
  <2>2. PICK q \in by[p] : x = s[q]
    BY <2>1
  <2>3. PICK e \in 1 .. n : EndOf(q, e)
    BY <1>4
  <2>4. q \in 1 .. n
    BY <1>3
  <2>5. IsEnd(x, hi[s[e]])
    BY <2>2, <2>3, <2>4
  <2> HIDE DEF IsEnd
  <2>6. QED
    BY <2>5
<1>6. \A x, v : IsEnd(x, v) => v \in Int
  BY <1>1
<1>7. hi2 \in [nodes -> Int]
  <2> HIDE DEF IsEnd
  <2>1. QED
    BY <1>2, <1>5, <1>6
<1>8. \A x \in nodes : ~IsMark(x, s, by) => hi2[x] = hi[x]
  OBVIOUS
<1>9. ASSUME NEW p \in 1 .. n, NEW q \in by[p]
      PROVE  \E e \in p .. n : by[e] = {q} /\ hi2[s[q]] = hi[s[e]]
  <2>1. q \in 1 .. n
    BY <1>3
  <2>2. IsMark(s[q], s, by) /\ s[q] \in nodes
    BY <2>1, <1>1 DEF IsMark, n
  <2>3. hi2[s[q]] = CHOOSE v : IsEnd(s[q], v)
    BY <2>2
  <2>4. IsEnd(s[q], hi2[s[q]])
    BY <2>2, <2>3, <1>5
  <2> HIDE DEF hi2
  <2>5. PICK q2 \in 1 .. n, e \in 1 .. n : s[q] = s[q2] /\ EndOf(q2, e) /\ hi2[s[q]] = hi[s[e]]
    BY <2>4
  <2>6. q2 = q
    BY <2>1, <2>5, <1>1
  <2>7. EndOf(q, e)
    BY <2>5, <2>6
  <2>8. by[e] = {q} /\ e \in p .. n
    BY <2>7, <1>1 DEF EndOf
  <2>9. QED
    BY <2>5, <2>8
<1> HIDE DEF hi2
<1>10. Reaches(hi2, s, by, m, hi)
  BY <1>7, <1>8, <1>9 DEF Reaches, n, nodes
<1>11. QED
  BY <1>10 DEF s

LEMMA TakenRehung ==
  ASSUME NEW m, NEW lo, NEW hi, NEW up, NEW h, IsTree(kids, m, lo, hi, up, h),
         NEW root \in 0 .. m, NEW by, Takes(kids[root], by)
  PROVE  \E up2 : Rehung(up2, kids[root], by, m, up)
<1> DEFINE s == kids[root]
           n == Len(s)
           nodes == 0 .. m
           Takers(x) == {y \in nodes : \E p \in 1 .. n : \E q \in by[p] : x = s[p] /\ y = s[q]}
           up2 == [x \in nodes |-> IF IsTaken(x, s, by) THEN CHOOSE y : y \in Takers(x) ELSE up[x]]
<1>1. /\ n \in Nat /\ \A i \in 1 .. n : s[i] \in nodes
      /\ \A i, j \in 1 .. n : s[i] = s[j] => i = j
  BY SiblingsAre
<1>2. \A x \in nodes : up[x] \in nodes
  BY TreeAt
<1>3. \A p \in 1 .. n : \A q \in by[p] : q \in 1 .. n /\ by[p] = {q}
  <2> SUFFICES ASSUME NEW p \in 1 .. n, NEW q \in by[p]
               PROVE  q \in 1 .. n /\ by[p] = {q}
    OBVIOUS
  <2>1. q \in 1 .. p - 1 /\ \A r \in q + 1 .. p : by[r] = {q}
    BY DEF Takes
  <2>2. p \in q + 1 .. p /\ q \in 1 .. n
    BY <2>1, <1>1
  <2>3. QED
    BY <2>1, <2>2
<1> HIDE DEF s, n, nodes
<1>4. ASSUME NEW p \in 1 .. n, NEW q \in by[p]
      PROVE  Takers(s[p]) = {s[q]}
  <2>1. q \in 1 .. n /\ by[p] = {q} /\ s[q] \in nodes
    BY <1>1, <1>3
  <2>2. ASSUME NEW y \in Takers(s[p])
        PROVE  y = s[q]
    <3>1. PICK p2 \in 1 .. n : \E q2 \in by[p2] : s[p] = s[p2] /\ y = s[q2]
      OBVIOUS
    <3>2. p2 = p
      BY <3>1, <1>1
    <3>3. QED
      BY <3>1, <3>2, <2>1
  <2>3. s[q] \in Takers(s[p])
    BY <2>1
  <2>4. QED
    BY <2>2, <2>3
<1> HIDE DEF Takers
<1>5. ASSUME NEW x, IsTaken(x, s, by)
      PROVE  \E p \in 1 .. n : \E q \in by[p] : x = s[p]
  BY <1>5 DEF IsTaken, n
<1>6. up2 \in [nodes -> nodes]
  <2>1. ASSUME NEW x \in nodes
        PROVE  (IF IsTaken(x, s, by) THEN CHOOSE y : y \in Takers(x) ELSE up[x]) \in nodes
    <3>1. CASE IsTaken(x, s, by)
      <4>1. PICK p \in 1 .. n : \E q \in by[p] : x = s[p]
        BY <3>1, <1>5
      <4>2. PICK q \in by[p] : x = s[p]
        BY <4>1
      <4>3. Takers(x) = {s[q]} /\ s[q] \in nodes
        BY <4>2, <1>1, <1>3, <1>4
      <4>4. QED
        BY <3>1, <4>3
    <3>2. CASE ~IsTaken(x, s, by)
      BY <3>2, <1>2
    <3>3. QED
      BY <3>1, <3>2
  <2>2. QED
    BY <2>1
<1>7. \A x \in nodes : ~IsTaken(x, s, by) => up2[x] = up[x]
  OBVIOUS
<1>8. ASSUME NEW p \in 1 .. n, NEW q \in by[p]
      PROVE  up2[s[p]] = s[q]
  <2>1. IsTaken(s[p], s, by) /\ s[p] \in nodes
    BY <1>1 DEF IsTaken, n
  <2>2. up2[s[p]] = CHOOSE y : y \in Takers(s[p])
    BY <2>1
  <2> HIDE DEF up2
  <2>3. QED
    BY <2>2, <1>4
<1> HIDE DEF up2
<1>9. Rehung(up2, s, by, m, up)
  BY <1>6, <1>7, <1>8 DEF Rehung, n, nodes
<1>10. QED
  BY <1>9 DEF s

(* The places of what a mark takes, and what each place says.              *)
LEMMA TakesFacts ==
  ASSUME NEW s, NEW by, Takes(s, by), Len(s) \in Nat
  PROVE  /\ \A p \in 1 .. Len(s) : \A q \in by[p] :
              /\ q \in 1 .. Len(s) /\ q < p /\ by[p] = {q} /\ by[q] = {}
              /\ \A r \in q + 1 .. p : by[r] = {q}
              /\ s[q] \in 1 .. N /\ Kind(s[q]) # "parsep"
         /\ \A p \in 1 .. Len(s) : by[p] # {} => \E q \in by[p] : TRUE
<1> SUFFICES ASSUME NEW p \in 1 .. Len(s), NEW q \in by[p]
             PROVE  /\ q \in 1 .. Len(s) /\ q < p /\ by[p] = {q} /\ by[q] = {}
                    /\ \A r \in q + 1 .. p : by[r] = {q}
                    /\ s[q] \in 1 .. N /\ Kind(s[q]) # "parsep"
  OBVIOUS
<1>1. /\ q \in 1 .. p - 1 /\ by[q] = {} /\ \A r \in q + 1 .. p : by[r] = {q}
      /\ s[q] \in 1 .. N /\ Kind(s[q]) # "parsep"
  BY DEF Takes
<1>2. p \in q + 1 .. p /\ q \in 1 .. Len(s) /\ q < p
  BY <1>1
<1>3. QED
  BY <1>1, <1>2

LEMMA MovedTree ==
  ASSUME NEW m, NEW lo, NEW hi, NEW up, NEW h, IsTree(kids, m, lo, hi, up, h),
         NEW root \in 0 .. m, NEW by, Takes(kids[root], by)
  PROVE  Tree(Moved(root, by))
<1> DEFINE s == kids[root]
           n == Len(s)
           nodes == 0 .. m
           stay == {p \in 1 .. n : by[p] = {}}
           give(x) == {p \in 1 .. n : \E q \in by[p] : s[q] = x}
           k == Moved(root, by)
<1>1. /\ s \in Seq(nodes) /\ s \in Seq(Int) /\ n \in Nat
      /\ Elements(s) = {s[i] : i \in 1 .. n}
      /\ \A i \in 1 .. n :
           /\ s[i] \in Elements(s) /\ s[i] \in nodes /\ s[i] # root
           /\ lo[s[i]] \in Int /\ hi[s[i]] \in Int /\ lo[s[i]] <= hi[s[i]]
      /\ \A i, j \in 1 .. n : i < j => hi[s[i]] < lo[s[j]]
      /\ \A i, j \in 1 .. n : s[i] = s[j] => i = j
  <2>1. /\ s \in Seq(nodes) /\ s \in Seq(Int) /\ n \in Nat
        /\ Elements(s) = {s[i] : i \in 1 .. n}
    <3>1. Elements(s) = {s[i] : i \in 1 .. n}
      BY DEF Elements
    <3>2. s \in Seq(nodes) /\ s \in Seq(Int) /\ n \in Nat
      BY SiblingsAre
    <3> HIDE DEF s, n, nodes
    <3>3. QED
      BY <3>1, <3>2
  <2>2. ASSUME NEW i \in 1 .. n
        PROVE  /\ s[i] \in Elements(s) /\ s[i] \in nodes /\ s[i] # root
               /\ lo[s[i]] \in Int /\ hi[s[i]] \in Int /\ lo[s[i]] <= hi[s[i]]
    BY SiblingsAre
  <2>3. /\ \A i, j \in 1 .. n : i < j => hi[s[i]] < lo[s[j]]
        /\ \A i, j \in 1 .. n : s[i] = s[j] => i = j
    BY SiblingsAre
  <2>4. QED
    BY <2>1, <2>2, <2>3
<1>2. /\ \A p \in 1 .. n : \A q \in by[p] :
           /\ q \in 1 .. n /\ q < p /\ by[p] = {q} /\ by[q] = {}
           /\ \A r \in q + 1 .. p : by[r] = {q}
           /\ s[q] \in 1 .. N /\ Kind(s[q]) # "parsep"
      /\ \A p \in 1 .. n : by[p] # {} => \E q \in by[p] : TRUE
  BY <1>1, TakesFacts
<1>3. /\ m \in Nat /\ N \in Nat /\ N <= m /\ root \in nodes /\ nodes \subseteq Int
      /\ Typed(kids, m, lo, hi, up, h)
      /\ kids \in [nodes -> Seq(nodes)] /\ lo \in [nodes -> Int]
      /\ up \in [nodes -> nodes] /\ h \in [nodes -> Nat] /\ hi \in [nodes -> Int]
  <2>1. Typed(kids, m, lo, hi, up, h)
    BY DEF IsTree
  <2>2. /\ m \in Nat /\ N \in Nat /\ N <= m
        /\ kids \in [nodes -> Seq(nodes)] /\ lo \in [nodes -> Int]
        /\ up \in [nodes -> nodes] /\ h \in [nodes -> Nat] /\ hi \in [nodes -> Int]
    BY <2>1 DEF Typed
  <2>3. nodes \subseteq Int
    BY <2>2
  <2>4. QED
    BY <2>1, <2>2, <2>3
<1>4. \A x \in nodes : /\ h[x] <= h[0] /\ lo[x] <= hi[x] /\ (x <= N => lo[x] = x)
                       /\ (Kind(x) = "parsep" => Elements(kids[x]) = {})
                       /\ (x # 0 => x \in Elements(kids[up[x]]) \/ Kind(x) = "parsep")
  <2>1. ASSUME NEW x \in nodes
        PROVE  /\ h[x] <= h[0] /\ lo[x] <= hi[x] /\ (x <= N => lo[x] = x)
               /\ (Kind(x) = "parsep" => Elements(kids[x]) = {})
               /\ (x # 0 => x \in Elements(kids[up[x]]) \/ Kind(x) = "parsep")
    <3>1. h[x] <= h[0] /\ lo[x] <= hi[x] /\ (x <= N => lo[x] = x)
      BY TreeAt
    <3>2. Kind(x) = "parsep" => Elements(kids[x]) = {}
      BY TreeAt
    <3>3. x # 0 => x \in Elements(kids[up[x]]) \/ Kind(x) = "parsep"
      BY TreeAt
    <3>4. QED
      BY <3>1, <3>2, <3>3
  <2>2. QED
    BY <2>1
<1>5. \A x \in nodes : \A c \in Elements(kids[x]) :
        /\ c \in nodes /\ up[c] = x /\ h[c] < h[x]
        /\ lo[x] <= lo[c] /\ hi[c] <= hi[x] /\ (x <= N => x < lo[c])
  BY TreeChild
<1>6. /\ \A x \in nodes : kids[x] \in Seq(nodes) /\ kids[x] \in Seq(Int) /\ Ordered(kids[x], lo, hi)
  <2> SUFFICES ASSUME NEW x \in nodes
               PROVE  kids[x] \in Seq(nodes) /\ kids[x] \in Seq(Int) /\ Ordered(kids[x], lo, hi)
    OBVIOUS
  <2>1. kids[x] \in Seq(nodes) /\ kids[x] \in Seq(Int)
    BY SiblingsAre
  <2>2. Ordered(kids[x], lo, hi)
    BY TreeAt
  <2>3. QED
    BY <2>1, <2>2
<1>7. PICK hi2 : Reaches(hi2, s, by, m, hi)
  BY MarksReach
<1>8. PICK up2 : Rehung(up2, s, by, m, up)
  BY TakenRehung
<1> DEFINE h2 == [x \in nodes |-> IF IsMark(x, s, by) THEN 2 * h[root] - 1 ELSE 2 * h[x]]
<1>9. /\ hi2 \in [nodes -> Int]
      /\ \A x \in nodes : ~IsMark(x, s, by) => hi2[x] = hi[x]
      /\ \A p \in 1 .. n : \A q \in by[p] :
           \E e \in p .. n : by[e] = {q} /\ hi2[s[q]] = hi[s[e]]
  BY <1>7 DEF Reaches
<1>10. /\ up2 \in [nodes -> nodes]
       /\ \A x \in nodes : ~IsTaken(x, s, by) => up2[x] = up[x]
       /\ \A p \in 1 .. n : \A q \in by[p] : up2[s[p]] = s[q]
  BY <1>8 DEF Rehung
<1>11. /\ \A x : IsMark(x, s, by) <=> \E p \in 1 .. n : \E q \in by[p] : x = s[q]
       /\ \A x : IsTaken(x, s, by) <=> \E p \in 1 .. n : x = s[p] /\ by[p] # {}
  BY DEF IsMark, IsTaken
<1>12. /\ k = [x \in nodes |-> IF x = root THEN Pick(s, stay)
                               ELSE kids[x] \o Pick(s, give(x))]
  <2>1. DOMAIN kids = nodes
    BY <1>3
  <2>2. QED
    BY <2>1 DEF Moved, Left, Given
<1> HIDE DEF s, n, nodes, stay, give, k, h2
(* Marks and what they take.                                               *)
<1>13. \A x : IsMark(x, s, by) =>
         /\ x \in nodes /\ x # root /\ up[x] = root /\ h[x] < h[root]
         /\ x \in 1 .. N /\ Kind(x) # "parsep" /\ ~IsTaken(x, s, by)
  <2> SUFFICES ASSUME NEW x, IsMark(x, s, by)
               PROVE  /\ x \in nodes /\ x # root /\ up[x] = root /\ h[x] < h[root]
                      /\ x \in 1 .. N /\ Kind(x) # "parsep" /\ ~IsTaken(x, s, by)
    OBVIOUS
  <2>1. PICK p \in 1 .. n : \E q \in by[p] : x = s[q]
    BY <1>11
  <2>2. PICK q \in by[p] : x = s[q]
    BY <2>1
  <2>3. q \in 1 .. n /\ by[q] = {} /\ x \in 1 .. N /\ Kind(x) # "parsep"
    BY <2>2, <1>2
  <2>4. x \in nodes /\ x # root /\ x \in Elements(kids[root])
    BY <2>2, <2>3, <1>1 DEF s
  <2>5. up[x] = root /\ h[x] < h[root]
    BY <2>4, <1>3, <1>5
  <2>6. ~IsTaken(x, s, by)
    <3> SUFFICES ASSUME NEW i \in 1 .. n, x = s[i], by[i] # {}
                 PROVE  FALSE
      BY <1>11
    <3>1. i = q
      BY <2>2, <2>3, <1>1
    <3>2. QED
      BY <3>1, <2>3
  <2>7. QED
    BY <2>3, <2>4, <2>5, <2>6
<1>14. \A x : IsTaken(x, s, by) => x \in nodes /\ up[x] = root /\ ~IsMark(x, s, by)
  <2> SUFFICES ASSUME NEW x, IsTaken(x, s, by)
               PROVE  x \in nodes /\ up[x] = root /\ ~IsMark(x, s, by)
    OBVIOUS
  <2>1. PICK p \in 1 .. n : x = s[p]
    BY <1>11
  <2>2. x \in nodes /\ x \in Elements(kids[root])
    BY <2>1, <1>1 DEF s
  <2>3. up[x] = root
    BY <2>2, <1>3, <1>5
  <2>4. QED
    BY <2>2, <2>3, <1>13
<1>15. \A x \in nodes : IsMark(x, s, by) => hi[x] <= hi2[x]
  <2> SUFFICES ASSUME NEW x \in nodes, IsMark(x, s, by)
               PROVE  hi[x] <= hi2[x]
    OBVIOUS
  <2>1. PICK p \in 1 .. n : \E q \in by[p] : x = s[q]
    BY <1>11
  <2>2. PICK q \in by[p] : x = s[q]
    BY <2>1
  <2>3. PICK e \in p .. n : hi2[s[q]] = hi[s[e]]
    BY <1>9
  <2>4. q \in 1 .. n /\ e \in 1 .. n /\ q < e
    BY <1>2, <1>1
  <2>5. hi[s[q]] < lo[s[e]] /\ lo[s[e]] <= hi[s[e]] /\ hi[s[q]] \in Int /\ lo[s[e]] \in Int /\ hi[s[e]] \in Int
    BY <2>4, <1>1
  <2>6. QED
    BY <2>2, <2>3, <2>5
<1>16. h2 \in [nodes -> Nat] /\ \A x \in nodes : h2[x] = IF IsMark(x, s, by) THEN 2 * h[root] - 1 ELSE 2 * h[x]
  <2>1. ASSUME NEW x \in nodes
        PROVE  (IF IsMark(x, s, by) THEN 2 * h[root] - 1 ELSE 2 * h[x]) \in Nat
    <3>1. h[x] \in Nat /\ h[root] \in Nat
      BY <1>3
    <3>2. IsMark(x, s, by) => h[x] < h[root]
      BY <1>13
    <3>3. QED
      BY <3>1, <3>2
  <2>2. QED
    BY <2>1 DEF h2
(* The list is left with its marks and what none of them takes.            *)
<1>17. /\ Pick(s, stay) \in Seq(nodes) /\ Elements(Pick(s, stay)) = {s[p] : p \in stay}
       /\ Ordered(Pick(s, stay), lo, hi2)
  <2>1. stay \in SUBSET (1 .. Len(s))
    BY DEF stay, n
  <2>2. Pick(s, stay) \in Seq(nodes) /\ Elements(Pick(s, stay)) = {s[p] : p \in stay}
    BY <2>1, <1>1, PickIs
  <2>3. ASSUME NEW p \in stay, NEW j \in stay, p < j
        PROVE  hi2[s[p]] < lo[s[j]]
    <3>1. p \in 1 .. n /\ j \in 1 .. n /\ by[p] = {} /\ by[j] = {}
      BY DEF stay
    <3>2. CASE ~IsMark(s[p], s, by)
      BY <3>1, <3>2, <2>3, <1>1, <1>9
    <3>3. CASE IsMark(s[p], s, by)
      <4>1. PICK i \in 1 .. n : \E q \in by[i] : s[p] = s[q]
        BY <3>3, <1>11
      <4>2. PICK q \in by[i] : s[p] = s[q]
        BY <4>1
      <4>3. q = p
        BY <4>2, <3>1, <1>1, <1>2
      <4>4. PICK e \in i .. n : by[e] = {p} /\ hi2[s[p]] = hi[s[e]]
        BY <4>2, <4>3, <1>9
      <4>5. e \in 1 .. n /\ p \in by[e]
        BY <4>4, <1>1
      <4>6. \A r \in p + 1 .. e : by[r] = {p}
        BY <4>5, <1>2
      <4>7. e < j
        <5>1. j \notin p + 1 .. e
          BY <3>1, <4>6
        <5>2. QED
          BY <5>1, <2>3, <3>1, <4>5
      <4>8. QED
        BY <4>4, <4>5, <4>7, <3>1, <1>1
    <3>4. QED
      BY <3>2, <3>3
  <2>4. Ordered(Pick(s, stay), lo, hi2)
    BY <2>1, <2>3, <1>1, PickFits
  <2>5. QED
    BY <2>2, <2>4
<1>18. ASSUME NEW x \in nodes
       PROVE  /\ Pick(s, give(x)) \in Seq(nodes) /\ Elements(Pick(s, give(x))) = {s[p] : p \in give(x)}
              /\ Ordered(Pick(s, give(x)), lo, hi2)
              /\ \A p \in give(x) :
                   /\ p \in 1 .. n /\ IsTaken(s[p], s, by) /\ IsMark(x, s, by) /\ up2[s[p]] = x
                   /\ hi[x] < lo[s[p]] /\ hi2[s[p]] <= hi2[x]
  <2>1. give(x) \in SUBSET (1 .. Len(s))
    BY DEF give, n
  <2>2. Pick(s, give(x)) \in Seq(nodes) /\ Elements(Pick(s, give(x))) = {s[p] : p \in give(x)}
    BY <2>1, <1>1, PickIs
  <2>3. ASSUME NEW p \in give(x)
        PROVE  /\ p \in 1 .. n /\ IsTaken(s[p], s, by) /\ IsMark(x, s, by) /\ up2[s[p]] = x
               /\ hi[x] < lo[s[p]] /\ hi2[s[p]] <= hi2[x] /\ hi2[s[p]] = hi[s[p]]
    <3>1. p \in 1 .. n /\ \E q \in by[p] : s[q] = x
      BY DEF give
    <3>2. PICK q \in by[p] : s[q] = x
      BY <3>1
    <3>3. IsTaken(s[p], s, by) /\ IsMark(x, s, by)
      BY <3>1, <3>2, <1>11
    <3>4. up2[s[p]] = x
      BY <3>1, <3>2, <1>10
    <3>5. hi[x] < lo[s[p]]
      BY <3>1, <3>2, <1>1, <1>2
    <3>6. hi2[s[p]] = hi[s[p]]
      BY <3>1, <3>3, <1>1, <1>9, <1>14
    <3>7. PICK e \in p .. n : hi2[x] = hi[s[e]]
      BY <3>1, <3>2, <1>9
    <3>8. e \in 1 .. n /\ (p = e \/ p < e)
      BY <3>1, <1>1
    <3>9. hi[s[p]] <= hi[s[e]]
      <4>1. CASE p = e
        BY <4>1, <3>1, <1>1
      <4>2. CASE p < e
        <5>1. hi[s[p]] < lo[s[e]] /\ lo[s[e]] <= hi[s[e]] /\ hi[s[p]] \in Int /\ lo[s[e]] \in Int /\ hi[s[e]] \in Int
          BY <4>2, <3>1, <3>8, <1>1
        <5>2. QED
          BY <5>1
      <4>3. QED
        BY <4>1, <4>2, <3>8
    <3>10. QED
      BY <3>1, <3>3, <3>4, <3>5, <3>6, <3>7, <3>9
  <2>4. ASSUME NEW p \in give(x), NEW j \in give(x), p < j
        PROVE  hi2[s[p]] < lo[s[j]]
    <3>1. p \in 1 .. n /\ j \in 1 .. n /\ hi2[s[p]] = hi[s[p]]
      BY <2>3
    <3>2. QED
      BY <3>1, <2>4, <1>1
  <2>5. Ordered(Pick(s, give(x)), lo, hi2)
    BY <2>1, <2>4, <1>1, PickFits
  <2>6. QED
    BY <2>2, <2>3, <2>5
<1>19. /\ k \in [nodes -> Seq(nodes)]
       /\ k[root] = Pick(s, stay)
       /\ \A x \in nodes : x # root => k[x] = kids[x] \o Pick(s, give(x))
  <2>1. ASSUME NEW x \in nodes
        PROVE  (IF x = root THEN Pick(s, stay) ELSE kids[x] \o Pick(s, give(x))) \in Seq(nodes)
    <3>1. Pick(s, stay) \in Seq(nodes) /\ kids[x] \in Seq(nodes) /\ Pick(s, give(x)) \in Seq(nodes)
      BY <1>6, <1>17, <1>18
    <3>2. kids[x] \o Pick(s, give(x)) \in Seq(nodes)
      BY ONLY <3>1
    <3>3. QED
      BY <3>1, <3>2
  <2>2. QED
    BY <2>1, <1>3, <1>12
<1>20. \A x \in nodes : x # root =>
         /\ Elements(k[x]) = Elements(kids[x]) \cup {s[p] : p \in give(x)}
         /\ Ordered(k[x], lo, hi2)
         /\ \A c \in Elements(kids[x]) : /\ c \in nodes /\ ~IsMark(c, s, by) /\ ~IsTaken(c, s, by)
                                         /\ hi2[c] = hi[c] /\ up2[c] = x
  <2> SUFFICES ASSUME NEW x \in nodes, x # root
               PROVE  /\ Elements(k[x]) = Elements(kids[x]) \cup {s[p] : p \in give(x)}
                      /\ Ordered(k[x], lo, hi2)
                      /\ \A c \in Elements(kids[x]) :
                           /\ c \in nodes /\ ~IsMark(c, s, by) /\ ~IsTaken(c, s, by)
                           /\ hi2[c] = hi[c] /\ up2[c] = x
    OBVIOUS
  <2> DEFINE a == kids[x]
             b == Pick(s, give(x))
  <2>1. /\ a \in Seq(nodes) /\ a \in Seq(Int) /\ b \in Seq(nodes) /\ b \in Seq(Int)
        /\ Elements(b) = {s[p] : p \in give(x)}
        /\ Ordered(a, lo, hi) /\ Ordered(b, lo, hi2)
        /\ k[x] = a \o b
    <3>1. a \in Seq(nodes) /\ a \in Seq(Int) /\ Ordered(a, lo, hi) /\ k[x] = a \o b
      BY <1>6, <1>19
    <3>2. /\ b \in Seq(nodes) /\ Ordered(b, lo, hi2)
          /\ Elements(b) = {s[p] : p \in give(x)}
      BY <1>18
    <3> HIDE DEF a, b
    <3>3. b \in Seq(Int)
      BY <3>2, <1>3, SeqOfMore
    <3>4. QED
      BY <3>1, <3>2, <3>3
  <2>2. \A c \in Elements(a) : /\ c \in nodes /\ ~IsMark(c, s, by) /\ ~IsTaken(c, s, by)
                               /\ hi2[c] = hi[c] /\ up2[c] = x /\ hi[c] <= hi[x]
    <3> SUFFICES ASSUME NEW c \in Elements(a)
                 PROVE  /\ c \in nodes /\ ~IsMark(c, s, by) /\ ~IsTaken(c, s, by)
                        /\ hi2[c] = hi[c] /\ up2[c] = x /\ hi[c] <= hi[x]
      OBVIOUS
    <3>1. c \in nodes /\ up[c] = x /\ hi[c] <= hi[x]
      BY <1>5
    <3>2. ~IsMark(c, s, by) /\ ~IsTaken(c, s, by)
      BY <3>1, <1>13, <1>14
    <3>3. QED
      BY <3>1, <3>2, <1>9, <1>10
  <2> HIDE DEF a, b
  <2>3. Ordered(a, lo, hi2)
    <3>1. ASSUME NEW i \in 1 .. Len(a), NEW j \in 1 .. Len(a), i < j
          PROVE  hi2[a[i]] < lo[a[j]]
      <4>1. a[i] \in Elements(a)
        BY DEF Elements
      <4>2. hi[a[i]] < lo[a[j]]
        BY <2>1, <3>1 DEF Ordered
      <4>3. QED
        BY <4>1, <4>2, <2>2
    <3>2. QED
      BY <3>1 DEF Ordered
  <2>4. \A c \in Elements(a), e \in Elements(b) : hi2[c] < lo[e]
    <3> SUFFICES ASSUME NEW c \in Elements(a), NEW p \in give(x)
                 PROVE  hi2[c] < lo[s[p]]
      BY <2>1
    <3>1. hi[x] < lo[s[p]] /\ p \in 1 .. n
      BY <1>18
    <3>2. hi2[c] = hi[c] /\ hi[c] <= hi[x] /\ c \in nodes
      BY <2>2
    <3>3. hi[c] \in Int /\ hi[x] \in Int /\ lo[s[p]] \in Int
      BY <3>1, <3>2, <1>1, <1>3
    <3>4. QED
      BY <3>1, <3>2, <3>3
  <2>5. Ordered(a \o b, lo, hi2)
    BY <2>1, <2>3, <2>4, JoinedFits
  <2>6. Elements(a \o b) = Elements(a) \cup Elements(b)
    BY <2>1, ConcatElements
  <2>7. QED
    BY <2>1, <2>2, <2>5, <2>6 DEF a
<1>21. \A p \in stay : /\ p \in 1 .. n /\ s[p] \in nodes /\ ~IsTaken(s[p], s, by)
                       /\ up2[s[p]] = root /\ hi2[s[p]] <= hi2[root]
                       /\ h2[s[p]] < h2[root]
  <2> SUFFICES ASSUME NEW p \in stay
               PROVE  /\ p \in 1 .. n /\ s[p] \in nodes /\ ~IsTaken(s[p], s, by)
                      /\ up2[s[p]] = root /\ hi2[s[p]] <= hi2[root]
                      /\ h2[s[p]] < h2[root]
    OBVIOUS
  <2>1. p \in 1 .. n /\ by[p] = {} /\ s[p] \in nodes
    BY <1>1 DEF stay
  <2>2. ~IsTaken(s[p], s, by)
    <3> SUFFICES ASSUME NEW i \in 1 .. n, s[p] = s[i], by[i] # {}
                 PROVE  FALSE
      BY <1>11
    <3>1. i = p
      BY <2>1, <1>1
    <3>2. QED
      BY <3>1, <2>1
  <2>3. up[s[p]] = root /\ h[s[p]] < h[root] /\ hi[s[p]] <= hi[root]
    <3>1. s[p] \in Elements(kids[root])
      BY <2>1, <1>1 DEF s
    <3>2. QED
      BY <3>1, <1>3, <1>5
  <2>4. ~IsMark(root, s, by) /\ hi2[root] = hi[root]
    BY <1>3, <1>9, <1>13
  <2>5. hi2[s[p]] <= hi[root]
    <3>1. CASE ~IsMark(s[p], s, by)
      BY <3>1, <2>1, <2>3, <1>9
    <3>2. CASE IsMark(s[p], s, by)
      <4>1. PICK i \in 1 .. n : \E q \in by[i] : s[p] = s[q]
        BY <3>2, <1>11
      <4>2. PICK q \in by[i] : s[p] = s[q]
        BY <4>1
      <4>3. PICK e \in i .. n : hi2[s[p]] = hi[s[e]]
        BY <4>2, <1>9
      <4>4. e \in 1 .. n /\ s[e] \in Elements(kids[root])
        BY <4>3, <1>1 DEF s
      <4>5. hi[s[e]] <= hi[root]
        BY <4>4, <1>3, <1>5
      <4>6. QED
        BY <4>3, <4>5
    <3>3. QED
      BY <3>1, <3>2
  <2>6. h2[s[p]] < h2[root]
    <3>1. h[root] \in Nat /\ h[s[p]] \in Nat
      BY <2>1, <1>3
    <3>2. h2[root] = 2 * h[root] /\ (h2[s[p]] = 2 * h[root] - 1 \/ h2[s[p]] = 2 * h[s[p]])
      BY <2>1, <2>4, <1>3, <1>16
    <3>3. QED
      BY <3>1, <3>2, <2>3
  <2>7. QED
    BY <2>1, <2>2, <2>3, <2>4, <2>5, <2>6, <1>10
<1>22. ASSUME NEW x \in nodes
       PROVE  /\ h2[x] <= h2[0] /\ lo[x] <= hi2[x] /\ hi[x] <= hi2[x]
  <2>1. hi[x] <= hi2[x]
    <3>1. hi[x] \in Int
      BY <1>3
    <3>2. QED
      BY <3>1, <1>9, <1>15
  <2>2. lo[x] <= hi2[x]
    <3>1. lo[x] \in Int /\ hi[x] \in Int /\ hi2[x] \in Int /\ lo[x] <= hi[x]
      BY <1>3, <1>4, <1>9
    <3>2. QED
      BY <2>1, <3>1
  <2>3. h2[x] <= h2[0]
    <3>1. 0 \in nodes /\ ~IsMark(0, s, by)
      BY <1>3, <1>13 DEF nodes
    <3>2. /\ h2[0] = 2 * h[0] /\ (h2[x] = 2 * h[root] - 1 \/ h2[x] = 2 * h[x])
          /\ h[root] <= h[0] /\ h[x] <= h[0] /\ h[root] \in Nat /\ h[0] \in Nat /\ h[x] \in Nat
      BY <3>1, <1>3, <1>4, <1>16
    <3>3. QED
      BY <3>2
  <2>4. QED
    BY <2>1, <2>2, <2>3
<1>23. ASSUME NEW x \in nodes, NEW c \in Elements(k[x])
       PROVE  Holds(x, c, lo, hi2, up2, h2)
  <2>1. CASE x = root
    <3>1. PICK p \in stay : c = s[p]
      BY <2>1, <1>17, <1>19
    <3>2. up2[c] = x /\ h2[c] < h2[x] /\ hi2[c] <= hi2[x]
      BY <2>1, <3>1, <1>21
    <3>3. c \in Elements(kids[root])
      BY <3>1, <1>1, <1>21 DEF s
    <3>4. lo[x] <= lo[c] /\ (x <= N => x < lo[c])
      BY <2>1, <3>3, <1>3, <1>5
    <3>5. QED
      BY <3>2, <3>4 DEF Holds
  <2>2. CASE x # root /\ c \in Elements(kids[x])
    <3>1. /\ c \in nodes /\ ~IsMark(c, s, by) /\ hi2[c] = hi[c] /\ up2[c] = x
      BY <2>2, <1>20
    <3>2. /\ h[c] < h[x] /\ lo[x] <= lo[c] /\ hi[c] <= hi[x] /\ (x <= N => x < lo[c])
      BY <2>2, <1>5
    <3>3. hi2[c] <= hi2[x]
      <4>1. hi[c] \in Int /\ hi[x] \in Int /\ hi2[x] \in Int /\ hi[x] <= hi2[x]
        BY <3>1, <1>3, <1>9, <1>22
      <4>2. QED
        BY <4>1, <3>1, <3>2
    <3>4. h2[c] < h2[x]
      <4>1. h[c] \in Nat /\ h[x] \in Nat /\ h[root] \in Nat
        BY <3>1, <1>3
      <4>2. IsMark(x, s, by) => h[x] < h[root]
        BY <1>13
      <4>3. h2[c] = 2 * h[c] /\ h2[x] = IF IsMark(x, s, by) THEN 2 * h[root] - 1 ELSE 2 * h[x]
        BY <3>1, <1>16
      <4>4. QED
        BY <4>1, <4>2, <4>3, <3>2
    <3>5. QED
      BY <3>1, <3>2, <3>3, <3>4 DEF Holds
  <2>3. CASE x # root /\ c \notin Elements(kids[x])
    <3>1. PICK p \in give(x) : c = s[p]
      BY <2>3, <1>20
    <3>2. /\ p \in 1 .. n /\ IsTaken(c, s, by) /\ IsMark(x, s, by) /\ up2[c] = x
          /\ hi[x] < lo[c] /\ hi2[c] <= hi2[x]
      BY <3>1, <1>18
    <3>3. c \in nodes /\ ~IsMark(c, s, by) /\ c \in Elements(kids[root])
      BY <3>1, <3>2, <1>1, <1>14 DEF s
    <3>4. h[c] < h[root]
      BY <3>3, <1>3, <1>5
    <3>5. h2[c] < h2[x]
      <4>1. h[c] \in Nat /\ h[root] \in Nat
        BY <3>3, <1>3
      <4>2. h2[c] = 2 * h[c] /\ h2[x] = 2 * h[root] - 1
        BY <3>2, <3>3, <1>16
      <4>3. QED
        BY <4>1, <4>2, <3>4
    <3>6. lo[x] <= lo[c] /\ (x <= N => x < lo[c])
      <4>1. lo[x] \in Int /\ hi[x] \in Int /\ lo[c] \in Int /\ lo[x] <= hi[x] /\ (x <= N => lo[x] = x)
        BY <3>3, <1>3, <1>4
      <4>2. QED
        BY <4>1, <3>2
    <3>7. QED
      BY <3>2, <3>5, <3>6 DEF Holds
  <2>4. QED
    BY <2>1, <2>2, <2>3
<1>24. ASSUME NEW x \in nodes
       PROVE  Fits(x, k, lo, hi2, up2, h2)
  <2>1. Ordered(k[x], lo, hi2)
    <3>1. CASE x = root
      BY <3>1, <1>17, <1>19
    <3>2. CASE x # root
      BY <3>2, <1>20
    <3>3. QED
      BY <3>1, <3>2
  <2>2. h2[x] <= h2[0] /\ lo[x] <= hi2[x] /\ (x <= N => lo[x] = x)
    BY <1>4, <1>22
  <2>3. QED
    BY <2>1, <2>2, <1>23 DEF Fits
<1>25. ASSUME NEW x \in nodes, x # 0
       PROVE  x \in Elements(k[up2[x]]) \/ Kind(x) = "parsep"
  <2>1. CASE IsTaken(x, s, by)
    <3>1. PICK p \in 1 .. n : x = s[p] /\ by[p] # {}
      BY <2>1, <1>11
    <3>2. PICK q \in by[p] : TRUE
      BY <3>1, <1>2
    <3>3. up2[x] = s[q] /\ q \in 1 .. n /\ s[q] \in nodes /\ s[q] # root
      BY <3>1, <3>2, <1>1, <1>2, <1>10
    <3>4. p \in give(s[q])
      BY <3>2 DEF give
    <3>5. x \in Elements(k[s[q]])
      BY <3>1, <3>3, <3>4, <1>20
    <3>6. QED
      BY <3>3, <3>5
  <2>2. CASE ~IsTaken(x, s, by) /\ Kind(x) # "parsep"
    <3>1. up2[x] = up[x] /\ up[x] \in nodes /\ x \in Elements(kids[up[x]])
      BY <2>2, <1>3, <1>4, <1>10, <1>25
    <3>2. CASE up[x] = root
      <4>1. PICK i \in 1 .. n : x = s[i]
        BY <3>1, <3>2, <1>1 DEF s
      <4>2. by[i] = {}
        BY <4>1, <2>2, <1>11
      <4>3. i \in stay
        BY <4>2 DEF stay
      <4>4. QED
        BY <4>1, <4>3, <3>1, <3>2, <1>17, <1>19
    <3>3. CASE up[x] # root
      BY <3>1, <3>3, <1>20
    <3>4. QED
      BY <3>2, <3>3
  <2>3. QED
    BY <2>1, <2>2
<1>26. ASSUME NEW x \in nodes, Kind(x) = "parsep"
       PROVE  Elements(k[x]) = {}
  <2>1. Elements(kids[x]) = {}
    BY <1>4, <1>26
  <2>2. CASE x = root
    <3>1. stay = {}
      <4>1. ASSUME NEW p \in stay
            PROVE  FALSE
        <5>1. s[p] \in Elements(kids[root])
          BY <1>1, <1>21 DEF s
        <5>2. QED
          BY <5>1, <2>1, <2>2
      <4>2. QED
        BY <4>1
    <3>2. QED
      BY <3>1, <2>2, <1>17, <1>19
  <2>3. CASE x # root
    <3>1. give(x) = {}
      <4>1. ASSUME NEW p \in give(x)
            PROVE  FALSE
        <5>1. IsMark(x, s, by)
          BY <1>18
        <5>2. QED
          BY <5>1, <1>13, <1>26
      <4>2. QED
        BY <4>1
    <3>2. QED
      BY <3>1, <2>1, <2>3, <1>20
  <2>4. QED
    BY <2>2, <2>3
<1>27. Typed(k, m, lo, hi2, up2, h2)
  BY <1>3, <1>9, <1>10, <1>16, <1>19 DEF Typed, nodes
<1>28. \A x \in 1 .. m : x \in Elements(k[up2[x]]) \/ Kind(x) = "parsep"
  <2>1. \A x \in 1 .. m : x \in nodes /\ x # 0
    BY <1>3 DEF nodes
  <2>2. QED
    BY <2>1, <1>25
<1>29. IsTree(k, m, lo, hi2, up2, h2)
  BY <1>24, <1>26, <1>27, <1>28 DEF IsTree, nodes
<1>30. QED
  BY <1>29 DEF Tree, k

----------------------------------------------------------------------------
(* A new paragraph stands for what its content stands for.                 *)
LEMMA NewParIs ==
  ASSUME NEW k, NEW m, NEW lo, NEW hi, NEW up, NEW h, IsTree(k, m, lo, hi, up, h)
  PROVE  /\ DOMAIN k = 0 .. m /\ m \in Nat /\ N \in Nat /\ N <= m
         /\ NewPar(k) = m + 1 /\ Kind(m + 1) = "par"
<1>1. Typed(k, m, lo, hi, up, h)
  BY DEF IsTree
<1>2. DOMAIN k = 0 .. m /\ m \in Nat /\ N \in Nat /\ N <= m
  BY <1>1 DEF Typed
<1>3. Cardinality(0 .. m) = m + 1
  <2>1. Cardinality(0 .. m) = IF 0 > m THEN 0 ELSE m - 0 + 1
    BY <1>2, FS_Interval
  <2>2. QED
    BY <2>1, <1>2
<1>4. Kind(m + 1) = "par"
  BY <1>2 DEF Kind
<1>5. QED
  BY <1>2, <1>3, <1>4 DEF NewPar

(* The list that is left, with the paragraph in it.                        *)
Around(s, p, q, z) == SubSeq(s, 1, p - 1) \o <<z>> \o SubSeq(s, q + 1, Len(s))

IsAround(a, s, p, q, z) ==
  /\ a \in Seq(Int) /\ Len(a) = Len(s) - q + p
  /\ \A i \in 1 .. p - 1 : a[i] = s[i]
  /\ a[p] = z
  /\ \A i \in p + 1 .. Len(s) - q + p : a[i] = s[i + q - p]

LEMMA AroundIs ==
  ASSUME NEW s \in Seq(Int), NEW p \in 1 .. Len(s), NEW q \in p .. Len(s), NEW z \in Int
  PROVE  IsAround(Around(s, p, q, z), s, p, q, z)
<1> DEFINE n == Len(s)
           a == SubSeq(s, 1, p - 1)
           b == SubSeq(s, q + 1, n)
           c == <<z>>
           ac == a \o c
           w == ac \o b
<1>1. n \in Nat /\ p \in 1 .. n /\ q \in p .. n /\ p \in Int /\ q \in Int
  BY LenProperties
<1>2. /\ a \in Seq(Int) /\ Len(a) = p - 1 /\ \A i \in 1 .. p - 1 : a[i] = s[i]
  <2>1. 1 \in Int /\ p - 1 \in Int /\ 1 <= (p - 1) + 1 /\ p - 1 <= Len(s)
    BY <1>1
  <2>2. /\ a \in Seq(Int) /\ Len(a) = (p - 1) - 1 + 1
        /\ \A i \in 1 .. (p - 1) - 1 + 1 : a[i] = s[1 + i - 1]
    BY <2>1, Cut
  <2> HIDE DEF a
  <2>3. QED
    BY <2>2, <1>1
<1>3. /\ b \in Seq(Int) /\ Len(b) = n - q /\ \A i \in 1 .. n - q : b[i] = s[q + i]
  <2>1. q + 1 \in Int /\ n \in Int /\ 1 <= q + 1 /\ q + 1 <= n + 1 /\ n <= Len(s)
    BY <1>1
  <2>2. /\ b \in Seq(Int) /\ Len(b) = n - (q + 1) + 1
        /\ \A i \in 1 .. n - (q + 1) + 1 : b[i] = s[(q + 1) + i - 1]
    BY <2>1, Cut
  <2> HIDE DEF b
  <2>3. ASSUME NEW i \in 1 .. n - q
        PROVE  b[i] = s[q + i]
    <3>1. i \in 1 .. n - (q + 1) + 1 /\ (q + 1) + i - 1 = q + i
      BY <1>1
    <3>2. QED
      BY <2>2, <3>1
  <2>4. QED
    BY <2>2, <2>3, <1>1
<1>4. c \in Seq(Int) /\ Len(c) = 1 /\ c[1] = z
  OBVIOUS
<1> HIDE DEF n, a, b, c
<1>5. /\ ac \in Seq(Int) /\ Len(ac) = p
      /\ \A i \in 1 .. p - 1 : ac[i] = s[i]
      /\ ac[p] = z
  <2>1. /\ ac \in Seq(Int) /\ Len(ac) = Len(a) + Len(c)
        /\ \A i \in 1 .. Len(a) : ac[i] = a[i]
        /\ \A i \in 1 .. Len(c) : ac[Len(a) + i] = c[i]
    BY <1>2, <1>4, Glue
  <2> HIDE DEF ac
  <2>2. ac[p] = z
    <3>1. 1 \in 1 .. Len(c) /\ Len(a) + 1 = p
      BY <1>1, <1>2, <1>4
    <3>2. ac[Len(a) + 1] = c[1]
      BY <2>1, <3>1
    <3>3. QED
      BY <3>1, <3>2, <1>4
  <2>3. QED
    BY <2>1, <2>2, <1>1, <1>2, <1>4
<1> HIDE DEF ac
<1>6. /\ w \in Seq(Int) /\ Len(w) = n - q + p
      /\ \A i \in 1 .. p : w[i] = ac[i]
      /\ \A i \in 1 .. n - q : w[p + i] = s[q + i]
  <2>1. /\ w \in Seq(Int) /\ Len(w) = Len(ac) + Len(b)
        /\ \A i \in 1 .. Len(ac) : w[i] = ac[i]
        /\ \A i \in 1 .. Len(b) : w[Len(ac) + i] = b[i]
    BY <1>3, <1>5, Glue
  <2> HIDE DEF w
  <2>2. Len(w) = n - q + p
    BY <2>1, <1>1, <1>3, <1>5
  <2>3. \A i \in 1 .. p : w[i] = ac[i]
    BY <2>1, <1>5
  <2>4. \A i \in 1 .. n - q : w[p + i] = s[q + i]
    BY ONLY <2>1, <1>3, <1>5
  <2>5. QED
    BY <2>1, <2>2, <2>3, <2>4
<1>7. Around(s, p, q, z) = w
  BY DEF Around, w, ac, a, b, c, n
<1> HIDE DEF w
<1>8. ASSUME NEW i \in p + 1 .. n - q + p
      PROVE  w[i] = s[i + q - p]
  <2>1. i - p \in 1 .. n - q /\ p + (i - p) = i /\ q + (i - p) = i + q - p
    BY <1>1
  <2>2. w[p + (i - p)] = s[q + (i - p)]
    BY <1>6, <2>1
  <2>3. QED
    BY <2>1, <2>2
<1>9. (\A i \in 1 .. p - 1 : w[i] = s[i]) /\ w[p] = z
  <2>1. p \in Int /\ p \in 1 .. p /\ \A i \in 1 .. p - 1 : i \in 1 .. p
    BY <1>1
  <2>2. \A i \in 1 .. p - 1 : w[i] = s[i]
    BY ONLY <2>1, <1>5, <1>6
  <2>3. w[p] = z
    BY ONLY <2>1, <1>5, <1>6
  <2>4. QED
    BY ONLY <2>2, <2>3
<1>10. QED
  BY <1>6, <1>7, <1>8, <1>9 DEF n, IsAround

LEMMA WrappedTree ==
  ASSUME NEW k, Tree(k), at \in DOMAIN k,
         NEW p \in 1 .. Len(k[at]), NEW q \in p .. Len(k[at])
  PROVE  /\ Tree(Wrapped(k, p, q))
         /\ DOMAIN k \subseteq DOMAIN Wrapped(k, p, q)
         /\ Len(Wrapped(k, p, q)[at]) = Len(k[at]) - q + p
<1>1. PICK m, lo, hi, up, h : IsTree(k, m, lo, hi, up, h)
  BY DEF Tree
<1> DEFINE s == k[at]
           n == Len(s)
           nodes == 0 .. m
           z == m + 1
           more == 0 .. m + 1
           In == {s[i] : i \in p .. q}
           k2  == Wrapped(k, p, q)
           lo2 == [x \in more |-> IF x = z THEN lo[s[p]] ELSE lo[x]]
           hi2 == [x \in more |-> IF x = z THEN hi[s[q]] ELSE hi[x]]
           up2 == [x \in more |-> IF x = z THEN at ELSE IF x \in In THEN z ELSE up[x]]
           h2  == [x \in more |-> IF x = z THEN 2 * h[at] - 1 ELSE 2 * h[x]]
<1>2. /\ DOMAIN k = nodes /\ m \in Nat /\ N \in Nat /\ N <= m
      /\ NewPar(k) = z /\ Kind(z) = "par"
  BY <1>1, NewParIs
<1>3. at \in nodes
  BY <1>2
<1>4. /\ s \in Seq(nodes) /\ s \in Seq(Int) /\ n \in Nat
      /\ \A i \in 1 .. n :
           /\ s[i] \in Elements(s) /\ s[i] \in nodes /\ s[i] # at
           /\ lo[s[i]] \in Int /\ hi[s[i]] \in Int /\ lo[s[i]] <= hi[s[i]]
      /\ \A i, j \in 1 .. n : i < j => hi[s[i]] < lo[s[j]]
      /\ \A i, j \in 1 .. n : s[i] = s[j] => i = j
  <2>1. s \in Seq(nodes) /\ s \in Seq(Int) /\ n \in Nat
    BY <1>1, <1>3, SiblingsAre
  <2>2. ASSUME NEW i \in 1 .. n
        PROVE  /\ s[i] \in Elements(s) /\ s[i] \in nodes /\ s[i] # at
               /\ lo[s[i]] \in Int /\ hi[s[i]] \in Int /\ lo[s[i]] <= hi[s[i]]
    BY <1>1, <1>3, SiblingsAre
  <2>3. \A i, j \in 1 .. n : i < j => hi[s[i]] < lo[s[j]]
    BY <1>1, <1>3, SiblingsAre
  <2>4. \A i, j \in 1 .. n : s[i] = s[j] => i = j
    BY <1>1, <1>3, SiblingsAre
  <2>5. QED
    BY <2>1, <2>2, <2>3, <2>4
<1>5. /\ k \in [nodes -> Seq(nodes)] /\ lo \in [nodes -> Int]
      /\ up \in [nodes -> nodes] /\ h \in [nodes -> Nat] /\ hi \in [nodes -> Int]
  <2>1. Typed(k, m, lo, hi, up, h)
    BY <1>1 DEF IsTree
  <2>2. QED
    BY <2>1 DEF Typed
<1>6. \A x \in nodes : /\ h[x] <= h[0] /\ lo[x] <= hi[x] /\ (x <= N => lo[x] = x)
                       /\ (Kind(x) = "parsep" => Elements(k[x]) = {})
                       /\ (x # 0 => x \in Elements(k[up[x]]) \/ Kind(x) = "parsep")
                       /\ k[x] \in Seq(nodes) /\ Ordered(k[x], lo, hi)
  <2> SUFFICES ASSUME NEW x \in nodes
               PROVE  /\ h[x] <= h[0] /\ lo[x] <= hi[x] /\ (x <= N => lo[x] = x)
                      /\ (Kind(x) = "parsep" => Elements(k[x]) = {})
                      /\ (x # 0 => x \in Elements(k[up[x]]) \/ Kind(x) = "parsep")
                      /\ k[x] \in Seq(nodes) /\ Ordered(k[x], lo, hi)
    OBVIOUS
  <2>1. h[x] <= h[0] /\ lo[x] <= hi[x] /\ (x <= N => lo[x] = x)
    BY <1>1, TreeAt
  <2>2. (Kind(x) = "parsep" => Elements(k[x]) = {}) /\ Ordered(k[x], lo, hi)
    BY <1>1, TreeAt
  <2>3. x # 0 => x \in Elements(k[up[x]]) \/ Kind(x) = "parsep"
    BY <1>1, TreeAt
  <2>4. k[x] \in Seq(nodes)
    BY <1>1, SiblingsAre
  <2>5. QED
    BY <2>1, <2>2, <2>3, <2>4
<1>7. \A x \in nodes : \A c \in Elements(k[x]) :
        /\ c \in nodes /\ up[c] = x /\ h[c] < h[x]
        /\ lo[x] <= lo[c] /\ hi[c] <= hi[x] /\ (x <= N => x < lo[c])
  BY <1>1, TreeChild
<1>8. /\ more = nodes \cup {z} /\ z \notin nodes /\ z \in Int /\ z > N /\ 0 \in nodes /\ z # 0
      /\ nodes \subseteq Int /\ at \in Int /\ nodes \subseteq more
  BY <1>2, <1>3
<1>9. /\ p \in 1 .. n /\ q \in 1 .. n /\ p <= q
  BY <1>4
<1> DEFINE a == Around(s, p, q, z)
           b == SubSeq(s, p, q)
<1>10. k2 = [x \in more |-> IF x = at THEN a ELSE IF x = z THEN b ELSE k[x]]
  <2>1. ~(p > q)
    BY <1>9, <1>4
  <2>2. QED
    BY <2>1, <1>2, <1>8 DEF Wrapped, Around
<1>11. /\ a \in Seq(Int) /\ Len(a) = n - q + p
       /\ \A i \in 1 .. p - 1 : a[i] = s[i]
       /\ a[p] = z
       /\ \A i \in p + 1 .. n - q + p : a[i] = s[i + q - p]
  <2>1. s \in Seq(Int) /\ p \in 1 .. Len(s) /\ q \in p .. Len(s) /\ z \in Int
    BY <1>4, <1>8
  <2> HIDE DEF s, z
  <2>2. IsAround(a, s, p, q, z)
    BY ONLY <2>1, AroundIs DEF a
  <2>3. QED
    BY ONLY <2>2 DEF IsAround, n
<1>12. /\ b \in Seq(Int) /\ Len(b) = q - p + 1
       /\ \A i \in 1 .. q - p + 1 : b[i] = s[p + i - 1]
  <2>1. p \in Int /\ q \in Int /\ 1 <= p /\ p <= q + 1 /\ q <= Len(s)
    BY <1>4, <1>9
  <2> HIDE DEF s
  <2>2. QED
    BY ONLY <2>1, <1>4, Cut DEF b
<1>13. h[at] \in Nat /\ \A i \in 1 .. n : h[s[i]] < h[at]
  BY <1>3, <1>4, <1>5, <1>7
<1> HIDE DEF s, n, nodes, z, more, a, b, k2
<1>14. /\ lo2 \in [more -> Int] /\ lo2[z] = lo[s[p]] /\ \A x \in nodes : lo2[x] = lo[x]
       /\ hi2 \in [more -> Int] /\ hi2[z] = hi[s[q]] /\ \A x \in nodes : hi2[x] = hi[x]
  <2>1. \A x \in nodes : lo[x] \in Int /\ hi[x] \in Int
    BY <1>5
  <2>2. lo[s[p]] \in Int /\ hi[s[q]] \in Int
    BY <1>4, <1>9
  <2>3. \A x \in more : x = z \/ x \in nodes
    BY <1>8
  <2>4. QED
    BY <2>1, <2>2, <2>3, <1>8
<1>15. /\ up2 \in [more -> more] /\ up2[z] = at /\ \A x \in nodes : up2[x] = IF x \in In THEN z ELSE up[x]
  <2>1. \A x \in nodes : up[x] \in more
    BY <1>5, <1>8
  <2>2. z \in more /\ at \in more /\ z \notin nodes /\ nodes \subseteq more
        /\ \A x \in more : x = z \/ x \in nodes
    BY <1>3, <1>8
  <2> HIDE DEF In
  <2>3. \A x \in more : (IF x = z THEN at ELSE IF x \in In THEN z ELSE up[x]) \in more
    BY ONLY <2>1, <2>2
  <2>4. up2 \in [more -> more] /\ up2[z] = at
    BY ONLY <2>2, <2>3
  <2>5. \A x \in nodes : up2[x] = IF x \in In THEN z ELSE up[x]
    BY ONLY <2>2
  <2>6. QED
    BY ONLY <2>4, <2>5
<1>16. /\ h2 \in [more -> Nat] /\ h2[z] = 2 * h[at] - 1 /\ \A x \in nodes : h2[x] = 2 * h[x]
  <2>1. \A x \in nodes : 2 * h[x] \in Nat
    BY <1>5
  <2>2. 2 * h[at] - 1 \in Nat
    <3>1. s[p] \in nodes /\ h[s[p]] < h[at]
      BY <1>4, <1>9, <1>13
    <3>2. h[s[p]] \in Nat
      BY <3>1, <1>5
    <3>3. QED
      BY <3>1, <3>2, <1>13
  <2>3. z \in more /\ \A x \in more : x = z \/ x \in nodes
    BY <1>8
  <2>4. QED
    BY <2>1, <2>2, <2>3, <1>8
<1> HIDE DEF lo2, hi2, up2, h2
<1>17. \A x : x \in In <=> \E i \in p .. q : x = s[i]
  OBVIOUS
<1> HIDE DEF lo2, hi2, up2, h2, In
(* The list that is left, and the content of the paragraph.                *)
<1>18. \A i \in 1 .. Len(a) :
         \/ i \in 1 .. p - 1 /\ i \in 1 .. n /\ a[i] = s[i]
         \/ i = p /\ a[i] = z
         \/ i \in p + 1 .. Len(a) /\ i + q - p \in q + 1 .. n /\ i + q - p \in 1 .. n /\ a[i] = s[i + q - p]
  <2> SUFFICES ASSUME NEW i \in 1 .. Len(a)
               PROVE  \/ i \in 1 .. p - 1 /\ i \in 1 .. n /\ a[i] = s[i]
                      \/ i = p /\ a[i] = z
                      \/ i \in p + 1 .. Len(a) /\ i + q - p \in q + 1 .. n /\ i + q - p \in 1 .. n /\ a[i] = s[i + q - p]
    OBVIOUS
  <2>1. CASE i < p
    <3>1. i \in 1 .. p - 1 /\ i \in 1 .. n
      BY <2>1, <1>4, <1>9
    <3>2. QED
      BY <3>1, <1>11
  <2>2. CASE i = p
    BY <2>2, <1>11
  <2>3. CASE p < i
    <3>1. i \in p + 1 .. n - q + p /\ i \in p + 1 .. Len(a) /\ i + q - p \in q + 1 .. n /\ i + q - p \in 1 .. n
      BY <2>3, <1>4, <1>9, <1>11
    <3>2. QED
      BY <3>1, <1>11
  <2>4. QED
    BY <2>1, <2>2, <2>3, <1>9
<1>19. \A x : x \in Elements(a) <=> x = z \/ \E i \in 1 .. n : x = s[i] /\ x \notin In
  <2>1. ASSUME NEW i \in 1 .. Len(a)
        PROVE  a[i] = z \/ \E j \in 1 .. n : a[i] = s[j] /\ a[i] \notin In
    <3>1. CASE i \in 1 .. p - 1 /\ i \in 1 .. n /\ a[i] = s[i]
      <4>1. a[i] \notin In
        <5> SUFFICES ASSUME NEW j \in p .. q, s[i] = s[j]
                     PROVE  FALSE
          BY <3>1, <1>17
        <5>1. j \in 1 .. n /\ i # j
          BY <3>1, <1>4, <1>9
        <5>2. QED
          BY <5>1, <3>1, <1>4
      <4>2. QED
        BY <4>1, <3>1
    <3>2. CASE i = p /\ a[i] = z
      BY <3>2
    <3>3. CASE i + q - p \in q + 1 .. n /\ i + q - p \in 1 .. n /\ a[i] = s[i + q - p]
      <4>1. a[i] \notin In
        <5> SUFFICES ASSUME NEW j \in p .. q, s[i + q - p] = s[j]
                     PROVE  FALSE
          BY <3>3, <1>17
        <5>1. j \in 1 .. n /\ i + q - p # j
          BY <3>3, <1>4, <1>9
        <5>2. QED
          BY <5>1, <3>3, <1>4
      <4>2. QED
        BY <4>1, <3>3
    <3>4. QED
      BY <3>1, <3>2, <3>3, <1>18
  <2>2. ASSUME NEW i \in 1 .. n, s[i] \notin In
        PROVE  \E j \in 1 .. Len(a) : s[i] = a[j]
    <3>1. i \notin p .. q
      BY <2>2, <1>17
    <3>2. CASE i < p
      <4>1. i \in 1 .. p - 1 /\ i \in 1 .. Len(a)
        BY <3>2, <1>4, <1>9, <1>11
      <4>2. QED
        BY <4>1, <1>11
    <3>3. CASE q < i
      <4>1. /\ i - q + p \in p + 1 .. n - q + p /\ i - q + p \in 1 .. Len(a)
            /\ (i - q + p) + q - p = i
        BY <3>3, <1>4, <1>9, <1>11
      <4>2. a[i - q + p] = s[(i - q + p) + q - p]
        BY <4>1, <1>11
      <4>3. QED
        BY <4>1, <4>2
    <3>4. QED
      BY <3>1, <3>2, <3>3, <1>4, <1>9
  <2>3. p \in 1 .. Len(a) /\ a[p] = z
    BY <1>4, <1>9, <1>11
  <2>4. \A x : x \in Elements(a) <=> \E i \in 1 .. Len(a) : x = a[i]
    BY DEF Elements
  <2>5. ASSUME NEW x, x \in Elements(a)
        PROVE  x = z \/ \E i \in 1 .. n : x = s[i] /\ x \notin In
    BY ONLY <2>1, <2>4, <2>5
  <2>6. ASSUME NEW x, x = z \/ \E i \in 1 .. n : x = s[i] /\ x \notin In
        PROVE  x \in Elements(a)
    BY ONLY <2>2, <2>3, <2>4, <2>6
  <2>7. QED
    BY ONLY <2>5, <2>6
<1>20. Elements(b) = In
  <2>1. ASSUME NEW i \in 1 .. Len(b)
        PROVE  b[i] \in In
    <3>1. i \in 1 .. q - p + 1 /\ p + i - 1 \in p .. q
      BY <1>9, <1>12
    <3>2. QED
      BY <3>1, <1>12, <1>17
  <2>2. ASSUME NEW j \in p .. q
        PROVE  s[j] \in Elements(b)
    <3>1. j - p + 1 \in 1 .. q - p + 1 /\ j - p + 1 \in 1 .. Len(b) /\ p + (j - p + 1) - 1 = j
      BY <1>9, <1>12
    <3>2. b[j - p + 1] = s[p + (j - p + 1) - 1]
      BY <3>1, <1>12
    <3>3. QED
      BY <3>1, <3>2 DEF Elements
  <2>3. QED
    BY <2>1, <2>2, <1>17 DEF Elements
<1>21. \A x \in In : \E i \in 1 .. n : /\ x = s[i] /\ x \in nodes /\ p <= i /\ i <= q
                                     /\ x \in Elements(k[at])
  BY <1>4, <1>9, <1>17 DEF s
<1>22. /\ \A i, j \in 1 .. n : i <= j => lo[s[i]] <= lo[s[j]] /\ hi[s[i]] <= hi[s[j]]
       /\ lo[s[p]] <= hi[s[q]]
  <2>1. ASSUME NEW i \in 1 .. n, NEW j \in 1 .. n, i <= j
        PROVE  lo[s[i]] <= lo[s[j]] /\ hi[s[i]] <= hi[s[j]] /\ lo[s[i]] <= hi[s[j]]
    <3>1. /\ lo[s[i]] \in Int /\ hi[s[i]] \in Int /\ lo[s[i]] <= hi[s[i]]
          /\ lo[s[j]] \in Int /\ hi[s[j]] \in Int /\ lo[s[j]] <= hi[s[j]]
      BY <1>4
    <3>2. CASE i = j
      BY <3>1, <3>2
    <3>3. CASE i < j
      <4>1. hi[s[i]] < lo[s[j]]
        BY <3>3, <1>4
      <4>2. QED
        BY <3>1, <4>1
    <3>4. QED
      BY <2>1, <3>2, <3>3
  <2>2. QED
    BY <2>1, <1>9
<1>23. Elements(k2[at]) = Elements(a) /\ Elements(k2[z]) = In /\ k2[at] = a /\ k2[z] = b
       /\ \A x \in nodes : x # at => k2[x] = k[x]
  <2>1. at # z /\ at \in more /\ z \in more
    BY <1>3, <1>8
  <2>2. QED
    BY <2>1, <1>8, <1>10, <1>20
<1>24. k2 \in [more -> Seq(more)]
  <2>1. a \in Seq(more)
    <3>1. Elements(a) \subseteq more
      BY <1>4, <1>8, <1>19
    <3>2. QED
      BY <3>1, <1>11, SeqOfElements
  <2>2. b \in Seq(more)
    <3>1. Elements(b) \subseteq more
      BY <1>8, <1>20, <1>21
    <3>2. QED
      BY <3>1, <1>12, SeqOfElements
  <2>3. \A x \in nodes : k[x] \in Seq(more)
    BY <1>6, <1>8, SeqOfMore
  <2>4. \A x \in more : x = z \/ x \in nodes
    BY <1>8
  <2>5. QED
    BY <2>1, <2>2, <2>3, <2>4, <1>10
<1>25. Ordered(a, lo2, hi2)
  <2> SUFFICES ASSUME NEW i \in 1 .. Len(a), NEW j \in 1 .. Len(a), i < j
               PROVE  hi2[a[i]] < lo2[a[j]]
    BY DEF Ordered
  <2>1. CASE i \in 1 .. p - 1 /\ i \in 1 .. n /\ a[i] = s[i]
    <3>1. hi2[a[i]] = hi[s[i]]
      BY <2>1, <1>4, <1>14
    <3>2. CASE j \in 1 .. p - 1 /\ j \in 1 .. n /\ a[j] = s[j]
      <4>1. hi[s[i]] < lo[s[j]] /\ s[j] \in nodes
        BY ONLY <2>1, <3>2, <1>4, i < j
      <4>2. lo2[a[j]] = lo[s[j]]
        BY ONLY <4>1, <3>2, <1>14
      <4>3. QED
        BY ONLY <4>1, <4>2, <3>1
    <3>3. CASE j = p /\ a[j] = z
      <4>1. hi[s[i]] < lo[s[p]]
        BY ONLY <2>1, <3>3, <1>4, <1>9, i < j
      <4>2. lo2[a[j]] = lo[s[p]]
        BY ONLY <3>3, <1>14
      <4>3. QED
        BY ONLY <4>1, <4>2, <3>1
    <3>4. CASE j + q - p \in q + 1 .. n /\ j + q - p \in 1 .. n /\ a[j] = s[j + q - p]
      <4>1. i < j + q - p
        BY <2>1, <3>4, <1>9
      <4>2. hi[s[i]] < lo[s[j + q - p]]
        BY <4>1, <2>1, <3>4, <1>4
      <4>3. lo2[a[j]] = lo[s[j + q - p]]
        BY ONLY <3>4, <1>4, <1>14
      <4>4. QED
        BY ONLY <4>2, <4>3, <3>1
    <3>5. QED
      BY <3>2, <3>3, <3>4, <1>18
  <2>2. CASE i = p /\ a[i] = z
    <3>1. j + q - p \in q + 1 .. n /\ j + q - p \in 1 .. n /\ a[j] = s[j + q - p]
      <4>1. j # p /\ j \notin 1 .. p - 1
        BY <2>2, <1>9
      <4>2. QED
        BY ONLY <4>1, <1>18, j \in 1 .. Len(a)
    <3>2. hi[s[q]] < lo[s[j + q - p]]
      <4>1. q \in 1 .. n /\ q < j + q - p
        BY <3>1, <1>9
      <4>2. QED
        BY ONLY <4>1, <3>1, <1>4
    <3>3. hi2[a[i]] = hi[s[q]] /\ lo2[a[j]] = lo[s[j + q - p]]
      BY ONLY <2>2, <3>1, <1>4, <1>14
    <3>4. QED
      BY ONLY <3>2, <3>3
  <2>3. CASE i \in p + 1 .. Len(a) /\ i + q - p \in q + 1 .. n /\ i + q - p \in 1 .. n /\ a[i] = s[i + q - p]
    <3>1. j + q - p \in q + 1 .. n /\ j + q - p \in 1 .. n /\ a[j] = s[j + q - p]
      <4>1. j # p /\ j \notin 1 .. p - 1
        BY <2>3, <1>9
      <4>2. QED
        BY ONLY <4>1, <1>18, j \in 1 .. Len(a)
    <3>2. i + q - p < j + q - p
      BY <1>9
    <3>3. /\ hi[s[i + q - p]] < lo[s[j + q - p]]
          /\ s[i + q - p] \in nodes /\ s[j + q - p] \in nodes
      BY ONLY <2>3, <3>1, <3>2, <1>4
    <3>4. hi2[a[i]] = hi[s[i + q - p]]
      BY ONLY <2>3, <3>3, <1>14
    <3>5. lo2[a[j]] = lo[s[j + q - p]]
      BY ONLY <3>1, <3>3, <1>14
    <3>6. QED
      BY ONLY <3>3, <3>4, <3>5
  <2>4. QED
    BY <2>1, <2>2, <2>3, <1>18
<1>26. Ordered(b, lo2, hi2)
  <2> SUFFICES ASSUME NEW i \in 1 .. Len(b), NEW j \in 1 .. Len(b), i < j
               PROVE  hi2[b[i]] < lo2[b[j]]
    BY DEF Ordered
  <2>1. /\ p + i - 1 \in 1 .. n /\ p + j - 1 \in 1 .. n /\ p + i - 1 < p + j - 1
        /\ b[i] = s[p + i - 1] /\ b[j] = s[p + j - 1]
    BY <1>4, <1>9, <1>12
  <2>2. /\ hi[s[p + i - 1]] < lo[s[p + j - 1]]
        /\ s[p + i - 1] \in nodes /\ s[p + j - 1] \in nodes
    BY ONLY <2>1, <1>4
  <2>3. hi2[b[i]] = hi[s[p + i - 1]] /\ lo2[b[j]] = lo[s[p + j - 1]]
    BY ONLY <2>1, <2>2, <1>14
  <2>4. QED
    BY ONLY <2>2, <2>3
<1>27. ASSUME NEW x \in nodes, x # at
       PROVE  Ordered(k2[x], lo2, hi2)
  <2> DEFINE t == k[x]
  <2>1. k2[x] = t /\ Ordered(t, lo, hi) /\ Elements(t) \subseteq nodes
    BY <1>6, <1>7, <1>23, <1>27
  <2> HIDE DEF t
  <2>2. ASSUME NEW i \in 1 .. Len(t), NEW j \in 1 .. Len(t), i < j
        PROVE  hi2[t[i]] < lo2[t[j]]
    <3>1. t[i] \in nodes /\ t[j] \in nodes
      BY <2>1 DEF Elements
    <3>2. hi[t[i]] < lo[t[j]]
      BY <2>1, <2>2 DEF Ordered
    <3>3. QED
      BY <3>1, <3>2, <1>14
  <2>3. Ordered(t, lo2, hi2)
    BY <2>2 DEF Ordered
  <2>4. QED
    BY <2>1, <2>3
<1>28. \A c \in Elements(k[at]) : /\ c \in nodes /\ up[c] = at /\ h[c] < h[at]
                                 /\ lo[at] <= lo[c] /\ hi[c] <= hi[at] /\ (at <= N => at < lo[c])
  BY <1>3, <1>7
<1>29. ASSUME NEW x \in more, NEW c \in Elements(k2[x])
       PROVE  Holds(x, c, lo2, hi2, up2, h2)
  <2>1. CASE x = at /\ c = z
    <3>1. s[p] \in Elements(k[at]) /\ s[q] \in Elements(k[at])
      BY <1>4, <1>9 DEF s
    <3>2. lo[at] <= lo[s[p]] /\ hi[s[q]] <= hi[at] /\ (at <= N => at < lo[s[p]])
      BY <3>1, <1>28
    <3>3. h2[z] < h2[at]
      BY <1>3, <1>13, <1>16
    <3>4. QED
      BY <2>1, <3>2, <3>3, <1>3, <1>14, <1>15 DEF Holds
  <2>2. CASE x = at /\ c # z
    <3>1. PICK i \in 1 .. n : c = s[i] /\ c \notin In
      BY <2>2, <1>19, <1>23
    <3>2. c \in Elements(k[at])
      BY <3>1, <1>4 DEF s
    <3>3. /\ c \in nodes /\ up[c] = at /\ h[c] < h[at]
          /\ lo[at] <= lo[c] /\ hi[c] <= hi[at] /\ (at <= N => at < lo[c])
      BY <3>2, <1>28
    <3>4. h2[c] < h2[at]
      <4>1. h[c] \in Nat
        BY <3>3, <1>5
      <4>2. QED
        BY <4>1, <3>3, <1>3, <1>13, <1>16
    <3>5. up2[c] = at /\ lo2[c] = lo[c] /\ hi2[c] = hi[c] /\ lo2[at] = lo[at] /\ hi2[at] = hi[at]
      BY <3>1, <3>3, <1>3, <1>14, <1>15
    <3>6. QED
      BY <2>2, <3>3, <3>4, <3>5 DEF Holds
  <2>3. CASE x = z
    <3>1. c \in In
      BY <2>3, <1>23
    <3>2. PICK i \in 1 .. n : c = s[i] /\ c \in nodes /\ p <= i /\ i <= q
      BY <3>1, <1>21
    <3>3. up2[c] = z /\ lo2[c] = lo[c] /\ hi2[c] = hi[c]
      BY <3>1, <3>2, <1>14, <1>15
    <3>4. lo2[z] <= lo[c] /\ hi[c] <= hi2[z]
      BY <3>2, <1>9, <1>14, <1>22
    <3>5. h2[c] < h2[z]
      <4>1. h[c] \in Nat /\ h[c] < h[at]
        BY <3>2, <1>5, <1>13
      <4>2. c \in nodes /\ h2[c] = 2 * h[c] /\ h2[z] = 2 * h[at] - 1 /\ h[at] \in Nat
        BY ONLY <3>2, <1>13, <1>16
      <4>3. QED
        BY <4>1, <4>2, <2>3
    <3>6. ~(z <= N)
      BY <1>2, <1>8
    <3>7. QED
      BY <2>3, <3>3, <3>4, <3>5, <3>6 DEF Holds
  <2>4. CASE x \in nodes /\ x # at
    <3>1. c \in Elements(k[x])
      BY <2>4, <1>23
    <3>2. /\ c \in nodes /\ up[c] = x /\ h[c] < h[x]
          /\ lo[x] <= lo[c] /\ hi[c] <= hi[x] /\ (x <= N => x < lo[c])
      BY <2>4, <3>1, <1>7
    <3>3. c \notin In
      <4> SUFFICES ASSUME c \in In
                   PROVE  FALSE
        OBVIOUS
      <4>1. c \in Elements(k[at])
        BY <1>21
      <4>2. QED
        BY <4>1, <2>4, <3>2, <1>28
    <3>4. up2[c] = x /\ lo2[c] = lo[c] /\ hi2[c] = hi[c] /\ lo2[x] = lo[x] /\ hi2[x] = hi[x]
      BY <2>4, <3>2, <3>3, <1>14, <1>15
    <3>5. h2[c] < h2[x]
      <4>1. h[c] \in Nat /\ h[x] \in Nat
        BY <2>4, <3>2, <1>5
      <4>2. QED
        BY <4>1, <2>4, <3>2, <1>16
    <3>6. QED
      BY <3>2, <3>4, <3>5 DEF Holds
  <2>5. QED
    BY <2>1, <2>2, <2>3, <2>4, <1>8
<1>30. ASSUME NEW x \in more
       PROVE  Fits(x, k2, lo2, hi2, up2, h2)
  <2>1. Ordered(k2[x], lo2, hi2)
    BY <1>8, <1>23, <1>25, <1>26, <1>27
  <2>2. h2[x] <= h2[0] /\ lo2[x] <= hi2[x] /\ (x <= N => lo2[x] = x)
    <3>1. CASE x = z
      <4>1. h[at] <= h[0] /\ h[0] \in Nat /\ h2[0] = 2 * h[0]
        BY <1>3, <1>5, <1>6, <1>8, <1>16
      <4>2. h2[z] <= h2[0]
        BY <4>1, <1>13, <1>16
      <4>3. ~(z <= N)
        BY <1>2, <1>8
      <4>4. QED
        BY <3>1, <4>2, <4>3, <1>14, <1>22
    <3>2. CASE x \in nodes
      <4>1. h[x] <= h[0] /\ h[0] \in Nat /\ h[x] \in Nat /\ h2[0] = 2 * h[0] /\ h2[x] = 2 * h[x]
        BY <3>2, <1>5, <1>6, <1>8, <1>16
      <4>2. h2[x] <= h2[0]
        BY <4>1
      <4>3. QED
        BY <3>2, <4>2, <1>6, <1>14
    <3>3. QED
      BY <3>1, <3>2, <1>8
  <2>3. QED
    BY <2>1, <2>2, <1>29 DEF Fits
<1>31. ASSUME NEW x \in more, x # 0
       PROVE  x \in Elements(k2[up2[x]]) \/ Kind(x) = "parsep"
  <2>1. CASE x = z
    BY <2>1, <1>15, <1>19, <1>23
  <2>2. CASE x \in In
    <3>1. x \in nodes
      BY <2>2, <1>21
    <3>2. QED
      BY <2>2, <3>1, <1>15, <1>23
  <2>3. CASE x \in nodes /\ x \notin In /\ Kind(x) # "parsep"
    <3>1. up2[x] = up[x] /\ up[x] \in nodes /\ x \in Elements(k[up[x]])
      BY <2>3, <1>5, <1>6, <1>15, <1>31
    <3>2. CASE up[x] = at
      <4>1. PICK i \in 1 .. n : x = s[i]
        BY <3>1, <3>2 DEF Elements, s, n
      <4>2. x \in Elements(a)
        BY <4>1, <2>3, <1>19
      <4>3. QED
        BY <4>2, <3>1, <3>2, <1>23
    <3>3. CASE up[x] # at
      BY <3>1, <3>3, <1>23
    <3>4. QED
      BY <3>2, <3>3
  <2>4. QED
    BY <2>1, <2>2, <2>3, <1>8
<1>32. ASSUME NEW x \in more, Kind(x) = "parsep"
       PROVE  Elements(k2[x]) = {}
  <2>1. x \in nodes
    BY <1>2, <1>8, <1>32
  <2>2. Elements(k[x]) = {}
    BY <2>1, <1>6, <1>32
  <2>3. x # at
    <3> SUFFICES ASSUME x = at
                 PROVE  FALSE
      OBVIOUS
    <3>1. s[p] \in Elements(k[at])
      BY <1>4, <1>9 DEF s
    <3>2. QED
      BY <3>1, <2>2
  <2>4. QED
    BY <2>1, <2>2, <2>3, <1>23
<1>33. Typed(k2, m + 1, lo2, hi2, up2, h2)
  <2>1. m + 1 \in Nat /\ N <= m + 1
    BY <1>2
  <2>2. QED
    BY <2>1, <1>2, <1>14, <1>15, <1>16, <1>24 DEF Typed, more
<1>34. \A x \in 1 .. m + 1 : x \in Elements(k2[up2[x]]) \/ Kind(x) = "parsep"
  <2>1. \A x \in 1 .. m + 1 : x \in more /\ x # 0
    BY <1>2 DEF more
  <2>2. QED
    BY <2>1, <1>31
<1>35. IsTree(k2, m + 1, lo2, hi2, up2, h2)
  BY <1>30, <1>32, <1>33, <1>34 DEF IsTree, more
<1>36. DOMAIN k \subseteq DOMAIN k2 /\ Len(k2[at]) = n - q + p
  <2>1. DOMAIN k2 = more
    BY <1>10
  <2>2. QED
    BY <2>1, <1>2, <1>8, <1>11, <1>23
<1>37. QED
  BY <1>35, <1>36 DEF Tree, k2, n, s

(* A mark that is taken out was a <parsep>.                                *)
LEMMA WithoutParsepTree ==
  ASSUME NEW k, Tree(k), at \in DOMAIN k, NEW p \in 1 .. Len(k[at])
  PROVE  Tree(WithoutParsep(k, p))
<1>1. PICK m, lo, hi, up, h : IsTree(k, m, lo, hi, up, h)
  BY DEF Tree
<1>2. CASE Kind(k[at][p]) # "parsep"
  BY <1>2 DEF WithoutParsep
<1>3. CASE Kind(k[at][p]) = "parsep"
  <2> DEFINE s == k[at]
             n == Len(s)
             nodes == 0 .. m
             u == Unlink(s, p)
             k2 == [k EXCEPT ![at] = u]
  <2>1. DOMAIN k = nodes /\ m \in Nat /\ N \in Nat /\ N <= m /\ at \in nodes
    BY <1>1, NewParIs
  <2>2. /\ Typed(k, m, lo, hi, up, h) /\ k \in [nodes -> Seq(nodes)]
        /\ \A x \in nodes : Fits(x, k, lo, hi, up, h)
        /\ \A x \in 1 .. m : x \in Elements(k[up[x]]) \/ Kind(x) = "parsep"
        /\ \A x \in nodes : Kind(x) = "parsep" => Elements(k[x]) = {}
        /\ up \in [nodes -> nodes]
    <3>1. Typed(k, m, lo, hi, up, h)
      BY <1>1 DEF IsTree
    <3>2. k \in [nodes -> Seq(nodes)] /\ up \in [nodes -> nodes]
      BY <3>1 DEF Typed
    <3>3. QED
      BY <3>1, <3>2, <1>1 DEF IsTree
  <2>3. s \in Seq(nodes) /\ s \in Seq(Int) /\ n \in Nat /\ Elements(s) = {s[i] : i \in 1 .. n}
    BY <1>1, <2>1, SiblingsAre
  <2>4. k2 = [k EXCEPT ![at] = u] /\ k2 = WithoutParsep(k, p)
    BY <1>3 DEF WithoutParsep
  <2>5. p \in 1 .. Len(s) /\ Kind(s[p]) = "parsep"
    BY <1>3
  <2> HIDE DEF s, n, nodes
  <2>6. /\ u \in Seq(Int) /\ Len(u) = n - 1 /\ p \in 1 .. n
        /\ \A i \in 1 .. p - 1 : u[i] = s[i]
        /\ \A i \in p .. n - 1 : u[i] = s[i + 1]
    BY <2>3, <2>5, UnlinkProperties DEF n
  <2> HIDE DEF u
  <2>7. ASSUME NEW i \in 1 .. Len(u)
        PROVE  \/ i < p /\ i \in 1 .. n /\ u[i] = s[i]
               \/ p <= i /\ i + 1 \in 1 .. n /\ u[i] = s[i + 1]
    <3>1. CASE i < p
      <4>1. i \in 1 .. p - 1 /\ i \in 1 .. n
        BY <3>1, <2>3, <2>6
      <4>2. QED
        BY <3>1, <4>1, <2>6
    <3>2. CASE p <= i
      <4>1. i \in p .. n - 1 /\ i + 1 \in 1 .. n
        BY <3>2, <2>3, <2>6
      <4>2. QED
        BY <3>2, <4>1, <2>6
    <3>3. QED
      BY <3>1, <3>2, <2>6
  <2>8. Elements(u) \subseteq Elements(s)
    BY <2>3, <2>7 DEF Elements
  <2>9. \A x \in Elements(s) : x \in Elements(u) \/ x = s[p]
    <3> SUFFICES ASSUME NEW j \in 1 .. n, j # p
                 PROVE  s[j] \in Elements(u)
      BY <2>3
    <3>1. CASE j < p
      <4>1. j \in 1 .. p - 1 /\ j \in 1 .. Len(u)
        BY <3>1, <2>3, <2>6
      <4>2. QED
        BY <4>1, <2>6 DEF Elements
    <3>2. CASE p < j
      <4>1. j - 1 \in p .. n - 1 /\ j - 1 \in 1 .. Len(u) /\ (j - 1) + 1 = j
        BY <3>2, <2>3, <2>6
      <4>2. u[j - 1] = s[j]
        BY <4>1, <2>6
      <4>3. QED
        BY <4>1, <4>2 DEF Elements
    <3>3. QED
      BY <3>1, <3>2, <2>6
  <2>10. u \in Seq(nodes)
    <3>1. Elements(s) \subseteq nodes
      BY <2>3, LenProperties, ElementOfSeq DEF Elements
    <3>2. QED
      BY <3>1, <2>6, <2>8, SeqOfElements
  <2>11. /\ k2 \in [nodes -> Seq(nodes)] /\ k2[at] = u
         /\ \A x \in nodes : x # at => k2[x] = k[x]
    BY <2>1, <2>2, <2>10
  <2> HIDE DEF k2
  <2>12. \A x \in nodes : Elements(k2[x]) \subseteq Elements(k[x])
    BY <2>8, <2>11 DEF s
  <2>13. ASSUME NEW x \in nodes
         PROVE  Fits(x, k2, lo, hi, up, h)
    <3>1. Fits(x, k, lo, hi, up, h)
      BY <2>2
    <3>2. Ordered(k2[x], lo, hi)
      <4>1. CASE x # at
        BY <4>1, <3>1, <2>11 DEF Fits
      <4>2. CASE x = at
        <5>1. Ordered(s, lo, hi)
          BY <4>2, <3>1 DEF Fits, s
        <5>2. ASSUME NEW i \in 1 .. Len(u), NEW j \in 1 .. Len(u), i < j
              PROVE  \E a, b \in 1 .. n : a < b /\ u[i] = s[a] /\ u[j] = s[b]
          <6>1. CASE i < p /\ i \in 1 .. n /\ u[i] = s[i]
            <7>1. CASE j < p /\ j \in 1 .. n /\ u[j] = s[j]
              BY ONLY <6>1, <7>1, i < j
            <7>2. CASE p <= j /\ j + 1 \in 1 .. n /\ u[j] = s[j + 1]
              <8>1. i < j + 1
                BY <5>2
              <8>2. QED
                BY ONLY <8>1, <6>1, <7>2
            <7>3. QED
              BY <7>1, <7>2, <2>7
          <6>2. CASE p <= i /\ i + 1 \in 1 .. n /\ u[i] = s[i + 1]
            <7>1. p <= j /\ j + 1 \in 1 .. n /\ u[j] = s[j + 1]
              BY <6>2, <5>2, <2>7, <2>6
            <7>2. i + 1 < j + 1
              BY <5>2
            <7>3. ASSUME NEW a, NEW b, a = i + 1, b = j + 1
                  PROVE  \E v, w \in 1 .. n : v < w /\ u[i] = s[v] /\ u[j] = s[w]
              <8>1. /\ a \in 1 .. n /\ b \in 1 .. n /\ a < b
                    /\ u[i] = s[a] /\ u[j] = s[b]
                BY ONLY <6>2, <7>1, <7>2, <7>3
              <8>2. QED
                BY ONLY <8>1
            <7>4. QED
              BY ONLY <7>3
          <6>3. QED
            BY <6>1, <6>2, <2>7
        <5>3. Ordered(u, lo, hi)
          BY <5>1, <5>2, SMTT(30) DEF Ordered, n
        <5>4. QED
          BY <4>2, <5>3, <2>11
      <4>3. QED
        BY <4>1, <4>2
    <3>3. QED
      BY <3>1, <3>2, <2>12 DEF Fits
  <2>14. ASSUME NEW x \in 1 .. m
         PROVE  x \in Elements(k2[up[x]]) \/ Kind(x) = "parsep"
    <3>1. up[x] \in nodes
      <4>1. x \in nodes
        BY <2>1 DEF nodes
      <4>2. QED
        BY <4>1, <2>2
    <3>2. CASE Kind(x) # "parsep"
      <4>1. x \in Elements(k[up[x]])
        BY <3>2, <2>2
      <4>2. CASE up[x] # at
        BY <3>1, <4>1, <4>2, <2>11
      <4>3. CASE up[x] = at
        <5>1. x \in Elements(s) /\ x # s[p]
          BY <3>2, <4>1, <4>3, <2>5 DEF s
        <5>2. QED
          BY <5>1, <4>3, <2>9, <2>11
      <4>4. QED
        BY <4>2, <4>3
    <3>3. QED
      BY <3>2
  <2>15. \A x \in nodes : Kind(x) = "parsep" => Elements(k2[x]) = {}
    BY <2>2, <2>12
  <2>16. Typed(k2, m, lo, hi, up, h)
    BY <2>2, <2>11 DEF Typed, nodes
  <2>17. IsTree(k2, m, lo, hi, up, h)
    BY <2>13, <2>14, <2>15, <2>16 DEF IsTree, nodes
  <2>18. QED
    BY <2>4, <2>17 DEF Tree, k2
<1>4. QED
  BY <1>2, <1>3

----------------------------------------------------------------------------
(* Before the passes a node stands for itself and what follows it deeper.  *)
DepthOf(n) == IF n = 0 THEN 0 ELSE doc[n].depth
Over(p, n) ==
  /\ p < n /\ DepthOf(n) = DepthOf(p) + 1
  /\ \A x \in p + 1 .. n - 1 : DepthOf(x) >= DepthOf(n)
(* e is the last node of what is below n.                                  *)
LastBelow(n, e) ==
  /\ e \in n .. N /\ \A x \in n + 1 .. e : DepthOf(x) > DepthOf(n)
  /\ \A y \in n .. N : (\A x \in n + 1 .. y : DepthOf(x) > DepthOf(n)) => y <= e

LEMMA DepthsAre ==
  ASSUME doc \in Documents
  PROVE  /\ N \in Nat /\ \A n \in 0 .. N : DepthOf(n) \in Nat
         /\ \A n \in 1 .. N : /\ DepthOf(n) >= 1 /\ DepthOf(n) <= DepthOf(n - 1) + 1
                              /\ Kind(n - 1) = "parsep" => DepthOf(n) <= DepthOf(n - 1)
         /\ \A p \in 0 .. N, n \in 1 .. N : IsParent(doc, p, n) <=> Over(p, n)
<1> DEFINE Nodes == [kind : Kinds, depth : Nat \ {0}, level : Int]
<1>1. /\ doc \in Seq(Nodes)
      /\ \A n \in 1 .. Len(doc) :
           /\ doc[n].depth <= (IF n = 1 THEN 0 ELSE doc[n - 1].depth) + 1
           /\ n > 1 /\ doc[n - 1].kind = "parsep" => doc[n].depth <= doc[n - 1].depth
  BY DocumentsAssumption
<1>2. /\ Len(doc) \in Nat /\ N = Len(doc) /\ \A n \in 1 .. N : doc[n] \in Nodes
  <2> HIDE DEF Nodes
  <2>1. QED
    BY <1>1, LenProperties, ElementOfSeq DEF N
<1>3. \A n \in 1 .. N : doc[n].depth \in Nat \ {0}
  BY <1>2
<1>4. \A n \in 0 .. N : DepthOf(n) \in Nat
  BY <1>2, <1>3 DEF DepthOf
<1>5. \A n \in 1 .. N : DepthOf(n) = doc[n].depth
  BY <1>2 DEF DepthOf
<1> HIDE DEF Nodes
<1>6. ASSUME NEW n \in 1 .. N
      PROVE  /\ DepthOf(n) >= 1 /\ DepthOf(n) <= DepthOf(n - 1) + 1
             /\ Kind(n - 1) = "parsep" => DepthOf(n) <= DepthOf(n - 1)
  <2>1. DepthOf(n) >= 1
    BY <1>3, <1>5
  <2>2. CASE n = 1
    <3>1. DepthOf(n) <= DepthOf(n - 1) + 1
      BY <2>2, <1>1, <1>2, <1>5 DEF DepthOf
    <3>2. Kind(n - 1) # "parsep"
      BY <2>2 DEF Kind
    <3>3. QED
      BY <2>1, <3>1, <3>2
  <2>3. CASE n # 1
    <3>1. n - 1 \in 1 .. N /\ n > 1 /\ n \in 1 .. Len(doc)
      BY <2>3, <1>2
    <3>2. DepthOf(n - 1) = doc[n - 1].depth /\ DepthOf(n) = doc[n].depth
      BY <3>1, <1>5
    <3>3. Kind(n - 1) = doc[n - 1].kind
      BY <3>1, <1>2 DEF Kind
    <3>4. QED
      BY <2>1, <2>3, <3>1, <3>2, <3>3, <1>1
  <2>4. QED
    BY <2>2, <2>3
<1>7. ASSUME NEW p \in 0 .. N, NEW n \in 1 .. N
      PROVE  IsParent(doc, p, n) <=> Over(p, n)
  <2>1. (IF p = 0 THEN 0 ELSE doc[p].depth) = DepthOf(p) /\ DepthOf(n) = doc[n].depth
    BY <1>5 DEF DepthOf
  <2>2. ASSUME NEW x \in p + 1 .. n - 1
        PROVE  DepthOf(x) = doc[x].depth
    <3>1. x \in 1 .. N
      BY <1>2
    <3>2. QED
      BY <3>1, <1>5
  <2>3. QED
    BY <2>1, <2>2 DEF IsParent, Over
<1>8. QED
  BY <1>2, <1>4, <1>6, <1>7

(* Each node has one parent, and an end.                                   *)
LEMMA ParentExists ==
  ASSUME doc \in Documents, NEW n \in 1 .. N
  PROVE  \E p \in 0 .. N : Over(p, n)
<1> DEFINE P == {p \in 0 .. n - 1 : DepthOf(p) < DepthOf(n)}
<1>1. /\ N \in Nat /\ n \in Int /\ \A x \in 0 .. N : DepthOf(x) \in Nat
      /\ \A x \in 1 .. N : DepthOf(x) >= 1 /\ DepthOf(x) <= DepthOf(x - 1) + 1
  BY DepthsAre
<1>2. 0 \in P
  <2>1. DepthOf(0) = 0
    BY DEF DepthOf
  <2>2. QED
    BY <2>1, <1>1
<1>3. PICK p \in P : \A y \in P : y <= p
  <2> HIDE DEF P
  <2>1. 0 \in Int /\ n - 1 \in Int
    BY <1>1
  <2>2. P \in SUBSET (0 .. n - 1) /\ P # {}
    BY <1>2 DEF P
  <2>3. QED
    BY ONLY <2>1, <2>2, Greatest
<1>4. p \in 0 .. N /\ p < n /\ DepthOf(p) < DepthOf(n)
  BY <1>1, <1>3
<1>5. ASSUME NEW x \in p + 1 .. n - 1
      PROVE  DepthOf(x) >= DepthOf(n)
  <2>1. x \in 0 .. n - 1 /\ x \in 0 .. N /\ ~(x <= p)
    BY <1>1, <1>4
  <2>2. x \notin P
    BY <2>1, <1>3
  <2>3. QED
    BY <2>1, <2>2, <1>1
<1>6. DepthOf(n) = DepthOf(p) + 1
  <2>1. p + 1 \in 1 .. N /\ (p + 1) - 1 = p
    BY <1>1, <1>4
  <2>2. DepthOf(p + 1) <= DepthOf(p) + 1
    BY <2>1, <1>1
  <2>3. DepthOf(p + 1) >= DepthOf(n)
    <3>1. CASE p + 1 = n
      BY <3>1, <1>1
    <3>2. CASE p + 1 # n
      BY <3>2, <1>4, <1>5
    <3>3. QED
      BY <3>1, <3>2
  <2>4. DepthOf(p) \in Nat /\ DepthOf(p + 1) \in Nat /\ DepthOf(n) \in Nat
    BY <2>1, <1>1, <1>4
  <2>5. QED
    BY <2>2, <2>3, <2>4, <1>4
<1>7. QED
  BY <1>4, <1>5, <1>6 DEF Over

LEMMA ParentUnique ==
  ASSUME doc \in Documents, NEW n \in 1 .. N, NEW p \in 0 .. N, NEW q \in 0 .. N,
         Over(p, n), Over(q, n)
  PROVE  p = q
<1>1. /\ N \in Nat /\ n \in Int /\ p \in Int /\ q \in Int
      /\ DepthOf(n) \in Nat /\ DepthOf(p) \in Nat /\ DepthOf(q) \in Nat
  BY DepthsAre
<1>2. /\ p < n /\ q < n /\ DepthOf(n) = DepthOf(p) + 1 /\ DepthOf(n) = DepthOf(q) + 1
      /\ \A x \in p + 1 .. n - 1 : DepthOf(x) >= DepthOf(n)
      /\ \A x \in q + 1 .. n - 1 : DepthOf(x) >= DepthOf(n)
  BY DEF Over
<1>3. ~(p < q)
  <2>1. p < q => q \in p + 1 .. n - 1
    BY <1>1, <1>2
  <2>2. QED
    BY <2>1, <1>1, <1>2
<1>4. ~(q < p)
  <2>1. q < p => p \in q + 1 .. n - 1
    BY <1>1, <1>2
  <2>2. QED
    BY <2>1, <1>1, <1>2
<1>5. QED
  BY <1>1, <1>3, <1>4

LEMMA EndExists ==
  ASSUME doc \in Documents, NEW n \in 0 .. N
  PROVE  \E e \in Int : LastBelow(n, e)
<1> DEFINE P == {y \in n .. N : \A x \in n + 1 .. y : DepthOf(x) > DepthOf(n)}
<1>1. N \in Nat /\ n \in Int
  BY DepthsAre
<1>2. n \in P
  BY <1>1
<1>3. PICK e \in P : \A y \in P : y <= e
  <2> HIDE DEF P
  <2>1. N \in Int /\ n \in Int
    BY <1>1
  <2>2. P \in SUBSET (n .. N) /\ P # {}
    BY <1>2 DEF P
  <2>3. QED
    BY ONLY <2>1, <2>2, Greatest
<1>4. e \in Int /\ e \in n .. N
  BY <1>1, <1>3
<1>5. LastBelow(n, e)
  BY <1>3 DEF LastBelow
<1>6. QED
  BY <1>4, <1>5

LEMMA InitKids ==
  ASSUME Init, NEW p \in 0 .. N
  PROVE  /\ kids[p] \in Seq(0 .. N) /\ kids[p] \in Seq(Int) /\ Ascending(kids[p])
         /\ Elements(kids[p]) = {n \in 1 .. N : Over(p, n)}
<1> DEFINE all == [n \in 1 .. N |-> n]
           S == {n \in 1 .. N : IsParent(doc, p, n)}
           s == kids[p]
<1>1. doc \in Documents /\ s = Among(all, S)
  BY DEF Init
<1>2. N \in Nat
  BY <1>1, DepthsAre
<1>3. S = {n \in 1 .. N : Over(p, n)}
  BY <1>1, DepthsAre
<1>4. all \in Seq(Int) /\ Ascending(all) /\ Elements(all) = 1 .. N
  <2>1. all \in Seq(Int) /\ Len(all) = N
    BY <1>2
  <2>2. Ascending(all)
    BY <2>1 DEF Ascending
  <2>3. Elements(all) = 1 .. N
    BY <2>1 DEF Elements
  <2>4. QED
    BY <2>1, <2>2, <2>3
<1> HIDE DEF all, s
<1>5. S \subseteq 1 .. N
  OBVIOUS
<1> HIDE DEF S
<1>6. s \in Seq(Int) /\ Elements(s) = Elements(all) \cap S
  BY <1>1, <1>4, AmongProperties
<1>7. Ascending(s)
  BY <1>1, <1>4, AmongAscending
<1>8. Elements(s) = S
  BY <1>4, <1>5, <1>6
<1>9. s \in Seq(0 .. N)
  <2>1. Elements(s) \subseteq 0 .. N
    BY <1>2, <1>5, <1>8
  <2>2. QED
    BY <2>1, <1>6, SeqOfElements
<1>10. QED
  BY <1>3, <1>6, <1>7, <1>8, <1>9 DEF s

LEMMA InitTree ==
  ASSUME Init
  PROVE  Tree(kids)
<1> DEFINE nodes == 0 .. N
           lo == [n \in nodes |-> n]
           hi == [n \in nodes |-> CHOOSE e \in Int : LastBelow(n, e)]
           up == [n \in nodes |-> IF n = 0 THEN 0 ELSE CHOOSE p \in 0 .. N : Over(p, n)]
           h  == [n \in nodes |-> N - n]
<1>1. /\ doc \in Documents /\ N \in Nat /\ DOMAIN kids = nodes
      /\ \A n \in nodes : DepthOf(n) \in Nat /\ n \in Int
      /\ \A n \in 1 .. N : /\ DepthOf(n) <= DepthOf(n - 1) + 1
                           /\ Kind(n - 1) = "parsep" => DepthOf(n) <= DepthOf(n - 1)
  <2>1. doc \in Documents /\ DOMAIN kids = nodes
    BY DEF Init
  <2>2. QED
    BY <2>1, DepthsAre
<1>2. \A p \in nodes : /\ kids[p] \in Seq(nodes) /\ kids[p] \in Seq(Int) /\ Ascending(kids[p])
                       /\ Elements(kids[p]) = {n \in 1 .. N : Over(p, n)}
  BY InitKids
<1>3. \A n \in nodes : LastBelow(n, hi[n])
  <2> SUFFICES ASSUME NEW n \in nodes
               PROVE  LastBelow(n, hi[n])
    OBVIOUS
  <2>1. \E e \in Int : LastBelow(n, e)
    BY <1>1, EndExists
  <2>2. QED
    BY <2>1
<1>4. \A n \in 1 .. N : up[n] \in nodes /\ Over(up[n], n)
  <2> SUFFICES ASSUME NEW n \in 1 .. N
               PROVE  up[n] \in nodes /\ Over(up[n], n)
    OBVIOUS
  <2>1. \E p \in 0 .. N : Over(p, n)
    BY <1>1, ParentExists
  <2>2. up[n] = CHOOSE p \in 0 .. N : Over(p, n)
    BY <1>1
  <2>3. QED
    BY <2>1, <2>2
<1>5. /\ lo \in [nodes -> Int] /\ h \in [nodes -> Nat]
      /\ \A n \in nodes : lo[n] = n /\ h[n] = N - n
  BY <1>1
<1>6. up[0] = 0 /\ up = [n \in nodes |-> up[n]] /\ hi = [n \in nodes |-> hi[n]]
  BY <1>1
<1> HIDE DEF lo, hi, up, h
<1>7. \A n \in nodes :
        /\ hi[n] \in Int /\ n <= hi[n] /\ hi[n] <= N
        /\ \A x \in n + 1 .. hi[n] : DepthOf(x) > DepthOf(n)
        /\ \A y \in n .. N : (\A x \in n + 1 .. y : DepthOf(x) > DepthOf(n)) => y <= hi[n]
  BY <1>1, <1>3 DEF LastBelow
<1>8. up \in [nodes -> nodes] /\ hi \in [nodes -> Int]
  <2>1. \A n \in nodes : up[n] \in nodes /\ hi[n] \in Int
    <3>1. \A n \in nodes : n = 0 \/ n \in 1 .. N
      BY <1>1
    <3>2. 0 \in nodes
      BY <1>1
    <3>3. QED
      BY <3>1, <3>2, <1>4, <1>6, <1>7
  <2>2. QED
    BY <2>1, <1>6
<1> HIDE DEF nodes
<1>9. \A n \in 1 .. N : n \in nodes
  BY DEF nodes
<1>10. ASSUME NEW p \in nodes, NEW c \in Elements(kids[p])
       PROVE  Holds(p, c, lo, hi, up, h)
  <2>1. c \in 1 .. N /\ Over(p, c) /\ c \in nodes
    BY <1>2, <1>9
  <2>2. p < c /\ DepthOf(c) = DepthOf(p) + 1 /\ \A x \in p + 1 .. c - 1 : DepthOf(x) >= DepthOf(c)
    BY <2>1 DEF Over
  <2>3. up[c] = p
    <3>1. up[c] \in nodes /\ Over(up[c], c)
      BY <2>1, <1>4
    <3>2. up[c] \in 0 .. N /\ p \in 0 .. N
      BY <3>1 DEF nodes
    <3>3. QED
      BY ONLY <2>1, <3>1, <3>2, <1>1, ParentUnique
  <2>4. hi[c] <= hi[p]
    <3>1. hi[c] \in Int /\ c <= hi[c] /\ hi[c] <= N /\ \A x \in c + 1 .. hi[c] : DepthOf(x) > DepthOf(c)
      BY <2>1, <1>7
    <3>2. hi[c] \in p .. N
      BY <2>1, <2>2, <3>1, <1>1
    <3>3. ASSUME NEW x \in p + 1 .. hi[c]
          PROVE  DepthOf(x) > DepthOf(p)
      <4>1. x \in Int /\ x \in nodes /\ DepthOf(x) \in Nat /\ DepthOf(p) \in Nat /\ DepthOf(c) \in Nat
        <5>1. x \in 0 .. N
          BY <3>1, <1>1 DEF nodes
        <5>2. QED
          BY <5>1, <2>1, <1>1 DEF nodes
      <4>2. CASE x < c
        <5>1. x \in p + 1 .. c - 1
          BY <4>1, <4>2, <2>1, <1>1
        <5>2. QED
          BY <5>1, <4>1, <2>2
      <4>3. CASE x = c
        BY <4>1, <4>3, <2>2
      <4>4. CASE x > c
        <5>1. x \in c + 1 .. hi[c]
          BY <4>1, <4>4, <2>1, <1>1, <3>1
        <5>2. QED
          BY <5>1, <4>1, <2>2, <3>1
      <4>5. QED
        BY <4>1, <4>2, <4>3, <4>4, <2>1
    <3>4. QED
      BY <3>2, <3>3, <1>7
  <2>5. h[c] < h[p] /\ lo[p] <= lo[c] /\ p < lo[c]
    BY <2>1, <2>2, <1>1, <1>5
  <2>6. QED
    BY <2>3, <2>4, <2>5 DEF Holds
<1>11. ASSUME NEW p \in nodes
       PROVE  Ordered(kids[p], lo, hi)
  <2> DEFINE s == kids[p]
  <2>1. s \in Seq(Int) /\ Ascending(s) /\ \A i \in 1 .. Len(s) : s[i] \in 1 .. N /\ Over(p, s[i])
    <3>1. s \in Seq(Int) /\ Ascending(s) /\ Elements(s) = {n \in 1 .. N : Over(p, n)}
      BY <1>2
    <3>2. \A i \in 1 .. Len(s) : s[i] \in Elements(s)
      BY DEF Elements
    <3>3. QED
      BY <3>1, <3>2
  <2> HIDE DEF s
  <2>2. ASSUME NEW i \in 1 .. Len(s), NEW j \in 1 .. Len(s), i < j
        PROVE  hi[s[i]] < lo[s[j]]
    <3> DEFINE a == s[i]
               b == s[j]
    <3>1. /\ a \in 1 .. N /\ b \in 1 .. N /\ a \in nodes /\ b \in nodes /\ a < b
          /\ DepthOf(a) = DepthOf(p) + 1 /\ DepthOf(b) = DepthOf(p) + 1
      <4>1. a < b
        BY <2>1, <2>2 DEF Ascending
      <4>2. a \in 1 .. N /\ b \in 1 .. N /\ Over(p, a) /\ Over(p, b)
        BY <2>1
      <4>3. QED
        BY <4>1, <4>2, <1>9 DEF Over
    <3> HIDE DEF a, b
    <3>2. ~(b <= hi[a])
      <4>1. b <= hi[a] => b \in a + 1 .. hi[a]
        BY <3>1, <1>1, <1>7
      <4>2. DepthOf(a) \in Nat /\ DepthOf(b) \in Nat
        BY <3>1, <1>1
      <4>3. QED
        BY <3>1, <4>1, <4>2, <1>7
    <3>3. hi[a] < lo[b]
      <4>1. hi[a] \in Int /\ b \in Int /\ lo[b] = b
        BY <3>1, <1>5, <1>7
      <4>2. QED
        BY ONLY <4>1, <3>2
    <3>4. QED
      BY <3>3 DEF a, b
  <2>3. QED
    BY <2>2 DEF Ordered, s
<1>12. ASSUME NEW n \in nodes
       PROVE  Fits(n, kids, lo, hi, up, h)
  <2>1. 0 \in nodes /\ h[n] <= h[0]
    BY <1>1, <1>5 DEF nodes
  <2>2. lo[n] <= hi[n] /\ (n <= N => lo[n] = n)
    BY <1>5, <1>7
  <2>3. QED
    BY <2>1, <2>2, <1>10, <1>11 DEF Fits
<1>13. ASSUME NEW n \in 1 .. N
       PROVE  n \in Elements(kids[up[n]])
  BY <1>2, <1>4, <1>9
<1>14. ASSUME NEW p \in nodes, Kind(p) = "parsep"
       PROVE  Elements(kids[p]) = {}
  <2> SUFFICES ASSUME NEW c \in 1 .. N, Over(p, c)
               PROVE  FALSE
    BY <1>2
  <2>1. p < c /\ DepthOf(c) = DepthOf(p) + 1 /\ \A x \in p + 1 .. c - 1 : DepthOf(x) >= DepthOf(c)
    BY DEF Over
  <2>2. p + 1 \in 1 .. N /\ (p + 1) - 1 = p /\ p + 1 \in nodes /\ c \in nodes
    BY <2>1, <1>1, <1>9 DEF nodes
  <2>3. DepthOf(p + 1) <= DepthOf(p)
    BY <2>2, <1>1, <1>14
  <2>4. DepthOf(p) \in Nat /\ DepthOf(p + 1) \in Nat /\ DepthOf(c) \in Nat
    BY <2>2, <1>1
  <2>5. CASE p + 1 = c
    BY <2>1, <2>3, <2>4, <2>5
  <2>6. CASE p + 1 # c
    <3>1. p + 1 \in p + 1 .. c - 1
      BY <2>1, <2>2, <2>6, <1>1
    <3>2. QED
      BY <3>1, <2>1, <2>3, <2>4
  <2>7. QED
    BY <2>5, <2>6
<1>15. Typed(kids, N, lo, hi, up, h)
  <2>1. kids = [n \in nodes |-> kids[n]]
    BY DEF Init, nodes
  <2>2. kids \in [nodes -> Seq(nodes)]
    BY <2>1, <1>2
  <2>3. N <= N
    BY <1>1
  <2>4. QED
    BY <2>2, <2>3, <1>1, <1>5, <1>8 DEF Typed, nodes
<1>16. IsTree(kids, N, lo, hi, up, h)
  BY <1>12, <1>13, <1>14, <1>15 DEF IsTree, nodes
<1>17. QED
  BY <1>16 DEF Tree

----------------------------------------------------------------------------
(* The engine: it visits nodes of the tree, and a pass stands in the list  *)
(* of one of them.                                                         *)
LEMMA ListsAre ==
  ASSUME NEW k, Tree(k)
  PROVE  /\ 0 \in DOMAIN k
         /\ \A n \in DOMAIN k : /\ k[n] \in Seq(DOMAIN k) /\ k[n] \in Seq(Int) /\ Len(k[n]) \in Nat
                                /\ \A i \in 1 .. Len(k[n]) : k[n][i] \in DOMAIN k
<1>1. PICK m, lo, hi, up, h : IsTree(k, m, lo, hi, up, h)
  BY DEF Tree
<1>2. DOMAIN k = 0 .. m /\ m \in Nat
  BY <1>1, NewParIs
<1>3. ASSUME NEW n \in 0 .. m
      PROVE  /\ k[n] \in Seq(0 .. m) /\ k[n] \in Seq(Int) /\ Len(k[n]) \in Nat
             /\ \A i \in 1 .. Len(k[n]) : k[n][i] \in 0 .. m
  BY <1>1, SiblingsAre
<1>4. QED
  BY <1>2, <1>3

LEMMA WithoutParsepList ==
  ASSUME NEW k, Tree(k), at \in DOMAIN k, NEW p \in 1 .. Len(k[at])
  PROVE  /\ DOMAIN WithoutParsep(k, p) = DOMAIN k
         /\ Len(WithoutParsep(k, p)[at]) \in {Len(k[at]) - 1, Len(k[at])}
<1>1. k[at] \in Seq(Int)
  BY ListsAre
<1> DEFINE s == k[at]
           u == Unlink(s, p)
<1>2. s \in Seq(Int) /\ p \in 1 .. Len(s)
  BY <1>1
<1>3. WithoutParsep(k, p) = IF Kind(s[p]) = "parsep" THEN [k EXCEPT ![at] = u] ELSE k
  BY DEF WithoutParsep
<1> HIDE DEF s
<1>4. Len(u) = Len(s) - 1
  BY <1>2, UnlinkProperties
<1> HIDE DEF u
<1>5. CASE Kind(s[p]) = "parsep"
  <2>1. WithoutParsep(k, p)[at] = u /\ DOMAIN WithoutParsep(k, p) = DOMAIN k
    BY <1>3, <1>5
  <2>2. QED
    BY <2>1, <1>4 DEF s
<1>6. CASE Kind(s[p]) # "parsep"
  BY <1>3, <1>6 DEF s
<1>7. QED
  BY <1>5, <1>6

(* An element follows the nearest mark before it.                          *)
LEMMA MarkIsNode ==
  ASSUME NEW x \in Int, x >= 0, N \in Nat, Kind(x) \in {"item", "bibitem", "section"}
  PROVE  x \in 1 .. N /\ Kind(x) # "parsep"
BY DEF Kind

LEMMA ClosedTakes ==
  ASSUME Tree(kids), N \in Nat, NEW root \in DOMAIN kids, NEW name \in {"item", "bibitem"}
  PROVE  Tree(ClosedSiblings(root, name))
<1> DEFINE s == kids[root]
           n == Len(s)
           by == [p \in 1 .. Len(s) |-> TakenBy(s, name, p)]
<1>1. PICK m, lo, hi, up, h : IsTree(kids, m, lo, hi, up, h)
  BY DEF Tree
<1>2. DOMAIN kids = 0 .. m /\ root \in 0 .. m /\ m \in Nat
  BY <1>1, NewParIs
<1>3. n \in Nat /\ \A i \in 1 .. n : s[i] \in Int /\ s[i] >= 0
  <2>1. n \in Nat /\ \A i \in 1 .. n : s[i] \in 0 .. m
    BY <1>2, ListsAre
  <2>2. QED
    BY <2>1, <1>2
<1>4. ClosedSiblings(root, name) = Moved(root, by)
  BY DEF ClosedSiblings
<1> HIDE DEF s, n
<1>5. ASSUME NEW p \in 1 .. n
      PROVE  \A q : q \in by[p] <=>
               /\ q \in 1 .. p - 1 /\ Kind(s[q]) = name
               /\ \A r \in q + 1 .. p : IsElement(s[r]) /\ Kind(s[r]) # name
  BY DEF TakenBy, n
<1> HIDE DEF by
<1>6. ASSUME NEW p \in 1 .. n, NEW q \in by[p]
      PROVE  /\ q \in 1 .. p - 1 /\ by[q] = {} /\ \A r \in q + 1 .. p : by[r] = {q}
             /\ s[q] \in 1 .. N /\ Kind(s[q]) # "parsep"
  <2>1. /\ q \in 1 .. p - 1 /\ Kind(s[q]) = name
        /\ \A r \in q + 1 .. p : IsElement(s[r]) /\ Kind(s[r]) # name
    BY <1>5, <1>6
  <2>2. q \in 1 .. n
    BY <1>3, <2>1
  <2>3. by[q] = {}
    <3> SUFFICES ASSUME NEW o \in by[q]
                 PROVE  FALSE
      OBVIOUS
    <3>1. o \in 1 .. q - 1 /\ \A r \in o + 1 .. q : Kind(s[r]) # name
      BY <2>2, <1>5
    <3>2. q \in o + 1 .. q
      BY <2>2, <3>1
    <3>3. QED
      BY <2>1, <3>1, <3>2
  <2>4. ASSUME NEW r \in q + 1 .. p
        PROVE  by[r] = {q}
    <3>1. r \in 1 .. n /\ q \in 1 .. r - 1
      BY <1>3, <2>1
    <3>2. q \in by[r]
      <4>1. \A o \in q + 1 .. r : o \in q + 1 .. p
        BY <3>1, <2>1
      <4>2. QED
        BY <4>1, <3>1, <2>1, <1>5
    <3>3. ASSUME NEW o \in by[r]
          PROVE  o = q
      <4>1. o \in 1 .. r - 1 /\ Kind(s[o]) = name /\ \A x \in o + 1 .. r : Kind(s[x]) # name
        BY <3>1, <1>5
      <4>2. ~(o > q)
        <5>1. o > q => o \in q + 1 .. p
          BY <4>1, <2>1
        <5>2. QED
          BY <5>1, <4>1, <2>1
      <4>3. ~(o < q)
        <5>1. o < q => q \in o + 1 .. r
          BY <4>1, <3>1, <2>1
        <5>2. QED
          BY <5>1, <4>1, <2>1
      <4>4. QED
        BY <4>1, <4>2, <4>3, <2>1
    <3>4. QED
      BY <3>2, <3>3
  <2>5. s[q] \in 1 .. N /\ Kind(s[q]) # "parsep"
    <3>1. s[q] \in Int /\ s[q] >= 0 /\ Kind(s[q]) \in {"item", "bibitem", "section"}
      BY <2>1, <2>2, <1>3
    <3>2. QED
      BY <3>1, MarkIsNode
  <2>6. QED
    BY <2>1, <2>3, <2>4, <2>5
<1>7. Takes(s, by)
  BY <1>6 DEF Takes, n
<1>8. Tree(Moved(root, by))
  BY <1>1, <1>2, <1>7, MovedTree DEF s
<1>9. QED
  BY <1>4, <1>8

(* A section takes what stands between it and where it ends.               *)
LEMMA SectionTakes ==
  ASSUME Tree(kids), N \in Nat, at \in DOMAIN kids, NEW c \in 1 .. Len(kids[at]),
         Kind(kids[at][c]) = "section",
         NEW content \in SUBSET (c + 1 .. Len(kids[at])),
         \A p \in content : \A r \in c + 1 .. p : r \in content
  PROVE  Tree(Moved(at, [p \in 1 .. Len(kids[at]) |-> IF p \in content THEN {c} ELSE {}]))
<1> DEFINE s == kids[at]
           n == Len(s)
           by == [p \in 1 .. n |-> IF p \in content THEN {c} ELSE {}]
<1>1. PICK m, lo, hi, up, h : IsTree(kids, m, lo, hi, up, h)
  BY DEF Tree
<1>2. DOMAIN kids = 0 .. m /\ at \in 0 .. m /\ m \in Nat
  BY <1>1, NewParIs
<1>3. n \in Nat /\ \A i \in 1 .. n : s[i] \in Int /\ s[i] >= 0
  <2>1. n \in Nat /\ \A i \in 1 .. n : s[i] \in 0 .. m
    BY <1>2, ListsAre
  <2>2. QED
    BY <2>1, <1>2
<1>4. c \in 1 .. n /\ Kind(s[c]) = "section" /\ content \subseteq c + 1 .. n
  OBVIOUS
<1> HIDE DEF s, n
<1>5. \A p \in 1 .. n : by[p] = IF p \in content THEN {c} ELSE {}
  OBVIOUS
<1> HIDE DEF by
<1>6. ASSUME NEW p \in 1 .. n, NEW q \in by[p]
      PROVE  /\ q \in 1 .. p - 1 /\ by[q] = {} /\ \A r \in q + 1 .. p : by[r] = {q}
             /\ s[q] \in 1 .. N /\ Kind(s[q]) # "parsep"
  <2>1. q = c /\ p \in content
    BY <1>5, <1>6
  <2>2. q \in 1 .. p - 1 /\ c \notin content /\ p \in c + 1 .. n
    BY <2>1, <1>3, <1>4
  <2>3. \A r \in q + 1 .. p : r \in content /\ r \in 1 .. n
    BY <2>1, <2>2, <1>3, <1>4
  <2>4. s[c] \in 1 .. N /\ Kind(s[c]) # "parsep"
    <3>1. s[c] \in Int /\ s[c] >= 0 /\ Kind(s[c]) \in {"item", "bibitem", "section"}
      BY <1>3, <1>4
    <3>2. QED
      BY <3>1, MarkIsNode
  <2>5. QED
    BY <2>1, <2>2, <2>3, <2>4, <1>4, <1>5
<1>7. Takes(s, by)
  BY <1>6 DEF Takes, n
<1>8. Tree(Moved(at, by))
  BY <1>1, <1>2, <1>7, MovedTree DEF s
<1>9. QED
  BY <1>8 DEF by, n, s

(* The paragraph after a mark has an end.                                  *)
LEMMA LastOfParIs ==
  ASSUME NEW s, Len(s) \in Nat, NEW p \in 1 .. Len(s)
  PROVE  LastOfPar(s, p) \in p .. Len(s)
<1> DEFINE n == Len(s)
           In(x) == IsElement(x) /\ ~IsParEnd(x)
           P == {q \in p .. n : \A r \in p + 1 .. q : In(s[r])}
           IsLast(q) == (\A r \in p + 1 .. q : In(s[r])) /\ (q < n => ~In(s[q + 1]))
<1>1. n \in Nat /\ p \in 1 .. n
  OBVIOUS
<1>2. LastOfPar(s, p) = CHOOSE q \in p .. n : IsLast(q)
  BY DEF LastOfPar
<1> HIDE DEF n, In
<1>3. p \in P
  BY <1>1
<1>4. PICK q \in P : \A y \in P : y <= q
  <2>1. p \in Int /\ n \in Int
    BY <1>1
  <2>2. P \in SUBSET (p .. n) /\ P # {}
    BY <1>3
  <2> HIDE DEF P
  <2>3. QED
    BY ONLY <2>1, <2>2, Greatest
<1>5. q \in p .. n /\ \A r \in p + 1 .. q : In(s[r])
  BY <1>4
<1>6. q < n => ~In(s[q + 1])
  <2> SUFFICES ASSUME q < n, In(s[q + 1])
               PROVE  FALSE
    OBVIOUS
  <2>1. q + 1 \in p .. n
    BY <1>1, <1>5
  <2>2. \A r \in p + 1 .. q + 1 : r \in p + 1 .. q \/ r = q + 1
    BY <1>1, <1>5
  <2>3. q + 1 \in P
    BY <2>1, <2>2, <1>5
  <2>4. q + 1 <= q
    BY <2>3, <1>4
  <2>5. QED
    BY <2>4, <1>1, <1>5
<1>7. IsLast(q)
  BY <1>5, <1>6
<1> HIDE DEF IsLast
<1>8. QED
  BY <1>2, <1>5, <1>7 DEF n

(* A node and what is kept of it in the next state.                        *)
LEMMA TreeNext ==
  ASSUME doc' = doc, Tree(kids')
  PROVE  Tree(kids)'
<1>1. PICK m, lo, hi, up, h : IsTree(kids', m, lo, hi, up, h)
  BY DEF Tree
<1>2. N' = N
  BY DEF N
<1>3. ASSUME NEW n
      PROVE  Kind(n)' = Kind(n)
  BY DEF Kind, N
<1>4. /\ Typed(kids', m, lo, hi, up, h)
      /\ \A n \in 0 .. m : Fits(n, kids', lo, hi, up, h)
      /\ \A n \in 1 .. m : n \in Elements(kids'[up[n]]) \/ Kind(n) = "parsep"
      /\ \A n \in 0 .. m : Kind(n) = "parsep" => Elements(kids'[n]) = {}
  BY <1>1 DEF IsTree
<1>5. Typed(kids, m, lo, hi, up, h)'
  BY <1>2, <1>4 DEF Typed
<1>6. ASSUME NEW n
      PROVE  Elements(kids[n])' = Elements(kids'[n])
  BY DEF Elements
<1>7. ASSUME NEW n, NEW c
      PROVE  Holds(n, c, lo, hi, up, h) => Holds(n, c, lo, hi, up, h)'
  BY <1>2 DEF Holds
<1>8. ASSUME NEW n \in 0 .. m
      PROVE  Fits(n, kids, lo, hi, up, h)'
  <2>1. Ordered(kids'[n], lo, hi) => Ordered(kids[n], lo, hi)'
    BY DEF Ordered
  <2>2. /\ h[n] <= h[0] /\ lo[n] <= hi[n] /\ (n <= N => lo[n] = n)
        /\ Ordered(kids'[n], lo, hi)
        /\ \A c \in Elements(kids'[n]) : Holds(n, c, lo, hi, up, h)
    BY <1>4 DEF Fits
  <2>3. \A c \in Elements(kids'[n]) : Holds(n, c, lo, hi, up, h)'
    BY <2>2, <1>7
  <2>4. QED
    BY <2>1, <2>2, <2>3, <1>2, <1>6 DEF Fits
<1>9. \A n \in 1 .. m : (n \in Elements(kids[up[n]]))' \/ Kind(n)' = "parsep"
  BY <1>3, <1>4, <1>6
<1>10. \A n \in 0 .. m : Kind(n)' = "parsep" => (Elements(kids[n]) = {})'
  BY <1>3, <1>4, <1>6
<1>11. IsTree(kids, m, lo, hi, up, h)'
  BY <1>5, <1>8, <1>9, <1>10 DEF IsTree
<1>12. QED
  BY <1>11 DEF Tree

----------------------------------------------------------------------------
(* The children make a tree, and what the engine holds are nodes of it.    *)
IInv ==
  /\ doc \in Documents /\ Tree(kids)
  /\ at \in DOMAIN kids \cup {-1}
  /\ work \in Seq(DOMAIN kids)
  /\ cursor \in Nat \ {0}

LEMMA Starts ==
  ASSUME Init
  PROVE  IInv
<1>1. doc \in Documents /\ at = -1 /\ cursor = 1 /\ work = <<0>>
  BY DEF Init
<1>2. Tree(kids)
  BY InitTree
<1>3. 0 \in DOMAIN kids
  BY <1>2, ListsAre
<1>4. QED
  BY <1>1, <1>2, <1>3 DEF IInv

(* What a step leaves to be shown.                                         *)
Keeps(k) == Tree(k) /\ DOMAIN kids \subseteq DOMAIN k

LEMMA StepKeeps ==
  ASSUME IInv, doc' = doc, Keeps(kids'),
         at' \in DOMAIN kids \cup {-1}, work' \in Seq(DOMAIN kids), cursor' \in Nat \ {0}
  PROVE  IInv'
<1>1. Tree(kids)'
  BY TreeNext DEF Keeps
<1>2. DOMAIN kids \subseteq DOMAIN kids'
  BY DEF Keeps
<1>3. work' \in Seq(DOMAIN kids')
  <2> DEFINE old == DOMAIN kids
             new == DOMAIN kids'
  <2>1. old \subseteq new /\ work' \in Seq(old)
    BY <1>2
  <2> HIDE DEF old, new
  <2>2. work' \in Seq(new)
    BY <2>1, SeqOfMore
  <2>3. QED
    BY <2>2 DEF new
<1>4. doc' \in Documents
  BY DEF IInv
<1>5. QED
  BY <1>1, <1>2, <1>3, <1>4 DEF IInv

(* In the loop there is a node.                                            *)
LEMMA NodeIs ==
  ASSUME IInv, InLoop
  PROVE  /\ at \in DOMAIN kids /\ cursor \in 1 .. Len(Siblings) /\ Len(Siblings) \in Nat
         /\ Siblings \in Seq(DOMAIN kids) /\ Siblings \in Seq(Int)
         /\ Node \in DOMAIN kids /\ cursor + 1 \in Nat \ {0}
         /\ work \o <<Node>> \in Seq(DOMAIN kids)
<1>1. at \in DOMAIN kids /\ cursor \in Nat \ {0} /\ cursor <= Len(Siblings) /\ Tree(kids)
      /\ work \in Seq(DOMAIN kids)
  BY DEF IInv, InLoop
<1> DEFINE D == DOMAIN kids
           s == kids[at]
<1>2. s \in Seq(D) /\ s \in Seq(Int) /\ Len(s) \in Nat /\ \A i \in 1 .. Len(s) : s[i] \in D
  BY <1>1, ListsAre
<1>3. cursor \in 1 .. Len(s) /\ s = Siblings /\ Node = s[cursor]
  BY <1>1, <1>2 DEF Siblings, Node
<1> HIDE DEF s, D
<1>4. Node \in D
  BY <1>2, <1>3
<1>5. work \in Seq(D)
  BY <1>1 DEF D
<1>6. work \o <<Node>> \in Seq(D)
  BY <1>4, <1>5
<1>7. QED
  BY <1>1, <1>2, <1>3, <1>4, <1>6 DEF D, s

LEMMA PassKeeps ==
  ASSUME IInv, InLoop, Pass
  PROVE  IInv'
<1>1. /\ doc' = doc /\ kids' = kids /\ at' = at
      /\ cursor' = cursor + 1 /\ work' = work \o <<Node>>
  BY DEF Pass, GoTo, Push
<1>2. Keeps(kids') /\ at' \in DOMAIN kids \cup {-1}
  BY <1>1 DEF IInv, Keeps
<1>3. work' \in Seq(DOMAIN kids) /\ cursor' \in Nat \ {0}
  BY <1>1, NodeIs
<1>4. QED
  BY <1>1, <1>2, <1>3, StepKeeps

LEMMA CountIs ==
  ASSUME IInv
  PROVE  N \in Nat /\ Tree(kids) /\ 0 \in DOMAIN kids
<1>1. doc \in Documents /\ Tree(kids)
  BY DEF IInv
<1>2. N \in Nat
  BY <1>1, DepthsAre
<1>3. QED
  BY <1>1, <1>2, ListsAre

LEMMA CallKeeps ==
  ASSUME IInv, Call
  PROVE  IInv'
<1>1. /\ doc' = doc /\ kids' = kids /\ cursor' = 1 /\ work # <<>>
      /\ at' = Last(work) /\ work' = Front(work)
  BY DEF Call
<1> DEFINE D == DOMAIN kids
<1>2. work \in Seq(D)
  BY DEF IInv
<1> HIDE DEF D
<1>3. Len(work) \in Nat \ {0} /\ work[Len(work)] \in D
  BY <1>1, <1>2, LenProperties, ElementOfSeq, EmptySeq
<1>4. at' \in D
  BY <1>1, <1>3 DEF Last
<1>5. work' \in Seq(D)
  <2>1. SubSeq(work, 1, Len(work) - 1) \in Seq(D)
    BY <1>2, <1>3
  <2>2. QED
    BY <2>1, <1>1 DEF Front
<1>6. Keeps(kids')
  BY <1>1 DEF IInv, Keeps
<1>7. QED
  BY <1>1, <1>4, <1>5, <1>6, StepKeeps DEF D

LEMMA NextPassKeeps ==
  ASSUME IInv, NextPass
  PROVE  IInv'
<1>1. /\ doc' = doc /\ kids' = kids /\ cursor' = cursor /\ at' = at
      /\ work' = <<>> \/ work' = <<0>>
  BY DEF NextPass
<1>2. work' \in Seq(DOMAIN kids)
  BY <1>1, CountIs
<1>3. Keeps(kids') /\ at' \in DOMAIN kids \cup {-1} /\ cursor' \in Nat \ {0}
  BY <1>1 DEF IInv, Keeps
<1>4. QED
  BY <1>1, <1>2, <1>3, StepKeeps

LEMMA CloseKeeps ==
  ASSUME IInv, InLoop, NEW name \in {"item", "bibitem"},
         doc' = doc, kids' = ClosedSiblings(Node, name), at' = at,
         cursor' = cursor + 1, work' \in {work, work \o <<Node>>}
  PROVE  IInv'
<1>1. Tree(kids')
  BY CountIs, NodeIs, ClosedTakes
<1>2. DOMAIN kids' = DOMAIN kids
  BY DEF ClosedSiblings, Moved
<1>3. at' \in DOMAIN kids \cup {-1} /\ work \in Seq(DOMAIN kids)
  BY DEF IInv
<1>4. work' \in Seq(DOMAIN kids) /\ cursor' \in Nat \ {0}
  BY <1>3, NodeIs
<1>5. QED
  BY <1>1, <1>2, <1>3, <1>4, StepKeeps DEF Keeps

LEMMA DropKeeps ==
  ASSUME IInv, DropLoneMark
  PROVE  IInv'
<1>1. /\ InLoop /\ doc' = doc /\ kids' = WithoutParsep(kids, cursor) /\ at' = -1
      /\ work' = work /\ cursor' = cursor
  BY DEF DropLoneMark
<1>2. at \in DOMAIN kids /\ cursor \in 1 .. Len(kids[at])
  BY <1>1, NodeIs DEF Siblings
<1>3. Tree(kids') /\ DOMAIN kids' = DOMAIN kids
  BY <1>1, <1>2, CountIs, WithoutParsepTree, WithoutParsepList
<1>4. work' \in Seq(DOMAIN kids) /\ cursor' \in Nat \ {0}
  BY <1>1 DEF IInv
<1>5. QED
  BY <1>1, <1>3, <1>4, StepKeeps DEF Keeps

LEMMA CloseSectionKeeps ==
  ASSUME IInv, CloseSection
  PROVE  IInv'
<1> DEFINE content == {p \in cursor + 1 .. Len(Siblings) :
                          \A r \in cursor + 1 .. p : ~StopsSection(Siblings[r], Level(Node))}
<1>1. /\ InLoop /\ doc' = doc /\ at' = at /\ Kind(Node) = "section"
      /\ cursor' = cursor + 1 /\ work' = work \o <<Node>>
      /\ kids' = Moved(at, [p \in 1 .. Len(Siblings) |-> IF p \in content THEN {cursor} ELSE {}])
  BY DEF CloseSection, GoTo, Push
<1>2. /\ at \in DOMAIN kids /\ cursor \in 1 .. Len(Siblings) /\ Len(Siblings) \in Nat
      /\ cursor' \in Nat \ {0} /\ work' \in Seq(DOMAIN kids)
  BY <1>1, NodeIs
<1>3. content \in SUBSET (cursor + 1 .. Len(Siblings))
  OBVIOUS
<1>4. ASSUME NEW p \in content, NEW r \in cursor + 1 .. p
      PROVE  r \in content
  <2>1. r \in cursor + 1 .. Len(Siblings)
    BY <1>2
  <2>2. \A x \in cursor + 1 .. r : x \in cursor + 1 .. p
    BY <1>2
  <2>3. QED
    BY <2>1, <2>2
<1> HIDE DEF content
<1>5. Tree(kids')
  <2>1. Kind(kids[at][cursor]) = "section"
    BY <1>1 DEF Node, Siblings
  <2>2. QED
    BY <2>1, <1>1, <1>2, <1>3, <1>4, CountIs, SectionTakes DEF Siblings
<1>6. DOMAIN kids' = DOMAIN kids
  BY <1>1 DEF Moved
<1>7. QED
  BY <1>1, <1>2, <1>5, <1>6, StepKeeps DEF Keeps

LEMMA WrappedKeeps ==
  ASSUME NEW k, Tree(k), at \in DOMAIN k, NEW p \in Nat \ {0}, NEW q \in Nat, q <= Len(k[at])
  PROVE  /\ Tree(Wrapped(k, p, q)) /\ DOMAIN k \subseteq DOMAIN Wrapped(k, p, q)
         /\ Len(Wrapped(k, p, q)[at]) = IF p > q THEN Len(k[at]) ELSE Len(k[at]) - q + p
<1>1. CASE p > q
  BY <1>1 DEF Wrapped
<1>2. CASE p <= q
  <2>1. Len(k[at]) \in Nat
    BY ListsAre
  <2>2. p \in 1 .. Len(k[at]) /\ q \in p .. Len(k[at]) /\ ~(p > q)
    BY <1>2, <2>1
  <2>3. QED
    BY <2>2, WrappedTree
<1>3. QED
  BY <1>1, <1>2

(* What stands after the paragraph is not reached by what a mark does.     *)
LEMMA MakeKeeps ==
  ASSUME IInv, MakeParagraph
  PROVE  IInv'
<1> DEFINE s    == Siblings
           n    == Len(s)
           c    == cursor
           q    == LastOfPar(s, c)
           left == found \/ c = 1
           k    == IF left THEN kids ELSE Wrapped(kids, 1, c - 1)
           m    == IF left THEN c ELSE 2
           both == Wrapped(k, m + 1, m + q - c)
           rest == n - q
           more == (IF found THEN <<>> ELSE SubSeq(s, 1, c - 1)) \o SubSeq(s, c + 1, q)
<1>1. /\ InLoop /\ doc' = doc /\ at' = at
      /\ kids' = WithoutParsep(both, m)
      /\ work' = work \o more
      /\ cursor' = Len(kids'[at]) - rest + 1
  BY DEF MakeParagraph, GoTo, Push
<1>2. /\ at \in DOMAIN kids /\ c \in 1 .. n /\ n \in Nat /\ s \in Seq(DOMAIN kids) /\ s = kids[at]
      /\ Tree(kids)
  BY <1>1, NodeIs, CountIs DEF Siblings
<1>3. q \in c .. n
  BY <1>2, LastOfParIs
<1> HIDE DEF n, q, s, c, left
<1>4. /\ Tree(k) /\ DOMAIN kids \subseteq DOMAIN k /\ at \in DOMAIN k
      /\ m \in 1 .. n + 2 /\ Len(k[at]) = n - c + m
  <2>1. CASE left
    <3>1. k = kids /\ m = c
      BY <2>1
    <3>2. Len(k[at]) = n - c + m /\ m \in 1 .. n + 2
      BY <3>1, <1>2 DEF n
    <3>3. QED
      BY <3>1, <3>2, <1>2
  <2>2. CASE ~left
    <3>1. k = Wrapped(kids, 1, c - 1) /\ m = 2 /\ c # 1
      BY <2>2 DEF left, c
    <3>2. 1 \in Nat \ {0} /\ c - 1 \in Nat /\ c - 1 <= Len(kids[at]) /\ ~(1 > c - 1)
      BY <3>1, <1>2 DEF n
    <3>3. /\ Tree(k) /\ DOMAIN kids \subseteq DOMAIN k
          /\ Len(k[at]) = IF 1 > c - 1 THEN Len(kids[at]) ELSE Len(kids[at]) - (c - 1) + 1
      BY ONLY <3>1, <3>2, <1>2, WrappedKeeps
    <3> HIDE DEF k
    <3>4. Len(k[at]) = n - c + m /\ m \in 1 .. n + 2
      BY <3>1, <3>2, <3>3, <1>2 DEF n
    <3>5. QED
      BY <3>3, <3>4, <1>2
  <2>3. QED
    BY <2>1, <2>2
<1> HIDE DEF k, m
<1>5. /\ Tree(both) /\ DOMAIN k \subseteq DOMAIN both
      /\ Len(both[at]) = IF m + 1 > m + q - c THEN n - c + m ELSE (n - c + m) - (m + q - c) + (m + 1)
  <2>1. m + 1 \in Nat \ {0} /\ m + q - c \in Nat /\ m + q - c <= Len(k[at])
    BY <1>2, <1>3, <1>4
  <2>2. /\ Tree(both) /\ DOMAIN k \subseteq DOMAIN both
        /\ Len(both[at]) = IF m + 1 > m + q - c THEN Len(k[at]) ELSE Len(k[at]) - (m + q - c) + (m + 1)
    BY <2>1, <1>4, WrappedKeeps
  <2>3. QED
    BY <2>2, <1>4
<1> HIDE DEF both
<1>6. m \in 1 .. Len(both[at]) /\ Len(both[at]) >= rest + 1 /\ at \in DOMAIN both
  <2>1. CASE m + 1 > m + q - c
    <3>1. Len(both[at]) = n - c + m /\ q = c
      BY <2>1, <1>2, <1>3, <1>4, <1>5
    <3>2. QED
      BY <3>1, <1>2, <1>3, <1>4, <1>5
  <2>2. CASE ~(m + 1 > m + q - c)
    <3>1. Len(both[at]) = n - q + m + 1
      BY <2>2, <1>2, <1>3, <1>4, <1>5
    <3>2. QED
      BY <3>1, <1>2, <1>3, <1>4, <1>5
  <2>3. QED
    BY <2>1, <2>2
<1>7. /\ Tree(kids') /\ DOMAIN kids' = DOMAIN both
      /\ Len(kids'[at]) \in {Len(both[at]) - 1, Len(both[at])}
  BY <1>1, <1>5, <1>6, WithoutParsepTree, WithoutParsepList
<1>8. Keeps(kids')
  BY <1>4, <1>5, <1>7 DEF Keeps
<1>9. cursor' \in Nat \ {0}
  <2>1. Len(both[at]) \in Nat
    BY <1>5, <1>6, ListsAre
  <2>2. rest \in Nat
    BY <1>2, <1>3
  <2>3. QED
    BY <2>1, <2>2, <1>1, <1>6, <1>7
<1>10. work' \in Seq(DOMAIN kids)
  <2> DEFINE D == DOMAIN kids
  <2>1. work \in Seq(D) /\ s \in Seq(D)
    BY <1>2 DEF IInv
  <2> HIDE DEF D
  <2>2. c \in Int /\ q \in Int /\ n = Len(s) /\ 1 <= c /\ c <= n /\ q <= n /\ c <= q
    BY <1>2, <1>3 DEF n
  <2>3. SubSeq(s, 1, c - 1) \in Seq(D) /\ SubSeq(s, c + 1, q) \in Seq(D)
    BY <2>1, <2>2
  <2>4. (IF found THEN <<>> ELSE SubSeq(s, 1, c - 1)) \in Seq(D)
    BY <2>3
  <2>5. more \in Seq(D)
    BY <2>3, <2>4
  <2>6. work \o more \in Seq(D)
    BY <2>1, <2>5
  <2>7. QED
    BY <2>6, <1>1 DEF D
<1>11. at' \in DOMAIN kids \cup {-1}
  BY <1>1, <1>2
<1>12. QED
  BY <1>1, <1>8, <1>9, <1>10, <1>11, StepKeeps

LEMMA Steps ==
  ASSUME IInv, [Next]_vars
  PROVE  IInv'
<1>1. CASE Call
  BY <1>1, CallKeeps
<1>2. CASE Return
  <2>1. doc' = doc /\ kids' = kids /\ work' = work /\ cursor' = cursor /\ at' = -1
    BY <1>2 DEF Return
  <2>2. Keeps(kids') /\ work' \in Seq(DOMAIN kids) /\ cursor' \in Nat \ {0}
    BY <2>1 DEF IInv, Keeps
  <2>3. QED
    BY <2>1, <2>2, StepKeeps
<1>3. CASE NextPass
  BY <1>3, NextPassKeeps
<1>4. CASE CloseList
  <2>1. /\ InLoop /\ doc' = doc /\ kids' = ClosedSiblings(Node, "item") /\ at' = at
        /\ cursor' = cursor + 1 /\ work' = work \o <<Node>>
    BY <1>4 DEF CloseList, GoTo, Push
  <2>2. QED
    BY <2>1, CloseKeeps
<1>5. CASE CloseBibliography
  <2>1. /\ InLoop /\ doc' = doc /\ kids' = ClosedSiblings(Node, "bibitem") /\ at' = at
        /\ cursor' = cursor + 1 /\ work' = work
    BY <1>5 DEF CloseBibliography, GoTo
  <2>2. QED
    BY <2>1, CloseKeeps
<1>6. CASE PassNoList \/ PassNoBibliography \/ PassNoMark \/ PassNoSection
  BY <1>6, PassKeeps DEF PassNoList, PassNoBibliography, PassNoMark, PassNoSection
<1>7. CASE DropLoneMark
  BY <1>7, DropKeeps
<1>8. CASE MakeParagraph
  BY <1>8, MakeKeeps
<1>9. CASE CloseSection
  BY <1>9, CloseSectionKeeps
<1>10. CASE UNCHANGED vars
  <2>1. doc' = doc /\ kids' = kids /\ work' = work /\ cursor' = cursor /\ at' = at
    BY <1>10 DEF vars
  <2>2. /\ Keeps(kids') /\ work' \in Seq(DOMAIN kids) /\ cursor' \in Nat \ {0}
        /\ at' \in DOMAIN kids \cup {-1}
    BY <2>1 DEF IInv, Keeps
  <2>3. QED
    BY <2>1, <2>2, StepKeeps
<1>11. QED
  BY <1>1, <1>2, <1>3, <1>4, <1>5, <1>6, <1>7, <1>8, <1>9, <1>10 DEF Next, Rebuild, Done

(* However often the passes take a list apart and move its nodes on, the   *)
(* paper is read in the same order and nothing but marks is lost           *)
(* (close_siblings, make_paragraph_before and rebuild_sections).           *)
THEOREM ReadInOrder == Spec => []ReadingOrderKept
<1>1. IInv => ReadingOrderKept
  BY TreeInOrder DEF IInv
<1>2. Init => IInv
  BY Starts
<1>3. IInv /\ [Next]_vars => IInv'
  BY Steps
<1>4. QED
  BY <1>1, <1>2, <1>3, PTL DEF Spec

=============================================================================
