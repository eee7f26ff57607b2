--------------------------- MODULE ReadLogProofs ---------------------------
(***************************************************************************)
(* Proofs about read_log_file: the tree that is built one node at a time   *)
(* holds the nodes of the log in the order of the log, and each as deep    *)
(* below its page as it has dots.                                          *)
(*                                                                         *)
(* A new node is always put last below a node of the spine, the nodes that *)
(* no later node stands beside: this is what the climb by depth - dots     *)
(* levels relies on.  The operators of the first part speak of the trees   *)
(* as values: ks[n] are the children of n, up[n] is its parent.            *)
(***************************************************************************)
EXTENDS ReadLog, ListsProofs

InOrder(up, L) ==
  \A n \in 1 .. L : \A m \in up[n] + 1 .. n - 1 : up[m] >= up[n]
OnSpine(up, L, s) == \A m \in s + 1 .. L : up[m] >= s

IsTree(ks, up, L) ==
  /\ ks \in [0 .. L -> Seq(1 .. L)]
  /\ up \in [1 .. L -> 0 .. L]
  /\ \A n \in 1 .. L : up[n] < n
  /\ \A p \in 0 .. L : Ascending(ks[p])
  /\ \A p \in 0 .. L, n \in 1 .. L : n \in ToSet(ks[p]) <=> up[n] = p
  /\ InOrder(up, L)

(* The tree with one more node, the last below p. *)
GrownKids(ks, L, p) ==
  [n \in 0 .. L + 1 |-> IF n = p THEN Append(ks[p], L + 1)
                        ELSE IF n \in 0 .. L THEN ks[n] ELSE <<>>]
GrownUp(up, L, p) == [n \in 1 .. L + 1 |-> IF n = L + 1 THEN p ELSE up[n]]

----------------------------------------------------------------------------
(* The spine goes from the last node up to the document. *)
LEMMA SpineEnds ==
  ASSUME NEW L \in Nat, NEW up \in [1 .. L -> 0 .. L]
  PROVE  OnSpine(up, L, 0) /\ OnSpine(up, L, L)
BY DEF OnSpine

LEMMA SpineUp ==
  ASSUME NEW L \in Nat, NEW ks, NEW up, IsTree(ks, up, L),
         NEW n \in 1 .. L, OnSpine(up, L, n)
  PROVE  OnSpine(up, L, up[n])
<1>1. up[n] \in 0 .. n - 1
  BY DEF IsTree
<1>2. ASSUME NEW m \in up[n] + 1 .. L
      PROVE  up[m] >= up[n]
  <2>1. m \in 1 .. L /\ up[m] \in 0 .. L
    BY <1>1 DEF IsTree
  <2>2. CASE m < n
    BY <1>1, <2>1, <2>2 DEF IsTree, InOrder
  <2>3. CASE m = n
    BY <1>1, <2>3
  <2>4. CASE m > n
    BY <1>1, <2>1, <2>4 DEF OnSpine
  <2>5. QED
    BY <2>1, <2>2, <2>3, <2>4
<1>3. QED
  BY <1>2 DEF OnSpine

(* A parent of a node of the spine is on the spine, and no other node is. *)
LEMMA SpineChild ==
  ASSUME NEW L \in Nat, NEW ks, NEW up, IsTree(ks, up, L),
         NEW c \in 1 .. L, OnSpine(up, L, c)
  PROVE  \A n \in c + 1 .. L : up[n] # up[c]
<1>1. up[c] \in 0 .. c - 1
  BY DEF IsTree
<1>2. QED
  BY <1>1 DEF OnSpine

LEMMA Children ==
  ASSUME NEW L \in Nat, NEW ks, NEW up, IsTree(ks, up, L), NEW p \in 0 .. L
  PROVE  /\ ks[p] \in Seq(1 .. L) /\ Len(ks[p]) \in Nat
         /\ \A i \in 1 .. Len(ks[p]) :
              ks[p][i] \in 1 .. L /\ up[ks[p][i]] = p /\ ks[p][i] > p
         /\ \A n \in 1 .. L : up[n] = p => \E i \in 1 .. Len(ks[p]) : ks[p][i] = n
         /\ \A i, j \in 1 .. Len(ks[p]) : i < j => ks[p][i] < ks[p][j]
<1>1. ks[p] \in Seq(1 .. L) /\ Len(ks[p]) \in Nat /\ DOMAIN ks[p] = 1 .. Len(ks[p])
  BY DEF IsTree
<1>2. ASSUME NEW i \in 1 .. Len(ks[p])
      PROVE  ks[p][i] \in 1 .. L /\ up[ks[p][i]] = p /\ ks[p][i] > p
  <2>1. ks[p][i] \in 1 .. L /\ ks[p][i] \in ToSet(ks[p])
    BY <1>1, ElementOfSeq DEF ToSet
  <2>2. up[ks[p][i]] = p /\ up[ks[p][i]] < ks[p][i]
    BY <2>1 DEF IsTree
  <2>3. QED
    BY <2>1, <2>2
<1>3. ASSUME NEW n \in 1 .. L, up[n] = p
      PROVE  \E i \in 1 .. Len(ks[p]) : ks[p][i] = n
  <2>1. n \in ToSet(ks[p])
    BY <1>3 DEF IsTree
  <2>2. QED
    BY <2>1, <1>1 DEF ToSet
<1>4. \A i, j \in 1 .. Len(ks[p]) : i < j => ks[p][i] < ks[p][j]
  BY DEF IsTree, Ascending
<1>5. QED
  BY <1>1, <1>2, <1>3, <1>4

(* A child on the spine is the last one. *)
LEMMA LastChild ==
  ASSUME NEW L \in Nat, NEW ks, NEW up, IsTree(ks, up, L),
         NEW c \in 1 .. L, OnSpine(up, L, c), NEW p, p = up[c]
  PROVE  /\ p \in 0 .. L /\ ks[p] \in Seq(1 .. L) /\ Len(ks[p]) \in Nat \ {0}
         /\ \A i \in 1 .. Len(ks[p]) : ks[p][i] = c <=> i = Len(ks[p])
<1> DEFINE s == ks[p]
           k == Len(s)
<1>1. p \in 0 .. L /\ p < c
  BY DEF IsTree
<1>2. /\ s \in Seq(1 .. L) /\ k \in Nat
      /\ \A i \in 1 .. k : s[i] \in 1 .. L /\ up[s[i]] = p
      /\ \E i \in 1 .. k : s[i] = c
      /\ \A i, j \in 1 .. k : i < j => s[i] < s[j]
  <2>1. /\ ks[p] \in Seq(1 .. L) /\ Len(ks[p]) \in Nat
        /\ \A i \in 1 .. Len(ks[p]) :
             ks[p][i] \in 1 .. L /\ up[ks[p][i]] = p /\ ks[p][i] > p
        /\ \A n \in 1 .. L : up[n] = p => \E i \in 1 .. Len(ks[p]) : ks[p][i] = n
        /\ \A i, j \in 1 .. Len(ks[p]) : i < j => ks[p][i] < ks[p][j]
    <3>1. p \in 0 .. L
      BY <1>1
    <3>2. QED
      BY ONLY <3>1, Children, L \in Nat, IsTree(ks, up, L)
  <2>2. \E i \in 1 .. Len(ks[p]) : ks[p][i] = c
    BY <2>1
  <2>3. QED
    BY <2>1, <2>2
<1>3. \A n \in c + 1 .. L : up[n] # p
  BY SpineChild
<1> HIDE DEF s, k
<1>4. ASSUME NEW i \in 1 .. k, s[i] = c
      PROVE  i = k
  <2>1. ASSUME i < k
        PROVE  FALSE
    <3>1. k \in 1 .. k /\ s[i] < s[k] /\ s[k] \in 1 .. L /\ up[s[k]] = p
      BY <1>2, <2>1
    <3>2. s[k] \in c + 1 .. L
      BY <3>1, <1>4
    <3>3. QED
      BY <3>1, <3>2, <1>3
  <2>2. QED
    BY <2>1, <1>2
<1>5. k # 0
  BY <1>2
<1>6. s[k] = c
  BY <1>2, <1>4
<1>7. p \in 0 .. L /\ s \in Seq(1 .. L) /\ k \in Nat \ {0}
      /\ \A i \in 1 .. k : s[i] = c <=> i = k
  BY <1>1, <1>2, <1>4, <1>5, <1>6
<1>8. QED
  BY <1>7 DEF s, k

(* What comes after a node of the spine, if anything, is below it. *)
LEMMA SpineHasChild ==
  ASSUME NEW L \in Nat, NEW ks, NEW up, IsTree(ks, up, L),
         NEW n \in 0 .. L - 1, OnSpine(up, L, n)
  PROVE  up[n + 1] = n
<1>1. n + 1 \in n + 1 .. L /\ n + 1 \in 1 .. L
  OBVIOUS
<1>2. up[n + 1] \in 0 .. L /\ up[n + 1] < n + 1 /\ up[n + 1] >= n
  BY <1>1 DEF IsTree, OnSpine
<1>3. QED
  BY <1>2

LEMMA SeqOfMore ==
  ASSUME NEW S, NEW T, S \subseteq T, NEW s \in Seq(S)
  PROVE  s \in Seq(T)
OBVIOUS

LEMMA ToSetOf ==
  ASSUME NEW S, NEW s \in Seq(S), NEW x \in ToSet(s)
  PROVE  x \in S
BY DEF ToSet

(* The tree grows by a node whose parent is on the spine. *)
LEMMA TreeGrows ==
  ASSUME NEW L \in Nat, NEW ks, NEW up, IsTree(ks, up, L),
         NEW p \in 0 .. L, OnSpine(up, L, p)
  PROVE  IsTree(GrownKids(ks, L, p), GrownUp(up, L, p), L + 1)
<1> DEFINE M  == L + 1
           gk == GrownKids(ks, L, p)
           gu == GrownUp(up, L, p)
<1>1. /\ M \in Nat /\ M \in 1 .. M /\ p < M /\ L < M /\ 1 .. L \subseteq 1 .. M
      /\ \A n \in 0 .. L : n \in 0 .. M /\ n # M
      /\ \A n \in 1 .. M : n = M \/ n \in 1 .. L
      /\ \A n \in 0 .. M : n = M \/ n \in 0 .. L
  OBVIOUS
<1>2. /\ ks[p] \in Seq(1 .. L) /\ \A n \in 0 .. L : ks[n] \in Seq(1 .. L)
      /\ up \in [1 .. L -> 0 .. L] /\ \A n \in 1 .. L : up[n] < n
  BY DEF IsTree
<1>3. gu[M] = p /\ \A n \in 1 .. L : gu[n] = up[n]
  BY DEF GrownUp
<1>4. /\ gk[p] = Append(ks[p], M) /\ gk[M] = <<>>
      /\ \A n \in 0 .. L : n # p => gk[n] = ks[n]
  BY <1>1 DEF GrownKids
<1>5. DOMAIN gk = 0 .. M /\ DOMAIN gu = 1 .. M
      /\ gk = [n \in 0 .. M |-> gk[n]] /\ gu = [n \in 1 .. M |-> gu[n]]
  BY DEF GrownKids, GrownUp
<1> HIDE DEF M, gk, gu
<1>6. /\ gk[p] \in Seq(1 .. M) /\ Len(gk[p]) = Len(ks[p]) + 1
      /\ \A i \in 1 .. Len(ks[p]) : gk[p][i] = ks[p][i]
      /\ gk[p][Len(ks[p]) + 1] = M
      /\ Len(ks[p]) \in Nat /\ \A i \in 1 .. Len(ks[p]) : ks[p][i] \in 1 .. L
  <2>1. ks[p] \in Seq(1 .. M)
    BY <1>1, <1>2, SeqOfMore
  <2>2. /\ gk[p] \in Seq(1 .. M) /\ Len(gk[p]) = Len(ks[p]) + 1
        /\ \A i \in 1 .. Len(ks[p]) : gk[p][i] = ks[p][i]
        /\ gk[p][Len(ks[p]) + 1] = M
    BY <1>1, <1>4, <2>1, AppendProperties
  <2>3. Len(ks[p]) \in Nat /\ \A i \in 1 .. Len(ks[p]) : ks[p][i] \in 1 .. L
    BY <1>2, LenProperties, ElementOfSeq
  <2>4. QED
    BY <2>2, <2>3
<1>7. gk \in [0 .. M -> Seq(1 .. M)]
  <2>1. ASSUME NEW n \in 0 .. M
        PROVE  gk[n] \in Seq(1 .. M)
    <3>1. CASE n = M
      BY <3>1, <1>4
    <3>2. CASE n = p
      BY <3>2, <1>6
    <3>3. CASE n # M /\ n # p
      BY <3>3, <1>1, <1>2, <1>4, SeqOfMore
    <3>4. QED
      BY <3>1, <3>2, <3>3
  <2>2. QED
    BY <2>1, <1>5
<1>8. gu \in [1 .. M -> 0 .. M] /\ \A n \in 1 .. M : gu[n] < n
  <2>1. ASSUME NEW n \in 1 .. M
        PROVE  gu[n] \in 0 .. M /\ gu[n] < n
    BY <1>1, <1>2, <1>3
  <2>2. QED
    BY <2>1, <1>5
<1>9. ASSUME NEW n \in 0 .. M
      PROVE  Ascending(gk[n])
  <2>1. CASE n = M
    BY <2>1, <1>4 DEF Ascending
  <2>2. CASE n = p
    <3>1. ASSUME NEW i \in 1 .. Len(ks[p]) + 1, NEW j \in 1 .. Len(ks[p]) + 1, i < j
          PROVE  gk[p][i] < gk[p][j]
      <4>1. i \in 1 .. Len(ks[p]) /\ gk[p][i] = ks[p][i] /\ ks[p][i] \in 1 .. L
        BY <3>1, <1>6
      <4>2. CASE j = Len(ks[p]) + 1
        BY <4>1, <4>2, <1>6, <1>1
      <4>3. CASE j # Len(ks[p]) + 1
        <5>1. j \in 1 .. Len(ks[p]) /\ gk[p][j] = ks[p][j]
          BY <4>3, <1>6
        <5>2. QED
          BY <3>1, <4>1, <5>1 DEF IsTree, Ascending
      <4>4. QED
        BY <4>2, <4>3
    <3>2. QED
      BY <3>1, <2>2, <1>6 DEF Ascending
  <2>3. CASE n # M /\ n # p
    BY <2>3, <1>1, <1>4 DEF IsTree
  <2>4. QED
    BY <2>1, <2>2, <2>3
<1>10. ASSUME NEW q \in 0 .. M, NEW n \in 1 .. M
       PROVE  n \in ToSet(gk[q]) <=> gu[n] = q
  <2>1. CASE q = M
    <3>1. ToSet(gk[q]) = {}
      BY <2>1, <1>4 DEF ToSet
    <3>2. QED
      BY <3>1, <2>1, <1>1, <1>8
  <2>2. CASE q = p
    <3>1. ToSet(gk[p]) = ToSet(ks[p]) \cup {M}
      <4>1. DOMAIN gk[p] = 1 .. Len(ks[p]) + 1 /\ DOMAIN ks[p] = 1 .. Len(ks[p])
        BY <1>6, <1>2
      <4>2. \A i \in 1 .. Len(ks[p]) + 1 :
              i \in 1 .. Len(ks[p]) \/ i = Len(ks[p]) + 1
        BY <1>6
      <4>3. \A i \in 1 .. Len(ks[p]) : i \in 1 .. Len(ks[p]) + 1
        BY <1>6
      <4>4. Len(ks[p]) + 1 \in 1 .. Len(ks[p]) + 1
        BY <1>6
      <4>5. QED
        BY <4>1, <4>2, <4>3, <4>4, <1>6 DEF ToSet
    <3>2. CASE n = M
      BY <2>2, <3>1, <3>2, <1>3
    <3>3. CASE n # M
      BY <2>2, <3>1, <3>3, <1>1, <1>3 DEF IsTree
    <3>4. QED
      BY <3>2, <3>3
  <2>3. CASE q # M /\ q # p
    <3>1. q \in 0 .. L /\ gk[q] = ks[q]
      BY <2>3, <1>1, <1>4
    <3>2. CASE n = M
      <4>1. \A x \in ToSet(ks[q]) : x \in 1 .. L
        BY <3>1, <1>2, ToSetOf
      <4>2. QED
        BY <4>1, <3>1, <3>2, <2>3, <1>1, <1>3
    <3>3. CASE n # M
      BY <3>1, <3>3, <1>1, <1>3 DEF IsTree
    <3>4. QED
      BY <3>2, <3>3
  <2>4. QED
    BY <2>1, <2>2, <2>3
<1>11. ASSUME NEW n \in 1 .. M, NEW m \in gu[n] + 1 .. n - 1
       PROVE  gu[m] >= gu[n]
  <2>1. n \in Nat /\ gu[n] \in Nat /\ m \in 1 .. L /\ gu[m] = up[m]
    BY <1>1, <1>3, <1>8 DEF M
  <2>2. CASE n = M
    <3>1. m \in p + 1 .. L
      BY <2>2, <1>3 DEF M
    <3>2. QED
      BY <2>1, <2>2, <3>1, <1>3 DEF OnSpine
  <2>3. CASE n # M
    BY <2>1, <2>3, <1>1, <1>3 DEF IsTree, InOrder
  <2>4. QED
    BY <2>2, <2>3
<1>12. IsTree(gk, gu, M)
  BY <1>7, <1>8, <1>9, <1>10, <1>11 DEF IsTree, InOrder
<1>13. QED
  BY <1>12 DEF M, gk, gu

----------------------------------------------------------------------------
(* The nodes from n down, in the order of the tree, are f[n]: Preorder is  *)
(* f[0] of the only such f.                                                *)

Of(f, s) == [i \in DOMAIN s |-> f[s[i]]]

Reads(f, ks, L) ==
  /\ f \in [0 .. L -> Seq(0 .. L)]
  /\ \A n \in 0 .. L : f[n] = <<n>> \o FlattenSeq(Of(f, ks[n]))

(* With a new node below p, it comes last for every node of the spine from *)
(* the document down to p.                                                 *)
GrownReading(f, up, L, p) ==
  [n \in 0 .. L + 1 |-> IF n = L + 1 THEN <<L + 1>>
                        ELSE IF OnSpine(up, L, n) /\ n <= p
                          THEN Append(f[n], L + 1) ELSE f[n]]

MapsInto(f, E, T) == \A x \in E : f[x] \in T

LEMMA OfType ==
  ASSUME NEW E, NEW T, NEW f, MapsInto(f, E, T), NEW s \in Seq(E)
  PROVE  /\ Of(f, s) \in Seq(T) /\ Len(Of(f, s)) = Len(s)
         /\ \A i \in 1 .. Len(s) : Of(f, s)[i] = f[s[i]]
<1>1. Len(s) \in Nat /\ DOMAIN s = 1 .. Len(s) /\ \A i \in 1 .. Len(s) : s[i] \in E
  BY LenProperties, ElementOfSeq
<1>2. Of(f, s) = [i \in 1 .. Len(s) |-> f[s[i]]]
  BY <1>1 DEF Of
<1>3. \A i \in 1 .. Len(s) : f[s[i]] \in T
  BY <1>1 DEF MapsInto
<1> HIDE DEF Of
<1>4. QED
  BY <1>1, <1>2, <1>3

LEMMA OfAppend ==
  ASSUME NEW E, NEW f, NEW s \in Seq(E), NEW e \in E
  PROVE  Of(f, Append(s, e)) = Append(Of(f, s), f[e])
<1> DEFINE V == {f[x] : x \in E}
           t == Append(s, e)
           n == Len(s)
<1>1. /\ t \in Seq(E) /\ n \in Nat /\ Len(t) = n + 1 /\ t[n + 1] = e
      /\ \A i \in 1 .. n : t[i] = s[i]
  BY AppendProperties, LenProperties
<1>2. MapsInto(f, E, V)
  BY DEF MapsInto
<1> HIDE DEF V, t
<1>3. /\ Of(f, s) \in Seq(V) /\ Len(Of(f, s)) = n
      /\ \A i \in 1 .. n : Of(f, s)[i] = f[s[i]]
  BY <1>2, OfType
<1>4. /\ Of(f, t) \in Seq(V) /\ Len(Of(f, t)) = n + 1
      /\ \A i \in 1 .. n + 1 : Of(f, t)[i] = f[t[i]]
  BY <1>1, <1>2, OfType
<1> DEFINE a == Of(f, s)
           b == Of(f, t)
           v == f[e]
<1>5. v \in V
  BY <1>2 DEF MapsInto
<1>6. \A i \in 1 .. n : b[i] = a[i]
  <2>1. \A i \in 1 .. n : i \in 1 .. n + 1
    BY <1>1
  <2>2. QED
    BY <2>1, <1>1, <1>3, <1>4
<1>7. b[n + 1] = v
  <2>1. n + 1 \in 1 .. n + 1
    BY <1>1
  <2>2. QED
    BY <2>1, <1>1, <1>4
<1>8. a \in Seq(V) /\ b \in Seq(V) /\ Len(a) = n /\ Len(b) = n + 1
  BY <1>3, <1>4
<1> HIDE DEF a, b, v, n
<1>9. /\ Append(a, v) \in Seq(V) /\ Len(Append(a, v)) = n + 1
      /\ \A i \in 1 .. n : Append(a, v)[i] = a[i]
      /\ Append(a, v)[n + 1] = v
  BY <1>5, <1>8, AppendProperties
<1>10. \A i \in 1 .. n + 1 : b[i] = Append(a, v)[i]
  <2>1. \A i \in 1 .. n + 1 : i \in 1 .. n \/ i = n + 1
    BY <1>1
  <2>2. QED
    BY <2>1, <1>6, <1>7, <1>9
<1>11. b = Append(a, v)
  BY <1>8, <1>9, <1>10, SeqEqual
<1>12. QED
  BY <1>11 DEF a, b, v, t

SameOn(f, g, s) == \A i \in 1 .. Len(s) : g[s[i]] = f[s[i]]

LEMMA OfSame ==
  ASSUME NEW E, NEW f, NEW g, NEW s \in Seq(E),
         SameOn(f, g, s)
  PROVE  Of(g, s) = Of(f, s)
<1>1. DOMAIN s = 1 .. Len(s)
  OBVIOUS
<1>2. QED
  BY <1>1 DEF Of, SameOn

LEMMA AppendedLast ==
  ASSUME NEW E, NEW s \in Seq(E), NEW e \in E
  PROVE  <<e>> \in Seq(E) /\ Append(s, e) = s \o <<e>>
OBVIOUS

LEMMA FlattenNothing ==
  ASSUME NEW f
  PROVE  FlattenSeq(Of(f, <<>>)) = <<>>
<1>1. Of(f, <<>>) = <<>>
  BY DEF Of
<1>2. QED
  BY <1>1 DEF FlattenSeq

LEMMA OneMoreAtTheEnd ==
  ASSUME NEW E, NEW x \in E, NEW b \in Seq(E), NEW e \in E
  PROVE  <<x>> \o (b \o <<e>>) = Append(<<x>> \o b, e)
<1> DEFINE a == <<x>>
           z == <<e>>
<1>1. a \in Seq(E) /\ z \in Seq(E)
  OBVIOUS
<1> HIDE DEF a, z
<1>2. a \o b \in Seq(E) /\ a \o (b \o z) = (a \o b) \o z
  BY <1>1, ConcatRegroups
<1>3. Append(a \o b, e) = (a \o b) \o z
  BY <1>2, AppendedLast DEF z
<1>4. QED
  BY <1>2, <1>3 DEF a, z

(* What a node of the spine is followed by. *)
LEMMA SpineDown ==
  ASSUME NEW L \in Nat, NEW ks, NEW up, IsTree(ks, up, L),
         NEW p \in 0 .. L, OnSpine(up, L, p),
         NEW n \in 0 .. L, OnSpine(up, L, n), n < p,
         NEW k, k = Len(ks[n])
  PROVE  /\ k \in Nat \ {0}
         /\ ks[n][k] \in 1 .. p /\ OnSpine(up, L, ks[n][k])
         /\ \A i \in 1 .. k - 1 : ~ OnSpine(up, L, ks[n][i])
<1> DEFINE s == ks[n]
<1>1. /\ k \in Nat
      /\ \A i \in 1 .. k : s[i] \in 1 .. L /\ up[s[i]] = n /\ s[i] > n
      /\ \A m \in 1 .. L : up[m] = n => \E i \in 1 .. k : s[i] = m
      /\ \A i, j \in 1 .. k : i < j => s[i] < s[j]
  BY Children
<1>2. n \in 0 .. L - 1 /\ n + 1 \in 1 .. L
  OBVIOUS
<1>3. up[n + 1] = n
  BY <1>2, SpineHasChild
<1> HIDE DEF s
<1>4. k # 0
  BY <1>1, <1>2, <1>3
<1>5. k \in 1 .. k /\ s[k] \in 1 .. L /\ up[s[k]] = n /\ s[k] > n
  BY <1>1, <1>4
<1> DEFINE c == s[k]
<1>6. up \in [1 .. L -> 0 .. L] /\ \A m \in 1 .. L : up[m] < m
  BY DEF IsTree
<1>7. ASSUME NEW m \in c + 1 .. L
      PROVE  up[m] >= c
  <2>1. m \in 1 .. L /\ m > c /\ m \in n + 1 .. L /\ up[m] \in 0 .. L /\ up[m] < m
    BY <1>5, <1>6
  <2>2. up[m] # n
    <3>1. ASSUME up[m] = n
          PROVE  FALSE
      <4>1. PICK i \in 1 .. k : s[i] = m
        BY <2>1, <3>1, <1>1
      <4>2. i = k \/ s[i] < s[k]
        BY <1>1, <1>5
      <4>3. QED
        BY <4>1, <4>2, <2>1, <1>5
    <3>2. QED
      BY <3>1
  <2>3. up[m] > n
    BY <2>1, <2>2 DEF OnSpine
  <2>4. ASSUME up[m] < c
        PROVE  FALSE
    <3>1. c \in up[m] + 1 .. m - 1
      BY <2>1, <2>4, <1>5
    <3>2. up[c] >= up[m]
      BY <2>1, <3>1 DEF IsTree, InOrder
    <3>3. QED
      BY <2>1, <2>3, <3>2, <1>5
  <2>5. QED
    BY <2>1, <2>4, <1>5
<1>8. c <= p
  <2>1. ASSUME c > p
        PROVE  FALSE
    <3>1. c \in p + 1 .. L
      BY <2>1, <1>5
    <3>2. up[c] >= p
      BY <3>1 DEF OnSpine
    <3>3. QED
      BY <3>2, <1>5
  <2>2. QED
    BY <2>1, <1>5
<1>9. ASSUME NEW i \in 1 .. k - 1, OnSpine(up, L, s[i])
      PROVE  FALSE
  <2>1. i \in 1 .. k /\ i < k /\ s[i] < c /\ s[i] \in 1 .. L /\ up[s[i]] = n
    BY <1>1, <1>5
  <2>2. c \in s[i] + 1 .. L
    BY <2>1, <1>5
  <2>3. up[c] >= s[i]
    BY <2>2, <1>9 DEF OnSpine
  <2>4. s[i] > n
    BY <2>1, <1>1
  <2>5. QED
    BY <2>1, <2>3, <2>4, <1>5
<1>10. k \in Nat \ {0} /\ c \in 1 .. p /\ OnSpine(up, L, c)
       /\ \A i \in 1 .. k - 1 : ~ OnSpine(up, L, s[i])
  BY <1>1, <1>4, <1>5, <1>7, <1>8, <1>9 DEF OnSpine
<1>11. QED
  BY <1>10 DEF s

LEMMA ReadingGrows ==
  ASSUME NEW L \in Nat, NEW ks, NEW up, IsTree(ks, up, L),
         NEW p \in 0 .. L, OnSpine(up, L, p),
         NEW f, Reads(f, ks, L)
  PROVE  Reads(GrownReading(f, up, L, p), GrownKids(ks, L, p), L + 1)
<1> DEFINE M  == L + 1
           gk == GrownKids(ks, L, p)
           g  == GrownReading(f, up, L, p)
           E  == 0 .. M
           T  == Seq(E)
<1>1. /\ M \in Nat /\ M \in 0 .. M /\ p # M /\ 0 .. L \subseteq E /\ M \in E
      /\ \A n \in 0 .. L : n \in 0 .. M /\ n # M
      /\ \A n \in 0 .. M : n = M \/ n \in 0 .. L
      /\ \A n \in 1 .. L : n \in 0 .. L /\ n \in 1 .. M
  OBVIOUS
<1>2. gk[p] = Append(ks[p], M) /\ gk[M] = <<>>
      /\ \A n \in 0 .. L : n # p => gk[n] = ks[n]
  BY <1>1 DEF GrownKids
<1>3. /\ g[M] = <<M>>
      /\ \A n \in 0 .. L : OnSpine(up, L, n) /\ n <= p => g[n] = Append(f[n], M)
      /\ \A n \in 0 .. L : ~(OnSpine(up, L, n) /\ n <= p) => g[n] = f[n]
  BY <1>1 DEF GrownReading
<1>0. g = [n \in 0 .. M |-> g[n]]
  BY DEF GrownReading
<1>4. \A n \in 0 .. L : ks[n] \in Seq(1 .. L)
  BY DEF IsTree
<1> HIDE DEF M, gk, g, E
<1>5. \A n \in 0 .. L : f[n] \in T
  BY <1>1, SeqOfMore DEF Reads
<1>6. \A n \in 0 .. L : f[n] = <<n>> \o FlattenSeq(Of(f, ks[n]))
  BY DEF Reads
<1>7. MapsInto(f, 1 .. L, T)
  BY <1>1, <1>5 DEF MapsInto
<1>8. ASSUME NEW n \in 0 .. M
      PROVE  g[n] \in T
  <2>1. \A x \in T : Append(x, M) \in T
    BY <1>1, AppendProperties
  <2>2. <<M>> \in T
    BY <1>1
  <2> HIDE DEF T
  <2>3. CASE n = M
    BY <2>2, <2>3, <1>3
  <2>4. CASE n \in 0 .. L
    BY <2>1, <2>4, <1>3, <1>5
  <2>5. QED
    BY <2>3, <2>4, <1>1
<1> HIDE DEF T
<1>9. ASSUME NEW n \in 0 .. L
      PROVE  Of(f, ks[n]) \in Seq(T) /\ Len(Of(f, ks[n])) = Len(ks[n])
  BY <1>4, <1>7, OfType
<1>10. ASSUME NEW n \in 0 .. L
       PROVE  n \in E /\ FlattenSeq(Of(f, ks[n])) \in Seq(E)
  <2>1. n \in E
    BY <1>1
  <2>2. Of(f, ks[n]) \in Seq(Seq(E))
    BY <1>9 DEF T
  <2>3. QED
    BY <2>1, <2>2, FlattenType
<1>11. ASSUME NEW n \in 0 .. L
       PROVE  <<n>> \o (FlattenSeq(Of(f, ks[n])) \o <<M>>) = Append(f[n], M)
  <2> DEFINE b == FlattenSeq(Of(f, ks[n]))
  <2>1. n \in E /\ b \in Seq(E) /\ f[n] = <<n>> \o b
    BY <1>6, <1>10
  <2> HIDE DEF b
  <2>2. <<n>> \o (b \o <<M>>) = Append(<<n>> \o b, M)
    BY <2>1, <1>1, OneMoreAtTheEnd
  <2>3. QED
    BY <2>1, <2>2 DEF b
<1>12. ASSUME NEW n \in 0 .. M
       PROVE  g[n] = <<n>> \o FlattenSeq(Of(g, gk[n]))
  <2>1. CASE n = M
    <3>1. FlattenSeq(Of(g, <<>>)) = <<>> /\ <<M>> \o <<>> = <<M>>
      BY FlattenNothing
    <3>2. QED
      BY <2>1, <3>1, <1>2, <1>3
  <2>2. CASE n = p
    <3>1. \A i \in 1 .. Len(ks[p]) : g[ks[p][i]] = f[ks[p][i]]
      <4>1. \A i \in 1 .. Len(ks[p]) : ks[p][i] \in 1 .. L /\ ks[p][i] > p
        BY Children
      <4>2. QED
        BY <4>1, <1>1, <1>3
    <3>2. Of(g, ks[p]) = Of(f, ks[p])
      <4>1. SameOn(f, g, ks[p]) /\ ks[p] \in Seq(1 .. L)
        BY <3>1, <1>4 DEF SameOn
      <4>2. QED
        BY <4>1, OfSame
    <3>3. ks[p] \in Seq(E)
      BY <1>1, <1>4, SeqOfMore
    <3>4. Of(g, Append(ks[p], M)) = Append(Of(f, ks[p]), <<M>>)
      BY <3>2, <3>3, <1>1, <1>3, OfAppend
    <3>5. FlattenSeq(Append(Of(f, ks[p]), <<M>>))
            = FlattenSeq(Of(f, ks[p])) \o <<M>>
      <4> DEFINE ss == Of(f, ks[p])
                 z  == <<M>>
      <4>1. ss \in Seq(Seq(E)) /\ z \in Seq(E)
        BY <1>1, <1>9 DEF T
      <4> HIDE DEF ss, z
      <4>2. FlattenSeq(Append(ss, z)) = FlattenSeq(ss) \o z
        BY <4>1, FlattenAppend
      <4>3. QED
        BY <4>2 DEF ss, z
    <3>6. g[p] = Append(f[p], M)
      BY <1>3
    <3>7. <<p>> \o (FlattenSeq(Of(f, ks[p])) \o <<M>>) = Append(f[p], M)
      BY <1>10, <1>11
    <3>8. QED
      BY <2>2, <3>4, <3>5, <3>6, <3>7, <1>2
  <2>3. CASE n \in 0 .. L /\ n # p /\ OnSpine(up, L, n) /\ n < p
    <3> DEFINE k == Len(ks[n])
               ss == Of(f, ks[n])
               tt == Of(g, ks[n])
    <3>1. /\ k \in Nat \ {0} /\ ks[n][k] \in 1 .. p /\ OnSpine(up, L, ks[n][k])
          /\ \A i \in 1 .. k - 1 : ~ OnSpine(up, L, ks[n][i])
      BY <2>3, SpineDown
    <3>2. \A i \in 1 .. k : ks[n][i] \in 1 .. L
      BY <2>3, Children
    <3>a. ks[n] \in Seq(1 .. L)
      BY <2>3, <1>4
    <3>3. /\ ss \in Seq(T) /\ Len(ss) = k
          /\ \A i \in 1 .. k : ss[i] = f[ks[n][i]]
      BY ONLY <3>a, <1>7, OfType
    <3>4. MapsInto(g, 1 .. L, T)
      BY <1>1, <1>8 DEF MapsInto
    <3>5. /\ tt \in Seq(T) /\ Len(tt) = k
          /\ \A i \in 1 .. k : tt[i] = g[ks[n][i]]
      BY ONLY <3>a, <3>4, OfType
    <3> HIDE DEF ss, tt, k
    <3>6. k \in 1 .. k /\ \A i \in 1 .. k - 1 : i \in 1 .. k
      BY <3>1
    <3>7. \A i \in 1 .. k - 1 : tt[i] = ss[i]
      BY <3>1, <3>2, <3>3, <3>5, <3>6, <1>1, <1>3
    <3>8. ss[k] \in Seq(E) /\ <<M>> \in Seq(E) /\ tt[k] = ss[k] \o <<M>>
      <4>1. ks[n][k] \in 0 .. L /\ ks[n][k] <= p
        BY <3>1, <3>2, <3>6, <1>1
      <4>2. g[ks[n][k]] = Append(f[ks[n][k]], M) /\ f[ks[n][k]] \in Seq(E)
        BY <3>1, <4>1, <1>3, <1>5 DEF T
      <4>3. Append(f[ks[n][k]], M) = f[ks[n][k]] \o <<M>> /\ <<M>> \in Seq(E)
        <5> DEFINE v == f[ks[n][k]]
        <5>1. v \in Seq(E)
          BY <4>2
        <5> HIDE DEF v
        <5>2. Append(v, M) = v \o <<M>> /\ <<M>> \in Seq(E)
          BY <5>1, <1>1, AppendedLast
        <5>3. QED
          BY <5>2 DEF v
      <4>4. QED
        BY <4>2, <4>3, <3>3, <3>5, <3>6
    <3>9. FlattenSeq(tt) = FlattenSeq(ss) \o <<M>>
      <4> DEFINE z == <<M>>
      <4>1. /\ ss \in Seq(Seq(E)) /\ tt \in Seq(Seq(E)) /\ z \in Seq(E)
            /\ Len(ss) # 0 /\ Len(tt) = Len(ss) /\ tt[Len(ss)] = ss[Len(ss)] \o z
            /\ \A i \in 1 .. Len(ss) - 1 : tt[i] = ss[i]
        BY <3>1, <3>3, <3>5, <3>7, <3>8 DEF T
      <4> HIDE DEF z
      <4>2. FlattenSeq(tt) = FlattenSeq(ss) \o z
        BY <4>1, FlattenLast
      <4>3. QED
        BY <4>2 DEF z
    <3>10. g[n] = Append(f[n], M)
      BY <2>3, <1>3
    <3>11. <<n>> \o (FlattenSeq(ss) \o <<M>>) = Append(f[n], M)
      BY <2>3, <1>10, <1>11 DEF ss
    <3>12. gk[n] = ks[n]
      BY <2>3, <1>2
    <3>13. QED
      BY <3>9, <3>10, <3>11, <3>12 DEF tt
  <2>4. CASE n \in 0 .. L /\ n # p /\ ~(OnSpine(up, L, n) /\ n < p)
    <3>1. ASSUME NEW i \in 1 .. Len(ks[n])
          PROVE  g[ks[n][i]] = f[ks[n][i]]
      <4> DEFINE c == ks[n][i]
      <4>1. c \in 1 .. L /\ up[c] = n /\ c > n
        BY <2>4, Children
      <4> HIDE DEF c
      <4>2. ASSUME OnSpine(up, L, c), c <= p
            PROVE  FALSE
        <5>1. OnSpine(up, L, n)
          BY <4>1, <4>2, SpineUp
        <5>2. QED
          BY <5>1, <4>1, <4>2, <2>4
      <4>3. g[c] = f[c]
        BY <4>1, <4>2, <1>1, <1>3
      <4>4. QED
        BY <4>3 DEF c
    <3>2. Of(g, ks[n]) = Of(f, ks[n])
      <4>1. SameOn(f, g, ks[n]) /\ ks[n] \in Seq(1 .. L)
        BY <2>4, <3>1, <1>4 DEF SameOn
      <4>2. QED
        BY <4>1, OfSame
    <3>3. gk[n] = ks[n] /\ g[n] = f[n]
      BY <2>4, <1>2, <1>3
    <3>4. QED
      BY <2>4, <3>2, <3>3, <1>6
  <2>5. QED
    BY <2>1, <2>2, <2>3, <2>4, <1>1
<1>13. g \in [0 .. M -> T]
  BY <1>0, <1>8
<1>14. Reads(g, gk, M)
  BY <1>12, <1>13 DEF Reads, T, E
<1>15. QED
  BY <1>14 DEF M, gk, g

----------------------------------------------------------------------------
(* Parent and Ancestor, of a tree that is a value: kids and Nodes are ks   *)
(* and 1 .. L.                                                             *)

ParentIn(ks, N, n) == CHOOSE p \in {0} \cup N : n \in ToSet(ks[p])
AncestorIn(ks, N, n, k) ==
  LET up[i \in 0 .. k] == IF i = 0 THEN n ELSE ParentIn(ks, N, up[i - 1])
  IN  up[k]

(* c goes k levels up from n, and a is where it arrives. *)
Climbs(c, up, L, n, k) ==
  /\ c \in [0 .. k -> 0 .. L] /\ c[0] = n
  /\ \A i \in 1 .. k : c[i - 1] \in 1 .. L /\ c[i] = up[c[i - 1]]
Above(up, L, n, k, a) == \E c : Climbs(c, up, L, n, k) /\ c[k] = a

LEMMA ParentIs ==
  ASSUME NEW L \in Nat, NEW ks, NEW up, IsTree(ks, up, L), NEW n \in 1 .. L
  PROVE  ParentIn(ks, 1 .. L, n) = up[n]
<1>1. {0} \cup 1 .. L = 0 .. L
  OBVIOUS
<1>2. up[n] \in 0 .. L /\ \A p \in 0 .. L : n \in ToSet(ks[p]) <=> up[n] = p
  BY DEF IsTree
<1>3. ParentIn(ks, 1 .. L, n) = CHOOSE p \in 0 .. L : n \in ToSet(ks[p])
  BY <1>1 DEF ParentIn
<1>4. QED
  BY <1>2, <1>3

LEMMA AboveIsAncestor ==
  ASSUME NEW L \in Nat, NEW ks, NEW up, IsTree(ks, up, L),
         NEW n, NEW k \in Nat, NEW a, Above(up, L, n, k, a)
  PROVE  AncestorIn(ks, 1 .. L, n, k) = a
<1> DEFINE N == 1 .. L
           Unfolds(u) == u = [i \in 0 .. k |-> IF i = 0 THEN n
                                               ELSE ParentIn(ks, N, u[i - 1])]
<1>1. PICK c : Climbs(c, up, L, n, k) /\ c[k] = a
  BY DEF Above
<1>2. c[0] = n /\ \A i \in 1 .. k : c[i] = ParentIn(ks, N, c[i - 1])
  <2>1. c[0] = n /\ \A i \in 1 .. k : c[i - 1] \in 1 .. L /\ c[i] = up[c[i - 1]]
    BY <1>1 DEF Climbs
  <2>2. QED
    BY <2>1, ParentIs
<1>0. c = [i \in 0 .. k |-> c[i]]
  BY <1>1 DEF Climbs
<1>3. Unfolds(c)
  <2>1. \A i \in 0 .. k : i = 0 \/ i \in 1 .. k
    OBVIOUS
  <2>2. \A i \in 0 .. k : c[i] = IF i = 0 THEN n ELSE ParentIn(ks, N, c[i - 1])
    BY <1>2, <2>1
  <2> DEFINE d == [i \in 0 .. k |-> IF i = 0 THEN n ELSE ParentIn(ks, N, c[i - 1])]
  <2>3. [i \in 0 .. k |-> c[i]] = d
    BY <2>2
  <2>4. c = d
    BY <1>0, <2>3
  <2>5. QED
    BY <2>4
<1>4. ASSUME NEW u, Unfolds(u)
      PROVE  u[k] = a
  <2>1. u[0] = n /\ \A i \in 1 .. k : u[i] = ParentIn(ks, N, u[i - 1])
    <3>1. 0 \in 0 .. k /\ \A i \in 1 .. k : i \in 0 .. k /\ i # 0
      OBVIOUS
    <3>2. QED
      BY <3>1, <1>4
  <2>2. \A i \in 1 .. k : u[i - 1] = c[i - 1] => u[i] = c[i]
    BY <2>1, <1>2
  <2>3. u[0] = c[0]
    BY <2>1, <1>2
  <2> HIDE DEF Unfolds
  <2>4. \A i \in 0 .. k : u[i] = c[i]
    <3>1. StepAlike(u, c, k)
      BY ONLY <2>2, <2>3 DEF StepAlike
    <3>2. QED
      BY <3>1, RecursionUnique
  <2>5. QED
    BY <2>4, <1>1
<1>5. AncestorIn(ks, N, n, k) = (CHOOSE u : Unfolds(u))[k]
  BY DEF AncestorIn
<1> HIDE DEF Unfolds
<1>6. QED
  BY <1>3, <1>4, <1>5

LEMMA AboveItself ==
  ASSUME NEW L \in Nat, NEW up, NEW n \in 0 .. L
  PROVE  Above(up, L, n, 0, n)
<1>1. Climbs([i \in 0 .. 0 |-> n], up, L, n, 0)
  BY DEF Climbs
<1>2. QED
  BY <1>1 DEF Above

LEMMA AboveParent ==
  ASSUME NEW L \in Nat, NEW up \in [1 .. L -> 0 .. L], NEW n \in 1 .. L,
         NEW k \in Nat, NEW a, Above(up, L, up[n], k, a)
  PROVE  Above(up, L, n, k + 1, a)
<1>1. PICK c : Climbs(c, up, L, up[n], k) /\ c[k] = a
  BY DEF Above
<1> DEFINE d == [i \in 0 .. k + 1 |-> IF i = 0 THEN n ELSE c[i - 1]]
<1>2. /\ c \in [0 .. k -> 0 .. L] /\ c[0] = up[n]
      /\ \A i \in 1 .. k : c[i - 1] \in 1 .. L /\ c[i] = up[c[i - 1]]
  BY <1>1 DEF Climbs
<1>3. d[0] = n /\ \A i \in 1 .. k + 1 : d[i] = c[i - 1] /\ i - 1 \in 0 .. k
  OBVIOUS
<1>4. d \in [0 .. k + 1 -> 0 .. L]
  <2>1. \A i \in 0 .. k + 1 : i # 0 => i - 1 \in 0 .. k
    OBVIOUS
  <2>2. QED
    BY <2>1, <1>2
<1> HIDE DEF d
<1>5. ASSUME NEW i \in 1 .. k + 1
      PROVE  d[i - 1] \in 1 .. L /\ d[i] = up[d[i - 1]]
  <2>1. CASE i = 1
    BY <2>1, <1>2, <1>3
  <2>2. CASE i # 1
    <3>1. i - 1 \in 1 .. k /\ i - 1 \in 1 .. k + 1
      BY <2>2
    <3>2. QED
      BY <3>1, <1>2, <1>3
  <2>3. QED
    BY <2>1, <2>2
<1>6. k + 1 \in 1 .. k + 1 /\ (k + 1) - 1 = k
  OBVIOUS
<1>7. Climbs(d, up, L, n, k + 1) /\ d[k + 1] = a
  BY <1>1, <1>3, <1>4, <1>5, <1>6 DEF Climbs
<1>8. QED
  BY <1>7 DEF Above

----------------------------------------------------------------------------
(* ds[n] are the dots of n.  The parent of a node that has two or more has *)
(* one less; a node of one or none is below a node of none or below its    *)
(* page, and below its page with a dot only if that is how the box began.  *)
Leveled(up, ds, L) ==
  \A n \in 1 .. L :
    /\ ds[n] = Page <=> up[n] = 0
    /\ ds[n] >= 2 => ds[up[n]] = ds[n] - 1
    /\ ds[n] \in {0, 1} => ds[up[n]] \in {0, Page}
    /\ ds[n] = 1 /\ ds[up[n]] = Page => ds[up[n] + 1] = 1

Dots == Nat \cup {Page}

(* The climb by k levels from a node of the spine that has more dots than k. *)
LEMMA ClimbOnSpine ==
  ASSUME NEW L \in Nat, NEW ks, NEW up, IsTree(ks, up, L),
         NEW ds \in [1 .. L -> Dots], Leveled(up, ds, L),
         NEW k \in Nat, NEW n \in 1 .. L, ds[n] > k, OnSpine(up, L, n)
  PROVE  \E a \in 1 .. L : /\ Above(up, L, n, k, a) /\ OnSpine(up, L, a)
                           /\ ds[a] = ds[n] - k
<1> DEFINE Reaches(m, j) == \E a \in 1 .. L : /\ Above(up, L, m, j, a)
                                              /\ OnSpine(up, L, a)
                                              /\ ds[a] = ds[m] - j
           G == {j \in Nat : \A m \in 1 .. L :
                               ds[m] > j /\ OnSpine(up, L, m) => Reaches(m, j)}
<1>1. up \in [1 .. L -> 0 .. L]
  BY DEF IsTree
<1>2. 0 \in G
  <2>1. ASSUME NEW m \in 1 .. L, ds[m] > 0, OnSpine(up, L, m)
        PROVE  Reaches(m, 0)
    <3>1. Above(up, L, m, 0, m) /\ ds[m] = ds[m] - 0
      BY <2>1, AboveItself DEF Dots, Page
    <3>2. QED
      BY <2>1, <3>1
  <2>2. QED
    BY <2>1
<1>3. ASSUME NEW j \in Nat, j \in G
      PROVE  j + 1 \in G
  <2>1. ASSUME NEW m \in 1 .. L, ds[m] > j + 1, OnSpine(up, L, m)
        PROVE  Reaches(m, j + 1)
    <3>1. ds[m] \in Nat /\ ds[m] >= 2 /\ ds[m] # Page
      BY <2>1 DEF Dots, Page
    <3>2. up[m] \in 1 .. L /\ ds[up[m]] = ds[m] - 1 /\ ds[up[m]] > j
      BY <2>1, <3>1, <1>1 DEF Leveled
    <3>3. OnSpine(up, L, up[m])
      BY <2>1, SpineUp
    <3>4. Reaches(up[m], j)
      BY <1>3, <3>2, <3>3
    <3>5. PICK a \in 1 .. L : /\ Above(up, L, up[m], j, a) /\ OnSpine(up, L, a)
                              /\ ds[a] = ds[up[m]] - j
      BY <3>4
    <3>6. Above(up, L, m, j + 1, a)
      BY <3>5, <1>1, AboveParent
    <3>7. ds[a] = ds[m] - (j + 1)
      BY <3>1, <3>2, <3>5
    <3>8. QED
      BY <3>5, <3>6, <3>7
  <2> HIDE DEF Reaches
  <2>2. QED
    BY <2>1
<1> HIDE DEF G
<1>4. \A j \in Nat : j \in G
  BY <1>2, <1>3, InductionOnSet
<1>5. k \in G
  BY <1>4
<1>6. QED
  BY <1>5 DEF G

(* p is the page of n. *)
IsPageOf(ds, n, p) ==
  /\ p \in 1 .. n /\ ds[p] = Page
  /\ \A m \in p + 1 .. n : ds[m] # Page

LEMMA PageIsOne ==
  ASSUME NEW ds, NEW n \in Nat, NEW p, IsPageOf(ds, n, p), NEW q, IsPageOf(ds, n, q)
  PROVE  p = q
<1>1. p \in 1 .. n /\ q \in 1 .. n /\ (p < q => q \in p + 1 .. n)
      /\ (q < p => p \in q + 1 .. n)
  BY DEF IsPageOf
<1>2. QED
  BY <1>1 DEF IsPageOf

LEMMA PageExists ==
  ASSUME NEW n \in Nat, n # 0, NEW ds, ds[1] = Page
  PROVE  \E p : IsPageOf(ds, n, p)
<1> DEFINE T == {i \in Nat : n - i \in 1 .. n /\ ds[n - i] = Page}
<1>1. n - 1 \in T
  OBVIOUS
<1>2. PICK i \in T : \A j \in T : i <= j
  BY <1>1, LeastNatural
<1> DEFINE p == n - i
<1>3. p \in 1 .. n /\ ds[p] = Page
  BY <1>2
<1>4. ASSUME NEW m \in p + 1 .. n, ds[m] = Page
      PROVE  FALSE
  <2>1. n - m \in Nat /\ n - (n - m) = m /\ m \in 1 .. n /\ ~(i <= n - m)
    BY <1>2, <1>3
  <2>2. n - m \in T
    BY <2>1, <1>4
  <2>3. QED
    BY <2>1, <2>2, <1>2
<1>5. IsPageOf(ds, n, p)
  BY <1>3, <1>4 DEF IsPageOf
<1>6. QED
  BY <1>5

LEMMA PageOfParent ==
  ASSUME NEW L \in Nat, NEW ks, NEW up, IsTree(ks, up, L),
         NEW ds, Leveled(up, ds, L),
         NEW n \in 1 .. L, ds[n] # Page, NEW p, IsPageOf(ds, n, p)
  PROVE  up[n] \in 1 .. L /\ p < n /\ p <= up[n] /\ IsPageOf(ds, up[n], p)
<1>1. up[n] \in 0 .. L /\ up[n] < n /\ up[n] # 0
  BY DEF IsTree, Leveled
<1>2. p \in 1 .. n /\ ds[p] = Page /\ p # n /\ \A m \in p + 1 .. n : ds[m] # Page
  BY DEF IsPageOf
<1>3. p < n /\ p \in 1 .. L
  BY <1>2
<1>4. p <= up[n]
  <2>1. ASSUME p > up[n]
        PROVE  FALSE
    <3>1. p \in up[n] + 1 .. n - 1
      BY <2>1, <1>1, <1>2
    <3>2. up[p] >= up[n] /\ up[p] = 0
      BY <3>1, <1>2, <1>3 DEF IsTree, InOrder, Leveled
    <3>3. QED
      BY <3>2, <1>1
  <2>2. QED
    BY <2>1, <1>1, <1>2
<1>5. p \in 1 .. up[n] /\ \A m \in p + 1 .. up[n] : m \in p + 1 .. n
  BY <1>1, <1>2, <1>4
<1>6. QED
  BY <1>1, <1>2, <1>3, <1>4, <1>5 DEF IsPageOf

(* The box of the page p begins with its only node without dots. *)
Written(ds, L, p) ==
  \A n \in p + 1 .. L : IsPageOf(ds, n, p) => (ds[n] = 0) = (n = p + 1)

LEMMA PageAbove ==
  ASSUME NEW L \in Nat, NEW ks, NEW up, IsTree(ks, up, L),
         NEW ds \in [1 .. L -> Dots], Leveled(up, ds, L),
         NEW p, Written(ds, L, p),
         NEW n \in 1 .. L, ds[n] # Page, IsPageOf(ds, n, p)
  PROVE  Above(up, L, n, ds[n] + 1, p)
<1> DEFINE AboveIt(m) == Above(up, L, m, ds[m] + 1, p)
           G == {d \in Nat : \A m \in 1 .. L :
                               ds[m] = d /\ IsPageOf(ds, m, p) => AboveIt(m)}
<1>1. up \in [1 .. L -> 0 .. L]
  BY DEF IsTree
<1>2. ASSUME NEW m \in 1 .. L, ds[m] \in Nat, IsPageOf(ds, m, p)
      PROVE  /\ up[m] \in 1 .. L /\ IsPageOf(ds, up[m], p) /\ p \in 1 .. L
             /\ p < m /\ p <= up[m] /\ up[m] < m
             /\ ds[up[m]] = Page => up[m] = p
             /\ p + 1 \in p + 1 .. L /\ IsPageOf(ds, p + 1, p)
  <2>1. ds[m] # Page
    BY <1>2 DEF Page
  <2>a. up[m] \in 1 .. L /\ p < m /\ p <= up[m] /\ IsPageOf(ds, up[m], p)
    BY <2>1, <1>2, PageOfParent
  <2>2. /\ up[m] \in 1 .. L /\ p < m /\ p <= up[m] /\ IsPageOf(ds, up[m], p)
        /\ up[m] < m
    BY <2>a DEF IsTree
  <2>3. p \in 1 .. L /\ p + 1 \in p + 1 .. L /\ ds[p] = Page
    BY <1>2, <2>2 DEF IsPageOf
  <2>4. ASSUME ds[up[m]] = Page
        PROVE  up[m] = p
    <3>1. ~(up[m] \in p + 1 .. up[m])
      BY <2>2, <2>4 DEF IsPageOf
    <3>2. QED
      BY <3>1, <2>2, <2>3
  <2>5. IsPageOf(ds, p + 1, p)
    <3>1. p + 1 \in p + 1 .. m /\ p \in 1 .. p + 1
          /\ \A i \in p + 1 .. p + 1 : i = p + 1
      BY <2>2, <2>3
    <3>2. QED
      BY <3>1, <2>3, <1>2 DEF IsPageOf
  <2>6. QED
    BY <2>2, <2>3, <2>4, <2>5
<1>3. 0 \in G
  <2>1. ASSUME NEW m \in 1 .. L, ds[m] = 0, IsPageOf(ds, m, p)
        PROVE  AboveIt(m)
    <3>1. m \in p + 1 .. L /\ up[m] \in 1 .. L /\ p <= up[m] /\ up[m] < m
          /\ p \in 1 .. L
      BY <2>1, <1>2
    <3>2. m = p + 1
      BY <2>1, <3>1 DEF Written
    <3>3. up[m] = p
      BY <3>1, <3>2
    <3>4. Above(up, L, p, 0, p)
      BY <3>1, AboveItself
    <3>5. Above(up, L, m, 0 + 1, p)
      BY <3>3, <3>4, <1>1, AboveParent
    <3>6. QED
      BY <3>5, <2>1
  <2> HIDE DEF AboveIt
  <2>2. QED
    BY <2>1
<1>4. ASSUME NEW d \in Nat, d \in G
      PROVE  d + 1 \in G
  <2>1. ASSUME NEW m \in 1 .. L, ds[m] = d + 1, IsPageOf(ds, m, p)
        PROVE  AboveIt(m)
    <3>1. /\ up[m] \in 1 .. L /\ IsPageOf(ds, up[m], p)
          /\ ds[up[m]] = Page => up[m] = p
          /\ p + 1 \in p + 1 .. L /\ IsPageOf(ds, p + 1, p)
      BY <2>1, <1>2
    <3>2. ds[up[m]] = d
      <4>1. CASE d = 0
        <5>1. ds[up[m]] \in {0, Page} /\ (ds[up[m]] = Page => ds[up[m] + 1] = 1)
          BY <2>1, <4>1 DEF Leveled
        <5>2. ds[p + 1] = 0
          BY <3>1 DEF Written
        <5>3. QED
          BY <3>1, <4>1, <5>1, <5>2
      <4>2. CASE d # 0
        <5>1. ds[m] >= 2 /\ ds[m] - 1 = d
          BY <2>1, <4>2
        <5>2. QED
          BY <5>1 DEF Leveled
      <4>3. QED
        BY <4>1, <4>2
    <3>3. Above(up, L, up[m], d + 1, p)
      BY <1>4, <3>1, <3>2
    <3>4. Above(up, L, m, (d + 1) + 1, p)
      <4>1. d + 1 \in Nat
        OBVIOUS
      <4>2. QED
        BY <4>1, <3>3, <1>1, AboveParent
    <3>5. QED
      BY <3>4, <2>1
  <2> HIDE DEF AboveIt
  <2>2. QED
    BY <2>1
<1> HIDE DEF G
<1>5. \A d \in Nat : d \in G
  BY <1>3, <1>4, InductionOnSet
<1>6. ds[n] \in G /\ ds[n] \in Nat
  BY <1>5 DEF Dots
<1>7. QED
  BY <1>6 DEF G

(* A node of d dots may be put below p. *)
Fits(ds, L, p, d) ==
  /\ d = Page <=> p = 0
  /\ d >= 2 => ds[p] = d - 1
  /\ d \in {0, 1} => ds[p] \in {0, Page}
  /\ d = 1 /\ ds[p] = Page => p = L \/ ds[p + 1] = 1

LEMMA LevelsGrow ==
  ASSUME NEW L \in Nat, NEW ks, NEW up, IsTree(ks, up, L),
         NEW ds \in [1 .. L -> Dots], Leveled(up, ds, L),
         NEW p \in 0 .. L, NEW d \in Dots, Fits(ds, L, p, d),
         NEW es, es[L + 1] = d, \A n \in 1 .. L : es[n] = ds[n]
  PROVE  Leveled(GrownUp(up, L, p), es, L + 1)
<1> DEFINE gu == GrownUp(up, L, p)
           M  == L + 1
<1>1. gu[M] = p /\ \A n \in 1 .. L : gu[n] = up[n]
  BY DEF GrownUp
<1>2. \A n \in 1 .. M : n = M \/ n \in 1 .. L
  OBVIOUS
<1>3. es[M] = d
  OBVIOUS
<1>4. \A n \in 1 .. L : up[n] \in 0 .. L /\ up[n] < n
  BY DEF IsTree
<1> HIDE DEF gu
<1>5. ASSUME NEW n \in 1 .. M
      PROVE  /\ es[n] = Page <=> gu[n] = 0
             /\ es[n] >= 2 => es[gu[n]] = es[n] - 1
             /\ es[n] \in {0, 1} => es[gu[n]] \in {0, Page}
             /\ es[n] = 1 /\ es[gu[n]] = Page => es[gu[n] + 1] = 1
  <2>1. CASE n = M
    <3>1. es[n] = d /\ gu[n] = p
      BY <2>1, <1>1, <1>3
    <3>2. CASE p = 0
      <4>1. d = Page
        BY <3>2 DEF Fits
      <4>2. QED
        BY <3>1, <3>2, <4>1 DEF Page
    <3>3. CASE p # 0
      <4>1. p \in 1 .. L /\ es[p] = ds[p] /\ (p # L => p + 1 \in 1 .. L)
        BY <3>3
      <4>2. d = 1 /\ ds[p] = Page => es[p + 1] = 1
        BY <4>1 DEF Fits
      <4>3. QED
        BY <3>1, <3>3, <4>1, <4>2 DEF Fits
    <3>4. QED
      BY <3>2, <3>3
  <2>2. CASE n # M
    <3>1. n \in 1 .. L /\ es[n] = ds[n] /\ gu[n] = up[n]
      BY <2>2, <1>1, <1>2
    <3>2. CASE up[n] = 0
      <4>1. ds[n] = Page
        BY <3>1, <3>2 DEF Leveled
      <4>2. QED
        BY <3>1, <3>2, <4>1 DEF Page
    <3>3. CASE up[n] # 0
      <4>1. up[n] \in 1 .. L /\ up[n] + 1 \in 1 .. L
        BY <3>1, <3>3, <1>4
      <4>2. es[up[n]] = ds[up[n]] /\ es[up[n] + 1] = ds[up[n] + 1]
        BY <4>1
      <4>3. QED
        BY <3>1, <4>2 DEF Leveled
    <3>4. QED
      BY <3>2, <3>3
  <2>3. QED
    BY <2>1, <2>2
<1>6. QED
  BY <1>5 DEF Leveled, gu

(* A sibling fits beside a node of as many dots. *)
LEMMA SiblingFits ==
  ASSUME NEW L \in Nat, NEW ks, NEW up, IsTree(ks, up, L),
         NEW ds \in [1 .. L -> Dots], Leveled(up, ds, L),
         NEW n \in 1 .. L, ds[n] > 0
  PROVE  Fits(ds, L, up[n], ds[n])
<1>1. ds[n] # Page /\ ds[n] # 0
  BY DEF Page, Dots
<1>2. QED
  BY <1>1 DEF Fits, Leveled

----------------------------------------------------------------------------
(* The inductive invariant. *)

Up == [n \in Nodes |-> Parent(n)]

Typed  == dots \in Seq(Dots)
Tree   == IsTree(kids, Up, Len(dots))
Levels == Leveled(Up, dots, Len(dots))
Read   == \E f : /\ Reads(f, kids, Len(dots))
                 /\ f[0] = [i \in 1 .. Len(dots) + 1 |-> i - 1]
(* What comes next is placed by the last node and its depth. *)
Cursor ==
  /\ current = Len(dots)
  /\ state \in {"page", "box", "blank"} => current # 0
  /\ state = "page" => dots[current] = Page
  /\ state \in {"box", "blank"} =>
       depth = IF dots[current] = Page THEN 0 ELSE dots[current]

IInv == Typed /\ Tree /\ Levels /\ Read /\ Cursor

LEMMA Lengths ==
  ASSUME Typed
  PROVE  /\ Len(dots) \in Nat /\ Nodes = 1 .. Len(dots)
         /\ dots \in [1 .. Len(dots) -> Dots]
BY DEF Typed, Nodes

LEMMA NothingRead == Init => IInv
<1> SUFFICES ASSUME Init
             PROVE  IInv
  OBVIOUS
<1>1. Len(dots) = 0 /\ dots = <<>> /\ Nodes = {} /\ 1 .. Len(dots) = {}
  BY DEF Init, Nodes
<1>2. Typed
  BY <1>1 DEF Typed
<1>3. kids = [n \in 0 .. 0 |-> <<>>]
  BY DEF Init
<1>4. Tree
  <2>1. Up \in [1 .. Len(dots) -> 0 .. Len(dots)]
    BY <1>1 DEF Up
  <2>2. kids \in [0 .. Len(dots) -> Seq(1 .. Len(dots))]
    BY <1>1, <1>3
  <2>3. \A p \in 0 .. Len(dots) : Ascending(kids[p])
    BY <1>1, <1>3 DEF Ascending
  <2>4. QED
    BY <1>1, <2>1, <2>2, <2>3 DEF Tree, IsTree, InOrder
<1>5. Levels
  BY <1>1 DEF Levels, Leveled
<1>6. Read
  <2> DEFINE f == [n \in 0 .. 0 |-> <<0>>]
  <2>1. f \in [0 .. 0 -> Seq(0 .. 0)]
    OBVIOUS
  <2>2. ASSUME NEW n \in 0 .. 0
        PROVE  f[n] = <<n>> \o FlattenSeq(Of(f, kids[n]))
    <3>1. kids[n] = <<>> /\ n = 0 /\ f[n] = <<0>>
      BY <1>3
    <3> HIDE DEF f
    <3>2. FlattenSeq(Of(f, <<>>)) = <<>>
      BY FlattenNothing
    <3>3. <<0>> \o <<>> = <<0>>
      OBVIOUS
    <3>4. QED
      BY <3>1, <3>2, <3>3
  <2>3. Reads(f, kids, 0)
    BY <2>1, <2>2 DEF Reads
  <2>4. f[0] = [i \in 1 .. 0 + 1 |-> i - 1]
    OBVIOUS
  <2> HIDE DEF f
  <2>5. QED
    BY <1>1, <2>3, <2>4 DEF Read
<1>7. Cursor
  BY <1>1 DEF Cursor, Init
<1>8. QED
  BY <1>2, <1>4, <1>5, <1>6, <1>7 DEF IInv

LEMMA ReadLogUnchanged ==
  ASSUME IInv, UNCHANGED <<dots, kids>>, Cursor'
  PROVE  IInv'
<1>1. Nodes' = Nodes
  BY DEF Nodes
<1>2. Up' = Up
  BY <1>1 DEF Up, Parent, Nodes
<1>3. QED
  BY <1>2 DEF IInv, Typed, Tree, Levels, Read

(* Every new node is put last below a node of the spine where it fits. *)
NewBelow(p, d) ==
  /\ p \in 0 .. Len(dots) /\ OnSpine(Up, Len(dots), p)
  /\ d \in Dots /\ Fits(dots, Len(dots), p, d)
  /\ kids' = GrownKids(kids, Len(dots), p)
  /\ dots' = Append(dots, d)

LEMMA NodeIsRead ==
  ASSUME IInv, NEW p, NEW d, NewBelow(p, d), Cursor'
  PROVE  IInv'
<1> DEFINE L == Len(dots)
<1>1. L \in Nat /\ Nodes = 1 .. L /\ dots \in [1 .. L -> Dots] /\ dots \in Seq(Dots)
  BY Lengths DEF IInv, Typed
<1>2. /\ p \in 0 .. L /\ OnSpine(Up, L, p) /\ d \in Dots /\ Fits(dots, L, p, d)
      /\ kids' = GrownKids(kids, L, p) /\ dots' = Append(dots, d)
  BY DEF NewBelow
<1>3. /\ dots' \in Seq(Dots) /\ Len(dots') = L + 1 /\ dots'[L + 1] = d
      /\ \A n \in 1 .. L : dots'[n] = dots[n]
  BY <1>1, <1>2, AppendProperties
<1>4. IsTree(kids, Up, L) /\ Leveled(Up, dots, L)
  BY DEF IInv, Tree, Levels
<1> HIDE DEF L
<1>5. IsTree(kids', GrownUp(Up, L, p), L + 1)
  BY <1>1, <1>2, <1>4, TreeGrows
<1>6. Up' = GrownUp(Up, L, p)
  <2> DEFINE gu == GrownUp(Up, L, p)
             M  == L + 1
  <2>1. gu = [n \in 1 .. M |-> gu[n]]
    BY DEF GrownUp
  <2>2. M \in Nat /\ IsTree(kids', gu, M)
    BY <1>1, <1>5
  <2>3. Nodes' = 1 .. M
    BY <1>3 DEF Nodes
  <2> HIDE DEF gu, M
  <2>4. Up' = [n \in 1 .. M |-> ParentIn(kids', 1 .. M, n)]
    BY <2>3 DEF Up, Parent, ParentIn
  <2>5. \A n \in 1 .. M : ParentIn(kids', 1 .. M, n) = gu[n]
    BY <2>2, ParentIs
  <2>6. QED
    BY <2>1, <2>4, <2>5 DEF gu
<1>7. Typed'
  BY <1>3 DEF Typed
<1>8. Tree'
  BY <1>3, <1>5, <1>6 DEF Tree
<1>9. Levels'
  <2>1. Leveled(GrownUp(Up, L, p), dots', L + 1)
    BY <1>1, <1>2, <1>3, <1>4, LevelsGrow
  <2>2. QED
    BY <2>1, <1>3, <1>6 DEF Levels
<1>10. Read'
  <2>1. PICK f : Reads(f, kids, L) /\ f[0] = [i \in 1 .. L + 1 |-> i - 1]
    BY DEF IInv, Read, L
  <2> DEFINE g == GrownReading(f, Up, L, p)
  <2>2. Reads(g, kids', L + 1)
    BY <1>1, <1>2, <1>4, <2>1, ReadingGrows
  <2>3. OnSpine(Up, L, 0)
    BY <1>1, <1>4, SpineEnds DEF IsTree
  <2>4. 0 <= p /\ 0 \in 0 .. L + 1 /\ 0 # L + 1
    BY <1>1, <1>2
  <2>5. g[0] = Append(f[0], L + 1)
    BY <2>3, <2>4 DEF GrownReading
  <2>6. Append([i \in 1 .. L + 1 |-> i - 1], L + 1)
          = [i \in 1 .. (L + 1) + 1 |-> i - 1]
    BY <1>1
  <2> HIDE DEF g
  <2>7. g[0] = [i \in 1 .. (L + 1) + 1 |-> i - 1]
    BY <2>1, <2>5, <2>6
  <2>8. QED
    BY <1>3, <2>2, <2>7 DEF Read
<1>11. QED
  BY <1>7, <1>8, <1>9, <1>10 DEF IInv

(* xmlAddChild puts the new node last below p, and so does                 *)
(* xmlAddNextSibling below the parent of a node of the spine.              *)
LEMMA AddedBelow ==
  ASSUME IInv, NEW p \in 0 .. Len(dots), NEW s, s = Append(kids[p], Len(dots) + 1),
         WithKids(p, s)
  PROVE  kids' = GrownKids(kids, Len(dots), p)
<1>1. Len(dots) \in Nat /\ DOMAIN kids = 0 .. Len(dots)
  BY Lengths DEF IInv, Tree, IsTree
<1> DEFINE L == Len(dots)
<1>2. (0 .. L) \cup {L + 1} = 0 .. L + 1
  BY <1>1
<1>3. kids' = [n \in 0 .. L + 1 |-> IF n = p THEN s
        ELSE IF n \in 0 .. L THEN kids[n]
                                                         ELSE <<>>]
  BY <1>1, <1>2 DEF WithKids
<1>4. QED
  BY <1>3 DEF GrownKids

LEMMA AddedChild ==
  ASSUME IInv, NEW p \in 0 .. Len(dots), AddChild(p)
  PROVE  kids' = GrownKids(kids, Len(dots), p)
<1> DEFINE s == Append(kids[p], Len(dots) + 1)
<1>1. WithKids(p, s) /\ s = Append(kids[p], Len(dots) + 1)
  BY DEF AddChild
<1> HIDE DEF s
<1>2. QED
  BY <1>1, AddedBelow

LEMMA InsertedLast ==
  ASSUME NEW E, NEW s \in Seq(E), NEW e
  PROVE  InsertAt(s, Len(s) + 1, e) = Append(s, e)
<1> DEFINE k == Len(s)
           F == E \cup {e}
<1>1. k \in Nat /\ (k + 1) - 1 = k /\ s \in Seq(F) /\ e \in F
  BY LenProperties, SeqOfMore
<1>2. SubSeq(s, 1, k) = s /\ SubSeq(s, k + 1, k) = <<>>
  BY <1>1
<1>3. (s \o <<e>>) \o <<>> = s \o <<e>> /\ s \o <<e>> = Append(s, e)
  BY <1>1, AppendedLast
<1>4. QED
  BY <1>1, <1>2, <1>3 DEF InsertAt

LEMMA AddedBeside ==
  ASSUME IInv, NEW n \in Nodes, OnSpine(Up, Len(dots), n), AddNextSibling(n)
  PROVE  kids' = GrownKids(kids, Len(dots), Up[n])
<1> DEFINE L == Len(dots)
           p == Up[n]
           k == Len(kids[p])
           i == CHOOSE j \in DOMAIN kids[p] : kids[p][j] = n
<1>1. L \in Nat /\ Nodes = 1 .. L /\ IsTree(kids, Up, L) /\ p = Parent(n)
  BY Lengths DEF IInv, Tree, Up
<1>2. WithKids(p, InsertAt(kids[p], i + 1, L + 1))
  BY <1>1 DEF AddNextSibling
<1> HIDE DEF p
<1>3. p = Up[n]
  BY DEF p
<1>4. /\ p \in 0 .. L /\ kids[p] \in Seq(1 .. L) /\ k \in Nat \ {0}
      /\ \A j \in 1 .. k : kids[p][j] = n <=> j = k
  BY <1>1, <1>3, LastChild
<1>5. i = k
  <2>1. DOMAIN kids[p] = 1 .. k /\ k \in 1 .. k
    BY <1>4
  <2>2. QED
    BY <2>1, <1>4
<1>6. InsertAt(kids[p], k + 1, L + 1) = Append(kids[p], L + 1)
  BY <1>4, InsertedLast
<1> HIDE DEF i
<1>7. QED
  BY <1>2, <1>4, <1>5, <1>6, AddedBelow DEF p

LEMMA NodePlaced ==
  ASSUME IInv, NEW d \in Nat \ {0}, NEW before, Place(d, before),
         state \in {"box", "blank"}
  PROVE  IInv'
<1> DEFINE L == Len(dots)
<1>1. /\ L \in Nat /\ Nodes = 1 .. L /\ dots \in [1 .. L -> Dots]
         /\ dots \in Seq(Dots)
      /\ IsTree(kids, Up, L) /\ Leveled(Up, dots, L)
  BY Lengths DEF IInv, Typed, Tree, Levels
<1>2. /\ current = L /\ L \in 1 .. L
      /\ depth = IF dots[L] = Page THEN 0 ELSE dots[L]
  BY <1>1 DEF IInv, Cursor
<1>3. OnSpine(Up, L, L) /\ Up \in [1 .. L -> 0 .. L]
  BY <1>1, SpineEnds DEF IsTree
<1>4. d \in Dots /\ d # Page /\ d > 0 /\ d # 0 /\ d \in Nat
  BY DEF Dots, Page
<1>5. CASE Fails("INVALID node structure")
  <2>1. UNCHANGED <<dots, kids>> /\ Cursor'
    BY <1>5 DEF Fails, IInv, Cursor
  <2>2. QED
    BY <2>1, ReadLogUnchanged
<1>6. ASSUME NewNode(d), depth' = d, state' = "box", NEW p, NewBelow(p, d)
      PROVE  IInv'
  <2>1. dots' = Append(dots, d) /\ current' = L + 1
    BY <1>6 DEF NewNode
  <2>2. Len(dots') = L + 1 /\ dots'[L + 1] = d
    BY <2>1, <1>1, <1>4, AppendProperties
  <2>3. Cursor'
    BY <1>1, <1>4, <1>6, <2>1, <2>2 DEF Cursor
  <2>4. QED
    BY <1>6, <2>3, NodeIsRead
<1>7. ASSUME NEW a \in 1 .. L, OnSpine(Up, L, a), dots[a] = d, AddNextSibling(a),
             NewNode(d)
      PROVE  NewBelow(Up[a], d)
  <2>1. Up[a] \in 0 .. L /\ OnSpine(Up, L, Up[a])
    BY <1>1, <1>3, <1>7, SpineUp
  <2>2. Fits(dots, L, Up[a], d)
    BY <1>1, <1>4, <1>7, SiblingFits
  <2>3. kids' = GrownKids(kids, L, Up[a])
    BY <1>1, <1>7, AddedBeside
  <2>4. QED
    BY <1>4, <1>7, <2>1, <2>2, <2>3 DEF NewBelow, NewNode
<1>8. CASE d = depth /\ AddNextSibling(current) /\ NewNode(d) /\ depth' = d
             /\ state' = "box"
  <2>1. dots[L] = d
    BY <1>2, <1>4, <1>8
  <2>2. NewBelow(Up[L], d)
    BY <1>2, <1>3, <1>7, <1>8, <2>1
  <2>3. QED
    BY <1>6, <1>8, <2>2
<1>9. CASE d = depth + 1 /\ AddChild(current) /\ NewNode(d) /\ depth' = d
             /\ state' = "box"
  <2>1. kids' = GrownKids(kids, L, L)
    <3>1. L \in 0 .. L /\ AddChild(L)
      BY <1>1, <1>2, <1>9
    <3>2. QED
      BY <3>1, AddedChild
  <2>2. Fits(dots, L, L, d)
    <3>1. dots[L] \in Nat \/ dots[L] = Page
      BY <1>1, <1>2 DEF Dots
    <3>2. CASE dots[L] = Page
      <4>1. d = 1 /\ L # 0
        BY <1>2, <1>9, <3>2
      <4>2. QED
        BY <4>1, <3>2, <1>4 DEF Fits
    <3>3. CASE dots[L] \in Nat
      <4>1. d = dots[L] + 1 /\ L # 0 /\ dots[L] # Page
        BY <1>2, <1>9, <3>3 DEF Page
      <4>2. QED
        BY <4>1, <3>3, <1>4 DEF Fits
    <3>4. QED
      BY <3>1, <3>2, <3>3
  <2>3. NewBelow(L, d)
    BY <1>2, <1>3, <1>4, <1>9, <2>1, <2>2 DEF NewBelow, NewNode
  <2>4. QED
    BY <1>6, <1>9, <2>3
<1>10. CASE /\ d < depth /\ AddNextSibling(Ancestor(current, depth - d))
            /\ NewNode(d) /\ depth' = d /\ state' = "box"
  <2>1. depth = dots[L] /\ dots[L] \in Nat /\ depth \in Nat
    BY <1>1, <1>2, <1>4, <1>10 DEF Dots
  <2> DEFINE k == depth - d
  <2>2. k \in Nat /\ dots[L] > k /\ dots[L] - k = d
    BY <2>1, <1>4, <1>10
  <2>3. Ancestor(L, k) = AncestorIn(kids, 1 .. L, L, k)
    BY <1>1 DEF Ancestor, AncestorIn, Parent, ParentIn
  <2> HIDE DEF k
  <2>4. PICK a \in 1 .. L : /\ Above(Up, L, L, k, a) /\ OnSpine(Up, L, a)
                            /\ dots[a] = dots[L] - k
    BY <1>1, <1>2, <1>3, <2>2, ClimbOnSpine
  <2>5. AncestorIn(kids, 1 .. L, L, k) = a
    BY <1>1, <2>2, <2>4, AboveIsAncestor
  <2>6. AddNextSibling(a)
    BY <1>2, <1>10, <2>3, <2>5 DEF k
  <2>7. NewBelow(Up[a], d)
    BY <1>7, <1>10, <2>2, <2>4, <2>6
  <2>8. QED
    BY <1>6, <1>10, <2>7
<1>11. QED
  BY <1>5, <1>8, <1>9, <1>10 DEF Place

LEMMA ReadLogPreserved == IInv /\ [Next]_vars => IInv'
<1> SUFFICES ASSUME IInv, [Next]_vars
             PROVE  IInv'
  OBVIOUS
<1> DEFINE L == Len(dots)
<1>1. /\ L \in Nat /\ Nodes = 1 .. L /\ dots \in [1 .. L -> Dots]
         /\ dots \in Seq(Dots)
      /\ IsTree(kids, Up, L) /\ current = L
  BY Lengths DEF IInv, Typed, Tree, Cursor
<1>2. OnSpine(Up, L, 0) /\ OnSpine(Up, L, L)
  BY <1>1, SpineEnds DEF IsTree
<1>3. Page \in Dots /\ 0 \in Dots /\ Page # 0 /\ ~(Page >= 2) /\ Page # 1
  BY DEF Dots, Page
<1>4. CASE StartMarker
  <2>1. kids' = GrownKids(kids, L, 0)
    <3>1. 0 \in 0 .. L /\ AddChild(0)
      BY <1>1, <1>4 DEF StartMarker
    <3>2. QED
      BY <3>1, AddedChild
  <2>2. Fits(dots, L, 0, Page)
    BY <1>3 DEF Fits
  <2>3. NewBelow(0, Page)
    BY <1>1, <1>2, <1>3, <1>4, <2>1, <2>2 DEF NewBelow, StartMarker, NewNode
  <2>4. Len(dots') = L + 1 /\ dots'[L + 1] = Page
    BY <2>3, <1>1, <1>3, AppendProperties DEF NewBelow
  <2>5. Cursor'
    BY <1>1, <1>4, <2>4 DEF Cursor, StartMarker, NewNode
  <2>6. QED
    BY <2>3, <2>5, NodeIsRead
<1>5. CASE BoxMarker
  <2>1. UNCHANGED <<dots, kids>> /\ Cursor'
    BY <1>5 DEF BoxMarker, IInv, Cursor
  <2>2. QED
    BY <2>1, ReadLogUnchanged
<1>6. CASE OtherLine
  <2>1. UNCHANGED <<dots, kids>> /\ Cursor'
    BY <1>6 DEF OtherLine, IInv, Cursor
  <2>2. QED
    BY <2>1, ReadLogUnchanged
<1>7. CASE BoxRoot
  <2>1. L # 0 /\ dots[L] \in {0, Page} /\ L \in 0 .. L
    BY <1>1, <1>7 DEF BoxRoot, IInv, Cursor
  <2>2. kids' = GrownKids(kids, L, L)
    BY <1>1, <1>7, <2>1, AddedChild DEF BoxRoot
  <2>3. Fits(dots, L, L, 0)
    BY <1>3, <2>1 DEF Fits
  <2>4. NewBelow(L, 0)
    BY <1>1, <1>2, <1>3, <1>7, <2>1, <2>2, <2>3 DEF NewBelow, BoxRoot, NewNode
  <2>5. Len(dots') = L + 1 /\ dots'[L + 1] = 0
    BY <2>4, <1>1, <1>3, AppendProperties DEF NewBelow
  <2>6. state = "box" /\ state' = "box" /\ depth = 0 /\ depth' = 0
          /\ current' = L + 1
    BY <1>7 DEF BoxRoot, NewNode
  <2>7. Cursor'
    BY <1>1, <1>3, <2>5, <2>6 DEF Cursor
  <2>8. QED
    BY <2>4, <2>7, NodeIsRead
<1>8. CASE BoxText
  <2>1. UNCHANGED <<dots, kids>> /\ Cursor'
    BY <1>8 DEF BoxText, IInv, Cursor
  <2>2. QED
    BY <2>1, ReadLogUnchanged
<1>9. CASE BlankLine
  <2>1. UNCHANGED <<dots, kids>> /\ Cursor'
    BY <1>9 DEF BlankLine, IInv, Cursor
  <2>2. QED
    BY <2>1, ReadLogUnchanged
<1>10. CASE DotsAfterBlank
  <2>1. UNCHANGED <<dots, kids>> /\ Cursor'
    BY <1>10 DEF DotsAfterBlank, Fails, IInv, Cursor
  <2>2. QED
    BY <2>1, ReadLogUnchanged
<1>11. CASE TextAfterBlank
  <2>1. UNCHANGED <<dots, kids>> /\ Cursor'
    BY <1>11 DEF TextAfterBlank, IInv, Cursor
  <2>2. QED
    BY <2>1, ReadLogUnchanged
<1>12. ASSUME NEW d \in 1 .. MaxDots, BoxNode(d) \/ NodeAfterBlank(d)
       PROVE  IInv'
  <2>1. d \in Nat \ {0}
    BY BoundsAssumption
  <2>2. CASE BoxNode(d)
    BY <2>1, <2>2, NodePlaced DEF BoxNode
  <2>3. CASE NodeAfterBlank(d)
    BY <2>1, <2>3, NodePlaced DEF NodeAfterBlank
  <2>4. QED
    BY <1>12, <2>2, <2>3
<1>13. CASE UNCHANGED vars
  <2>1. UNCHANGED <<dots, kids>> /\ Cursor'
    BY <1>13 DEF vars, IInv, Cursor
  <2>2. QED
    BY <2>1, ReadLogUnchanged
<1>14. QED
  BY <1>4, <1>5, <1>6, <1>7, <1>8, <1>9, <1>10, <1>11, <1>12, <1>13 DEF Next

(* The tree of the log is a tree, its levels are the dots, and reading it  *)
(* gives the lines of the log back: after every line that is read.         *)
THEOREM ReadLogInvariance == Spec => []IInv
<1>1. Init => IInv
  BY NothingRead
<1>2. IInv /\ [Next]_vars => IInv'
  BY ReadLogPreserved
<1>3. QED
  BY <1>1, <1>2, PTL DEF Spec

(* Whatever is in the log, its nodes are read in the order of the log.     *)
THEOREM LogIsReadInOrder == Spec => []LinesInOrder
<1>1. IInv => LinesInOrder
  <2> SUFFICES ASSUME IInv
               PROVE  LinesInOrder
    OBVIOUS
  <2> DEFINE L == Len(dots)
             Unfolds(u) == u = [n \in 0 .. L |->
                                  <<n>> \o FlattenSeq([i \in DOMAIN kids[n] |-> u[kids[n][i]]])]
  <2>1. L \in Nat /\ IsTree(kids, Up, L)
    BY Lengths DEF IInv, Tree
  <2>2. PICK f : Reads(f, kids, L) /\ f[0] = [i \in 1 .. L + 1 |-> i - 1]
    BY DEF IInv, Read
  <2>3. ASSUME NEW n \in 0 .. L
        PROVE  f[n] = <<n>> \o FlattenSeq([i \in DOMAIN kids[n] |-> f[kids[n][i]]])
    <3>1. f[n] = <<n>> \o FlattenSeq(Of(f, kids[n]))
      BY <2>2 DEF Reads
    <3>2. Of(f, kids[n]) = [i \in DOMAIN kids[n] |-> f[kids[n][i]]]
      BY DEF Of
    <3>3. QED
      BY ONLY <3>1, <3>2
  <2>4. f = [n \in 0 .. L |-> f[n]]
    <3>1. f \in [0 .. L -> Seq(0 .. L)]
      BY <2>2 DEF Reads
    <3>2. QED
      BY ONLY <3>1
  <2>5. Unfolds(f)
    <3> DEFINE d == [n \in 0 .. L |->
                       <<n>> \o FlattenSeq([i \in DOMAIN kids[n] |-> f[kids[n][i]]])]
    <3>1. [n \in 0 .. L |-> f[n]] = d
      BY <2>3
    <3>2. f = d
      BY <2>4, <3>1
    <3>3. QED
      BY <3>2
  <2>6. ASSUME NEW u, Unfolds(u)
        PROVE  u[0] = f[0]
    <3>1. ASSUME NEW n \in 0 .. L
          PROVE  u[n] = <<n>> \o FlattenSeq(Of(u, kids[n]))
      BY <2>6 DEF Of
    <3>2. ASSUME NEW n \in 0 .. L
          PROVE  f[n] = <<n>> \o FlattenSeq(Of(f, kids[n]))
      BY <2>2 DEF Reads
    <3> HIDE DEF Unfolds
    <3> DEFINE G == {j \in 0 .. L : \A n \in 0 .. L : n >= L - j => u[n] = f[n]}
    <3>3. ASSUME NEW n \in 0 .. L, \A m \in 0 .. L : m > n => u[m] = f[m]
          PROVE  u[n] = f[n]
      <4>1. /\ kids[n] \in Seq(1 .. L)
            /\ \A i \in 1 .. Len(kids[n]) : kids[n][i] \in 1 .. L /\ kids[n][i] > n
        BY <2>1, Children
      <4>2. SameOn(f, u, kids[n])
        BY <4>1, <3>3 DEF SameOn
      <4>3. Of(u, kids[n]) = Of(f, kids[n])
        BY <4>1, <4>2, OfSame
      <4>4. QED
        BY <4>3, <3>1, <3>2
    <3>4. 0 \in G
      <4>1. \A n \in 0 .. L : n >= L - 0 => ~ \E m \in 0 .. L : m > n
        BY <2>1
      <4>2. QED
        BY <4>1, <3>3, <2>1
    <3>5. ASSUME NEW j \in 0 .. L - 1, j \in G
          PROVE  j + 1 \in G
      <4>1. ASSUME NEW n \in 0 .. L, n >= L - (j + 1)
            PROVE  u[n] = f[n]
        <5>1. \A m \in 0 .. L : m > n => m >= L - j
          BY <2>1, <4>1
        <5>2. \A m \in 0 .. L : m > n => u[m] = f[m]
          BY <5>1, <3>5
        <5>3. QED
          BY <5>2, <3>3
      <4>2. j + 1 \in 0 .. L
        BY <2>1
      <4>3. QED
        BY <4>1, <4>2
    <3> HIDE DEF G, L
    <3>6. \A j \in 0 .. L : j \in G
      BY <2>1, <3>4, <3>5, BoundedInduction
    <3>7. L \in G /\ 0 \in 0 .. L /\ 0 >= L - L
      BY <2>1, <3>6
    <3>8. QED
      BY <3>7 DEF G
  <2>7. Preorder = (CHOOSE u : Unfolds(u))[0]
    BY DEF Preorder
  <2> HIDE DEF Unfolds
  <2>8. Preorder = f[0]
    BY <2>5, <2>6, <2>7
  <2>9. QED
    BY <2>2, <2>8 DEF LinesInOrder
<1>2. QED
  BY <1>1, ReadLogInvariance, PTL

(* Each node of a page that begins as TeX writes it is as deep below the   *)
(* page as it has dots.                                                    *)
THEOREM DepthIsDots == Spec => []NestingIsDots
<1>1. IInv => NestingIsDots
  <2> SUFFICES ASSUME IInv, NEW n \in Nodes, dots[n] # Page, WrittenByTeX(PageOf(n))
               PROVE  Ancestor(n, dots[n] + 1) = PageOf(n)
    BY DEF NestingIsDots
  <2> DEFINE L == Len(dots)
             p == PageOf(n)
  <2>1. /\ L \in Nat /\ Nodes = 1 .. L /\ dots \in [1 .. L -> Dots]
        /\ IsTree(kids, Up, L) /\ Leveled(Up, dots, L)
    BY Lengths DEF IInv, Typed, Tree, Levels
  <2>2. dots[1] = Page
    <3> HIDE DEF L
    <3>a. 1 \in 1 .. L
      <4>1. n \in 1 .. L
        BY <2>1
      <4>2. QED
        BY <4>1, <2>1
    <3>1. 1 \in 1 .. L /\ Up[1] \in 0 .. L /\ Up[1] < 1
      BY <3>a, <2>1 DEF IsTree
    <3>2. Up[1] = 0
      BY <3>1, <2>1
    <3>3. QED
      BY <3>1, <3>2, <2>1 DEF Leveled
  <2>3. ASSUME NEW m \in Nodes, NEW q
        PROVE  IsPageOf(dots, m, q) <=> q = PageOf(m)
    <3>1. PageOf(m) = CHOOSE r \in 1 .. m :
                        dots[r] = Page /\ \A i \in r + 1 .. m : dots[i] # Page
      BY DEF PageOf
    <3>2. m \in Nat /\ m # 0
      BY <2>1
    <3>3. PICK r : IsPageOf(dots, m, r)
      BY <3>2, <2>2, PageExists
    <3>4. IsPageOf(dots, m, PageOf(m))
      BY <3>1, <3>3 DEF IsPageOf
    <3>5. IsPageOf(dots, m, q) => q = PageOf(m)
      BY <3>2, <3>4, PageIsOne
    <3>6. QED
      BY <3>4, <3>5
  <2>4. IsPageOf(dots, n, p)
    BY <2>3
  <2> HIDE DEF p
  <2>5. Written(dots, L, p)
    <3>1. WrittenByTeX(p)
      BY DEF p
    <3>2. p \in Nat
      BY <2>4, <2>1 DEF IsPageOf
    <3>3. \A m \in p + 1 .. L : m \in Nodes
      BY <2>1, <2>4, <3>2 DEF IsPageOf
    <3>4. QED
      BY <2>3, <3>1, <3>3 DEF Written, WrittenByTeX
  <2>6. Above(Up, L, n, dots[n] + 1, p)
    BY <2>1, <2>4, <2>5, PageAbove
  <2>7. dots[n] + 1 \in Nat
    BY <2>1 DEF Dots
  <2> DEFINE k == dots[n] + 1
  <2>8. Ancestor(n, k) = AncestorIn(kids, 1 .. L, n, k)
    BY <2>1 DEF Ancestor, AncestorIn, Parent, ParentIn
  <2> HIDE DEF k
  <2>9. AncestorIn(kids, 1 .. L, n, k) = p
    BY <2>1, <2>6, <2>7, AboveIsAncestor DEF k
  <2>10. QED
    BY <2>8, <2>9 DEF k, p
<1>2. QED
  BY <1>1, ReadLogInvariance, PTL

=============================================================================
