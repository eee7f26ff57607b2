--------------------------- MODULE FormulasProofs ---------------------------
(***************************************************************************)
(* Proofs about the two ways of a formula.  One is through the passes of   *)
(* log2xml.c that move formulas out of the log and into each other: for    *)
(* every document no character is lost or copied on the way, and every     *)
(* walk ends.  Both rest on what one extraction leaves of a list and what  *)
(* it takes, whatever the nodes in it are.  The other, at the end, is that *)
(* of a verbatim formula: what escape_math gives to TeX.                   *)
(***************************************************************************)
EXTENDS Formulas, Verbatim, ListsProofs, FiniteSetTheorems

Kinds == {"page", "hbox", "baselineskip", "mathon", "mathoff", "char",
          "begin(math)", "end(math)", "begin(display)", "end(display)",
          "penalty", "penalty(0)", "penalty(10000)", "abovedisplayskip",
          "belowdisplayskip", "math", "mrow"}
LogNode == [k : Kinds, d : Int, id : Int, id2 : Int]
Passes == {"display", "inline", "special", "transform", "replace", "done", "exit"}

(* The passes walk over lists of nodes and never past their end.           *)
IInv ==
  /\ log \in Seq(LogNode) /\ mathdoc \in Seq(LogNode)
  /\ cursor \in Nat \ {0} /\ pc \in Passes
  /\ todo \in SUBSET Nat /\ IsFiniteSet(todo)
  /\ pc \in {"display", "inline", "special"} => cursor <= Len(log) + 1
  /\ pc = "transform" => cursor <= Len(mathdoc) + 1

----------------------------------------------------------------------------
(* The log that TeX writes is such a list. *)

LEMMA NodeType ==
  /\ \A k \in Kinds : \A d \in Int : Node(k, d) \in LogNode
  /\ \A k \in Kinds : \A d, f \in Int : Mark(k, d, f) \in LogNode
BY DEF Node, Mark, LogNode

LEMMA KindsAre ==
  /\ "page" \in Kinds /\ "hbox" \in Kinds /\ "baselineskip" \in Kinds /\ "mathon" \in Kinds
  /\ "mathoff" \in Kinds /\ "char" \in Kinds /\ "begin(math)" \in Kinds
  /\ "end(math)" \in Kinds /\ "begin(display)" \in Kinds /\ "end(display)" \in Kinds
  /\ "penalty" \in Kinds /\ "penalty(0)" \in Kinds /\ "penalty(10000)" \in Kinds
  /\ "abovedisplayskip" \in Kinds /\ "belowdisplayskip" \in Kinds
  /\ "math" \in Kinds /\ "mrow" \in Kinds
BY DEF Kinds

LEMMA InlineLogType ==
  ASSUME NEW kind, NEW f \in Int, NEW d \in Int
  PROVE  InlineLog(kind, f, d) \in Seq(LogNode)
<1> DEFINE N == LogNode
           a == Node("mathon", d)
           b == Mark("begin(math)", d, f)
           c == Mark("char", d, f)
           e == Node("baselineskip", d - 1)
           g == Node("hbox", d - 1)
           h == Node("hbox", d)
           i == Node("mathon", d + 1)
           j == Mark("begin(math)", d + 1, f + 1)
           k == Mark("char", d + 1, f + 1)
           l == Node("mathoff", d + 1)
           m == Mark("end(math)", d + 1, f + 1)
           o == Node("mathoff", d)
           p == Mark("end(math)", d, f)
<1>1. a \in N /\ b \in N /\ c \in N /\ e \in N /\ g \in N /\ h \in N /\ o \in N /\ p \in N
  BY NodeType, KindsAre
<1>2. i \in N /\ j \in N /\ k \in N /\ l \in N /\ m \in N
  BY NodeType, KindsAre
<1>3. InlineLog(kind, f, d) =
        (IF kind = "start" THEN <<>> ELSE <<a>>) \o <<b, c>>
        \o (IF kind = "broken" THEN <<e, g>>
            ELSE IF kind # "nested" THEN <<>> ELSE <<h, i, j, k, l, m>>)
        \o <<o, p>>
  BY DEF InlineLog
<1> HIDE DEF N, a, b, c, e, g, h, i, j, k, l, m, o, p
<1>4. /\ <<>> \in Seq(N) /\ <<a>> \in Seq(N) /\ <<b, c>> \in Seq(N) /\ <<e, g>> \in Seq(N)
      /\ <<h, i, j, k, l, m>> \in Seq(N) /\ <<o, p>> \in Seq(N)
  BY <1>1, <1>2
<1> DEFINE x == IF kind = "start" THEN <<>> ELSE <<a>>
           y == IF kind = "broken" THEN <<e, g>>
                ELSE IF kind # "nested" THEN <<>> ELSE <<h, i, j, k, l, m>>
           z == <<o, p>>
           w == <<b, c>>
<1>5. x \in Seq(N) /\ y \in Seq(N) /\ z \in Seq(N) /\ w \in Seq(N)
  BY <1>4
<1>6. InlineLog(kind, f, d) = x \o w \o y \o z
  BY <1>3
<1> HIDE DEF x, y, z, w
<1>7. x \o w \o y \o z \in Seq(N)
  BY <1>5
<1>8. QED
  BY <1>6, <1>7 DEF N

LEMMA DisplayLogType ==
  ASSUME NEW kind, NEW f \in Int
  PROVE  DisplayLog(kind, f) \in Seq(LogNode)
<1> DEFINE N == LogNode
           a == <<Node("penalty(10000)", 1), Node("abovedisplayskip", 1),
                  Node("baselineskip", 1), Node("hbox", 1)>>
           b == IF kind = "eqnarray" THEN InlineLog("plain", f + 1, 2)
                ELSE <<Mark("begin(display)", 2, f), Mark("char", 2, f)>>
           c == IF kind = "boxed" THEN <<Node("hbox", 2)>> \o InlineLog("plain", f + 1, 3)
                ELSE <<>>
           e == <<Node(IF kind = "penalized" THEN "penalty" ELSE "penalty(0)", 1),
                  Node("belowdisplayskip", 1)>>
<1>1. a \in Seq(N)
  <2>1. /\ Node("penalty(10000)", 1) \in N /\ Node("abovedisplayskip", 1) \in N
        /\ Node("baselineskip", 1) \in N /\ Node("hbox", 1) \in N
    BY NodeType, KindsAre
  <2> HIDE DEF N
  <2>2. QED
    BY <2>1
<1>2. b \in Seq(N)
  <2>1. InlineLog("plain", f + 1, 2) \in Seq(N)
    BY InlineLogType
  <2>2. Mark("begin(display)", 2, f) \in N /\ Mark("char", 2, f) \in N
    BY NodeType, KindsAre
  <2> HIDE DEF N
  <2>3. QED
    BY <2>1, <2>2
<1>3. c \in Seq(N)
  <2>1. InlineLog("plain", f + 1, 3) \in Seq(N)
    BY InlineLogType
  <2>2. Node("hbox", 2) \in N
    BY NodeType, KindsAre
  <2> HIDE DEF N
  <2>3. QED
    BY <2>1, <2>2
<1>4. e \in Seq(N)
  <2>1. /\ Node("penalty", 1) \in N /\ Node("penalty(0)", 1) \in N
        /\ Node("belowdisplayskip", 1) \in N
    BY NodeType, KindsAre
  <2> HIDE DEF N
  <2>2. QED
    BY <2>1
<1>5. DisplayLog(kind, f) = IF kind = "none" THEN <<>> ELSE a \o b \o c \o e
  BY DEF DisplayLog
<1> HIDE DEF a, b, c, e, N
<1>6. (IF kind = "none" THEN <<>> ELSE a \o b \o c \o e) \in Seq(N)
  BY <1>1, <1>2, <1>3, <1>4
<1>7. QED
  BY <1>5, <1>6 DEF N

LEMMA LineLogType ==
  ASSUME NEW E, NEW line \in Seq(E), NEW f \in Int
  PROVE  LineLog(line, f) \in Seq(LogNode)
<1> DEFINE n == Len(line)
           ss == [i \in DOMAIN line |-> InlineLog(line[i], f + 2 * i, 2)]
<1>1. n \in Nat /\ DOMAIN line = 1 .. n
  OBVIOUS
<1>2. \A i \in 1 .. n : InlineLog(line[i], f + 2 * i, 2) \in Seq(LogNode)
  <2> TAKE i \in 1 .. n
  <2>1. f + 2 * i \in Int
    BY <1>1
  <2>2. QED
    BY <2>1, InlineLogType
<1>3. ss \in Seq(Seq(LogNode))
  BY <1>1, <1>2
<1>4. QED
  BY <1>3, FlattenType DEF LineLog

LEMMA BlockLogType ==
  ASSUME NEW E, NEW blk, blk.line \in Seq(E), NEW f \in Int
  PROVE  BlockLog(blk, f) \in Seq(LogNode)
<1> DEFINE N == LogNode
           a == DisplayLog(blk.display, f)
           b == <<Node("baselineskip", 1), Node("hbox", 1)>>
           c == IF blk.display \in {"plain", "boxed", "penalized"}
                THEN <<Mark("end(display)", 2, f)>> ELSE <<>>
           e == LineLog(blk.line, f)
<1>1. a \in Seq(N) /\ e \in Seq(N)
  BY DisplayLogType, LineLogType
<1>2. b \in Seq(N) /\ c \in Seq(N)
  <2>1. /\ Node("baselineskip", 1) \in N /\ Node("hbox", 1) \in N
        /\ Mark("end(display)", 2, f) \in N
    BY NodeType, KindsAre
  <2> HIDE DEF N
  <2>2. QED
    BY <2>1
<1>3. BlockLog(blk, f) = a \o b \o c \o e
  BY DEF BlockLog
<1> HIDE DEF a, b, c, e, N
<1>4. a \o b \o c \o e \in Seq(N)
  BY <1>1, <1>2
<1>5. QED
  BY <1>3, <1>4 DEF N

LEMMA PageLogType ==
  ASSUME NEW p \in Nat, pages[p] \in Seq(Blocks)
  PROVE  PageLog(p) \in Seq(LogNode)
<1> DEFINE page == pages[p]
           n == Len(page)
           ss == [i \in DOMAIN page |-> BlockLog(page[i], Formula(p, i, 1))]
<1>1. n \in Nat /\ DOMAIN page = 1 .. n
  OBVIOUS
<1>2. \A i \in 1 .. n : BlockLog(page[i], Formula(p, i, 1)) \in Seq(LogNode)
  <2> TAKE i \in 1 .. n
  <2>1. Formula(p, i, 1) \in Int
    BY <1>1 DEF Formula
  <2>2. page[i] \in Blocks
    BY <1>1
  <2>3. page[i].line \in Seq({"plain", "nested", "start", "broken"})
    BY <2>2, BlocksAssumption
  <2>4. QED
    BY <2>1, <2>3, BlockLogType
<1>3. ss \in Seq(Seq(LogNode))
  BY <1>1, <1>2
<1>4. FlattenSeq(ss) \in Seq(LogNode)
  BY <1>3, FlattenType
<1>5. <<Node("page", 0)>> \in Seq(LogNode)
  <2>1. Node("page", 0) \in LogNode
    BY NodeType, KindsAre
  <2>2. QED
    BY <2>1
<1> DEFINE t == FlattenSeq(ss)
           h == <<Node("page", 0)>>
<1>6. PageLog(p) = h \o t
  BY DEF PageLog
<1> HIDE DEF t, h, ss
<1>7. QED
  BY <1>4, <1>5, <1>6 DEF t, h

LEMMA LogType ==
  ASSUME pages \in Seq(Seq(Blocks))
  PROVE  Log \in Seq(LogNode)
<1> DEFINE ss == [p \in DOMAIN pages |-> PageLog(p)]
           n == Len(pages)
<1>1. n \in Nat /\ DOMAIN pages = 1 .. n
  OBVIOUS
<1>2. \A p \in 1 .. n : PageLog(p) \in Seq(LogNode)
  BY <1>1, PageLogType
<1>3. ss \in Seq(Seq(LogNode))
  BY <1>1, <1>2
<1>4. QED
  BY <1>3, FlattenType DEF Log

----------------------------------------------------------------------------
(* How many of the nodes of s from the a-th to the b-th are in P. *)

Within(s, a, b, P) == {q \in a .. b : s[q] \in P}
Number(s, a, b, P) == Cardinality(Within(s, a, b, P))
Count(s, P)        == Number(s, 1, Len(s), P)

LEMMA WithinFinite ==
  ASSUME NEW s, NEW a \in Int, NEW b \in Int, NEW P
  PROVE  IsFiniteSet(Within(s, a, b, P)) /\ Number(s, a, b, P) \in Nat
<1>1. IsFiniteSet(a .. b) /\ Within(s, a, b, P) \in SUBSET (a .. b)
  BY FS_Interval DEF Within
<1>2. IsFiniteSet(Within(s, a, b, P))
  BY <1>1, FS_Subset
<1>3. QED
  BY <1>2, FS_CardinalityType DEF Number

LEMMA NumberSplit ==
  ASSUME NEW s, NEW a \in Int, NEW b \in Int, NEW m \in Int, a <= m + 1, m <= b, NEW P
  PROVE  Number(s, a, b, P) = Number(s, a, m, P) + Number(s, m + 1, b, P)
<1> DEFINE S == Within(s, a, m, P)
           T == Within(s, m + 1, b, P)
<1>1. IsFiniteSet(S) /\ IsFiniteSet(T) /\ Cardinality(S) \in Nat /\ Cardinality(T) \in Nat
  BY WithinFinite DEF Number
<1>2. S \cup T = Within(s, a, b, P) /\ S \cap T = {}
  BY DEF Within
<1> HIDE DEF S, T
<1>3. Cardinality(S \cup T) = Cardinality(S) + Cardinality(T) - Cardinality(S \cap T)
  BY <1>1, FS_Union
<1>4. Cardinality(S \cap T) = 0
  BY <1>2, FS_EmptySet
<1>5. QED
  BY <1>1, <1>2, <1>3, <1>4 DEF Number, S, T

Agree(s, t, a, b, k, P) == \A q \in a .. b : s[q] \in P <=> t[q + k] \in P

LEMMA NumberMoved ==
  ASSUME NEW s, NEW t, NEW a \in Int, NEW b \in Int, NEW k \in Int, NEW P,
         Agree(s, t, a, b, k, P)
  PROVE  Number(s, a, b, P) = Number(t, a + k, b + k, P)
<1> DEFINE S == Within(s, a, b, P)
           T == Within(t, a + k, b + k, P)
           f == [q \in S |-> q + k]
<1>0. S \in SUBSET Int /\ T \in SUBSET Int
  BY DEF Within
<1>1. \A q \in S : q + k \in T
  <2> TAKE q \in S
  <2>1. q \in a .. b /\ s[q] \in P
    BY DEF Within
  <2>2. t[q + k] \in P /\ q + k \in (a + k) .. (b + k)
    BY <2>1 DEF Agree
  <2>3. QED
    BY <2>2 DEF Within
<1>2. \A y \in T : y - k \in S
  <2> TAKE y \in T
  <2>1. y \in Int /\ y - k \in a .. b /\ (y - k) + k = y /\ t[y] \in P
    BY DEF Within
  <2>2. QED
    BY <2>1 DEF Within, Agree
<1> HIDE DEF S, T
<1>3. f \in [S -> T] /\ \A x, y \in S : f[x] = f[y] => x = y
  BY <1>0, <1>1
<1>4. \A y \in T : \E x \in S : f[x] = y
  <2> TAKE y \in T
  <2>1. y - k \in S /\ y \in Int
    BY <1>0, <1>2
  <2>2. f[y - k] = y
    BY <2>1
  <2>3. QED
    BY <2>1, <2>2
<1> HIDE DEF f
<1>5. f \in Bijection(S, T)
  <2>1. IsInjective(f)
    BY <1>3 DEF IsInjective
  <2>2. QED
    BY <1>3, <1>4, <2>1 DEF Bijection, Injection, Surjection
<1>6. IsFiniteSet(S)
  BY WithinFinite DEF S
<1>7. ExistsBijection(S, T)
  BY <1>5 DEF ExistsBijection
<1>8. Cardinality(T) = Cardinality(S)
  BY <1>6, <1>7, FS_Bijection
<1>9. QED
  BY <1>8 DEF Number, S, T

LEMMA NumberEmpty ==
  ASSUME NEW s, NEW a \in Int, NEW b \in Int, b < a, NEW P
  PROVE  Number(s, a, b, P) = 0
<1>1. Within(s, a, b, P) = {}
  BY DEF Within
<1>2. QED
  BY <1>1, FS_EmptySet DEF Number

LEMMA NumberOne ==
  ASSUME NEW s, NEW a \in Int, NEW P
  PROVE  Number(s, a, a, P) = IF s[a] \in P THEN 1 ELSE 0
<1>1. Within(s, a, a, P) = IF s[a] \in P THEN {a} ELSE {}
  BY DEF Within
<1>2. QED
  BY <1>1, FS_EmptySet, FS_Singleton DEF Number

LEMMA CountSub ==
  ASSUME NEW E, NEW s \in Seq(E), NEW a \in Int, NEW b \in Int,
         1 <= a, a <= b + 1, b <= Len(s), NEW P
  PROVE  Count(SubSeq(s, a, b), P) = Number(s, a, b, P)
<1> DEFINE t == SubSeq(s, a, b)
           n == b - a + 1
<1>1. Len(t) = n
  OBVIOUS
<1>2. \A q \in 1 .. n : t[q] = s[q + (a - 1)]
  <2> TAKE q \in 1 .. n
  <2>1. t[q] = s[a + q - 1] /\ a + q - 1 = q + (a - 1)
    OBVIOUS
  <2>2. QED
    BY <2>1
<1>3. n \in Int /\ 1 + (a - 1) = a /\ n + (a - 1) = b /\ a - 1 \in Int
  OBVIOUS
<1> HIDE DEF t, n
<1>4. Agree(t, s, 1, n, a - 1, P)
  BY <1>2 DEF Agree
<1>5. Number(t, 1, n, P) = Number(s, 1 + (a - 1), n + (a - 1), P)
  BY <1>3, <1>4, NumberMoved
<1>6. QED
  BY <1>1, <1>3, <1>5 DEF Count, t

LEMMA NumberSame ==
  ASSUME NEW s, NEW t, NEW a \in Int, NEW b \in Int, NEW P,
         \A q \in a .. b : s[q] = t[q]
  PROVE  Number(s, a, b, P) = Number(t, a, b, P)
<1>1. Within(s, a, b, P) = Within(t, a, b, P)
  BY DEF Within
<1>2. QED
  BY <1>1 DEF Number

LEMMA CountJoined ==
  ASSUME NEW E, NEW s \in Seq(E), NEW t \in Seq(E), NEW P
  PROVE  Count(s \o t, P) = Count(s, P) + Count(t, P)
<1> DEFINE u == s \o t
           m == Len(s)
           n == Len(t)
<1>1. m \in Nat /\ n \in Nat /\ Len(u) = m + n
  OBVIOUS
<1>2. \A q \in 1 .. m : u[q] = s[q]
  OBVIOUS
<1>3. \A q \in 1 .. n : u[q + m] = t[q]
  <2> TAKE q \in 1 .. n
  <2>1. q + m \in Int /\ m < q + m /\ q + m <= m + n /\ q + m - m = q
    BY <1>1
  <2>2. QED
    BY <1>1, <2>1
<1> HIDE DEF u, m, n
<1>4. Number(u, 1, m + n, P) = Number(u, 1, m, P) + Number(u, m + 1, m + n, P)
  BY <1>1, NumberSplit
<1>5. Agree(t, u, 1, n, m, P)
  BY <1>3 DEF Agree
<1>6. Number(t, 1, n, P) = Number(u, 1 + m, n + m, P)
  BY <1>1, <1>5, NumberMoved
<1>7. Number(u, 1, m, P) = Number(s, 1, m, P)
  BY <1>1, <1>2, NumberSame
<1>8. 1 + m = m + 1 /\ n + m = m + n
  BY <1>1
<1>9. QED
  BY <1>1, <1>4, <1>6, <1>7, <1>8 DEF Count, u, m, n

(* The tags and marks that are looked for, and where the first is. *)
LEMMA LeastIsFirst ==
  ASSUME NEW S \in SUBSET Nat, S # {}
  PROVE  Least(S) \in S /\ \A q \in S : Least(S) <= q
<1>1. \E p \in S : \A q \in S : p <= q
  BY LeastNatural
<1>2. QED
  BY <1>1 DEF Least

LEMMA GreatestIsLast ==
  ASSUME NEW n \in Nat, NEW S \in SUBSET (1 .. n), S # {}
  PROVE  Greatest(S) \in S /\ \A q \in S : q <= Greatest(S)
<1> DEFINE T == {n - q : q \in S}
<1>1. T \in SUBSET Nat
  <2>1. \A q \in S : q \in Nat /\ n - q \in Nat
    OBVIOUS
  <2>2. QED
    BY <2>1
<1>2. T # {}
  OBVIOUS
<1>3. \E m \in T : \A t \in T : m <= t
  <2> HIDE DEF T
  <2>1. QED
    BY <1>1, <1>2, LeastNatural
<1>4. PICK m \in T : \A t \in T : m <= t
  BY <1>3
<1>5. PICK p \in S : m = n - p
  BY <1>4
<1>6. \A q \in S : q <= p
  <2> TAKE q \in S
  <2>1. m <= n - q /\ p \in Int /\ q \in Int
    BY <1>4
  <2>2. QED
    BY <1>5, <2>1
<1>7. QED
  BY <1>6 DEF Greatest

----------------------------------------------------------------------------
(* Nodes told apart by their kind and id: those of the kinds in K with an  *)
(* id in I.  A change of depth leaves such a node what it is.              *)

Sort(K, I) == {n \in LogNode : n.k \in K /\ n.id \in I}

LEMMA JoinIs ==
  ASSUME NEW E, NEW s \in Seq(E), NEW t \in Seq(E)
  PROVE  /\ s \o t \in Seq(E) /\ Len(s \o t) = Len(s) + Len(t)
         /\ \A q \in 1 .. Len(s) : (s \o t)[q] = s[q]
OBVIOUS

LEMMA UnlinkIs ==
  ASSUME NEW E, NEW s \in Seq(E), NEW p \in 1 .. Len(s)
  PROVE  /\ Unlink(s, p) \in Seq(E) /\ Len(Unlink(s, p)) = Len(s) - 1
         /\ \A q \in 1 .. p - 1 : Unlink(s, p)[q] = s[q]
<1> DEFINE n == Len(s)
           u == SubSeq(s, 1, p - 1)
           v == SubSeq(s, p + 1, n)
<1>1. n \in Nat /\ p \in 1 .. n
  OBVIOUS
<1>2. u \in Seq(E) /\ Len(u) = p - 1 /\ \A q \in 1 .. p - 1 : u[q] = s[q]
  OBVIOUS
<1>3. v \in Seq(E) /\ Len(v) = n - p
  OBVIOUS
<1>4. Unlink(s, p) = u \o v
  BY DEF Unlink
<1> HIDE DEF n, u, v
<1>5. u \o v \in Seq(E) /\ Len(u \o v) = Len(u) + Len(v)
  BY <1>2, <1>3, JoinIs
<1>6. \A q \in 1 .. p - 1 : (u \o v)[q] = s[q]
  BY <1>1, <1>2, <1>3, JoinIs
<1>7. Len(u \o v) = n - 1
  BY <1>1, <1>2, <1>3, <1>5
<1>8. QED
  BY <1>4, <1>5, <1>6, <1>7 DEF n

LEMMA UnlinkCount ==
  ASSUME NEW E, NEW s \in Seq(E), NEW p \in 1 .. Len(s), NEW P
  PROVE  Count(Unlink(s, p), P) = Count(s, P) - (IF s[p] \in P THEN 1 ELSE 0)
<1> DEFINE n == Len(s)
           u == SubSeq(s, 1, p - 1)
           v == SubSeq(s, p + 1, n)
<1>1. n \in Nat /\ p \in 1 .. n
  OBVIOUS
<1>2. u \in Seq(E) /\ v \in Seq(E)
  OBVIOUS
<1>3. Count(u, P) = Number(s, 1, p - 1, P) /\ Count(v, P) = Number(s, p + 1, n, P)
  BY <1>1, CountSub
<1>4. Unlink(s, p) = u \o v
  BY DEF Unlink
<1> HIDE DEF u, v
<1>5. Count(u \o v, P) = Count(u, P) + Count(v, P)
  BY <1>2, CountJoined
<1>6. Count(s, P) = Number(s, 1, n, P)
  BY DEF Count
<1> HIDE DEF n
<1>7. Number(s, 1, n, P) = Number(s, 1, p - 1, P) + Number(s, p, n, P)
  <2> DEFINE m == p - 1
  <2>1. m \in Int /\ 1 <= m + 1 /\ m <= n /\ n \in Int /\ m + 1 = p
    BY <1>1
  <2> HIDE DEF m
  <2>2. Number(s, 1, n, P) = Number(s, 1, m, P) + Number(s, m + 1, n, P)
    BY <2>1, NumberSplit
  <2>3. QED
    BY <2>1, <2>2 DEF m
<1>8. Number(s, p, n, P) = Number(s, p, p, P) + Number(s, p + 1, n, P)
  BY <1>1, NumberSplit
<1>9. Number(s, p, p, P) = IF s[p] \in P THEN 1 ELSE 0
  BY NumberOne
<1>10. /\ Number(s, 1, p - 1, P) \in Nat /\ Number(s, p + 1, n, P) \in Nat
       /\ Number(s, p, n, P) \in Nat
  BY <1>1, WithinFinite
<1>11. QED
  BY <1>3, <1>4, <1>5, <1>6, <1>7, <1>8, <1>9, <1>10

LEMMA ShiftedIs ==
  ASSUME NEW s \in Seq(LogNode), NEW by \in Int, NEW K, NEW I
  PROVE  /\ Shifted(s, by) \in Seq(LogNode) /\ Len(Shifted(s, by)) = Len(s)
         /\ Count(Shifted(s, by), Sort(K, I)) = Count(s, Sort(K, I))
<1> DEFINE t == Shifted(s, by)
           n == Len(s)
           P == Sort(K, I)
<1>1. n \in Nat
  OBVIOUS
<1>2. \A q \in 1 .. n :
        [s[q] EXCEPT !.d = @ + by] \in LogNode
        /\ ([s[q] EXCEPT !.d = @ + by] \in P <=> s[q] \in P)
  <2> TAKE q \in 1 .. n
  <2>1. s[q] \in LogNode
    OBVIOUS
  <2>2. /\ s[q].k \in Kinds /\ s[q].id \in Int /\ s[q].d + by \in Int /\ s[q].id2 \in Int
        /\ s[q] = [k |-> s[q].k, d |-> s[q].d, id |-> s[q].id, id2 |-> s[q].id2]
    BY <2>1 DEF LogNode
  <2>3. [s[q] EXCEPT !.d = @ + by]
        = [k |-> s[q].k, d |-> s[q].d + by, id |-> s[q].id, id2 |-> s[q].id2]
    BY <2>2
  <2>4. [s[q] EXCEPT !.d = @ + by] \in LogNode
    BY <2>2, <2>3 DEF LogNode
  <2>5. QED
    BY <2>1, <2>3, <2>4 DEF Sort
<1>3. t = [q \in 1 .. n |-> [s[q] EXCEPT !.d = @ + by]]
  BY DEF Shifted
<1>4. t \in Seq(LogNode) /\ Len(t) = n
  BY <1>1, <1>2, <1>3
<1>5. \A q \in 1 .. n : s[q] \in P <=> t[q + 0] \in P
  BY <1>2, <1>3
<1> HIDE DEF t, n, P
<1>6. Agree(s, t, 1, n, 0, P)
  BY <1>5 DEF Agree
<1>7. Number(s, 1, n, P) = Number(t, 1 + 0, n + 0, P)
  BY <1>1, <1>6, NumberMoved
<1>8. Number(s, 1, n, P) = Number(t, 1, n, P)
  BY <1>1, <1>7
<1>9. QED
  BY <1>4, <1>8 DEF Count, t, n, P

(* What an extraction leaves of the list: as many nodes of a sort as there *)
(* were outside of it, unless they are end tags.                           *)
IsLeft(r, s, i, j, type, P) ==
  /\ r \in Seq(LogNode)
  /\ Len(r) >= i /\ Len(r) <= Len(s) + 1 - (j - i)
  /\ \A q \in 1 .. i : r[q] = s[q]
  /\ s[j].k # EndTag[type] => Len(r) >= i + 1 /\ r[i + 1] = s[j]
  /\ Count(r, P) = Number(s, 1, i, P) + Number(s, j, Len(s), P)

LEMMA RestIs ==
  ASSUME NEW s \in Seq(LogNode), NEW i \in 1 .. Len(s), NEW j \in i + 1 .. Len(s),
         NEW type \in {"math", "display"}, NEW K, NEW I, EndTag[type] \notin K
  PROVE  IsLeft(Rest(s, i, j, type), s, i, j, type, Sort(K, I))
<1> DEFINE n == Len(s)
           P == Sort(K, I)
           E == EndTags(s, j, type)
           t == Removed(s, E)
           m == Len(t)
           u == SubSeq(t, 1, i)
           v == SubSeq(t, j, m)
<1>1. n \in Nat /\ i \in 1 .. n /\ j \in i + 1 .. n
  OBVIOUS
<1>2. E \in SUBSET (j .. n) /\ \A q \in E : s[q].k = EndTag[type]
  BY <1>1 DEF EndTags, Following
<1>3. /\ t \in Seq(LogNode) /\ m \in n - 1 .. n
      /\ \A q \in 1 .. j - 1 : t[q] = s[q]
      /\ Count(t, P) = Count(s, P)
      /\ s[j].k # EndTag[type] => m >= j /\ t[j] = s[j]
  <2>1. CASE E = {}
    <3>1. t = s
      BY <2>1 DEF Removed
    <3>2. QED
      BY <3>1, <1>1
  <2>2. CASE E # {}
    <3> DEFINE p == Least(E)
    <3>1. p \in E
      <4>1. E \in SUBSET Nat
        BY <1>1, <1>2
      <4> HIDE DEF E
      <4>2. QED
        BY <4>1, <2>2, LeastIsFirst
    <3>2. p \in j .. n /\ s[p].k = EndTag[type]
      BY <3>1, <1>2
    <3>3. t = Unlink(s, p)
      BY <2>2 DEF Removed
    <3> HIDE DEF p, t, E
    <3>4. p \in 1 .. n /\ s \in Seq(LogNode)
      BY <1>1, <3>2
    <3>5. s[p] \notin P
      BY <3>2 DEF Sort
    <3>6. /\ Unlink(s, p) \in Seq(LogNode) /\ Len(Unlink(s, p)) = n - 1
          /\ \A q \in 1 .. p - 1 : Unlink(s, p)[q] = s[q]
      BY <3>4, UnlinkIs
    <3>7. Count(Unlink(s, p), P) = Count(s, P) - (IF s[p] \in P THEN 1 ELSE 0)
      <4> HIDE DEF P
      <4>1. QED
        BY <3>4, UnlinkCount
    <3>8. Count(s, P) \in Nat
      BY <1>1, WithinFinite DEF Count
    <3> HIDE DEF P
    <3>9. Count(Unlink(s, p), P) = Count(s, P)
      BY <3>5, <3>7, <3>8
    <3>10. \A q \in 1 .. j - 1 : Unlink(s, p)[q] = s[q]
      BY <1>1, <3>2, <3>6
    <3>11. s[j].k # EndTag[type] => p # j
      BY <3>2
    <3>12. p # j => n - 1 >= j /\ Unlink(s, p)[j] = s[j]
      <4> SUFFICES ASSUME p # j PROVE n - 1 >= j /\ Unlink(s, p)[j] = s[j]
        OBVIOUS
      <4>1. j \in 1 .. p - 1 /\ n - 1 >= j
        BY <1>1, <3>2
      <4>2. QED
        BY <4>1, <3>6
    <3>13. QED
      BY <1>1, <3>3, <3>6, <3>9, <3>10, <3>11, <3>12
  <2>3. QED
    BY <2>1, <2>2
<1>4. Rest(s, i, j, type) = u \o v
  BY DEF Rest
<1> HIDE DEF t, E, n, P
<1>5. m \in Nat /\ i <= m /\ j <= m + 1
  BY <1>1, <1>3
<1>6. u \in Seq(LogNode) /\ Len(u) = i /\ \A q \in 1 .. i : u[q] = t[q]
  BY <1>1, <1>3, <1>5
<1>7. v \in Seq(LogNode) /\ Len(v) = m + 1 - j /\ (m >= j => v[1] = t[j])
  BY <1>1, <1>3, <1>5
<1>8. Count(u, P) = Number(t, 1, i, P)
  BY <1>1, <1>3, <1>5, CountSub
<1>9. Count(v, P) = Number(t, j, m, P)
  BY <1>1, <1>3, <1>5, CountSub
<1> HIDE DEF u, v, m
<1>10. Count(u \o v, P) = Count(u, P) + Count(v, P)
  BY <1>6, <1>7, CountJoined
<1>11. Number(t, 1, i, P) = Number(s, 1, i, P)
  <2>1. \A q \in 1 .. i : t[q] = s[q]
    BY <1>1, <1>3
  <2>2. QED
    BY <1>1, <2>1, NumberSame
<1>12. Number(t, j, m, P) = Number(s, j, n, P)
  <2> DEFINE h == j - 1
  <2>1. h \in Int /\ 1 <= h + 1 /\ h <= m /\ h <= n /\ n \in Int /\ m \in Int /\ h + 1 = j
    BY <1>1, <1>5
  <2>2. \A q \in 1 .. h : t[q] = s[q]
    BY <1>3
  <2> HIDE DEF h
  <2>3. Number(t, 1, m, P) = Number(t, 1, h, P) + Number(t, h + 1, m, P)
    BY <2>1, NumberSplit
  <2>4. Number(s, 1, n, P) = Number(s, 1, h, P) + Number(s, h + 1, n, P)
    BY <2>1, NumberSplit
  <2>5. Number(t, 1, h, P) = Number(s, 1, h, P)
    BY <2>1, <2>2, NumberSame
  <2>6. Number(t, 1, m, P) = Number(s, 1, n, P)
    BY <1>3 DEF Count, m, n
  <2>7. /\ Number(t, 1, h, P) \in Nat /\ Number(t, h + 1, m, P) \in Nat
        /\ Number(s, h + 1, n, P) \in Nat
    BY <2>1, WithinFinite
  <2>8. QED
    BY <2>1, <2>3, <2>4, <2>5, <2>6, <2>7
<1>13. u \o v \in Seq(LogNode) /\ Len(u \o v) = Len(u) + Len(v)
  BY <1>6, <1>7, JoinIs
<1>14. \A q \in 1 .. i : (u \o v)[q] = s[q]
  <2>1. \A q \in 1 .. Len(u) : (u \o v)[q] = u[q]
    BY <1>6, <1>7, JoinIs
  <2>2. QED
    BY <1>1, <1>3, <1>6, <2>1
<1>15. m >= j => Len(u \o v) >= i + 1 /\ (u \o v)[i + 1] = t[j]
  <2> SUFFICES ASSUME m >= j PROVE Len(u \o v) >= i + 1 /\ (u \o v)[i + 1] = t[j]
    OBVIOUS
  <2>1. Len(v) >= 1 /\ v[1] = t[j] /\ Len(v) \in Nat
    BY <1>1, <1>5, <1>7
  <2>2. (u \o v)[i + 1] = v[1]
    BY <1>1, <1>6, <1>7, <2>1
  <2>3. QED
    BY <1>1, <1>6, <1>13, <2>1, <2>2
<1>16. Len(u \o v) >= i /\ Len(u \o v) <= n + 1 - (j - i)
  BY <1>1, <1>3, <1>5, <1>6, <1>7, <1>13
<1>17. s[j].k # EndTag[type] => Len(u \o v) >= i + 1 /\ (u \o v)[i + 1] = s[j]
  BY <1>3, <1>15 DEF m
<1>18. QED
  BY <1>4, <1>8, <1>9, <1>10, <1>11, <1>12, <1>13, <1>14, <1>16, <1>17 DEF n, P, IsLeft

(* What it takes: as many as there were between the ends, unless they are  *)
(* begin tags or what the expression is named.                             *)
LEMMA ExpressionIs ==
  ASSUME NEW s \in Seq(LogNode), NEW i \in 1 .. Len(s), NEW j \in i + 1 .. Len(s),
         NEW k \in Kinds, NEW d \in Int, NEW type \in {"math", "display"}, NEW K, NEW I,
         k \notin K, BeginTag[type] \notin K
  PROVE  /\ Expression(k, d, s, i, j, type) \in Seq(LogNode)
         /\ Count(Expression(k, d, s, i, j, type), Sort(K, I)) = Number(s, i + 1, j - 1, Sort(K, I))
<1> DEFINE n == Len(s)
           P == Sort(K, I)
           body == Between(s, i, j)
           B == BeginTags(body, type)
           R == Removed(body, B)
           id == IdAt(body, B)
           id2 == IdAt(s, EndTags(s, j, type))
           h == [k |-> k, d |-> d, id |-> id, id2 |-> id2]
           by == d + 1 - s[i].d
<1>1. n \in Nat /\ i \in 1 .. n /\ j \in i + 1 .. n
  OBVIOUS
<1>2. body \in Seq(LogNode) /\ Count(body, P) = Number(s, i + 1, j - 1, P)
  <2>1. 1 <= i + 1 /\ i + 1 <= j - 1 + 1 /\ j - 1 <= n /\ i + 1 \in Int /\ j - 1 \in Int
    BY <1>1
  <2>2. SubSeq(s, i + 1, j - 1) \in Seq(LogNode)
    BY <2>1
  <2> HIDE DEF P
  <2>3. Count(SubSeq(s, i + 1, j - 1), P) = Number(s, i + 1, j - 1, P)
    BY <2>1, CountSub
  <2>4. QED
    BY <2>2, <2>3 DEF Between
<1> HIDE DEF body
<1>3. B \in SUBSET (1 .. Len(body)) /\ \A q \in B : body[q].k = BeginTag[type]
  BY DEF BeginTags
<1>4. R \in Seq(LogNode) /\ Count(R, P) = Count(body, P)
  <2>1. CASE B = {}
    BY <2>1, <1>2 DEF Removed
  <2>2. CASE B # {}
    <3> DEFINE p == Least(B)
    <3>1. p \in B
      <4>1. B \in SUBSET Nat
        BY <1>2, <1>3
      <4> HIDE DEF B
      <4>2. QED
        BY <4>1, <2>2, LeastIsFirst
    <3>2. p \in 1 .. Len(body) /\ body[p].k = BeginTag[type]
      BY <3>1, <1>3
    <3>3. R = Unlink(body, p)
      BY <2>2 DEF Removed
    <3> HIDE DEF p, R, B
    <3>4. body[p] \notin P
      BY <3>2 DEF Sort
    <3>5. Unlink(body, p) \in Seq(LogNode)
      BY <1>2, <3>2, UnlinkIs
    <3> HIDE DEF P
    <3>6. Count(Unlink(body, p), P) = Count(body, P) - (IF body[p] \in P THEN 1 ELSE 0)
      BY <1>2, <3>2, UnlinkCount
    <3>7. Count(body, P) \in Nat
      <4>1. Len(body) \in Int
        BY <1>2
      <4>2. QED
        BY <4>1, WithinFinite DEF Count
    <3>8. QED
      BY <3>3, <3>4, <3>5, <3>6, <3>7
  <2>3. QED
    BY <2>1, <2>2
<1>5. id \in Int
  <2>1. CASE B = {}
    BY <2>1 DEF IdAt, None
  <2>2. CASE B # {}
    <3>1. Least(B) \in B
      <4>1. B \in SUBSET Nat
        BY <1>2, <1>3
      <4> HIDE DEF B
      <4>2. QED
        BY <4>1, <2>2, LeastIsFirst
    <3>2. body[Least(B)] \in LogNode
      BY <1>2, <1>3, <3>1
    <3> HIDE DEF B
    <3>3. QED
      BY <2>2, <3>2 DEF IdAt, LogNode
  <2>3. QED
    BY <2>1, <2>2
<1>6. id2 \in Int
  <2> DEFINE E == EndTags(s, j, type)
  <2>0. E \in SUBSET (1 .. n)
    BY <1>1 DEF EndTags, Following
  <2>1. CASE E = {}
    BY <2>1 DEF IdAt, None
  <2>2. CASE E # {}
    <3>1. Least(E) \in E
      <4>1. E \in SUBSET Nat
        BY <1>1, <2>0
      <4> HIDE DEF E
      <4>2. QED
        BY <4>1, <2>2, LeastIsFirst
    <3>2. s[Least(E)] \in LogNode
      BY <1>1, <2>0, <3>1
    <3> HIDE DEF E
    <3>3. QED
      BY <2>2, <3>2 DEF IdAt, LogNode, E
  <2>3. QED
    BY <2>1, <2>2
<1>7. by \in Int
  <2>1. s[i] \in LogNode
    BY <1>1
  <2>2. s[i].d \in Int
    BY <2>1 DEF LogNode
  <2>3. QED
    BY <2>2
<1>8. h \in LogNode /\ h \notin P
  <2> HIDE DEF id, id2
  <2>1. QED
    BY <1>5, <1>6 DEF LogNode, Sort
<1>9. Expression(k, d, s, i, j, type) = <<h>> \o Shifted(R, by)
  BY DEF Expression, body
<1> HIDE DEF h, R, by, id, id2, B
<1>10. /\ Shifted(R, by) \in Seq(LogNode)
       /\ Count(Shifted(R, by), P) = Count(R, P)
  BY <1>4, <1>7, ShiftedIs
<1>11. <<h>> \in Seq(LogNode) /\ Count(<<h>>, P) = 0
  <2>1. <<h>> \in Seq(LogNode) /\ Len(<<h>>) = 1 /\ <<h>>[1] = h
    BY <1>8
  <2>2. Number(<<h>>, 1, 1, P) = 0
    BY <1>8, <2>1, NumberOne
  <2>3. QED
    BY <2>1, <2>2 DEF Count
<1> DEFINE t == Shifted(R, by)
           g == <<h>>
<1>12. g \in Seq(LogNode) /\ t \in Seq(LogNode) /\ Count(g, P) = 0 /\ Count(t, P) = Count(R, P)
  BY <1>10, <1>11
<1>13. Expression(k, d, s, i, j, type) = g \o t
  BY <1>9
<1> HIDE DEF t, g, P
<1>14. Count(g \o t, P) = Count(g, P) + Count(t, P) /\ g \o t \in Seq(LogNode)
  BY <1>12, CountJoined, JoinIs
<1>15. Count(t, P) \in Nat
  <2>1. Len(t) \in Int
    BY <1>12
  <2>2. QED
    BY <2>1, WithinFinite DEF Count
<1>16. Count(g \o t, P) = Number(s, i + 1, j - 1, P)
  BY <1>2, <1>4, <1>12, <1>14, <1>15
<1>17. QED
  BY <1>13, <1>14, <1>16 DEF P

C(f) == Sort({"char"}, {f})
T    == Sort({"begin(math)"}, Int)

LEMMA Extracted ==
  ASSUME NEW s \in Seq(LogNode), NEW i \in 1 .. Len(s), NEW j \in i + 1 .. Len(s),
         NEW k \in {"math", "mrow"}, NEW d \in Int, NEW type \in {"math", "display"}
  PROVE  /\ Expression(k, d, s, i, j, type) \in Seq(LogNode)
         /\ Rest(s, i, j, type) \in Seq(LogNode)
         /\ Len(Rest(s, i, j, type)) >= i /\ Len(Rest(s, i, j, type)) <= Len(s)
         /\ \A f : Count(Rest(s, i, j, type), C(f)) + Count(Expression(k, d, s, i, j, type), C(f))
                   = Count(s, C(f))
         /\ Count(Rest(s, i, j, type), T) + Number(s, i + 1, j - 1, T) = Count(s, T)
<1> DEFINE n == Len(s)
           r == Rest(s, i, j, type)
           e == Expression(k, d, s, i, j, type)
<1>1. n \in Nat /\ i \in 1 .. n /\ j \in i + 1 .. n /\ k \in Kinds
  BY DEF Kinds
<1>2. /\ EndTag[type] \notin {"char"} /\ EndTag[type] \notin {"begin(math)"}
      /\ BeginTag[type] \notin {"char"} /\ k \notin {"char"}
  BY DEF EndTag, BeginTag
<1>a. \A K, I : EndTag[type] \notin K =>
        /\ r \in Seq(LogNode) /\ Len(r) >= i /\ Len(r) <= n + 1 - (j - i)
        /\ Count(r, Sort(K, I)) = Number(s, 1, i, Sort(K, I)) + Number(s, j, n, Sort(K, I))
  <2> SUFFICES ASSUME NEW K, NEW I, EndTag[type] \notin K
               PROVE  /\ r \in Seq(LogNode) /\ Len(r) >= i /\ Len(r) <= n + 1 - (j - i)
                      /\ Count(r, Sort(K, I)) = Number(s, 1, i, Sort(K, I)) + Number(s, j, n, Sort(K, I))
    OBVIOUS
  <2>1. IsLeft(r, s, i, j, type, Sort(K, I))
    BY RestIs
  <2>2. QED
    BY <2>1 DEF IsLeft
<1>b. \A K, I : k \notin K /\ BeginTag[type] \notin K =>
        e \in Seq(LogNode) /\ Count(e, Sort(K, I)) = Number(s, i + 1, j - 1, Sort(K, I))
  <2> SUFFICES ASSUME NEW K, NEW I, k \notin K, BeginTag[type] \notin K
               PROVE  e \in Seq(LogNode) /\ Count(e, Sort(K, I)) = Number(s, i + 1, j - 1, Sort(K, I))
    OBVIOUS
  <2>1. QED
    BY <1>1, ExpressionIs
<1> HIDE DEF r, e, n
<1>3. /\ r \in Seq(LogNode) /\ Len(r) >= i /\ Len(r) <= n + 1 - (j - i)
      /\ \A f : Count(r, C(f)) = Number(s, 1, i, C(f)) + Number(s, j, n, C(f))
  BY <1>2, <1>a DEF C
<1>4. Count(r, T) = Number(s, 1, i, T) + Number(s, j, n, T)
  BY <1>2, <1>a DEF T
<1>5. /\ e \in Seq(LogNode)
      /\ \A f : Count(e, C(f)) = Number(s, i + 1, j - 1, C(f))
  BY <1>2, <1>b DEF C
<1>6. \A P : /\ Count(s, P) = Number(s, 1, i, P) + Number(s, i + 1, j - 1, P) + Number(s, j, n, P)
             /\ Number(s, 1, i, P) \in Nat /\ Number(s, i + 1, j - 1, P) \in Nat
             /\ Number(s, j, n, P) \in Nat
  <2> TAKE P
  <2> DEFINE h == j - 1
             g == i + 1
  <2>0. Count(s, P) = Number(s, 1, n, P)
    BY DEF Count, n
  <2>1. /\ h \in Int /\ g \in Int /\ n \in Int /\ i \in Int /\ h + 1 = j /\ g = i + 1
        /\ i <= n /\ g <= h + 1 /\ h <= n /\ 1 <= i + 1
    BY <1>1
  <2> HIDE DEF h, g, n
  <2>2. Number(s, 1, n, P) = Number(s, 1, i, P) + Number(s, i + 1, n, P)
    BY <2>1, NumberSplit
  <2>3. Number(s, g, n, P) = Number(s, g, h, P) + Number(s, h + 1, n, P)
    BY <2>1, NumberSplit
  <2>4. /\ Number(s, 1, i, P) \in Nat /\ Number(s, g, h, P) \in Nat /\ Number(s, j, n, P) \in Nat
    BY <2>1, WithinFinite
  <2>5. QED
    BY <2>0, <2>1, <2>2, <2>3, <2>4 DEF g, h
<1>7. \A f : Count(r, C(f)) + Count(e, C(f)) = Count(s, C(f))
  BY <1>3, <1>5, <1>6
<1>8. Count(r, T) + Number(s, i + 1, j - 1, T) = Count(s, T)
  BY <1>4, <1>6
<1>9. Len(r) <= n
  <2>1. Len(r) \in Nat
    BY <1>3
  <2>2. QED
    BY <1>1, <1>3, <2>1
<1>10. QED
  BY <1>3, <1>5, <1>7, <1>8, <1>9 DEF r, e, n

(* Where the nodes that were the ends are afterwards. *)
LEMMA RestEnds ==
  ASSUME NEW s \in Seq(LogNode), NEW i \in 1 .. Len(s), NEW j \in i + 1 .. Len(s),
         NEW type \in {"math", "display"}, s[j].k # EndTag[type]
  PROVE  LET r == Rest(s, i, j, type)
         IN  Len(r) >= i + 1 /\ r[i] = s[i] /\ r[i + 1] = s[j]
<1> DEFINE r == Rest(s, i, j, type)
<1>1. EndTag[type] \notin {} /\ i \in 1 .. i
  OBVIOUS
<1>2. IsLeft(r, s, i, j, type, Sort({}, {}))
  BY <1>1, RestIs
<1> HIDE DEF r
<1>3. QED
  BY <1>1, <1>2 DEF IsLeft, r

LEMMA WithMathOnIs ==
  ASSUME NEW s \in Seq(LogNode), NEW i \in 1 .. Len(s)
  PROVE  /\ WithMathOn(s, i) \in Seq(LogNode)
         /\ Len(WithMathOn(s, i)) = Len(s) + 1 /\ WithMathOn(s, i)[i + 1] = s[i]
         /\ \A f : Count(WithMathOn(s, i), C(f)) = Count(s, C(f))
         /\ Count(WithMathOn(s, i), T) = Count(s, T)
<1> DEFINE n == Len(s)
           u == SubSeq(s, 1, i - 1)
           m == Node("mathon", s[i].d)
           v == SubSeq(s, i, n)
           w == <<m>>
<1>1. n \in Nat /\ i \in 1 .. n
  OBVIOUS
<1>2. m \in LogNode /\ m.k = "mathon"
  <2>1. s[i] \in LogNode
    OBVIOUS
  <2>2. s[i].d \in Int
    BY <2>1 DEF LogNode
  <2>3. QED
    BY <2>2, NodeType, KindsAre DEF Node
<1>3. u \in Seq(LogNode) /\ Len(u) = i - 1 /\ v \in Seq(LogNode) /\ Len(v) = n + 1 - i /\ v[1] = s[i]
  BY <1>1
<1> HIDE DEF m
<1>4. w \in Seq(LogNode) /\ Len(w) = 1 /\ w[1] = m
  BY <1>2
<1>5. WithMathOn(s, i) = u \o w \o v
  BY DEF WithMathOn, m
<1>6. \A P : /\ Count(u, P) = Number(s, 1, i - 1, P) /\ Count(v, P) = Number(s, i, n, P)
             /\ Count(u, P) \in Nat /\ Count(v, P) \in Nat
             /\ Count(s, P) = Count(u, P) + Count(v, P)
  <2> TAKE P
  <2> DEFINE h == i - 1
  <2>1. h \in Int /\ n \in Int /\ 1 <= h + 1 /\ h <= n /\ h + 1 = i /\ i <= n + 1 /\ n <= Len(s)
    BY <1>1
  <2>2. Count(v, P) = Number(s, i, n, P)
    BY <2>1, CountSub
  <2> HIDE DEF h, n
  <2>3. Count(SubSeq(s, 1, h), P) = Number(s, 1, h, P)
    BY <2>1, CountSub
  <2>4. Number(s, 1, n, P) = Number(s, 1, h, P) + Number(s, h + 1, n, P)
    BY <2>1, NumberSplit
  <2>5. Number(s, 1, h, P) \in Nat /\ Number(s, h + 1, n, P) \in Nat
    BY <2>1, WithinFinite
  <2>6. Count(s, P) = Number(s, 1, n, P)
    BY DEF Count, n
  <2>7. QED
    BY <2>1, <2>2, <2>3, <2>4, <2>5, <2>6 DEF h
<1> HIDE DEF u, v, w, n
<1>7. u \o w \in Seq(LogNode) /\ Len(u \o w) = i
  <2>1. u \o w \in Seq(LogNode) /\ Len(u \o w) = Len(u) + Len(w)
    BY <1>3, <1>4, JoinIs
  <2>2. QED
    BY <1>1, <1>3, <1>4, <2>1
<1>8. u \o w \o v \in Seq(LogNode) /\ Len(u \o w \o v) = n + 1
  <2>1. u \o w \o v \in Seq(LogNode) /\ Len(u \o w \o v) = Len(u \o w) + Len(v)
    BY <1>3, <1>7, JoinIs
  <2>2. QED
    BY <1>1, <1>3, <1>7, <2>1
<1>9. (u \o w \o v)[i + 1] = v[1]
  <2> DEFINE x == u \o w
  <2>1. x \in Seq(LogNode) /\ Len(x) = i /\ Len(v) \in Nat /\ Len(v) >= 1
    BY <1>1, <1>3, <1>7
  <2> HIDE DEF x
  <2>2. (x \o v)[i + 1] = v[1]
    BY <1>1, <1>3, <2>1
  <2>3. QED
    BY <2>2 DEF x
<1>10. \A P : m \notin P => Count(u \o w \o v, P) = Count(s, P)
  <2> SUFFICES ASSUME NEW P, m \notin P PROVE Count(u \o w \o v, P) = Count(s, P)
    OBVIOUS
  <2>1. Count(w, P) = 0
    BY <1>4, NumberOne DEF Count
  <2>2. Count(u \o w, P) = Count(u, P) + Count(w, P)
    BY <1>3, <1>4, CountJoined
  <2>3. Count(u \o w \o v, P) = Count(u \o w, P) + Count(v, P)
    BY <1>3, <1>7, CountJoined
  <2>4. QED
    BY <1>6, <2>1, <2>2, <2>3
<1>11. m \notin T /\ \A f : m \notin C(f)
  BY <1>2 DEF T, C, Sort
<1>12. QED
  BY <1>3, <1>5, <1>8, <1>9, <1>10, <1>11 DEF n

----------------------------------------------------------------------------
(* The steps of the passes: what they keep, and what runs out. *)

LEMMA CharsAre ==
  ASSUME NEW s \in Seq(LogNode), NEW f
  PROVE  Cardinality(CharsOf(s, f)) = Count(s, C(f)) /\ Count(s, C(f)) \in Nat
<1>1. \A q \in 1 .. Len(s) : s[q] \in LogNode
  OBVIOUS
<1>2. CharsOf(s, f) = Within(s, 1, Len(s), C(f))
  BY <1>1 DEF CharsOf, Within, C, Sort
<1>3. Len(s) \in Int
  OBVIOUS
<1>4. QED
  BY <1>2, <1>3, WithinFinite DEF Count, Number

LEMMA TagsAre ==
  ASSUME NEW s \in Seq(LogNode)
  PROVE  Cardinality(BeginTags(s, "math")) = Count(s, T) /\ Count(s, T) \in Nat
<1>1. \A q \in 1 .. Len(s) : s[q] \in LogNode /\ s[q].id \in Int
  <2> TAKE q \in 1 .. Len(s)
  <2>1. s[q] \in LogNode
    OBVIOUS
  <2>2. QED
    BY <2>1 DEF LogNode
<1>2. BeginTag["math"] = "begin(math)"
  BY DEF BeginTag
<1>3. BeginTags(s, "math") = Within(s, 1, Len(s), T)
  BY <1>1, <1>2 DEF BeginTags, Within, T, Sort
<1>4. Len(s) \in Int
  OBVIOUS
<1>5. QED
  BY <1>3, <1>4, WithinFinite DEF Count, Number

LEMMA LessIs ==
  ASSUME NEW a1 \in Int, NEW a2 \in Int, NEW a3 \in Int,
         NEW b1 \in Int, NEW b2 \in Int, NEW b3 \in Int,
         a1 < b1 \/ (a1 = b1 /\ a2 < b2) \/ (a1 = b1 /\ a2 = b2 /\ a3 < b3)
  PROVE  Less(<<a1, a2, a3>>, <<b1, b2, b3>>)
<1>1. CASE a1 < b1
  <2>1. 1 \in 1 .. 3 /\ \A j \in 1 .. 1 - 1 : <<a1, a2, a3>>[j] = <<b1, b2, b3>>[j]
    OBVIOUS
  <2>2. <<a1, a2, a3>>[1] < <<b1, b2, b3>>[1]
    BY <1>1
  <2>3. QED
    BY <2>1, <2>2 DEF Less
<1>2. CASE a1 = b1 /\ a2 < b2
  <2>1. 2 \in 1 .. 3 /\ \A j \in 1 .. 2 - 1 : <<a1, a2, a3>>[j] = <<b1, b2, b3>>[j]
    BY <1>2
  <2>2. <<a1, a2, a3>>[2] < <<b1, b2, b3>>[2]
    BY <1>2
  <2>3. QED
    BY <2>1, <2>2 DEF Less
<1>3. CASE a1 = b1 /\ a2 = b2 /\ a3 < b3
  <2>1. 3 \in 1 .. 3 /\ \A j \in 1 .. 3 - 1 : <<a1, a2, a3>>[j] = <<b1, b2, b3>>[j]
    BY <1>3
  <2>2. <<a1, a2, a3>>[3] < <<b1, b2, b3>>[3]
    BY <1>3
  <2>3. QED
    BY <2>1, <2>2 DEF Less
<1>4. QED
  BY <1>1, <1>2, <1>3

LEMMA RankIs ==
  /\ Rank["display"] = 6 /\ Rank["inline"] = 5 /\ Rank["special"] = 4
  /\ Rank["transform"] = 3 /\ Rank["replace"] = 2 /\ Rank["done"] = 1 /\ Rank["exit"] = 0
BY DEF Rank

(* The measure by its parts. *)
Tags == Count(log, T)
Left == IF Rank[pc] > 3 THEN Len(log) + 1 - cursor
        ELSE IF pc = "transform" THEN Len(mathdoc) + 1 - cursor
        ELSE Cardinality(todo)

ToDoFits == ToDo = <<Rank[pc], Tags, Left>> /\ Rank[pc] \in Nat /\ Tags \in Nat /\ Left \in Nat

LEMMA ToDoIs == IInv => ToDoFits
<1> SUFFICES ASSUME IInv PROVE ToDoFits
  OBVIOUS
<1>1. Rank[pc] \in Nat /\ (Rank[pc] > 3 => pc \in {"display", "inline", "special"})
  BY RankIs DEF IInv, Passes
<1>2. Cardinality(BeginTags(log, "math")) = Tags /\ Tags \in Nat
  BY TagsAre DEF IInv, Tags
<1>3. Cardinality(todo) \in Nat
  BY FS_CardinalityType DEF IInv
<1>4. Len(log) \in Nat /\ Len(mathdoc) \in Nat /\ cursor \in Nat
  BY DEF IInv
<1>5. Left \in Nat
  BY <1>1, <1>3, <1>4 DEF Left, IInv
<1>6. QED
  BY <1>1, <1>2, <1>5 DEF ToDo, Left, ToDoFits

LEMMA Decreases ==
  ASSUME IInv, IInv',
         \/ Rank[pc'] < Rank[pc]
         \/ pc' = pc /\ Tags' < Tags
         \/ pc' = pc /\ Tags' = Tags /\ Left' < Left
  PROVE  Less(ToDo', ToDo)
<1>1. ToDo = <<Rank[pc], Tags, Left>> /\ Rank[pc] \in Nat /\ Tags \in Nat /\ Left \in Nat
  BY ToDoIs DEF ToDoFits
<1>a. ToDoFits'
  BY ToDoIs, PTL
<1>2. ToDo' = <<Rank[pc'], Tags', Left'>> /\ Rank[pc'] \in Nat /\ Tags' \in Nat /\ Left' \in Nat
  BY <1>a DEF ToDoFits
<1> DEFINE a1 == Rank[pc']  a2 == Tags'  a3 == Left'
           b1 == Rank[pc]   b2 == Tags   b3 == Left
<1>3. /\ a1 \in Int /\ a2 \in Int /\ a3 \in Int /\ b1 \in Int /\ b2 \in Int /\ b3 \in Int
  BY <1>1, <1>2
<1>4. a1 < b1 \/ (a1 = b1 /\ a2 < b2) \/ (a1 = b1 /\ a2 = b2 /\ a3 < b3)
  OBVIOUS
<1> HIDE DEF a1, a2, a3, b1, b2, b3
<1>5. Less(<<a1, a2, a3>>, <<b1, b2, b3>>)
  BY <1>3, <1>4, LessIs
<1>6. QED
  BY <1>1, <1>2, <1>5 DEF a1, a2, a3, b1, b2, b3

NumbersKept == \A f : NumberOf(f)' = NumberOf(f)

LEMMA Unmoved ==
  ASSUME UNCHANGED <<log, mathdoc>>
  PROVE  NumbersKept /\ Tags' = Tags
<1>2. NumbersKept
  <2> SUFFICES ASSUME NEW f PROVE NumberOf(f)' = NumberOf(f)
    BY DEF NumbersKept
  <2>1. QED
    BY DEF NumberOf, CharsOf
<1>3. Tags' = Tags
  BY DEF Tags
<1>4. QED
  BY <1>2, <1>3

LEMMA ExtractExprMoves ==
  ASSUME NEW s \in Seq(LogNode), NEW i \in 1 .. Len(s), NEW j \in i + 1 .. Len(s),
         NEW type \in {"math", "display"}, IInv, ExtractExpr(s, i, j, type)
  PROVE  /\ log' \in Seq(LogNode) /\ mathdoc' \in Seq(LogNode)
         /\ Len(log') >= i /\ Len(log') <= Len(s)
         /\ (\A f : Count(s, C(f)) = Count(log, C(f))) => NumbersKept
         /\ Tags' + Number(s, i + 1, j - 1, T) = Count(s, T)
<1> DEFINE e == Expression("math", 0, s, i, j, type)
           r == Rest(s, i, j, type)
<1>1. /\ e \in Seq(LogNode) /\ r \in Seq(LogNode) /\ Len(r) >= i /\ Len(r) <= Len(s)
      /\ \A f : Count(r, C(f)) + Count(e, C(f)) = Count(s, C(f))
      /\ Count(r, T) + Number(s, i + 1, j - 1, T) = Count(s, T)
  <2> DEFINE k == "math"
             d == 0
  <2>1. k \in {"math", "mrow"} /\ d \in Int
    OBVIOUS
  <2> HIDE DEF k, d
  <2>2. /\ Expression(k, d, s, i, j, type) \in Seq(LogNode)
        /\ \A f : Count(r, C(f)) + Count(Expression(k, d, s, i, j, type), C(f)) = Count(s, C(f))
    BY <2>1, Extracted
  <2>3. /\ r \in Seq(LogNode) /\ Len(r) >= i /\ Len(r) <= Len(s)
        /\ Count(r, T) + Number(s, i + 1, j - 1, T) = Count(s, T)
    BY <2>1, Extracted
  <2>4. QED
    BY <2>2, <2>3 DEF k, d
<1>2. log' = r /\ mathdoc' = mathdoc \o e
  BY DEF ExtractExpr
<1>3. log \in Seq(LogNode) /\ mathdoc \in Seq(LogNode)
  BY DEF IInv
<1> HIDE DEF e, r
<1>4. mathdoc \o e \in Seq(LogNode)
  BY <1>1, <1>3, JoinIs
<1>5. (\A f : Count(s, C(f)) = Count(log, C(f))) => NumbersKept
  <2> SUFFICES ASSUME \A f : Count(s, C(f)) = Count(log, C(f)), NEW f
               PROVE  NumberOf(f)' = NumberOf(f)
    BY DEF NumbersKept
  <2>1. Count(mathdoc \o e, C(f)) = Count(mathdoc, C(f)) + Count(e, C(f))
    BY <1>1, <1>3, CountJoined
  <2>2. NumberOf(f) = Count(log, C(f)) + Count(mathdoc, C(f))
    BY <1>3, CharsAre DEF NumberOf
  <2>3. NumberOf(f)' = Count(r, C(f)) + Count(mathdoc \o e, C(f))
    <3>1. NumberOf(f)' = Cardinality(CharsOf(r, f)) + Cardinality(CharsOf(mathdoc \o e, f))
      BY <1>2 DEF NumberOf, CharsOf
    <3>2. QED
      BY <1>1, <1>4, <3>1, CharsAre
  <2>4. Count(r, C(f)) \in Nat /\ Count(e, C(f)) \in Nat /\ Count(mathdoc, C(f)) \in Nat
    BY <1>1, <1>3, CharsAre
  <2>5. QED
    BY <1>1, <2>1, <2>2, <2>3, <2>4
<1>6. Tags' = Count(r, T)
  BY <1>2 DEF Tags
<1>7. QED
  BY <1>1, <1>2, <1>4, <1>5, <1>6

LEMMA SiblingsAfter ==
  ASSUME NEW s \in Seq(LogNode), NEW i \in 1 .. Len(s), NEW S, S \subseteq Siblings(s, i), S # {}
  PROVE  Least(S) \in S /\ Least(S) \in i + 1 .. Len(s)
<1>1. S \subseteq i + 1 .. Len(s)
  BY DEF Siblings, Following
<1>2. S \in SUBSET Nat
  BY <1>1
<1>3. Least(S) \in S
  BY <1>2, LeastIsFirst
<1>4. QED
  BY <1>1, <1>3

LEMMA NumberNat ==
  ASSUME NEW s \in Seq(LogNode), NEW a \in Int, NEW b \in Int
  PROVE  Number(s, a, b, T) \in Nat
BY WithinFinite

LEMMA ExtractDisplayStep ==
  ASSUME IInv, ExtractDisplay
  PROVE  IInv' /\ NumbersKept /\ Less(ToDo', ToDo)
<1> DEFINE i == cursor + 2
           n == Len(log)
           S == DisplayEnds(log, i)
<1>1. /\ pc = "display" /\ cursor \in 1 .. n /\ n \in Nat /\ log \in Seq(LogNode)
      /\ pages' = pages /\ pc' = pc /\ todo' = todo
  BY DEF ExtractDisplay, Walks, IInv
<1>2. CASE GoOn
  <2>1. cursor' = cursor + 1 /\ log' = log /\ mathdoc' = mathdoc
    BY <1>2 DEF GoOn
  <2>2. IInv'
    BY <1>1, <2>1 DEF IInv
  <2>3. NumbersKept /\ Tags' = Tags
    BY <2>1, Unmoved
  <2>4. Left' < Left
    BY <1>1, <2>1, RankIs DEF Left
  <2>5. QED
    BY <1>1, <2>2, <2>3, <2>4, Decreases
<1>3. CASE /\ DisplayStarts(log, cursor) /\ S # {}
           /\ ExtractExpr(log, i, Least(S), "display") /\ cursor' = cursor + 3
  <2> DEFINE j == Least(S)
  <2>1. i \in 1 .. n
    <3>1. Len(<<"penalty(10000)", "abovedisplayskip", "baselineskip">>) = 3
      OBVIOUS
    <3>2. cursor + 3 - 1 <= Len(log)
      BY <1>3, <3>1 DEF DisplayStarts, Reads
    <3>3. QED
      BY <1>1, <3>2
  <2>2. j \in i + 1 .. n
    <3>1. S \subseteq Siblings(log, i)
      BY DEF DisplayEnds
    <3> HIDE DEF S, i
    <3>2. QED
      BY <1>1, <1>3, <2>1, <3>1, SiblingsAfter
  <2>3. /\ log' \in Seq(LogNode) /\ mathdoc' \in Seq(LogNode)
        /\ Len(log') >= i /\ Len(log') <= n
        /\ NumbersKept /\ Tags' + Number(log, i + 1, j - 1, T) = Tags
    <3> HIDE DEF S, i, j
    <3>1. ExtractExpr(log, i, j, "display")
      BY <1>3 DEF j
    <3>2. QED
      BY <1>1, <2>1, <2>2, <3>1, ExtractExprMoves DEF Tags
  <2>4. Len(log') \in Nat
    BY <2>3
  <2>5. Number(log, i + 1, j - 1, T) \in Nat
    <3>1. i + 1 \in Int /\ j - 1 \in Int
      BY <2>1, <2>2
    <3> HIDE DEF i, j
    <3>2. QED
      BY <1>1, <3>1, NumberNat
  <2> HIDE DEF j, S
  <2>6. IInv'
    BY <1>1, <1>3, <2>3, <2>4 DEF IInv
  <2>7. Left' < Left
    BY <1>1, <1>3, <2>3, <2>4, RankIs DEF Left
  <2>8. Tags' < Tags \/ Tags' = Tags
    <3>1. Tags' \in Nat /\ Tags \in Nat
      BY <1>1, <2>3, TagsAre DEF Tags
    <3>2. QED
      BY <2>3, <2>5, <3>1
  <2>9. Less(ToDo', ToDo)
    BY <1>1, <2>6, <2>7, <2>8, Decreases
  <2>10. QED
    BY <2>3, <2>6, <2>9
<1>4. QED
  BY <1>2, <1>3 DEF ExtractDisplay

LEMMA ExtractInlineStep ==
  ASSUME IInv, ExtractInline
  PROVE  IInv' /\ NumbersKept /\ Less(ToDo', ToDo)
<1> DEFINE i == cursor
           n == Len(log)
           S == MathOffs(log, i)
<1>1. /\ pc = "inline" /\ cursor \in 1 .. n /\ n \in Nat /\ log \in Seq(LogNode)
      /\ pages' = pages /\ pc' = pc /\ todo' = todo
  BY DEF ExtractInline, Walks, IInv
<1>2. CASE GoOn
  <2>1. cursor' = cursor + 1 /\ log' = log /\ mathdoc' = mathdoc
    BY <1>2 DEF GoOn
  <2>2. IInv'
    BY <1>1, <2>1 DEF IInv
  <2>3. NumbersKept /\ Tags' = Tags
    BY <2>1, Unmoved
  <2>4. Left' < Left
    BY <1>1, <2>1, RankIs DEF Left
  <2>5. QED
    BY <1>1, <2>2, <2>3, <2>4, Decreases
<1>3. CASE S # {} /\ ExtractExpr(log, i, Least(S), "math") /\ cursor' = cursor + 1
  <2> DEFINE j == Least(S)
  <2>1. i \in 1 .. n
    BY <1>1
  <2>2. j \in i + 1 .. n
    <3>1. S \subseteq Siblings(log, i)
      BY DEF MathOffs
    <3> HIDE DEF S, i
    <3>2. QED
      BY <1>1, <1>3, <2>1, <3>1, SiblingsAfter
  <2>3. /\ log' \in Seq(LogNode) /\ mathdoc' \in Seq(LogNode)
        /\ Len(log') >= i /\ Len(log') <= n
        /\ NumbersKept /\ Tags' + Number(log, i + 1, j - 1, T) = Tags
    <3> HIDE DEF S, i, j
    <3>1. ExtractExpr(log, i, j, "math")
      BY <1>3 DEF j
    <3>2. QED
      BY <1>1, <2>1, <2>2, <3>1, ExtractExprMoves DEF Tags
  <2>4. Len(log') \in Nat
    BY <2>3
  <2>5. Number(log, i + 1, j - 1, T) \in Nat
    <3>1. i + 1 \in Int /\ j - 1 \in Int
      BY <2>1, <2>2
    <3> HIDE DEF i, j
    <3>2. QED
      BY <1>1, <3>1, NumberNat
  <2> HIDE DEF j, S
  <2>6. IInv'
    BY <1>1, <1>3, <2>3, <2>4 DEF IInv
  <2>7. Left' < Left
    BY <1>1, <1>3, <2>3, <2>4, RankIs DEF Left
  <2>8. Tags' < Tags \/ Tags' = Tags
    <3>1. Tags' \in Nat /\ Tags \in Nat
      BY <1>1, <2>3, TagsAre DEF Tags
    <3>2. QED
      BY <2>3, <2>5, <3>1
  <2>9. Less(ToDo', ToDo)
    BY <1>1, <2>6, <2>7, <2>8, Decreases
  <2>10. QED
    BY <2>3, <2>6, <2>9
<1>4. QED
  BY <1>2, <1>3 DEF ExtractInline

LEMMA ExtractSpecialInlineStep ==
  ASSUME IInv, ExtractSpecialInline
  PROVE  IInv' /\ NumbersKept /\ Less(ToDo', ToDo)
<1> DEFINE n == Len(log)
           S == Starts(log, cursor)
           i == Greatest(S)
           s == WithMathOn(log, i)
           j == cursor + 1
<1>1. /\ pc = "special" /\ cursor \in 1 .. n /\ n \in Nat /\ log \in Seq(LogNode)
      /\ pages' = pages /\ pc' = pc /\ todo' = todo
  BY DEF ExtractSpecialInline, Walks, IInv
<1>2. CASE GoOn
  <2>1. cursor' = cursor + 1 /\ log' = log /\ mathdoc' = mathdoc
    BY <1>2 DEF GoOn
  <2>2. IInv'
    BY <1>1, <2>1 DEF IInv
  <2>3. NumbersKept /\ Tags' = Tags
    BY <2>1, Unmoved
  <2>4. Left' < Left
    BY <1>1, <2>1, RankIs DEF Left
  <2>5. QED
    BY <1>1, <2>2, <2>3, <2>4, Decreases
<1>3. CASE S # {} /\ ExtractExpr(s, i, j, "math") /\ cursor' = i
  <2>1. i \in 1 .. cursor - 1 /\ log[i].k = "begin(math)"
    <3>1. S \subseteq 1 .. cursor - 1 /\ \A p \in S : log[p].k = "begin(math)"
      BY DEF Starts, Preceding
    <3>2. cursor - 1 \in Nat
      BY <1>1
    <3>3. i \in S
      <4>1. S \in SUBSET (1 .. cursor - 1) /\ S # {}
        BY <1>3, <3>1
      <4> HIDE DEF S
      <4>2. QED
        BY <3>2, <4>1, GreatestIsLast
    <3>4. QED
      BY <3>1, <3>3
  <2> HIDE DEF i, S
  <2>2. i \in 1 .. n /\ log[i] \in LogNode
    BY <1>1, <2>1
  <2>3. /\ s \in Seq(LogNode) /\ Len(s) = n + 1 /\ s[i + 1] = log[i]
        /\ \A f : Count(s, C(f)) = Count(log, C(f))
        /\ Count(s, T) = Tags
    BY <1>1, <2>2, WithMathOnIs DEF Tags
  <2> HIDE DEF s
  <2>4. i \in 1 .. Len(s) /\ j \in i + 1 .. Len(s)
    BY <1>1, <2>1, <2>3
  <2>5. /\ log' \in Seq(LogNode) /\ mathdoc' \in Seq(LogNode)
        /\ Len(log') >= i /\ NumbersKept
        /\ Tags' + Number(s, i + 1, j - 1, T) = Tags
    <3> HIDE DEF j
    <3>1. QED
      BY <1>3, <2>3, <2>4, ExtractExprMoves
  <2>6. Number(s, i + 1, cursor, T) \in Nat /\ Number(s, i + 1, cursor, T) >= 1
    <3> DEFINE h == i + 1
    <3>1. h \in Int /\ h \in 1 .. cursor /\ cursor \in Int
      BY <1>1, <2>1
    <3>2. s[h] \in T
      <4>1. log[i].id \in Int
        BY <2>2 DEF LogNode
      <4>2. QED
        BY <2>1, <2>2, <2>3, <4>1 DEF T, Sort
    <3> HIDE DEF h
    <3>3. Number(s, h, cursor, T) = Number(s, h, h, T) + Number(s, h + 1, cursor, T)
      BY <3>1, NumberSplit
    <3>4. Number(s, h, h, T) = 1
      BY <3>1, <3>2, NumberOne
    <3>5. Number(s, h + 1, cursor, T) \in Nat
      BY <2>3, <3>1, NumberNat
    <3>6. QED
      BY <3>3, <3>4, <3>5 DEF h
  <2>7. Tags' < Tags
    <3>1. Tags' \in Nat
      BY <2>5, TagsAre DEF Tags
    <3>2. j - 1 = cursor
      BY <1>1
    <3>3. QED
      BY <2>5, <2>6, <3>1, <3>2
  <2>8. IInv'
    <3>1. Len(log') \in Nat
      BY <2>5
    <3>2. QED
      BY <1>1, <1>3, <2>1, <2>5, <3>1 DEF IInv
  <2>9. QED
    BY <1>1, <2>5, <2>7, <2>8, Decreases
<1>4. QED
  BY <1>2, <1>3 DEF ExtractSpecialInline

LEMMA TransformInlineStep ==
  ASSUME IInv, TransformInline
  PROVE  IInv' /\ NumbersKept /\ Less(ToDo', ToDo)
<1> DEFINE s == mathdoc
           c == cursor
           n == Len(s)
           S == MathOffs(s, c)
           j == Least(S)
           e == Expression("mrow", s[c].d, s, c, j, "math")
           r == Rest(s, c, j, "math")
           u == SubSeq(r, 1, c - 1)
           v == SubSeq(r, c + 2, Len(r))
<1>1. /\ pc = "transform" /\ c \in 1 .. n /\ n \in Nat /\ s \in Seq(LogNode) /\ s[c] \in LogNode
      /\ pages' = pages /\ pc' = pc /\ todo' = todo /\ log' = log
  BY DEF TransformInline, IInv
<1>2. CASE cursor' = cursor + 1 /\ UNCHANGED mathdoc
  <2>1. IInv'
    BY <1>1, <1>2 DEF IInv
  <2>2. NumbersKept /\ Tags' = Tags
    BY <1>1, <1>2, Unmoved
  <2>3. Left' < Left
    BY <1>1, <1>2, RankIs DEF Left
  <2>4. QED
    BY <1>1, <2>1, <2>2, <2>3, Decreases
<1>3. CASE /\ s[c].k = "mathon" /\ S # {}
           /\ mathdoc' = u \o e \o v /\ cursor' = c + Len(e)
  <2>1. j \in S /\ j \in c + 1 .. n
    <3>1. S \subseteq Siblings(s, c)
      BY DEF MathOffs
    <3> HIDE DEF S, s
    <3>2. QED
      BY <1>1, <1>3, <3>1, SiblingsAfter
  <2>2. s[j].k = "mathoff"
    BY <2>1 DEF MathOffs
  <2> HIDE DEF j, S
  <2>3. s[c].d \in Int
    BY <1>1 DEF LogNode
  <2>4. /\ e \in Seq(LogNode) /\ r \in Seq(LogNode) /\ Len(r) <= n
        /\ \A f : Count(r, C(f)) + Count(e, C(f)) = Count(s, C(f))
    <3> DEFINE d == s[c].d
    <3> HIDE DEF d, s
    <3>1. QED
      BY <1>1, <2>1, <2>3, Extracted DEF d
  <2>5. Len(r) >= c + 1 /\ r[c + 1] = s[j] /\ r[c] = s[c]
    <3>1. s[j].k # EndTag["math"]
      BY <2>2 DEF EndTag
    <3> HIDE DEF s
    <3>2. QED
      BY <1>1, <2>1, <3>1, RestEnds
  <2>6. \A f : r[c] \notin C(f) /\ r[c + 1] \notin C(f)
    BY <1>3, <2>2, <2>5 DEF C, Sort
  <2> HIDE DEF e, r
  <2> DEFINE m == Len(r)
  <2>7. m \in Nat /\ c + 1 <= m /\ m <= n /\ c \in 1 .. m
    BY <1>1, <2>4, <2>5
  <2>8. u \in Seq(LogNode) /\ Len(u) = c - 1 /\ v \in Seq(LogNode) /\ Len(v) = m - c - 1
    <3>1. u \in Seq(LogNode) /\ Len(u) = c - 1
      BY <2>4, <2>7
    <3>2. v \in Seq(LogNode) /\ Len(v) = m - c - 1
      BY <2>4, <2>7
    <3>3. QED
      BY <3>1, <3>2
  <2>9. \A f : Count(r, C(f)) = Count(u, C(f)) + Count(v, C(f))
    <3> TAKE f
    <3> DEFINE P == C(f)
               g == c - 1
               h == c + 1
               k == c + 2
    <3>1. /\ g \in Int /\ h \in Int /\ k \in Int /\ m \in Int /\ c \in Int
          /\ 1 <= g + 1 /\ g <= m /\ g + 1 = c /\ c + 1 = h /\ h + 1 = k
          /\ c <= c + 1 /\ c <= m /\ h <= h + 1 /\ h <= m /\ 1 <= k /\ k <= m + 1 /\ m <= Len(r)
      BY <2>7
    <3>2. r[c] \notin P /\ r[h] \notin P
      BY <2>6
    <3> HIDE DEF m, c, g, h, k, P
    <3>3. Number(r, 1, m, P) = Number(r, 1, g, P) + Number(r, g + 1, m, P)
      BY <3>1, NumberSplit
    <3>4. Number(r, c, m, P) = Number(r, c, c, P) + Number(r, c + 1, m, P)
      BY <3>1, NumberSplit
    <3>5. Number(r, h, m, P) = Number(r, h, h, P) + Number(r, h + 1, m, P)
      BY <3>1, NumberSplit
    <3>6. Number(r, c, c, P) = 0 /\ Number(r, h, h, P) = 0
      BY <3>1, <3>2, NumberOne
    <3>7. Count(SubSeq(r, 1, g), P) = Number(r, 1, g, P)
      BY <2>4, <3>1, CountSub
    <3>8. Count(SubSeq(r, k, m), P) = Number(r, k, m, P)
      BY <2>4, <3>1, CountSub
    <3>9. Number(r, 1, g, P) \in Nat /\ Number(r, k, m, P) \in Nat
      BY <3>1, WithinFinite
    <3>10. Count(r, P) = Count(SubSeq(r, 1, g), P) + Count(SubSeq(r, k, m), P)
      <4>1. Count(r, P) = Number(r, 1, m, P)
        BY DEF Count, m
      <4>2. QED
        BY <3>1, <3>3, <3>4, <3>5, <3>6, <3>7, <3>8, <3>9, <4>1
    <3>11. QED
      BY <3>10 DEF P, g, k, m, c
  <2> HIDE DEF u, v
  <2>10. /\ u \o e \in Seq(LogNode) /\ Len(u \o e) = Len(u) + Len(e)
    BY <2>4, <2>8, JoinIs
  <2>11. /\ u \o e \o v \in Seq(LogNode) /\ Len(u \o e \o v) = Len(u \o e) + Len(v)
    BY <2>8, <2>10, JoinIs
  <2>12. NumbersKept
    <3> SUFFICES ASSUME NEW f PROVE NumberOf(f)' = NumberOf(f)
      BY DEF NumbersKept
    <3>1. Count(u \o e, C(f)) = Count(u, C(f)) + Count(e, C(f))
      BY <2>4, <2>8, CountJoined
    <3>2. Count(u \o e \o v, C(f)) = Count(u \o e, C(f)) + Count(v, C(f))
      BY <2>8, <2>10, CountJoined
    <3>3. Count(u, C(f)) \in Nat /\ Count(e, C(f)) \in Nat /\ Count(v, C(f)) \in Nat
      BY <2>4, <2>8, CharsAre
    <3>4. Count(u \o e \o v, C(f)) = Count(s, C(f))
      BY <2>4, <2>9, <3>1, <3>2, <3>3
    <3>5. NumberOf(f) = Cardinality(CharsOf(log, f)) + Count(s, C(f))
      BY <1>1, CharsAre DEF NumberOf
    <3>6. NumberOf(f)' = Cardinality(CharsOf(log, f)) + Count(u \o e \o v, C(f))
      <4>1. NumberOf(f)' = Cardinality(CharsOf(log, f)) + Cardinality(CharsOf(u \o e \o v, f))
        BY <1>1, <1>3 DEF NumberOf, CharsOf
      <4>2. QED
        BY <2>11, <4>1, CharsAre
    <3>7. QED
      BY <3>4, <3>5, <3>6
  <2>13. Tags' = Tags
    BY <1>1 DEF Tags
  <2>14. Len(e) \in Nat /\ Len(mathdoc') = c - 1 + Len(e) + (m - c - 1)
    BY <1>3, <2>4, <2>8, <2>10, <2>11
  <2>15. IInv'
    <3>1. mathdoc' \in Seq(LogNode)
      BY <1>3, <2>11
    <3>2. cursor' \in Nat \ {0} /\ cursor' <= Len(mathdoc') + 1
      BY <1>1, <1>3, <2>7, <2>14
    <3> HIDE DEF s, c
    <3>3. QED
      BY <1>1, <3>1, <3>2 DEF IInv
  <2>16. Left' < Left
    <3>1. Left = n + 1 - c
      BY <1>1, RankIs DEF Left
    <3>2. Left' = Len(mathdoc') + 1 - cursor'
      BY <1>1, RankIs DEF Left
    <3>3. QED
      BY <1>1, <1>3, <2>7, <2>14, <3>1, <3>2
  <2>17. QED
    BY <1>1, <2>12, <2>13, <2>15, <2>16, Decreases
<1>4. QED
  BY <1>2, <1>3 DEF TransformInline, Pass

LEMMA ExitStep ==
  ASSUME IInv, ExitNoDisplayEnd \/ ExitNoMathOff
  PROVE  IInv' /\ NumbersKept /\ Less(ToDo', ToDo)
<1>1. pc \in {"display", "inline", "transform"} /\ Exit
  BY DEF ExitNoDisplayEnd, ExitNoMathOff, Walks
<1>2. pc' = "exit" /\ log' = log /\ mathdoc' = mathdoc /\ cursor' = cursor /\ todo' = todo
  BY <1>1 DEF Exit
<1>3. IInv'
  BY <1>2 DEF IInv, Passes
<1>4. NumbersKept
  BY <1>2, Unmoved
<1>5. Rank[pc'] < Rank[pc]
  BY <1>1, <1>2, RankIs
<1>6. QED
  BY <1>3, <1>4, <1>5, Decreases

LEMMA PassEnds ==
  ASSUME IInv, LogRead \/ MathListApplied \/ AllReplaced
  PROVE  IInv' /\ NumbersKept /\ Less(ToDo', ToDo)
<1>1. log' = log /\ mathdoc' = mathdoc /\ todo' = todo
  BY DEF LogRead, NextPass, MathListApplied, AllReplaced
<1>2. \/ pc \in {"display", "inline", "special"} /\ cursor' = 1
      \/ pc = "transform" /\ cursor' = cursor
      \/ pc = "replace" /\ cursor' = cursor
  BY DEF LogRead, NextPass, MathListApplied, AllReplaced
<1>3. <<pc, pc'>> \in {<<"display", "inline">>, <<"inline", "special">>, <<"special", "transform">>,
                       <<"transform", "replace">>, <<"replace", "done">>}
  BY DEF LogRead, NextPass, MathListApplied, AllReplaced
<1>4. IInv'
  <2>1. Len(log) \in Nat /\ Len(mathdoc) \in Nat /\ cursor' \in Nat \ {0} /\ pc' \in Passes
    BY <1>2, <1>3 DEF IInv, Passes
  <2>2. pc' \in {"inline", "special", "transform"} => cursor' = 1
    BY <1>2, <1>3
  <2>3. pc' # "display"
    BY <1>3
  <2>4. QED
    BY <1>1, <2>1, <2>2, <2>3 DEF IInv
<1>5. NumbersKept
  BY <1>1, Unmoved
<1>6. Rank[pc'] < Rank[pc]
  BY <1>3, RankIs
<1>7. QED
  BY <1>4, <1>5, <1>6, Decreases

LEMMA ReplaceFormulaStep ==
  ASSUME IInv, ReplaceFormula
  PROVE  IInv' /\ NumbersKept /\ Less(ToDo', ToDo)
<1> DEFINE f == Least(todo)
<1>1. /\ pc = "replace" /\ pc' = "replace" /\ todo # {} /\ todo' = todo \ {f}
      /\ log' = log /\ mathdoc' = mathdoc /\ cursor' = cursor
  BY DEF ReplaceFormula
<1>2. f \in todo
  BY <1>1, LeastIsFirst DEF IInv
<1> HIDE DEF f
<1>3. /\ IsFiniteSet(todo \ {f}) /\ Cardinality(todo \ {f}) = Cardinality(todo) - 1
      /\ Cardinality(todo) \in Nat
  BY <1>2, FS_RemoveElement, FS_CardinalityType DEF IInv
<1>4. IInv'
  BY <1>1, <1>3 DEF IInv
<1>5. NumbersKept /\ Tags' = Tags
  BY <1>1, Unmoved
<1>6. Left' < Left
  BY <1>1, <1>3, RankIs DEF Left
<1>7. QED
  BY <1>1, <1>4, <1>5, <1>6, Decreases

(* What a step may do and what it keeps. *)
LEMMA StepKeeps ==
  IInv /\ [Next]_vars => /\ IInv'
                         /\ [NumbersKept]_<<log, mathdoc>>
                         /\ [Less(ToDo', ToDo)]_vars
<1> SUFFICES ASSUME IInv, [Next]_vars
             PROVE  IInv' /\ [NumbersKept]_<<log, mathdoc>> /\ [Less(ToDo', ToDo)]_vars
  OBVIOUS
<1>1. CASE ExtractDisplay
  BY <1>1, ExtractDisplayStep
<1>2. CASE ExitNoDisplayEnd \/ ExitNoMathOff
  BY <1>2, ExitStep
<1>3. CASE ExtractInline
  BY <1>3, ExtractInlineStep
<1>4. CASE ExtractSpecialInline
  BY <1>4, ExtractSpecialInlineStep
<1>5. CASE TransformInline
  BY <1>5, TransformInlineStep
<1>6. CASE LogRead \/ MathListApplied \/ AllReplaced
  BY <1>6, PassEnds
<1>7. CASE ReplaceFormula
  BY <1>7, ReplaceFormulaStep
<1>8. CASE UNCHANGED vars
  BY <1>8 DEF vars, IInv
<1>9. QED
  BY <1>1, <1>2, <1>3, <1>4, <1>5, <1>6, <1>7, <1>8 DEF Next, Ended

LEMMA TodoType == Displays(TRUE) \cup Inlines \in SUBSET Nat /\ IsFiniteSet(Displays(TRUE) \cup Inlines)
<1> DEFINE m == 100 * MaxPages + 10 * MaxBlocks + 10
<1>1. MaxPages \in Nat /\ MaxBlocks \in Nat
  BY BoundsAssumption
<1>2. \A p \in 1 .. MaxPages, b \in 1 .. MaxBlocks : \A j \in 0 .. 9 : Formula(p, b, j) \in 0 .. m - 1
  BY <1>1 DEF Formula
<1> HIDE DEF m
<1>3. m \in Nat
  BY <1>1 DEF m
<1>4. \A t \in BOOLEAN : Displays(t) \subseteq 0 .. m - 1
  <2> TAKE t \in BOOLEAN
  <2>1. \A q \in (1 .. MaxPages) \X (1 .. MaxBlocks) : Formula(q[1], q[2], 1) \in 0 .. m - 1
    BY <1>2
  <2>2. QED
    BY <2>1 DEF Displays
<1>5. Inlines \subseteq 0 .. m
  <2>1. \A q \in (1 .. MaxPages) \X (1 .. MaxBlocks) \X (1 .. 4) :
          Formula(q[1], q[2], 1 + 2 * q[3]) \in 0 .. m - 1
    <3> TAKE q \in (1 .. MaxPages) \X (1 .. MaxBlocks) \X (1 .. 4)
    <3>1. q[1] \in 1 .. MaxPages /\ q[2] \in 1 .. MaxBlocks /\ q[3] \in 1 .. 4
      OBVIOUS
    <3>2. 1 + 2 * q[3] \in 0 .. 9
      BY <3>1
    <3>3. QED
      BY <1>2, <3>1, <3>2
  <2>2. \A f \in Displays(FALSE) : f + 1 \in 0 .. m
    <3> TAKE f \in Displays(FALSE)
    <3>1. f \in 0 .. m - 1
      BY <1>4
    <3>2. QED
      BY <1>3, <3>1
  <2>3. \A x \in 0 .. m - 1 : x \in 0 .. m
    BY <1>3
  <2>4. QED
    BY <2>1, <2>2, <2>3 DEF Inlines
<1>6. IsFiniteSet(0 .. m)
  BY <1>3, FS_Interval
<1>7. Displays(TRUE) \cup Inlines \in SUBSET (0 .. m)
  <2>1. \A x \in Displays(TRUE) : x \in 0 .. m
    <3> TAKE x \in Displays(TRUE)
    <3>1. x \in 0 .. m - 1
      BY <1>4
    <3>2. QED
      BY <1>3, <3>1
  <2>2. QED
    BY <2>1, <1>5
<1>8. IsFiniteSet(Displays(TRUE) \cup Inlines)
  BY <1>6, <1>7, FS_Subset
<1>9. \A x \in 0 .. m : x \in Nat
  OBVIOUS
<1>10. QED
  BY <1>7, <1>8, <1>9

LEMMA InitGood == Init => IInv
<1> SUFFICES ASSUME Init PROVE IInv
  OBVIOUS
<1>1. pages \in Seq(Seq(Blocks))
  <2>1. PICK n \in 1 .. MaxPages : pages \in [1 .. n -> UNION {[1 .. m -> Blocks] : m \in 1 .. MaxBlocks}]
    BY DEF Init
  <2>2. n \in Nat
    BY <2>1
  <2>3. UNION {[1 .. m -> Blocks] : m \in 1 .. MaxBlocks} \subseteq Seq(Blocks)
    <3>1. \A m \in 1 .. MaxBlocks : \A q \in [1 .. m -> Blocks] : q \in Seq(Blocks)
      OBVIOUS
    <3>2. QED
      BY <3>1
  <2>4. \A p \in 1 .. n : pages[p] \in Seq(Blocks)
    BY <2>1, <2>3
  <2>5. DOMAIN pages = 1 .. n /\ pages = [p \in 1 .. n |-> pages[p]]
    BY <2>1
  <2>6. QED
    BY <2>2, <2>4, <2>5
<1>2. log \in Seq(LogNode)
  BY <1>1, LogType DEF Init
<1>3. mathdoc \in Seq(LogNode) /\ cursor = 1 /\ pc = "display"
  BY DEF Init
<1>4. todo \in SUBSET Nat /\ IsFiniteSet(todo)
  BY TodoType DEF Init
<1>5. Len(log) \in Nat
  BY <1>2
<1>6. QED
  BY <1>2, <1>3, <1>4, <1>5 DEF IInv, Passes

(* The passes walk over lists of nodes and never past their end.           *)
THEOREM WalksInside == Spec => []IInv
BY InitGood, StepKeeps, PTL DEF Spec

(* Formulas!MovedOnce: extract_math_expr, on the log and then on the list  *)
(* of the formulas, neither loses nor copies a character of a formula,     *)
(* whichever nodes it takes for the ends of one.                           *)
THEOREM CharsMovedOnce == Spec => MovedOnce
<1>1. NumbersKept => \A f \in Known : NumberOf(f)' = NumberOf(f)
  BY DEF NumbersKept
<1>2. [NumbersKept]_<<log, mathdoc>> => [\A f \in Known : NumberOf(f)' = NumberOf(f)]_<<log, mathdoc>>
  BY <1>1
<1>3. QED
  BY <1>2, WalksInside, StepKeeps, PTL DEF Spec, MovedOnce

(* Formulas!StepsRunOut: every step of the passes has less to do after it, *)
(* the walk that goes back to a node it has inserted among them.           *)
THEOREM WalksRunOut == Spec => StepsRunOut
BY WalksInside, StepKeeps, PTL DEF Spec, StepsRunOut

(* What there is to do is told in natural numbers, so that it runs out.    *)
THEOREM ToDoIsNatural == Spec => [](ToDo \in Nat \X Nat \X Nat)
<1>1. IInv => ToDo \in Nat \X Nat \X Nat
  BY ToDoIs DEF ToDoFits
<1>2. QED
  BY <1>1, WalksInside, PTL

----------------------------------------------------------------------------
(* Of Verbatim, for formulas of any characters and any length: what        *)
(* escape_math gives to TeX.  A call of replace writes characters that a   *)
(* call before it took out, or does not, by the order of the table alone;  *)
(* the proof is that the table has such an order.                          *)

(* What a call writes behind the escape character. *)
Codings == {Escapes[n][2] : n \in 1 .. Len(Escapes)}

(* What the first n - 1 calls have taken out of the text, which is all     *)
(* they look for but the escape character, that they write again.          *)
TakenOut(n) == {Escapes[m][1] : m \in 1 .. n - 1} \ {"!"}

(* The characters that can be in the text before the call n. *)
LeftIn(n) == (Characters \cup {"!"} \cup Codings) \ TakenOut(n)

(* The strengthening of InertInTeX: after each call, none of the           *)
(* characters that were looked for is in the text.                         *)
EscapedSoFar ==
  stage = "escape" => call \in 1 .. Len(Escapes) + 1 /\ carried \in Seq(LeftIn(call))

(* What the ten calls look for, and what they write. *)
LEMMA WhatIsLookedFor ==
  /\ Escapes[1][1] = "!" /\ Escapes[2][1] = "{" /\ Escapes[3][1] = "}"
  /\ Escapes[4][1] = "^" /\ Escapes[5][1] = "_" /\ Escapes[6][1] = "\\"
  /\ Escapes[7][1] = "\n" /\ Escapes[8][1] = "%" /\ Escapes[9][1] = "#"
  /\ Escapes[10][1] = "~"
BY DEF Escapes

LEMMA WhatIsWritten ==
  /\ Escapes[1][2] = "!" /\ Escapes[2][2] = "[" /\ Escapes[3][2] = "]"
  /\ Escapes[4][2] = "*" /\ Escapes[5][2] = "-" /\ Escapes[6][2] = "/"
  /\ Escapes[7][2] = "n" /\ Escapes[8][2] = "p" /\ Escapes[9][2] = "s"
  /\ Escapes[10][2] = "t"
BY DEF Escapes

LEMMA TenCalls ==
  ASSUME NEW n \in 1 .. 10
  PROVE  \/ n = 1 \/ n = 2 \/ n = 3 \/ n = 4 \/ n = 5
         \/ n = 6 \/ n = 7 \/ n = 8 \/ n = 9 \/ n = 10
OBVIOUS

LEMMA TenEscapes ==
  Len(Escapes) = 10 /\ 1 .. Len(Escapes) + 1 = 1 .. 11
<1>1. Len(Escapes) = 10
  BY DEF Escapes
<1>2. QED
  BY <1>1

(* No call writes what a call before it, or itself, looks for, except the  *)
(* escape character; and between them they look for all that TeX acts on.  *)
LEMMA TableInOrder ==
  /\ \A n \in 1 .. 10 : Escapes[n][2] \notin TakenOut(n + 1)
  /\ {"{", "}", "\\", "%", "#", "^", "_", "~", "\n"} \subseteq TakenOut(11)
<1>1. ASSUME NEW n \in 1 .. 10
      PROVE  Escapes[n][1] \in {"!", "{", "}", "^", "_", "\\", "\n", "%", "#", "~"}
  BY TenCalls, WhatIsLookedFor, Zenon
<1>2. ASSUME NEW n \in 1 .. 10
      PROVE  Escapes[n][2] \in {"!", "[", "]", "*", "-", "/", "n", "p", "s", "t"}
  BY TenCalls, WhatIsWritten, Zenon
<1>3. ASSUME NEW n \in 1 .. 10
      PROVE  Escapes[n][2] \notin TakenOut(n + 1)
  <2>1. \A m \in 1 .. (n + 1) - 1 : m \in 1 .. 10
    OBVIOUS
  <2>2. TakenOut(n + 1) \subseteq {"{", "}", "^", "_", "\\", "\n", "%", "#", "~"}
    BY <1>1, <2>1 DEF TakenOut
  <2>3. Escapes[n][2] \notin {"{", "}", "^", "_", "\\", "\n", "%", "#", "~"}
    BY <1>2
  <2>4. QED
    BY <2>2, <2>3, Zenon
<1>4. \A n \in 1 .. 10 : Escapes[n][1] # "!" => Escapes[n][1] \in TakenOut(11)
  BY DEF TakenOut
<1>5. /\ "{" \in TakenOut(11) /\ "}" \in TakenOut(11) /\ "^" \in TakenOut(11)
      /\ "_" \in TakenOut(11) /\ "\\" \in TakenOut(11) /\ "\n" \in TakenOut(11)
      /\ "%" \in TakenOut(11) /\ "#" \in TakenOut(11) /\ "~" \in TakenOut(11)
  <2>1. /\ 2 \in 1 .. 10 /\ 3 \in 1 .. 10 /\ 4 \in 1 .. 10 /\ 5 \in 1 .. 10
        /\ 6 \in 1 .. 10 /\ 7 \in 1 .. 10 /\ 8 \in 1 .. 10 /\ 9 \in 1 .. 10
        /\ 10 \in 1 .. 10
    OBVIOUS
  <2>2. QED
    BY <2>1, <1>4, WhatIsLookedFor, Zenon
<1>6. {"{", "}", "\\", "%", "#", "^", "_", "~", "\n"} \subseteq TakenOut(11)
  BY <1>5
<1>7. QED
  BY <1>3, <1>6

(* A call of replace leaves c out of a text and keeps the other characters *)
(* of it, if it does not write c.                                          *)
LEMMA ReplaceTakesOut ==
  ASSUME NEW A, NEW B, NEW s \in Seq(A), NEW c, NEW d \in B, "!" \in B,
         \A x \in A : x # c => x \in B
  PROVE  Replace(s, c, d) \in Seq(B)
<1> DEFINE ss == [p \in 1 .. Len(s) |-> IF s[p] = c THEN <<"!", d>> ELSE <<s[p]>>]
<1>1. ASSUME NEW p \in 1 .. Len(s)
      PROVE  ss[p] \in Seq(B)
  <2>1. s[p] \in A
    OBVIOUS
  <2>2. CASE s[p] = c
    BY <2>2
  <2>3. CASE s[p] # c
    BY <2>1, <2>3
  <2>4. QED
    BY <2>2, <2>3
<1>2. ss \in [1 .. Len(s) -> Seq(B)]
  BY <1>1
<1>3. ss \in Seq(Seq(B))
  BY <1>2, SeqDef, LenProperties
<1> HIDE DEF ss
<1>4. FlattenSeq(ss) \in Seq(B)
  BY <1>3, FlattenType
<1>5. QED
  BY <1>4 DEF Replace, ss

LEMMA EscapeCharStep ==
  ASSUME NEW s, NEW n \in 1 .. 10, s \in Seq(LeftIn(n))
  PROVE  Replace(s, Escapes[n][1], Escapes[n][2]) \in Seq(LeftIn(n + 1))
<1> DEFINE c == Escapes[n][1]
           d == Escapes[n][2]
<1>1. d \in LeftIn(n + 1)
  <2>1. d \in Codings
    BY TenEscapes DEF Codings
  <2>2. d \notin TakenOut(n + 1)
    BY TableInOrder
  <2>3. QED
    BY <2>1, <2>2 DEF LeftIn
<1>2. "!" \in LeftIn(n + 1)
  BY DEF LeftIn, TakenOut
<1>3. ASSUME NEW x \in LeftIn(n), x # c
      PROVE  x \in LeftIn(n + 1)
  <2>1. \A m \in 1 .. (n + 1) - 1 : m = n \/ m \in 1 .. n - 1
    OBVIOUS
  <2>2. x \notin TakenOut(n + 1)
    BY <1>3, <2>1 DEF LeftIn, TakenOut
  <2>3. QED
    BY <1>3, <2>2 DEF LeftIn
<1> HIDE DEF c, d
<1>4. Replace(s, c, d) \in Seq(LeftIn(n + 1))
  BY <1>1, <1>2, <1>3, ReplaceTakesOut
<1>5. QED
  BY <1>4 DEF c, d

----------------------------------------------------------------------------
THEOREM EscapesInTurn == VerbatimSpec => []EscapedSoFar
<1>1. VerbatimInit => EscapedSoFar
  <2> SUFFICES ASSUME VerbatimInit
               PROVE  call \in 1 .. 11 /\ carried \in Seq(LeftIn(call))
    BY TenEscapes DEF EscapedSoFar
  <2>1. call = 1
    BY DEF VerbatimInit
  <2>2. PICK n \in 0 .. MaxLen : written \in [1 .. n -> Characters]
    BY DEF VerbatimInit
  <2>3. n \in Nat
    BY CharsAssumption
  <2>4. carried \in Seq(Characters)
    BY <2>2, <2>3, SeqDef DEF VerbatimInit
  <2>5. Characters \subseteq LeftIn(1)
    BY DEF LeftIn, TakenOut
  <2>6. carried \in Seq(LeftIn(1))
    BY <2>4, <2>5
  <2>7. QED
    BY <2>1, <2>6
<1>2. EscapedSoFar /\ [VerbatimNext]_verbatimVars => EscapedSoFar'
  <2> SUFFICES ASSUME EscapedSoFar, [VerbatimNext]_verbatimVars, stage' = "escape"
               PROVE  call' \in 1 .. 11 /\ carried' \in Seq(LeftIn(call'))
    BY TenEscapes DEF EscapedSoFar
  <2>1. CASE EscapeChar
    <3>1. call \in 1 .. 10 /\ carried \in Seq(LeftIn(call)) /\ call' = call + 1
      BY <2>1, TenEscapes DEF EscapeChar, EscapedSoFar
    <3>2. carried' \in Seq(LeftIn(call + 1))
      BY <2>1, <3>1, EscapeCharStep DEF EscapeChar
    <3>3. QED
      BY <3>1, <3>2
  <2>2. ~ (Escaped \/ Carry \/ ReadCode \/ NextCode \/ PutFormula \/ PutMacro)
    <3>1. ~ Escaped
      BY DEF Escaped
    <3>2. ~ Carry
      BY DEF Carry
    <3>3. ~ (ReadCode \/ NextCode)
      BY DEF ReadCode, NextCode
    <3>4. ~ (PutFormula \/ PutMacro)
      BY DEF PutFormula, PutMacro
    <3>5. QED
      BY <3>1, <3>2, <3>3, <3>4
  <2>3. CASE UNCHANGED verbatimVars
    BY <2>3, TenEscapes DEF verbatimVars, EscapedSoFar
  <2>4. QED
    BY <2>1, <2>2, <2>3 DEF VerbatimNext
<1>3. QED
  BY <1>1, <1>2, PTL DEF VerbatimSpec

(* For every formula, of whatever characters and length, what escape_math  *)
(* (lxirlatex.py 40-51) hands to TeX has none of the characters TeX would  *)
(* act on there, although later calls work on what earlier calls wrote.    *)
THEOREM TeXIsGivenInertText == VerbatimSpec => []InertInTeX
<1>1. EscapedSoFar => InertInTeX
  <2> SUFFICES ASSUME EscapedSoFar, stage = "escape", call > 10, NEW p \in 1 .. Len(carried)
               PROVE  carried[p] \notin {"{", "}", "\\", "%", "#", "^", "_", "~", "\n"}
    BY TenEscapes DEF InertInTeX
  <2>1. call = 11 /\ carried \in Seq(LeftIn(11))
    BY TenEscapes DEF EscapedSoFar
  <2>2. carried[p] \in LeftIn(11)
    BY <2>1
  <2>3. QED
    BY <2>2, TableInOrder DEF LeftIn
<1>2. QED
  BY <1>1, EscapesInTurn, PTL

=============================================================================
