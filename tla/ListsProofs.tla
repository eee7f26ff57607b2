---------------------------- MODULE ListsProofs ----------------------------
(***************************************************************************)
(* Facts the other proofs rest on.  Induction on natural numbers and       *)
(* definition by recursion, in a form that speaks of sets and functions    *)
(* only: what has been shown of a number is the set of the numbers it was  *)
(* shown of, and the step of a recursion is a function of the number and   *)
(* of the value before.  With them, what FlattenSeq makes of a sequence    *)
(* that grows at its end, and what the operations on lists do to the       *)
(* length, the nodes and the order of a list of integers; and, where each  *)
(* element of a list says a sequence, how what the whole list says changes *)
(* with the list.                                                          *)
(***************************************************************************)
EXTENDS Lists, SequencesExt, SequenceTheorems, WellFoundedInduction, TLAPS

(* Every set of natural numbers that is not empty has a least element. *)
LEMMA LeastNatural ==
  ASSUME NEW T \in SUBSET Nat, T # {}
  PROVE  \E n \in T : \A m \in T : n <= m
<1>1. IsWellFoundedOn(OpToRel(<, Nat), Nat)
  BY NatLessThanWellFounded
<1>2. PICK n \in T : \A m \in T : ~ (<<m, n>> \in OpToRel(<, Nat))
  BY <1>1, WFMin
<1>3. \A m \in T : <<m, n>> \in OpToRel(<, Nat) <=> m < n
  BY DEF OpToRel
<1>4. \A m \in T : ~ (m < n)
  BY <1>2, <1>3
<1>5. \A m \in T : m \in Nat
  OBVIOUS
<1>6. \A m \in T : n <= m
  BY <1>4, <1>5
<1>7. QED
  BY <1>6

(* A set that holds 0, and with each natural number the next, holds all. *)
LEMMA InductionOnSet ==
  ASSUME NEW G, 0 \in G, \A k \in Nat : k \in G => k + 1 \in G
  PROVE  \A n \in Nat : n \in G
<1> DEFINE T == {n \in Nat : n \notin G}
<1>1. ASSUME T # {}
      PROVE  FALSE
  <2>1. PICK n \in T : \A m \in T : n <= m
    BY <1>1, LeastNatural
  <2>2. n \in Nat /\ n \notin G /\ n # 0
    BY <2>1
  <2>3. n - 1 \in Nat /\ (n - 1) + 1 = n /\ ~(n <= n - 1)
    BY <2>2
  <2>4. n - 1 \in G
    BY <2>1, <2>3
  <2>5. QED
    BY <2>2, <2>3, <2>4
<1>2. QED
  BY <1>1

(* The same up to a bound. *)
LEMMA BoundedInduction ==
  ASSUME NEW N \in Nat, NEW G, 0 \in G,
         \A k \in 0 .. N - 1 : k \in G => k + 1 \in G
  PROVE  \A n \in 0 .. N : n \in G
<1> DEFINE H == {n \in Nat : n <= N => n \in G}
<1>1. 0 \in H
  OBVIOUS
<1>2. ASSUME NEW k \in Nat, k \in H
      PROVE  k + 1 \in H
  <2>1. CASE k + 1 <= N
    <3>1. k \in 0 .. N - 1 /\ k <= N
      BY <2>1
    <3>2. k + 1 \in G
      BY <3>1, <1>2
    <3>3. QED
      BY <3>2
  <2>2. CASE ~(k + 1 <= N)
    BY <2>2
  <2>3. QED
    BY <2>1, <2>2
<1> HIDE DEF H
<1>3. \A n \in Nat : n \in H
  BY <1>1, <1>2, InductionOnSet, Zenon
<1>4. QED
  BY <1>3 DEF H

(* step[i] takes the value for i - 1 to the value for i, both in T...      *)
IsStep(step, N, T) == \A i \in 1 .. N : \A x \in T : step[i][x] \in T

(* ... and f is what step makes of base. *)
Iterates(f, base, step, N, T) ==
  /\ f \in [0 .. N -> T]
  /\ f[0] = base
  /\ \A i \in 1 .. N : f[i] = step[i][f[i - 1]]

LEMMA Recursion ==
  ASSUME NEW N \in Nat, NEW T, NEW base \in T, NEW step, IsStep(step, N, T)
  PROVE  \E f : Iterates(f, base, step, N, T)
<1> DEFINE G == {n \in 0 .. N : \E f : Iterates(f, base, step, n, T)}
<1>1. 0 \in G
  <2>1. Iterates([i \in 0 .. 0 |-> base], base, step, 0, T)
    BY DEF Iterates
  <2>2. QED
    BY <2>1
<1>2. ASSUME NEW k \in 0 .. N - 1, k \in G
      PROVE  k + 1 \in G
  <2>1. PICK f : Iterates(f, base, step, k, T)
    BY <1>2
  <2> DEFINE g == [i \in 0 .. k + 1 |-> IF i <= k THEN f[i] ELSE step[k + 1][f[k]]]
  <2>2. k \in Nat /\ k + 1 \in 1 .. N /\ k \in 0 .. k
    OBVIOUS
  <2>3. f \in [0 .. k -> T] /\ f[k] \in T
    BY <2>1, <2>2 DEF Iterates
  <2>4. step[k + 1][f[k]] \in T
    BY <2>2, <2>3 DEF IsStep
  <2>5. g \in [0 .. k + 1 -> T]
    BY <2>2, <2>3, <2>4
  <2>6. g[0] = base
    BY <2>1, <2>2 DEF Iterates
  <2>7. ASSUME NEW i \in 1 .. k + 1
        PROVE  g[i] = step[i][g[i - 1]]
    <3>1. CASE i <= k
      <4>1. i \in 1 .. k /\ i \in 0 .. k + 1 /\ i - 1 \in 0 .. k + 1 /\ i - 1 <= k
        BY <3>1, <2>2
      <4>2. g[i] = f[i] /\ g[i - 1] = f[i - 1]
        BY <4>1
      <4>3. QED
        BY <4>1, <4>2, <2>1 DEF Iterates
    <3>2. CASE i = k + 1
      <4>1. i \in 0 .. k + 1 /\ i - 1 \in 0 .. k + 1 /\ i - 1 = k /\ ~(i <= k)
        BY <3>2, <2>2
      <4>2. g[i] = step[i][f[k]] /\ g[i - 1] = f[k]
        BY <4>1, <3>2
      <4>3. QED
        BY <4>2
    <3>3. QED
      BY <3>1, <3>2, <2>2
  <2> HIDE DEF g
  <2>8. Iterates(g, base, step, k + 1, T)
    BY <2>5, <2>6, <2>7 DEF Iterates
  <2>9. QED
    BY <2>8, <2>2
<1> HIDE DEF G
<1>3. \A n \in 0 .. N : n \in G
  BY <1>1, <1>2, BoundedInduction, Zenon
<1>4. QED
  BY <1>3 DEF G

(* It is the only one. *)
StepAlike(f, g, N) ==
  f[0] = g[0] /\ \A i \in 1 .. N : f[i - 1] = g[i - 1] => f[i] = g[i]

LEMMA RecursionUnique ==
  ASSUME NEW N \in Nat, NEW f, NEW g, StepAlike(f, g, N)
  PROVE  \A i \in 0 .. N : f[i] = g[i]
<1> DEFINE G == {n \in 0 .. N : f[n] = g[n]}
<1>1. 0 \in G
  BY DEF StepAlike
<1>2. ASSUME NEW k \in 0 .. N - 1, k \in G
      PROVE  k + 1 \in G
  <2>1. k + 1 \in 1 .. N /\ k + 1 \in 0 .. N /\ (k + 1) - 1 = k
    OBVIOUS
  <2>2. QED
    BY <2>1, <1>2 DEF StepAlike
<1> HIDE DEF G
<1>3. \A n \in 0 .. N : n \in G
  BY <1>1, <1>2, BoundedInduction, Zenon
<1>4. QED
  BY <1>3 DEF G

----------------------------------------------------------------------------
(* FlattenSeq is a function defined by recursion on the positions. *)

Flattens(f, ss, E) ==
  /\ f \in [1 .. Len(ss) -> Seq(E)]
  /\ f[1] = ss[1]
  /\ \A i \in 2 .. Len(ss) : f[i] = f[i - 1] \o ss[i]

LEMMA FlattenByRecursion ==
  ASSUME NEW E, NEW ss \in Seq(Seq(E)), Len(ss) # 0
  PROVE  \E f : Flattens(f, ss, E) /\ FlattenSeq(ss) = f[Len(ss)]
<1> DEFINE N == Len(ss) - 1
           T == Seq(E)
           step == [i \in 1 .. N |-> [x \in T |-> x \o ss[i + 1]]]
           Unfolds(f) == f = [i \in 1 .. Len(ss) |->
                                IF i = 1 THEN ss[i] ELSE f[i - 1] \o ss[i]]
<1>1. N \in Nat /\ Len(ss) = N + 1 /\ ss[1] \in T
        /\ \A i \in 1 .. N + 1 : ss[i] \in T
  BY LenProperties, ElementOfSeq
<1> HIDE DEF N
<1>2. ASSUME NEW i \in 1 .. N, NEW x \in T
      PROVE  step[i][x] = x \o ss[i + 1] /\ step[i][x] \in T
  <2>1. ss[i + 1] \in T
    BY <1>1
  <2>2. x \o ss[i + 1] \in T
    BY <2>1
  <2>3. QED
    BY <2>2
<1>3. IsStep(step, N, T)
  BY <1>2 DEF IsStep
<1>4. PICK g : Iterates(g, ss[1], step, N, T)
  <2> HIDE DEF step, T
  <2>1. QED
    BY <1>1, <1>3, Recursion
<1> HIDE DEF step
<1> DEFINE f == [i \in 1 .. Len(ss) |-> g[i - 1]]
<1>5. g \in [0 .. N -> T] /\ g[0] = ss[1]
  BY <1>4 DEF Iterates
<1>6. f \in [1 .. Len(ss) -> T] /\ f[1] = ss[1]
  BY <1>1, <1>5
<1>7. ASSUME NEW i \in 2 .. Len(ss)
      PROVE  f[i] = f[i - 1] \o ss[i]
  <2>1. i - 1 \in 1 .. N /\ i \in 1 .. Len(ss) /\ i - 1 \in 1 .. Len(ss)
        /\ (i - 1) - 1 \in 0 .. N /\ (i - 1) + 1 = i
    BY <1>1
  <2>2. g[i - 1] = step[i - 1][g[(i - 1) - 1]] /\ g[(i - 1) - 1] \in T
    BY <1>4, <1>5, <2>1 DEF Iterates
  <2>3. g[i - 1] = g[(i - 1) - 1] \o ss[i]
    BY <2>1, <2>2, <1>2
  <2>4. f[i] = g[i - 1] /\ f[i - 1] = g[(i - 1) - 1]
    BY <2>1
  <2>5. QED
    BY <2>3, <2>4
<1> HIDE DEF f
<1>8. Flattens(f, ss, E)
  BY <1>6, <1>7 DEF Flattens
<1>9. Unfolds(f)
  <2> DEFINE h == [i \in 1 .. Len(ss) |-> IF i = 1 THEN ss[i]
                  ELSE f[i - 1] \o ss[i]]
  <2>1. ASSUME NEW i \in 1 .. Len(ss)
        PROVE  h[i] = f[i]
    <3>1. i = 1 \/ i \in 2 .. Len(ss)
      BY <1>1
    <3>2. QED
      BY <3>1, <1>6, <1>7
  <2>2. h = [i \in 1 .. Len(ss) |-> h[i]] /\ f = [i \in 1 .. Len(ss) |-> f[i]]
    BY <1>6
  <2>3. f = h
    <3> HIDE DEF h
    <3>1. QED
      BY <2>1, <2>2
  <2>4. QED
    BY <2>3
<1>10. ASSUME NEW u, Unfolds(u)
       PROVE  u = f
  <2> DEFINE G == {n \in 0 .. N : u[n + 1] = f[n + 1]}
  <2>1. 0 \in G
    <3>1. u[1] = ss[1]
      BY <1>1, <1>10
    <3>2. QED
      BY <3>1, <1>1, <1>6
  <2>2. ASSUME NEW k \in 0 .. N - 1, k \in G
        PROVE  k + 1 \in G
    <3>1. k + 2 \in 2 .. Len(ss) /\ k + 2 \in 1 .. Len(ss) /\ k + 2 # 1
          /\ (k + 2) - 1 = k + 1 /\ (k + 1) + 1 = k + 2 /\ k + 1 \in 0 .. N
      BY <1>1
    <3>2. u[k + 2] = u[k + 1] \o ss[k + 2]
      BY <3>1, <1>10
    <3>3. f[k + 2] = f[k + 1] \o ss[k + 2]
      BY <3>1, <1>7
    <3>4. u[k + 1] = f[k + 1]
      BY <2>2
    <3>5. QED
      BY <3>1, <3>2, <3>3, <3>4
  <2> HIDE DEF G
  <2>3. \A n \in 0 .. N : n \in G
    BY <2>1, <2>2, <1>1, BoundedInduction, Zenon
  <2>4. ASSUME NEW i \in 1 .. Len(ss)
        PROVE  u[i] = f[i]
    <3>1. i - 1 \in 0 .. N /\ (i - 1) + 1 = i
      BY <1>1
    <3>2. QED
      BY <3>1, <2>3 DEF G
  <2>5. u = [i \in 1 .. Len(ss) |-> u[i]]
    BY <1>10
  <2> HIDE DEF Unfolds
  <2>6. QED
    BY <2>4, <2>5, <1>6
<1>11. FlattenSeq(ss) = (CHOOSE u : Unfolds(u))[Len(ss)]
  BY DEF FlattenSeq
<1> HIDE DEF Unfolds
<1>12. FlattenSeq(ss) = f[Len(ss)]
  BY <1>9, <1>10, <1>11
<1>13. QED
  BY <1>8, <1>12

LEMMA FlattenType ==
  ASSUME NEW E, NEW ss \in Seq(Seq(E))
  PROVE  FlattenSeq(ss) \in Seq(E)
<1>1. CASE Len(ss) = 0
  BY <1>1, EmptySeq DEF FlattenSeq
<1>2. CASE Len(ss) # 0
  <2>1. PICK f : Flattens(f, ss, E) /\ FlattenSeq(ss) = f[Len(ss)]
    BY <1>2, FlattenByRecursion
  <2>2. Len(ss) \in 1 .. Len(ss)
    BY <1>2, LenProperties
  <2>3. QED
    BY <2>1, <2>2 DEF Flattens
<1>3. QED
  BY <1>1, <1>2

(* One more sequence at the end adds its elements at the end. *)
LEMMA FlattenAppend ==
  ASSUME NEW E, NEW ss \in Seq(Seq(E)), NEW s \in Seq(E)
  PROVE  FlattenSeq(Append(ss, s)) = FlattenSeq(ss) \o s
<1> DEFINE n == Len(ss)
           tt == Append(ss, s)
<1>1. /\ n \in Nat /\ tt \in Seq(Seq(E)) /\ Len(tt) = n + 1 /\ tt[n + 1] = s
      /\ \A i \in 1 .. n : tt[i] = ss[i]
  BY AppendProperties, LenProperties
<1> HIDE DEF tt
<1>2. PICK g : Flattens(g, tt, E) /\ FlattenSeq(tt) = g[n + 1]
  <2>1. Len(tt) # 0
    BY <1>1
  <2>2. QED
    BY <2>1, <1>1, FlattenByRecursion
<1>3. CASE n = 0
  <2>1. ss = <<>> /\ FlattenSeq(ss) = <<>>
    BY <1>3, EmptySeq DEF FlattenSeq
  <2>2. FlattenSeq(tt) = s
    BY <1>1, <1>2, <1>3 DEF Flattens
  <2>3. QED
    BY <2>1, <2>2 DEF tt
<1>4. CASE n # 0
  <2>1. PICK f : Flattens(f, ss, E) /\ FlattenSeq(ss) = f[n]
    BY <1>4, FlattenByRecursion
  <2> DEFINE G == {k \in 0 .. n - 1 : f[k + 1] = g[k + 1]}
  <2>2. 0 \in G
    BY <2>1, <1>1, <1>2, <1>4 DEF Flattens
  <2>3. ASSUME NEW k \in 0 .. (n - 1) - 1, k \in G
        PROVE  k + 1 \in G
    <3>1. k + 2 \in 2 .. n /\ k + 2 \in 2 .. n + 1 /\ (k + 2) - 1 = k + 1
          /\ (k + 1) + 1 = k + 2 /\ k + 1 \in 0 .. n - 1 /\ k + 2 \in 1 .. n
      BY <1>1
    <3>2. f[k + 2] = f[k + 1] \o ss[k + 2]
      BY <2>1, <3>1 DEF Flattens
    <3>3. g[k + 2] = g[k + 1] \o tt[k + 2]
      BY <1>1, <1>2, <3>1 DEF Flattens
    <3>4. f[k + 1] = g[k + 1] /\ tt[k + 2] = ss[k + 2]
      BY <2>3, <3>1, <1>1
    <3>5. QED
      BY <3>1, <3>2, <3>3, <3>4
  <2> HIDE DEF G
  <2>4. n - 1 \in Nat
    BY <1>1, <1>4
  <2>5. \A k \in 0 .. n - 1 : k \in G
    BY <2>2, <2>3, <2>4, BoundedInduction
  <2>6. f[n] = g[n]
    <3>1. n - 1 \in 0 .. n - 1 /\ (n - 1) + 1 = n
      BY <2>4, <1>1
    <3>2. QED
      BY <3>1, <2>5 DEF G
  <2>7. g[n + 1] = g[n] \o s
    <3>1. n + 1 \in 2 .. n + 1 /\ (n + 1) - 1 = n
      BY <1>1, <1>4
    <3>2. QED
      BY <3>1, <1>1, <1>2 DEF Flattens
  <2>8. QED
    BY <2>1, <2>6, <2>7, <1>2 DEF tt
<1>5. QED
  BY <1>3, <1>4

(* Concatenation may be read from either side. *)
LEMMA ConcatRegroups ==
  ASSUME NEW E, NEW a \in Seq(E), NEW b \in Seq(E), NEW c \in Seq(E)
  PROVE  a \o (b \o c) = (a \o b) \o c
BY ConcatAssociative

LEMMA FlattenMore ==
  ASSUME NEW E, NEW ss \in Seq(Seq(E)), NEW x \in Seq(E), NEW s \in Seq(E)
  PROVE  FlattenSeq(Append(ss, x \o s)) = FlattenSeq(Append(ss, x)) \o s
<1> DEFINE a == FlattenSeq(ss)
<1>1. a \in Seq(E) /\ x \o s \in Seq(E)
  BY FlattenType
<1>2. FlattenSeq(Append(ss, x)) = a \o x
        /\ FlattenSeq(Append(ss, x \o s)) = a \o (x \o s)
  BY <1>1, FlattenAppend
<1> HIDE DEF a
<1>3. a \o (x \o s) = (a \o x) \o s
  BY <1>1, ConcatRegroups
<1>4. QED
  BY <1>2, <1>3

(* More elements at the end of the last sequence are more at the end. *)
LEMMA FlattenLast ==
  ASSUME NEW E, NEW ss \in Seq(Seq(E)), NEW tt \in Seq(Seq(E)), NEW s \in Seq(E),
         Len(ss) # 0, Len(tt) = Len(ss),
         \A i \in 1 .. Len(ss) - 1 : tt[i] = ss[i],
         tt[Len(ss)] = ss[Len(ss)] \o s
  PROVE  FlattenSeq(tt) = FlattenSeq(ss) \o s
<1> DEFINE n == Len(ss)
           front == SubSeq(ss, 1, n - 1)
<1>1. n \in Nat /\ n # 0 /\ n \in 1 .. n /\ ss[n] \in Seq(E) /\ tt[n] \in Seq(E)
  BY LenProperties, ElementOfSeq
<1>2. /\ front \in Seq(Seq(E)) /\ Len(front) = n - 1
      /\ \A i \in 1 .. n - 1 : front[i] = ss[i]
  BY <1>1
<1> HIDE DEF front
<1>3. ASSUME NEW x \in Seq(E)
      PROVE  /\ Append(front, x) \in Seq(Seq(E)) /\ Len(Append(front, x)) = n
             /\ \A i \in 1 .. n - 1 : Append(front, x)[i] = ss[i]
             /\ Append(front, x)[n] = x
  <2>1. /\ Append(front, x) \in Seq(Seq(E))
           /\ Len(Append(front, x)) = Len(front) + 1
        /\ \A i \in 1 .. Len(front) : Append(front, x)[i] = front[i]
        /\ Append(front, x)[Len(front) + 1] = x
    BY <1>2, AppendProperties
  <2>2. Len(front) + 1 = n
    BY <1>1, <1>2
  <2>3. QED
    BY <2>1, <2>2, <1>1, <1>2
<1>4. ASSUME NEW uu \in Seq(Seq(E)), Len(uu) = n, \A i \in 1 .. n - 1 :
               uu[i] = ss[i]
      PROVE  uu = Append(front, uu[n])
  <2>1. uu[n] \in Seq(E)
    BY <1>1, <1>4, ElementOfSeq
  <2>2. \A i \in 1 .. n : i = n \/ i \in 1 .. n - 1
    BY <1>1
  <2>3. \A i \in 1 .. n : uu[i] = Append(front, uu[n])[i]
    BY <2>1, <2>2, <1>3, <1>4
  <2>4. /\ uu \in Seq(Seq(E)) /\ Append(front, uu[n]) \in Seq(Seq(E))
        /\ Len(uu) = Len(Append(front, uu[n]))
        /\ \A i \in 1 .. Len(uu) : uu[i] = Append(front, uu[n])[i]
    BY <2>1, <2>3, <1>3, <1>4
  <2> DEFINE T == Seq(E)
             vv == Append(front, uu[n])
  <2>5. /\ uu \in Seq(T) /\ vv \in Seq(T) /\ Len(uu) = Len(vv)
        /\ \A i \in 1 .. Len(uu) : uu[i] = vv[i]
    BY <2>4
  <2> HIDE DEF T, vv
  <2>6. uu = vv
    BY <2>5, SeqEqual
  <2>7. QED
    BY <2>6 DEF vv
<1>5. ss = Append(front, ss[n]) /\ tt = Append(front, ss[n] \o s)
  BY <1>1, <1>4
<1> DEFINE x == ss[n]
<1>6. x \in Seq(E) /\ ss = Append(front, x) /\ tt = Append(front, x \o s)
  BY <1>1, <1>5
<1> HIDE DEF x, n
<1>7. FlattenSeq(Append(front, x \o s)) = FlattenSeq(Append(front, x)) \o s
  BY <1>2, <1>6, FlattenMore
<1>8. QED
  BY <1>6, <1>7, Zenon

----------------------------------------------------------------------------
(* A list is a list over any set that holds its nodes. *)
LEMMA SeqOfElements ==
  ASSUME NEW E, NEW s \in Seq(E), NEW S, Elements(s) \subseteq S
  PROVE  s \in Seq(S)
  BY LenProperties, SeqDef DEF Elements

(* An ascending list orders nodes as it orders positions. *)
LEMMA AscendingReflects ==
  ASSUME NEW s \in Seq(Int), Ascending(s),
         NEW i \in 1 .. Len(s), NEW j \in 1 .. Len(s)
  PROVE  /\ s[i] < s[j] => i < j
         /\ s[i] = s[j] => i = j
  BY DEF Ascending

LEMMA AscendingOrder ==
  ASSUME NEW s \in Seq(Int), Ascending(s),
         NEW i \in 1 .. Len(s), NEW j \in 1 .. Len(s), i < j
  PROVE  s[i] < s[j]
  BY DEF Ascending

LEMMA AscendingByPosition ==
  ASSUME NEW s \in Seq(Int), Ascending(s),
         NEW i \in 1 .. Len(s), NEW j \in 1 .. Len(s)
  PROVE  /\ s[i] < s[j] <=> i < j
         /\ s[i] <= s[j] <=> i <= j
<1>1. s[i] \in Int /\ s[j] \in Int /\ i \in Int /\ j \in Int
  OBVIOUS
<1>2. (i < j => s[i] < s[j]) /\ (j < i => s[j] < s[i])
  BY AscendingOrder
<1>3. QED
  BY <1>1, <1>2

LEMMA SubSeqType ==
  ASSUME NEW E, NEW s \in Seq(E), NEW m \in Nat \ {0}, NEW n \in Int, n <= Len(s)
  PROVE  SubSeq(s, m, n) \in Seq(E)
<1>1. CASE m <= n
  <2>1. \A i \in m .. n : s[i] \in E
    BY <1>1
  <2>2. QED
    BY <1>1, <2>1, SubSeqProperties
<1>2. CASE n < m
  BY <1>2
<1>3. QED
  BY <1>1, <1>2

LEMMA WithoutType ==
  ASSUME NEW E, NEW s \in Seq(E), NEW p \in Nat \ {0}, NEW q \in Nat, p <= Len(s) + 1
  PROVE  Without(s, p, q) \in Seq(E)
<1> DEFINE b == p - 1
           c == q + 1
<1>1. b \in Int /\ b <= Len(s) /\ c \in Nat \ {0} /\ 1 \in Nat \ {0} /\ Len(s) \in Int
  OBVIOUS
<1> HIDE DEF b, c
<1>2. SubSeq(s, 1, b) \in Seq(E)
  BY <1>1, SubSeqType
<1>3. SubSeq(s, c, Len(s)) \in Seq(E)
  BY <1>1, SubSeqType
<1>4. SubSeq(s, 1, b) \o SubSeq(s, c, Len(s)) \in Seq(E)
  BY <1>2, <1>3
<1>5. QED
  BY <1>4 DEF Without, b, c

LEMMA Cut ==
  ASSUME NEW s \in Seq(Int), NEW i \in Int, NEW j \in Int,
         1 <= i, i <= j + 1, j <= Len(s)
  PROVE  /\ SubSeq(s, i, j) \in Seq(Int)
         /\ Len(SubSeq(s, i, j)) = j - i + 1
         /\ \A k \in 1 .. j - i + 1 : SubSeq(s, i, j)[k] = s[i + k - 1]
  OBVIOUS

LEMMA Glue ==
  ASSUME NEW a \in Seq(Int), NEW b \in Seq(Int)
  PROVE  /\ a \o b \in Seq(Int)
         /\ Len(a \o b) = Len(a) + Len(b)
         /\ \A k \in 1 .. Len(a) : (a \o b)[k] = a[k]
         /\ \A k \in 1 .. Len(b) : (a \o b)[Len(a) + k] = b[k]
  OBVIOUS

LEMMA WithoutProperties ==
  ASSUME NEW s \in Seq(Int), NEW p \in Int, NEW q \in Int,
         1 <= p, p <= q + 1, q <= Len(s)
  PROVE  /\ Without(s, p, q) \in Seq(Int)
         /\ Len(Without(s, p, q)) = Len(s) - (q - p + 1)
         /\ \A k \in 1 .. p - 1 : Without(s, p, q)[k] = s[k]
         /\ \A k \in q + 1 .. Len(s) : Without(s, p, q)[k - (q - p + 1)] = s[k]
<1> DEFINE a == SubSeq(s, 1, p - 1)
           b == SubSeq(s, q + 1, Len(s))
           n == Len(s)
           w == Without(s, p, q)
<1>0. n \in Nat /\ p \in Int /\ q \in Int /\ 1 <= p /\ p <= q + 1 /\ q <= n
  OBVIOUS
<1>1. a \in Seq(Int) /\ Len(a) = p - 1 /\ \A k \in 1 .. p - 1 : a[k] = s[k]
  BY Cut
<1>2. b \in Seq(Int) /\ Len(b) = n - q /\ \A k \in 1 .. n - q : b[k] = s[q + k]
  BY Cut
<1>3. w = a \o b
  BY DEF Without
<1> HIDE DEF a, b, n, w
<1>4. w \in Seq(Int) /\ Len(w) = n - (q - p + 1)
  <2>1. w \in Seq(Int) /\ Len(w) = Len(a) + Len(b)
    BY <1>1, <1>2, <1>3, Glue, Zenon
  <2>2. QED
    BY <2>1, <1>0, <1>1, <1>2
<1>5. \A k \in 1 .. p - 1 : w[k] = s[k]
  <2>1. \A k \in 1 .. Len(a) : (a \o b)[k] = a[k]
    BY <1>1, <1>2, Glue, Zenon
  <2>2. QED
    BY <1>1, <1>3, <2>1
<1>6. ASSUME NEW k \in q + 1 .. n
      PROVE  w[k - (q - p + 1)] = s[k]
  <2> DEFINE j == k - q
  <2>1. j \in 1 .. n - q /\ Len(a) + j = k - (q - p + 1) /\ q + j = k
    <3>1. k \in Int /\ q + 1 <= k /\ k <= n
      BY <1>0, <1>6
    <3>2. Len(a) = p - 1
      BY <1>1
    <3>3. QED
      BY <1>0, <3>1, <3>2
  <2> HIDE DEF j
  <2>2. (a \o b)[Len(a) + j] = b[j]
    <3>1. j \in 1 .. Len(b)
      BY <2>1, <1>2
    <3>2. \A i \in 1 .. Len(b) : (a \o b)[Len(a) + i] = b[i]
      BY <1>1, <1>2, Glue
    <3>3. QED
      BY <3>1, <3>2, Zenon
  <2>3. b[j] = s[q + j]
    BY <2>1, <1>2
  <2>4. QED
    BY <2>1, <2>2, <2>3, <1>3, Zenon
<1>7. QED
  BY <1>4, <1>5, <1>6 DEF n, w

LEMMA WithoutAscending ==
  ASSUME NEW s \in Seq(Int), Ascending(s), NEW p \in Int, NEW q \in Int,
         1 <= p, p <= q + 1, q <= Len(s)
  PROVE  /\ Ascending(Without(s, p, q))
         /\ Elements(Without(s, p, q)) =
              {s[k] : k \in 1 .. p - 1 \cup q + 1 .. Len(s)}
<1> DEFINE n == Len(s)
           w == Without(s, p, q)
           d == q - p + 1
           from(i) == IF i < p THEN i ELSE i + d
<1>0. /\ n \in Nat /\ d \in Nat /\ p \in Int /\ q \in Int
      /\ 1 <= p /\ q = p + d - 1 /\ q <= n
  OBVIOUS
<1>1. /\ w \in Seq(Int) /\ Len(w) = n - d
      /\ \A k \in 1 .. p - 1 : w[k] = s[k]
      /\ \A k \in q + 1 .. n : w[k - d] = s[k]
  BY WithoutProperties
<1> HIDE DEF n, w, d
<1>2. ASSUME NEW i \in 1 .. n - d
      PROVE  from(i) \in (1 .. p - 1 \cup q + 1 .. n) /\ w[i] = s[from(i)]
  <2>1. CASE i < p
    <3>1. i \in 1 .. p - 1 /\ i \in 1 .. p - 1 \cup q + 1 .. n
      BY <2>1, <1>0
    <3>2. w[i] = s[i]
      BY <3>1, <1>1, Zenon
    <3>3. from(i) = i
      BY <2>1
    <3>4. QED
      BY <3>1, <3>2, <3>3, Zenon
  <2>2. CASE p <= i
    <3>1. i + d \in q + 1 .. n /\ (i + d) - d = i
      BY <2>2, <1>0
    <3>2. w[(i + d) - d] = s[i + d]
      BY <3>1, <1>1, Zenon
    <3>3. QED
      BY <3>1, <3>2, <2>2, <1>0
  <2>3. QED
    BY <2>1, <2>2, <1>0
<1>3. ASSUME NEW i \in 1 .. n - d, NEW j \in 1 .. n - d, i < j
      PROVE  w[i] < w[j]
  <2>1. /\ from(i) \in 1 .. n /\ from(j) \in 1 .. n /\ from(i) < from(j)
    BY <1>0, <1>3
  <2>2. s[from(i)] < s[from(j)]
    BY <2>1 DEF Ascending, n
  <2>3. QED
    BY <2>2, <1>2
<1>4. Ascending(w)
  BY <1>1, <1>3 DEF Ascending
<1>5. \A i \in 1 .. n - d : \E k \in 1 .. p - 1 \cup q + 1 .. n : w[i] = s[k]
  BY <1>2
<1>6. \A k \in 1 .. p - 1 \cup q + 1 .. n : \E i \in 1 .. n - d : w[i] = s[k]
  <2> SUFFICES ASSUME NEW k \in 1 .. p - 1 \cup q + 1 .. n
               PROVE  \E i \in 1 .. n - d : w[i] = s[k]
    OBVIOUS
  <2>1. CASE k \in 1 .. p - 1
    <3>1. k \in 1 .. n - d
      BY <2>1, <1>0
    <3>2. QED
      BY <2>1, <3>1, <1>1
  <2>2. CASE k \in q + 1 .. n
    <3>1. k - d \in 1 .. n - d
      BY <2>2, <1>0
    <3>2. QED
      BY <2>2, <3>1, <1>1
  <2>3. QED
    BY <2>1, <2>2
<1>7. Elements(w) = {s[k] : k \in 1 .. p - 1 \cup q + 1 .. n}
  <2>1. Elements(w) = {w[i] : i \in 1 .. n - d}
    BY <1>1, Zenon DEF Elements
  <2>2. \A i \in 1 .. n - d :
          w[i] \in {s[k] : k \in 1 .. p - 1 \cup q + 1 .. n}
    BY <1>5, Zenon
  <2>3. \A k \in 1 .. p - 1 \cup q + 1 .. n :
          s[k] \in {w[i] : i \in 1 .. n - d}
    BY <1>6, Zenon
  <2>4. QED
    BY <2>1, <2>2, <2>3, Zenon
<1>8. QED
  BY <1>4, <1>7 DEF n, w

LEMMA UnlinkIsWithout ==
  ASSUME NEW s, NEW e
  PROVE  Unlink(s, e) = Without(s, e, e)
  BY DEF Unlink, Without

LEMMA UnlinkProperties ==
  ASSUME NEW s \in Seq(Int), NEW e \in 1 .. Len(s)
  PROVE  /\ Unlink(s, e) \in Seq(Int)
         /\ Len(Unlink(s, e)) = Len(s) - 1
         /\ \A k \in 1 .. e - 1 : Unlink(s, e)[k] = s[k]
         /\ \A k \in e .. Len(s) - 1 : Unlink(s, e)[k] = s[k + 1]
<1> DEFINE n == Len(s)
           u == Unlink(s, e)
<1>0. n \in Nat /\ e \in Int /\ 1 <= e /\ e <= n
  OBVIOUS
<1>1. /\ u \in Seq(Int) /\ Len(u) = n - (e - e + 1)
      /\ \A k \in 1 .. e - 1 : u[k] = s[k]
      /\ \A k \in e + 1 .. n : u[k - (e - e + 1)] = s[k]
  <2>1. e \in Int /\ 1 <= e /\ e <= e + 1 /\ e <= Len(s)
    BY <1>0
  <2>2. u = Without(s, e, e)
    BY UnlinkIsWithout
  <2> HIDE DEF u
  <2>3. QED
    BY <2>1, <2>2, WithoutProperties, Zenon DEF n
<1> HIDE DEF n, u
<1>2. ASSUME NEW k \in e .. n - 1
      PROVE  u[k] = s[k + 1]
  <2>1. k + 1 \in e + 1 .. n /\ (k + 1) - (e - e + 1) = k
    BY <1>0
  <2>2. u[(k + 1) - (e - e + 1)] = s[k + 1]
    BY <2>1, <1>1, Zenon
  <2>3. QED
    BY <2>1, <2>2, Zenon
<1>3. n - (e - e + 1) = n - 1
  BY <1>0
<1>4. QED
  BY <1>1, <1>2, <1>3 DEF n, u

LEMMA UnlinkAscending ==
  ASSUME NEW s \in Seq(Int), Ascending(s), NEW e \in 1 .. Len(s)
  PROVE  /\ Ascending(Unlink(s, e))
         /\ Elements(Unlink(s, e)) = Elements(s) \ {s[e]}
<1> DEFINE n == Len(s)
           u == Unlink(s, e)
<1>0. n \in Nat /\ e \in Int /\ 1 <= e /\ e <= n
  OBVIOUS
<1>1. /\ Ascending(u)
      /\ Elements(u) = {s[k] : k \in 1 .. e - 1 \cup e + 1 .. n}
  BY <1>0, WithoutAscending, UnlinkIsWithout
<1>2. \A k \in 1 .. n : s[k] = s[e] <=> k = e
  BY AscendingReflects
<1>3. Elements(s) = {s[k] : k \in 1 .. n}
  BY DEF Elements
<1> HIDE DEF n, u
<1>4. 1 .. e - 1 \cup e + 1 .. n = (1 .. n) \ {e}
  BY <1>0
<1>5. e \in 1 .. n
  BY <1>0
<1>6. Elements(u) = {s[k] : k \in (1 .. n) \ {e}}
  BY <1>1, <1>4
<1> DEFINE P == 1 .. n
<1> HIDE DEF P
<1>7. {s[k] : k \in P \ {e}} = {s[k] : k \in P} \ {s[e]}
  BY <1>2, <1>5 DEF P
<1>8. QED
  BY <1>1, <1>3, <1>6, <1>7 DEF n, u, P

LEMMA MoveBeforeProperties ==
  ASSUME NEW s \in Seq(Int), NEW q \in 1 .. Len(s), NEW r \in q .. Len(s)
  PROVE  /\ MoveBefore(s, q, r) \in Seq(Int)
         /\ Len(MoveBefore(s, q, r)) = Len(s)
         /\ \A i \in 1 .. q - 1 : MoveBefore(s, q, r)[i] = s[i]
         /\ \A i \in q + 1 .. r : MoveBefore(s, q, r)[i] = s[i - 1]
         /\ \A i \in r + 1 .. Len(s) : MoveBefore(s, q, r)[i] = s[i]
<1> DEFINE n == Len(s)
           F(i) == IF i = q THEN s[r]
                   ELSE IF i \in q + 1 .. r THEN s[i - 1]
                   ELSE s[i]
           f == [i \in 1 .. n |-> F(i)]
<1>1. n \in Nat /\ q \in 1 .. n /\ r \in q .. n /\ \A i \in 1 .. n : s[i] \in Int
  OBVIOUS
<1>2. MoveBefore(s, q, r) = f
  BY DEF MoveBefore
<1> HIDE DEF n
<1>3. ASSUME NEW i \in 1 .. n
      PROVE  F(i) \in Int
  <2>1. CASE i \in q + 1 .. r
    <3>1. i - 1 \in 1 .. n
      BY <1>1, <2>1
    <3>2. QED
      BY <1>1, <2>1, <3>1
  <2>2. CASE i \notin q + 1 .. r
    BY <1>1, <2>2
  <2>3. QED
    BY <2>1, <2>2
<1>4. \A i \in 1 .. q - 1 : i \in 1 .. n /\ F(i) = s[i]
  BY <1>1
<1>5. \A i \in q + 1 .. r : i \in 1 .. n /\ F(i) = s[i - 1]
  BY <1>1
<1>6. \A i \in r + 1 .. n : i \in 1 .. n /\ F(i) = s[i]
  BY <1>1
<1> HIDE DEF F
<1>7. f \in Seq(Int) /\ Len(f) = n
  BY <1>1, <1>3
<1>8. \A i \in 1 .. n : f[i] = F(i)
  OBVIOUS
<1> HIDE DEF f
<1>9. QED
  BY <1>2, <1>4, <1>5, <1>6, <1>7, <1>8 DEF n

(* The nodes that stay when a node takes as its content the nodes between  *)
(* it, the p-th, and the q-th, after the r-th was moved before the q-th    *)
(* and freed: all but the content and the r-th.                            *)
LEMMA TakeContentRest ==
  ASSUME NEW s \in Seq(Int), NEW p \in 1 .. Len(s),
         NEW q \in p + 1 .. Len(s), NEW r \in q .. Len(s)
  PROVE  Without(MoveBefore(s, q, r), p + 1, q)
           = Unlink(Without(s, p + 1, q - 1), r - (q - 1 - p))
<1> DEFINE n == Len(s)
           d == q - 1 - p
           moved == MoveBefore(s, q, r)
           x == Without(moved, p + 1, q)
           y == Without(s, p + 1, q - 1)
           z == Unlink(y, r - d)
<1>0. /\ n \in Nat /\ d \in Nat /\ p \in Int /\ q \in Int /\ r \in Int
      /\ 1 <= p /\ q = p + 1 + d /\ q <= r /\ r <= n
  OBVIOUS
<1>1. /\ moved \in Seq(Int) /\ Len(moved) = n
      /\ \A i \in 1 .. q - 1 : moved[i] = s[i]
      /\ \A i \in q + 1 .. r : moved[i] = s[i - 1]
      /\ \A i \in r + 1 .. n : moved[i] = s[i]
  <2>1. q \in 1 .. Len(s)
    BY <1>0
  <2>2. QED
    BY <2>1, MoveBeforeProperties, Zenon DEF n, moved
<1> HIDE DEF moved
<1>2. /\ x \in Seq(Int) /\ Len(x) = n - (q - (p + 1) + 1)
      /\ \A k \in 1 .. (p + 1) - 1 : x[k] = moved[k]
      /\ \A k \in q + 1 .. n : x[k - (q - (p + 1) + 1)] = moved[k]
  <2>1. p + 1 \in Int /\ 1 <= p + 1 /\ p + 1 <= q + 1 /\ q <= Len(moved)
    BY <1>0, <1>1
  <2>2. q \in Int
    BY <1>0
  <2>3. /\ x \in Seq(Int) /\ Len(x) = Len(moved) - (q - (p + 1) + 1)
        /\ \A k \in 1 .. (p + 1) - 1 : x[k] = moved[k]
        /\ \A k \in q + 1 .. Len(moved) :
             x[k - (q - (p + 1) + 1)] = moved[k]
    <3>1. moved \in Seq(Int)
      BY <1>1
    <3>2. QED
      BY <2>1, <2>2, <3>1, WithoutProperties, Zenon
  <2>4. QED
    BY <2>3, <1>1
<1>3. /\ y \in Seq(Int) /\ Len(y) = n - ((q - 1) - (p + 1) + 1)
      /\ \A k \in 1 .. (p + 1) - 1 : y[k] = s[k]
      /\ \A k \in (q - 1) + 1 .. n : y[k - ((q - 1) - (p + 1) + 1)] = s[k]
  <2>1. /\ p + 1 \in Int /\ q - 1 \in Int /\ 1 <= p + 1
        /\ p + 1 <= (q - 1) + 1 /\ q - 1 <= Len(s)
    BY <1>0
  <2>2. QED
    BY <2>1, WithoutProperties, Zenon DEF n
<1> HIDE DEF x, y, n, d
<1>4. /\ q - (p + 1) + 1 = d + 1 /\ (q - 1) - (p + 1) + 1 = d
      /\ (p + 1) - 1 = p /\ (q - 1) + 1 = q
  BY <1>0
<1>5. r - d \in 1 .. Len(y)
  BY <1>0, <1>3, <1>4
<1>6. /\ z \in Seq(Int) /\ Len(z) = Len(y) - 1
      /\ \A k \in 1 .. (r - d) - 1 : z[k] = y[k]
      /\ \A k \in r - d .. Len(y) - 1 : z[k] = y[k + 1]
  BY <1>3, <1>5, UnlinkProperties
<1> HIDE DEF z
<1>7. Len(x) = n - d - 1 /\ Len(z) = n - d - 1
  BY <1>0, <1>2, <1>3, <1>4, <1>6
<1>8. ASSUME NEW i \in 1 .. n - d - 1
      PROVE  x[i] = z[i]
  <2>1. CASE i <= p
    <3>1. /\ i \in 1 .. (p + 1) - 1 /\ i \in 1 .. q - 1
          /\ i \in 1 .. (r - d) - 1
      BY <2>1, <1>0
    <3>2. x[i] = moved[i] /\ moved[i] = s[i] /\ y[i] = s[i] /\ z[i] = y[i]
      BY <3>1, <1>1, <1>2, <1>3, <1>6, Zenon
    <3>3. QED
      BY <3>2
  <2>2. CASE p < i /\ i + d < r
    <3>1. /\ i + d + 1 \in q + 1 .. n /\ i + d + 1 \in q + 1 .. r
          /\ i \in 1 .. (r - d) - 1 /\ i + d \in (q - 1) + 1 .. n
          /\ (i + d + 1) - (q - (p + 1) + 1) = i
          /\ (i + d + 1) - 1 = i + d
          /\ (i + d) - ((q - 1) - (p + 1) + 1) = i
      BY <2>2, <1>0
    <3>2. x[(i + d + 1) - (q - (p + 1) + 1)] = moved[i + d + 1]
      BY <3>1, <1>2, Zenon
    <3>3. moved[i + d + 1] = s[(i + d + 1) - 1]
      BY <3>1, <1>1, Zenon
    <3>4. z[i] = y[i]
      BY <3>1, <1>6, Zenon
    <3>5. y[(i + d) - ((q - 1) - (p + 1) + 1)] = s[i + d]
      BY <3>1, <1>3, Zenon
    <3>6. QED
      BY <3>1, <3>2, <3>3, <3>4, <3>5, Zenon
  <2>3. CASE p < i /\ r <= i + d
    <3>1. /\ i + d + 1 \in q + 1 .. n /\ i + d + 1 \in r + 1 .. n
          /\ i \in r - d .. Len(y) - 1 /\ i + d + 1 \in (q - 1) + 1 .. n
          /\ (i + d + 1) - (q - (p + 1) + 1) = i
          /\ (i + d + 1) - ((q - 1) - (p + 1) + 1) = i + 1
      BY <2>3, <1>0, <1>3, <1>4
    <3>2. x[(i + d + 1) - (q - (p + 1) + 1)] = moved[i + d + 1]
      BY <3>1, <1>2, Zenon
    <3>3. moved[i + d + 1] = s[i + d + 1]
      BY <3>1, <1>1, Zenon
    <3>4. z[i] = y[i + 1]
      BY <3>1, <1>6, Zenon
    <3>5. y[(i + d + 1) - ((q - 1) - (p + 1) + 1)] = s[i + d + 1]
      BY <3>1, <1>3, Zenon
    <3>6. QED
      BY <3>1, <3>2, <3>3, <3>4, <3>5, Zenon
  <2>4. QED
    BY <2>1, <2>2, <2>3, <1>0
<1>9. x = z
  BY <1>2, <1>6, <1>7, <1>8, SeqEqual
<1>10. QED
  BY <1>9 DEF moved, x, y, z, d

LEMMA TakeContentAscending ==
  ASSUME NEW s \in Seq(Int), Ascending(s), NEW p \in 1 .. Len(s),
         NEW q \in p + 1 .. Len(s), NEW r \in q .. Len(s)
  PROVE  /\ Without(MoveBefore(s, q, r), p + 1, q) \in Seq(Int)
         /\ Ascending(Without(MoveBefore(s, q, r), p + 1, q))
         /\ \A x : x \in Elements(Without(MoveBefore(s, q, r), p + 1, q)) <=>
              /\ x \in Elements(s) /\ x # s[r]
              /\ x <= s[p] \/ s[q] <= x
<1> DEFINE n == Len(s)
           d == q - 1 - p
           y == Without(s, p + 1, q - 1)
           z == Unlink(y, r - d)
<1>0. /\ n \in Nat /\ d \in Nat /\ p \in Int /\ q \in Int /\ r \in Int
      /\ 1 <= p /\ q = p + 1 + d /\ q <= r /\ r <= n
  OBVIOUS
<1>1. /\ y \in Seq(Int) /\ Len(y) = n - ((q - 1) - (p + 1) + 1)
      /\ \A k \in (q - 1) + 1 .. n : y[k - ((q - 1) - (p + 1) + 1)] = s[k]
  <2>1. /\ p + 1 \in Int /\ q - 1 \in Int /\ 1 <= p + 1
        /\ p + 1 <= (q - 1) + 1 /\ q - 1 <= Len(s)
    BY <1>0
  <2>2. QED
    BY <2>1, WithoutProperties, Zenon DEF n
<1>2. /\ Ascending(y)
      /\ Elements(y) = {s[k] : k \in 1 .. (p + 1) - 1 \cup (q - 1) + 1 .. n}
  <2>1. /\ p + 1 \in Int /\ q - 1 \in Int /\ 1 <= p + 1
        /\ p + 1 <= (q - 1) + 1 /\ q - 1 <= Len(s)
    BY <1>0
  <2>2. QED
    BY <2>1, WithoutAscending, Zenon DEF n
<1>3. Without(MoveBefore(s, q, r), p + 1, q) = z
  BY TakeContentRest
<1> HIDE DEF n, d, y
<1>4. /\ (q - 1) - (p + 1) + 1 = d /\ (p + 1) - 1 = p /\ (q - 1) + 1 = q
      /\ r \in (q - 1) + 1 .. n
  BY <1>0
<1>5. r - d \in 1 .. Len(y)
  BY <1>0, <1>1, <1>4
<1>6. y[r - d] = s[r]
  BY <1>1, <1>4, Zenon
<1>7. z \in Seq(Int) /\ Ascending(z) /\ Elements(z) = Elements(y) \ {s[r]}
  <2>1. z \in Seq(Int)
    BY <1>1, <1>5, UnlinkProperties, Zenon
  <2>2. Ascending(z) /\ Elements(z) = Elements(y) \ {y[r - d]}
    BY <1>1, <1>2, <1>5, UnlinkAscending, Zenon
  <2>3. QED
    BY <2>1, <2>2, <1>6, Zenon
<1>8. Elements(Without(MoveBefore(s, q, r), p + 1, q))
        = {s[k] : k \in 1 .. p \cup q .. n} \ {s[r]}
  BY <1>2, <1>3, <1>4, <1>7
<1> HIDE DEF z
<1>9. \A k \in 1 .. n : k \in 1 .. p \cup q .. n <=> s[k] <= s[p] \/ s[q] <= s[k]
  <2>1. p \in 1 .. n /\ q \in 1 .. n
    BY <1>0
  <2>2. ASSUME NEW k \in 1 .. n
        PROVE  (s[k] <= s[p] <=> k <= p) /\ (s[q] <= s[k] <=> q <= k)
    BY <2>1, AscendingByPosition DEF n
  <2>3. QED
    BY <1>0, <2>2
<1>10. Elements(s) = {s[k] : k \in 1 .. n} /\ 1 .. p \cup q .. n \subseteq 1 .. n
  BY <1>0 DEF Elements, n
<1>11. \A x : x \in Elements(Without(MoveBefore(s, q, r), p + 1, q)) <=>
                 /\ x \in Elements(s) /\ x # s[r]
                 /\ x <= s[p] \/ s[q] <= x
  BY <1>8, <1>9, <1>10, Zenon
<1>12. QED
  BY <1>3, <1>7, <1>11

LEMMA TakeContentTaken ==
  ASSUME NEW s \in Seq(Int), Ascending(s), NEW p \in 1 .. Len(s),
         NEW q \in p + 1 .. Len(s), NEW r \in q .. Len(s)
  PROVE  /\ SubSeq(MoveBefore(s, q, r), p + 1, q - 1) \in Seq(Int)
         /\ Ascending(SubSeq(MoveBefore(s, q, r), p + 1, q - 1))
         /\ \A x : x \in Elements(SubSeq(MoveBefore(s, q, r), p + 1, q - 1)) <=>
              x \in Elements(s) /\ s[p] < x /\ x < s[q]
<1> DEFINE n == Len(s)
           d == q - 1 - p
           moved == MoveBefore(s, q, r)
           t == SubSeq(moved, p + 1, q - 1)
<1>0. /\ n \in Nat /\ d \in Nat /\ p \in Int /\ q \in Int /\ r \in Int
      /\ 1 <= p /\ q = p + 1 + d /\ q <= r /\ r <= n
  OBVIOUS
<1>1. /\ moved \in Seq(Int) /\ Len(moved) = n
      /\ \A i \in 1 .. q - 1 : moved[i] = s[i]
  <2>1. q \in 1 .. Len(s) /\ r \in q .. Len(s)
    BY <1>0
  <2>2. QED
    BY <2>1, MoveBeforeProperties, Zenon
<1> HIDE DEF moved
<1>2. /\ t \in Seq(Int) /\ Len(t) = (q - 1) - (p + 1) + 1
      /\ \A k \in 1 .. (q - 1) - (p + 1) + 1 : t[k] = moved[p + 1 + k - 1]
  <2>1. /\ p + 1 \in Int /\ q - 1 \in Int /\ 1 <= p + 1
        /\ p + 1 <= (q - 1) + 1 /\ q - 1 <= Len(moved)
    BY <1>0, <1>1
  <2>2. QED
    BY <2>1, <1>1, Cut
<1> HIDE DEF t, n, d
<1>3. (q - 1) - (p + 1) + 1 = d
  BY <1>0
<1>4. ASSUME NEW k \in 1 .. d
      PROVE  p + k \in p + 1 .. q - 1 /\ t[k] = s[p + k]
  <2>1. /\ p + 1 + k - 1 = p + k /\ p + k \in 1 .. q - 1
        /\ p + k \in p + 1 .. q - 1
    BY <1>0
  <2>2. t[k] = moved[p + 1 + k - 1]
    BY <1>2, <1>3, Zenon
  <2>3. moved[p + k] = s[p + k]
    BY <1>1, <2>1, Zenon
  <2>4. QED
    BY <2>1, <2>2, <2>3, Zenon
<1>5. ASSUME NEW j \in p + 1 .. q - 1
      PROVE  \E k \in 1 .. d : t[k] = s[j]
  <2>1. j - p \in 1 .. d /\ p + (j - p) = j
    BY <1>0
  <2>2. t[j - p] = s[p + (j - p)]
    BY <1>4, <2>1, Zenon
  <2>3. QED
    BY <2>1, <2>2, Zenon
<1>6. Elements(t) = {t[k] : k \in 1 .. d}
  BY <1>2, <1>3, Zenon DEF Elements
<1>7. {t[k] : k \in 1 .. d} = {s[j] : j \in p + 1 .. q - 1}
  <2>1. \A k \in 1 .. d : t[k] \in {s[j] : j \in p + 1 .. q - 1}
    BY <1>4, Zenon
  <2>2. \A j \in p + 1 .. q - 1 : s[j] \in {t[k] : k \in 1 .. d}
    BY <1>5, Zenon
  <2>3. QED
    BY <2>1, <2>2, Zenon
<1>8. \A k \in 1 .. n : k \in p + 1 .. q - 1 <=> s[p] < s[k] /\ s[k] < s[q]
  <2>1. p \in 1 .. n /\ q \in 1 .. n
    BY <1>0
  <2>2. ASSUME NEW k \in 1 .. n
        PROVE  (s[p] < s[k] <=> p < k) /\ (s[k] < s[q] <=> k < q)
    BY <2>1, AscendingByPosition DEF n
  <2>3. QED
    BY <1>0, <2>2
<1>9. Elements(s) = {s[k] : k \in 1 .. n} /\ p + 1 .. q - 1 \subseteq 1 .. n
  BY <1>0 DEF Elements, n
<1>10. \A x : x \in Elements(t) <=> x \in Elements(s) /\ s[p] < x /\ x < s[q]
  BY <1>6, <1>7, <1>8, <1>9, Zenon
<1>11. Ascending(t)
  <2>1. ASSUME NEW i \in 1 .. d, NEW j \in 1 .. d, i < j
        PROVE  t[i] < t[j]
    <3>1. p + i \in 1 .. Len(s) /\ p + j \in 1 .. Len(s) /\ p + i < p + j
      BY <1>0, <2>1 DEF n
    <3>2. s[p + i] < s[p + j]
      BY <3>1, AscendingOrder
    <3>3. QED
      BY <3>2, <1>4
  <2>2. Len(t) = d
    BY <1>2, <1>3
  <2>3. QED
    BY <2>1, <2>2 DEF Ascending
<1>12. QED
  BY <1>2, <1>10, <1>11 DEF t, moved

----------------------------------------------------------------------------
(* The nodes of D come in order in s, and those of a before those of b. *)
Rises(s, D) ==
  \A i, j \in 1 .. Len(s) : i < j /\ s[i] \in D /\ s[j] \in D => s[i] < s[j]
Apart(a, b, D) ==
  \A x \in Elements(a) : \A y \in Elements(b) : x \in D /\ y \in D => x < y
AllApart(ss, D) ==
  /\ \A i \in 1 .. Len(ss) : Rises(ss[i], D)
  /\ \A i, j \in 1 .. Len(ss) : i < j => Apart(ss[i], ss[j], D)

----------------------------------------------------------------------------
(* Among is a function defined by recursion on the positions of s. *)
AmongUpTo(f, s, S, E) ==
  /\ f \in [0 .. Len(s) -> Seq(E)]
  /\ f[0] = <<>>
  /\ \A i \in 1 .. Len(s) :
       f[i] = IF s[i] \in S THEN Append(f[i - 1], s[i]) ELSE f[i - 1]
  /\ Among(s, S) = f[Len(s)]

LEMMA AmongByRecursion ==
  ASSUME NEW E, NEW s \in Seq(E), NEW S
  PROVE  \E f : AmongUpTo(f, s, S, E)
<1> DEFINE step == [i \in 1 .. Len(s) |-> [x \in Seq(E) |->
                      IF s[i] \in S THEN Append(x, s[i]) ELSE x]]
           Unfolds(f) == f = [i \in 0 .. Len(s) |->
                        IF i = 0 THEN <<>>
                        ELSE IF s[i] \in S THEN Append(f[i - 1], s[i])
                        ELSE f[i - 1]]
<1>1. Len(s) \in Nat /\ <<>> \in Seq(E)
  OBVIOUS
<1>2. IsStep(step, Len(s), Seq(E))
  BY DEF IsStep
<1>3. PICK f : Iterates(f, <<>>, step, Len(s), Seq(E))
  BY <1>1, <1>2, Recursion
<1>4. \A i \in 1 .. Len(s) :
        f[i] = IF s[i] \in S THEN Append(f[i - 1], s[i]) ELSE f[i - 1]
  <2> TAKE i \in 1 .. Len(s)
  <2>1. i - 1 \in 0 .. Len(s) /\ f \in [0 .. Len(s) -> Seq(E)]
    BY <1>1, <1>3 DEF Iterates
  <2>2. step[i][f[i - 1]] = IF s[i] \in S THEN Append(f[i - 1], s[i]) ELSE f[i - 1]
    BY <2>1
  <2> HIDE DEF step
  <2>3. QED
    BY <2>2, <1>3 DEF Iterates
<1>5. Unfolds(f)
  <2> DEFINE h == [i \in 0 .. Len(s) |->
                        IF i = 0 THEN <<>>
                        ELSE IF s[i] \in S THEN Append(f[i - 1], s[i])
                        ELSE f[i - 1]]
  <2>1. \A i \in 0 .. Len(s) : h[i] = f[i]
    <3> HIDE DEF step
    <3> TAKE i \in 0 .. Len(s)
    <3>1. CASE i = 0
      BY <3>1, <1>3 DEF Iterates
    <3>2. CASE i # 0
      <4>1. i \in 1 .. Len(s)
        BY <3>2, <1>1
      <4>2. QED
        BY <4>1, <3>2, <1>4
    <3>3. QED
      BY <3>1, <3>2
    <2>3. f = h
    <3>1. h = [i \in 0 .. Len(s) |-> h[i]] /\ f = [i \in 0 .. Len(s) |-> f[i]]
      BY <1>3 DEF Iterates
    <3> HIDE DEF h
    <3>2. QED BY <3>1, <2>1
  <2>4. QED
    BY <2>3
<1>6. \A g : Unfolds(g) => g = f
  <2> SUFFICES ASSUME NEW g, Unfolds(g) PROVE g = f
    OBVIOUS
  <2>1. f[0] = g[0]
    BY <1>3, <1>1 DEF Iterates
  <2>2. ASSUME NEW i \in 1 .. Len(s), f[i - 1] = g[i - 1]
        PROVE  f[i] = g[i]
    <3>1. i \in 0 .. Len(s) /\ i # 0
      BY <1>1
    <3>2. g[i] = IF s[i] \in S THEN Append(g[i - 1], s[i]) ELSE g[i - 1]
      BY <3>1
    <3>3. QED
      BY <3>2, <2>2, <1>4
  <2>3. \A i \in 0 .. Len(s) : f[i] = g[i]
    <3> HIDE DEF Unfolds
    <3> DEFINE N == Len(s)
    <3>1. N \in Nat
      BY <1>1
    <3>2. \A i \in 1 .. N : f[i - 1] = g[i - 1] => f[i] = g[i]
      BY <2>2
    <3> HIDE DEF N
    <3>3. StepAlike(f, g, N)
      BY ONLY <3>2, <2>1 DEF StepAlike
    <3>4. \A i \in 0 .. N : f[i] = g[i]
      BY ONLY <3>1, <3>3, RecursionUnique
    <3>5. QED
      BY <3>4 DEF N
  <2>4. QED
    BY <2>3, <1>3 DEF Iterates
<1>7. Among(s, S) = (CHOOSE g : Unfolds(g))[Len(s)]
  BY DEF Among
<1>8. (CHOOSE g : Unfolds(g)) = f
  <2> HIDE DEF Unfolds
  <2>1. QED BY <1>5, <1>6
<1> HIDE DEF step, Unfolds
<1>9. Among(s, S) = f[Len(s)]
  BY <1>7, <1>8
<1>10. f \in [0 .. Len(s) -> Seq(E)] /\ f[0] = <<>>
  BY <1>3 DEF Iterates
<1>11. AmongUpTo(f, s, S, E)
  BY <1>4, <1>9, <1>10 DEF AmongUpTo
<1>12. QED
  BY <1>11

(* It takes its nodes from s and S... *)
LEMMA AmongProperties ==
  ASSUME NEW E, NEW s \in Seq(E), NEW S
  PROVE  /\ Among(s, S) \in Seq(E)
         /\ Elements(Among(s, S)) = Elements(s) \cap S
<1>0. PICK f : AmongUpTo(f, s, S, E)
  BY AmongByRecursion
<1>1. /\ f \in [0 .. Len(s) -> Seq(E)]
      /\ f[0] = <<>>
      /\ \A i \in 1 .. Len(s) :
           f[i] = IF s[i] \in S THEN Append(f[i - 1], s[i]) ELSE f[i - 1]
      /\ Among(s, S) = f[Len(s)]
  BY <1>0 DEF AmongUpTo
<1> DEFINE Seen(n) == {s[p] : p \in 1 .. n}
           G == {n \in 0 .. Len(s) : Elements(f[n]) = Seen(n) \cap S}
<1>2. Len(s) \in Nat
  OBVIOUS
<1>3. 0 \in G
  BY <1>1, <1>2 DEF Elements
<1>4. ASSUME NEW k \in 0 .. Len(s) - 1, k \in G
      PROVE  k + 1 \in G
  <2>1. k + 1 \in 1 .. Len(s) /\ k + 1 \in 0 .. Len(s) /\ (k + 1) - 1 = k
          /\ k \in 0 .. Len(s)
    BY <1>2
  <2>2. Seen(k + 1) = Seen(k) \cup {s[k + 1]}
    BY <2>1
  <2>3. f[k + 1] = IF s[k + 1] \in S THEN Append(f[k], s[k + 1]) ELSE f[k]
    BY <1>1, <2>1
  <2>4. f[k] \in Seq(E) /\ s[k + 1] \in E
    BY <1>1, <2>1
  <2>5. Elements(Append(f[k], s[k + 1])) = Elements(f[k]) \cup {s[k + 1]}
    <3> DEFINE a == f[k]
               e == s[k + 1]
               b == Append(a, e)
    <3>1. a \in Seq(E) /\ e \in E
      BY <2>4
    <3> HIDE DEF a, e
    <3>2. /\ Len(a) \in Nat /\ Len(b) = Len(a) + 1 /\ b[Len(a) + 1] = e
          /\ \A i \in 1 .. Len(a) : b[i] = a[i]
      BY ONLY <3>1, AppendProperties, LenProperties
    <3> HIDE DEF b
    <3>3. \A i : i \in 1 .. Len(b) <=> i \in 1 .. Len(a) \/ i = Len(a) + 1
      BY ONLY <3>2
    <3>4. Elements(b) = Elements(a) \cup {e}
      BY ONLY <3>2, <3>3 DEF Elements
    <3>5. QED
      BY <3>4 DEF a, b, e
  <2>6. Elements(f[k + 1]) = Seen(k + 1) \cap S
    <3>1. Elements(f[k]) = Seen(k) \cap S
      BY <1>4
    <3> HIDE DEF Seen
    <3>2. QED
      BY ONLY <3>1, <2>2, <2>3, <2>5
  <2>7. QED
    BY <2>1, <2>6
<1> HIDE DEF G
<1>5. \A n \in 0 .. Len(s) : n \in G
  BY <1>2, <1>3, <1>4, BoundedInduction, Zenon
<1>6. Elements(f[Len(s)]) = {s[p] : p \in 1 .. Len(s)} \cap S
        /\ f[Len(s)] \in Seq(E)
  BY <1>1, <1>2, <1>5 DEF G
<1>7. QED
  BY <1>1, <1>6 DEF Elements

(* ... in the order of s. *)
LEMMA AmongRises ==
  ASSUME NEW s \in Seq(Int), NEW S, Rises(s, S)
  PROVE  Ascending(Among(s, S))
<1>0. PICK f : AmongUpTo(f, s, S, Int)
  BY AmongByRecursion
<1>1. /\ f \in [0 .. Len(s) -> Seq(Int)]
      /\ f[0] = <<>>
      /\ \A i \in 1 .. Len(s) :
           f[i] = IF s[i] \in S THEN Append(f[i - 1], s[i]) ELSE f[i - 1]
      /\ Among(s, S) = f[Len(s)]
  BY <1>0 DEF AmongUpTo
<1> DEFINE G == {n \in 0 .. Len(s) :
                   /\ Ascending(f[n])
                   /\ \A p \in 1 .. Len(f[n]), q \in n + 1 .. Len(s) :
                        s[q] \in S => f[n][p] < s[q]}
<1>2. Len(s) \in Nat
  OBVIOUS
<1>3. 0 \in G
  BY <1>1, <1>2 DEF Ascending
<1>4. ASSUME NEW k \in 0 .. Len(s) - 1, k \in G
      PROVE  k + 1 \in G
  <2>1. k + 1 \in 1 .. Len(s) /\ k + 1 \in 0 .. Len(s) /\ (k + 1) - 1 = k
          /\ k \in 0 .. Len(s)
    BY <1>2
  <2>2. f[k + 1] = IF s[k + 1] \in S THEN Append(f[k], s[k + 1]) ELSE f[k]
    BY <1>1, <2>1
  <2>3. f[k] \in Seq(Int) /\ f[k + 1] \in Seq(Int) /\ s[k + 1] \in Int
          /\ Len(f[k]) \in Nat
    BY <1>1, <2>1
  <2>4. /\ Ascending(f[k])
        /\ \A p \in 1 .. Len(f[k]), q \in k + 1 .. Len(s) : s[q] \in S => f[k][p] < s[q]
    BY <1>4
  <2>5. \A q \in k + 2 .. Len(s) : s[k + 1] \in S /\ s[q] \in S => s[k + 1] < s[q]
    BY <2>1 DEF Rises
  <2>6. CASE s[k + 1] \notin S
    <3>1. f[k + 1] = f[k]
      BY <2>2, <2>6
    <3>2. QED
      BY <3>1, <2>1, <2>4
  <2>7. CASE s[k + 1] \in S
    <3>1. /\ Len(f[k + 1]) = Len(f[k]) + 1
          /\ \A p \in 1 .. Len(f[k]) : f[k + 1][p] = f[k][p]
          /\ f[k + 1][Len(f[k]) + 1] = s[k + 1]
      BY <2>2, <2>3, <2>7, AppendProperties
    <3>2. \A p \in 1 .. Len(f[k]) : f[k][p] < s[k + 1]
      <4>1. k + 1 \in k + 1 .. Len(s)
        BY <2>1
      <4>2. QED
        BY <4>1, <2>4, <2>7, Zenon
    <3>3. ASSUME NEW p \in 1 .. Len(f[k + 1]), NEW q \in 1 .. Len(f[k + 1]), p < q
          PROVE  f[k + 1][p] < f[k + 1][q]
      <4>1. CASE q = Len(f[k]) + 1
        <5>1. p \in 1 .. Len(f[k])
          BY <4>1, <3>3, <2>3
        <5>2. QED
          BY <4>1, <5>1, <3>1, <3>2
      <4>2. CASE q \in 1 .. Len(f[k])
        <5>1. p \in 1 .. Len(f[k])
          BY <4>2, <3>3, <2>3
        <5>2. f[k][p] < f[k][q]
          BY <4>2, <5>1, <3>3, <2>4 DEF Ascending
        <5>3. QED
          BY <4>2, <5>1, <5>2, <3>1, Zenon
      <4>3. q = Len(f[k]) + 1 \/ q \in 1 .. Len(f[k])
        BY <3>1, <2>3
      <4>4. QED
        BY ONLY <4>1, <4>2, <4>3
    <3>4. ASSUME NEW p \in 1 .. Len(f[k + 1]), NEW q \in (k + 1) + 1 .. Len(s), s[q] \in S
          PROVE  f[k + 1][p] < s[q]
      <4>1. CASE p = Len(f[k]) + 1
        BY <4>1, <3>1, <3>4, <2>5, <2>7
      <4>2. CASE p \in 1 .. Len(f[k])
        <5>1. f[k + 1][p] = f[k][p]
          BY <4>2, <3>1
        <5>2. q \in k + 1 .. Len(s)
          BY <3>4, <2>1
        <5>3. f[k][p] < s[q]
          BY <5>2, <4>2, <3>4, <2>4, Zenon
        <5>4. QED
          BY <5>1, <5>3
      <4>3. p = Len(f[k]) + 1 \/ p \in 1 .. Len(f[k])
        BY <3>1, <2>3
      <4>4. QED
        BY ONLY <4>1, <4>2, <4>3
    <3>5. QED
      BY <2>1, <3>3, <3>4 DEF Ascending
  <2>8. QED
    BY <2>6, <2>7
<1> HIDE DEF G
<1>5. \A n \in 0 .. Len(s) : n \in G
  BY <1>2, <1>3, <1>4, BoundedInduction, Zenon
<1>6. QED
  BY <1>1, <1>2, <1>5 DEF G

LEMMA AmongAscending ==
  ASSUME NEW s \in Seq(Int), Ascending(s), NEW S
  PROVE  Ascending(Among(s, S))
<1>1. Rises(s, S)
  BY DEF Ascending, Rises
<1>2. QED
  BY <1>1, AmongRises

(* What is kept of a list that goes on in another. *)
LEMMA AmongNothing ==
  ASSUME NEW S
  PROVE  Among(<<>>, S) = <<>>
<1>1. PICK f : AmongUpTo(f, <<>>, S, Int)
  <2>1. <<>> \in Seq(Int)
    OBVIOUS
  <2>2. QED
    BY <2>1, AmongByRecursion
<1>2. Len(<<>>) = 0
  OBVIOUS
<1>3. QED
  BY <1>1, <1>2 DEF AmongUpTo

LEMMA AmongAppended ==
  ASSUME NEW E, NEW s \in Seq(E), NEW x \in E, NEW S
  PROVE  Among(Append(s, x), S) = IF x \in S THEN Append(Among(s, S), x)
                                  ELSE Among(s, S)
<1> DEFINE t == Append(s, x)
           n == Len(s)
<1>0. /\ n \in Nat /\ t \in Seq(E) /\ Len(t) = n + 1 /\ t[n + 1] = x
      /\ \A i \in 1 .. n : t[i] = s[i]
  BY AppendProperties, LenProperties
<1>1. PICK f : AmongUpTo(f, s, S, E)
  BY AmongByRecursion
<1>2. PICK g : AmongUpTo(g, t, S, E)
  <2> HIDE DEF t
  <2>1. QED
    BY <1>0, AmongByRecursion
<1>3. /\ f[0] = <<>> /\ Among(s, S) = f[n]
      /\ \A i \in 1 .. n :
           f[i] = IF s[i] \in S THEN Append(f[i - 1], s[i]) ELSE f[i - 1]
  BY <1>1 DEF AmongUpTo
<1> HIDE DEF t
<1>4. /\ g[0] = <<>> /\ Among(t, S) = g[Len(t)]
      /\ \A i \in 1 .. Len(t) :
           g[i] = IF t[i] \in S THEN Append(g[i - 1], t[i]) ELSE g[i - 1]
  BY <1>2 DEF AmongUpTo
<1> HIDE DEF n
<1> DEFINE G == {k \in 0 .. n : g[k] = f[k]}
<1>5. 0 \in G
  BY <1>0, <1>3, <1>4
<1>6. ASSUME NEW k \in 0 .. n - 1, k \in G
      PROVE  k + 1 \in G
  <2>1. k + 1 \in 1 .. n /\ k + 1 \in 1 .. Len(t) /\ k + 1 \in 0 .. n /\ (k + 1) - 1 = k
    BY <1>0
  <2>2. g[k] = f[k] /\ t[k + 1] = s[k + 1]
    BY <1>0, <1>6, <2>1
  <2>3. /\ g[k + 1] = IF t[k + 1] \in S THEN Append(g[k], t[k + 1]) ELSE g[k]
        /\ f[k + 1] = IF s[k + 1] \in S THEN Append(f[k], s[k + 1]) ELSE f[k]
    BY <1>3, <1>4, <2>1
  <2>4. g[k + 1] = f[k + 1]
    BY ONLY <2>2, <2>3
  <2>5. QED
    BY <2>1, <2>4
<1> HIDE DEF G
<1>7. \A k \in 0 .. n : k \in G
  BY <1>0, <1>5, <1>6, BoundedInduction, Zenon
<1>8. g[n] = f[n]
  BY <1>0, <1>7 DEF G
<1>9. n + 1 \in 1 .. Len(t) /\ (n + 1) - 1 = n
  BY <1>0
<1>10. g[n + 1] = IF x \in S THEN Append(g[n], x) ELSE g[n]
  BY ONLY <1>0, <1>4, <1>9
<1>11. QED
  BY ONLY <1>0, <1>3, <1>4, <1>8, <1>10 DEF t

LEMMA AmongJoined ==
  ASSUME NEW E, NEW a \in Seq(E), NEW b \in Seq(E), NEW S
  PROVE  Among(a \o b, S) = Among(a, S) \o Among(b, S)
<1> DEFINE n == Len(b)
           first(k) == SubSeq(b, 1, k)
           G == {k \in 0 .. n :
                   Among(a \o first(k), S) = Among(a, S) \o Among(first(k), S)}
<1>0. n \in Nat
  BY LenProperties
<1>1. /\ Among(a, S) \in Seq(E)
      /\ \A s \in Seq(E) : Among(s, S) \in Seq(E)
  BY AmongProperties
<1>2. 0 \in G
  <2>1. first(0) = <<>> /\ a \o <<>> = a /\ Among(a, S) \o <<>> = Among(a, S)
    BY <1>1
  <2>2. Among(first(0), S) = <<>>
    BY <2>1, AmongNothing
  <2> HIDE DEF first
  <2>3. Among(a \o first(0), S) = Among(a, S) \o Among(first(0), S)
    BY ONLY <2>1, <2>2, Zenon
  <2>4. 0 \in 0 .. n
    BY <1>0
  <2>5. QED
    BY <2>3, <2>4
<1>3. ASSUME NEW k \in 0 .. n - 1, k \in G
      PROVE  k + 1 \in G
  <2> DEFINE s == first(k)
             t == first(k + 1)
             x == b[k + 1]
  <2>1. k + 1 \in 1 .. n /\ k + 1 \in 0 .. n /\ k \in 0 .. n
    BY <1>0
  <2>2. x \in E
    BY <2>1, ElementOfSeq
  <2>3. s \in Seq(E) /\ t = Append(s, x)
    <3>1. /\ s \in Seq(E) /\ t \in Seq(E) /\ Len(s) = k /\ Len(t) = k + 1
          /\ \A i \in 1 .. k : s[i] = b[i]
          /\ \A i \in 1 .. k + 1 : t[i] = b[i]
      BY <2>1, <1>0
    <3> DEFINE u == Append(s, x)
    <3> HIDE DEF s, t, x
    <3>2. /\ u \in Seq(E) /\ Len(u) = k + 1 /\ u[k + 1] = x
          /\ \A i \in 1 .. k : u[i] = s[i]
      BY <3>1, <2>2, AppendProperties
    <3>3. \A i \in 1 .. k + 1 : i \in 1 .. k \/ i = k + 1
      BY <2>1
    <3>4. \A i \in 1 .. k + 1 : t[i] = u[i]
      BY <3>1, <3>2, <3>3 DEF x
    <3> HIDE DEF u
    <3>5. t = u
      BY <3>1, <3>2, <3>4, SeqEqual
    <3>6. QED
      BY <3>1, <3>5 DEF u
  <2>4. Among(a \o s, S) = Among(a, S) \o Among(s, S)
    BY <1>3
  <2> HIDE DEF s, t, x, first
  <2>5. a \o t = Append(a \o s, x) /\ a \o s \in Seq(E)
    BY <2>2, <2>3
  <2> DEFINE p == Among(a, S)
             q == Among(s, S)
             w == a \o s
  <2>6. p \in Seq(E) /\ q \in Seq(E)
    BY <1>1, <2>3
  <2>7. Among(a \o t, S) = IF x \in S THEN Append(p \o q, x) ELSE p \o q
    <3>1. w \in Seq(E) /\ a \o t = Append(w, x) /\ Among(w, S) = p \o q
      BY <2>4, <2>5
    <3> HIDE DEF w, p, q
    <3>2. Among(Append(w, x), S) = IF x \in S THEN Append(Among(w, S), x)
                                   ELSE Among(w, S)
      BY ONLY <3>1, <2>2, AmongAppended
    <3>3. QED
      BY ONLY <3>1, <3>2
  <2>8. Among(t, S) = IF x \in S THEN Append(q, x) ELSE q
    BY <2>2, <2>3, AmongAppended
  <2> HIDE DEF p, q
  <2>9. Append(p \o q, x) = p \o Append(q, x)
    <3>1. /\ <<x>> \in Seq(E) /\ p \o q \in Seq(E)
          /\ Append(p \o q, x) = (p \o q) \o <<x>> /\ Append(q, x) = q \o <<x>>
      BY <2>2, <2>6
    <3>2. p \o (q \o <<x>>) = (p \o q) \o <<x>>
      BY <2>6, <3>1, ConcatRegroups
    <3>3. QED
      BY <3>1, <3>2
  <2>10. Among(a \o t, S) = p \o Among(t, S)
    BY <2>7, <2>8, <2>9
  <2>11. QED
    BY <2>1, <2>10 DEF p, t
<1> HIDE DEF G
<1>4. \A k \in 0 .. n : k \in G
  BY <1>0, <1>2, <1>3, BoundedInduction, Zenon
<1>5. first(n) = b
  <2>1. /\ first(n) \in Seq(E) /\ Len(first(n)) = n
        /\ \A i \in 1 .. n : first(n)[i] = b[i]
    BY <1>0
  <2> HIDE DEF first
  <2>2. QED
    BY <2>1, SeqEqual
<1>6. n \in G
  BY <1>0, <1>4
<1> HIDE DEF first
<1>7. Among(a \o first(n), S) = Among(a, S) \o Among(first(n), S)
  BY <1>6 DEF G
<1>8. QED
  BY ONLY <1>5, <1>7, Zenon

(* What two lists in a row hold. *)
LEMMA ConcatElements ==
  ASSUME NEW a \in Seq(Int), NEW b \in Seq(Int)
  PROVE  Elements(a \o b) = Elements(a) \cup Elements(b)
<1> DEFINE c == a \o b
           m == Len(a)
           n == Len(b)
<1>1. /\ c \in Seq(Int) /\ Len(c) = m + n /\ m \in Nat /\ n \in Nat
      /\ \A k \in 1 .. m : c[k] = a[k]
      /\ \A k \in 1 .. n : c[m + k] = b[k]
  BY Glue, LenProperties
<1> HIDE DEF c
<1>2. Elements(a) = {a[k] : k \in 1 .. m} /\ Elements(b) = {b[k] : k \in 1 .. n}
      /\ Elements(c) = {c[k] : k \in 1 .. m + n}
  BY <1>1 DEF Elements
<1> HIDE DEF m, n
<1>3. /\ \A k \in 1 .. m : k \in 1 .. m + n
      /\ \A k \in 1 .. n : m + k \in 1 .. m + n
      /\ \A k \in 1 .. m + n : k \in 1 .. m \/ (k - m \in 1 .. n /\ m + (k - m) = k)
  BY <1>1
<1>4. Elements(a) \cup Elements(b) \subseteq Elements(c)
  BY ONLY <1>1, <1>2, <1>3
<1>5. ASSUME NEW k \in 1 .. m + n
      PROVE  c[k] \in Elements(a) \cup Elements(b)
  <2>1. CASE k \in 1 .. m
    BY <2>1, <1>1, <1>2
  <2>2. CASE k - m \in 1 .. n /\ m + (k - m) = k
    <3>1. c[k] = b[k - m]
      BY <2>2, <1>1
    <3>2. QED
      BY <3>1, <2>2, <1>2
  <2>3. QED
    BY <2>1, <2>2, <1>3
<1>6. QED
  BY <1>2, <1>4, <1>5 DEF c

LEMMA JoinedRises ==
  ASSUME NEW a \in Seq(Int), NEW b \in Seq(Int), NEW D,
         Rises(a, D), Rises(b, D), Apart(a, b, D)
  PROVE  Rises(a \o b, D)
<1> DEFINE c == a \o b
           m == Len(a)
           n == Len(b)
<1>1. /\ c \in Seq(Int) /\ Len(c) = m + n /\ m \in Nat /\ n \in Nat
      /\ \A k \in 1 .. m : c[k] = a[k]
      /\ \A k \in 1 .. n : c[m + k] = b[k]
  BY Glue, LenProperties
<1> HIDE DEF c
<1>2. /\ \A i, j \in 1 .. m : i < j /\ a[i] \in D /\ a[j] \in D => a[i] < a[j]
      /\ \A i, j \in 1 .. n : i < j /\ b[i] \in D /\ b[j] \in D => b[i] < b[j]
      /\ \A i \in 1 .. m : \A j \in 1 .. n : a[i] \in D /\ b[j] \in D => a[i] < b[j]
  <2>1. /\ \A i \in 1 .. m : a[i] \in Elements(a)
        /\ \A j \in 1 .. n : b[j] \in Elements(b)
    BY DEF Elements
  <2>2. QED
    BY <2>1 DEF Rises, Apart
<1> HIDE DEF m, n
<1>3. ASSUME NEW i \in 1 .. m + n, NEW j \in 1 .. m + n, i < j, c[i] \in D, c[j] \in D
      PROVE  c[i] < c[j]
  <2>1. CASE j \in 1 .. m
    <3>1. i \in 1 .. m
      BY <2>1, <1>1, <1>3
    <3>2. c[i] = a[i] /\ c[j] = a[j]
      BY <3>1, <2>1, <1>1
    <3>3. a[i] \in D /\ a[j] \in D /\ i < j
      BY <3>2, <1>3
    <3>4. QED
      BY ONLY <3>1, <3>2, <3>3, <2>1, <1>2, Zenon
  <2>2. CASE i \in 1 .. m /\ j \notin 1 .. m
    <3>1. j - m \in 1 .. n /\ m + (j - m) = j
      BY <2>2, <1>1
    <3>2. c[j] = b[j - m] /\ c[i] = a[i]
      BY <3>1, <2>2, <1>1
    <3>3. a[i] \in D /\ b[j - m] \in D
      BY <3>2, <1>3
    <3>4. QED
      BY ONLY <3>1, <3>2, <3>3, <2>2, <1>2, Zenon
  <2>3. CASE i \notin 1 .. m /\ j \notin 1 .. m
    <3>1. /\ j - m \in 1 .. n /\ m + (j - m) = j
          /\ i - m \in 1 .. n /\ m + (i - m) = i /\ i - m < j - m
      BY <2>3, <1>1, <1>3
    <3>2. c[j] = b[j - m] /\ c[i] = b[i - m]
      BY ONLY <3>1, <1>1, Zenon
    <3>3. b[i - m] \in D /\ b[j - m] \in D
      BY <3>2, <1>3
    <3>4. QED
      BY ONLY <3>1, <3>2, <3>3, <1>2, Zenon
  <2>4. QED
    BY <2>1, <2>2, <2>3
<1>4. QED
  BY <1>1, <1>3 DEF Rises, c

ReadUpTo(f, ss, k) ==
  \A x : x \in Elements(f[k]) <=> \E i \in 1 .. k : x \in Elements(ss[i])

LEMMA FlattenRises ==
  ASSUME NEW ss \in Seq(Seq(Int)), NEW D, AllApart(ss, D)
  PROVE  /\ FlattenSeq(ss) \in Seq(Int)
         /\ Rises(FlattenSeq(ss), D)
         /\ \A x : x \in Elements(FlattenSeq(ss)) <=>
                   \E i \in 1 .. Len(ss) : x \in Elements(ss[i])
<1>1. CASE Len(ss) = 0
  <2>1. FlattenSeq(ss) = <<>>
    BY <1>1, EmptySeq DEF FlattenSeq
  <2>2. <<>> \in Seq(Int) /\ Len(<<>>) = 0
    OBVIOUS
  <2>3. QED
    BY <2>1, <2>2, <1>1 DEF Rises, Elements
<1>2. CASE Len(ss) # 0
  <2>1. PICK f : Flattens(f, ss, Int) /\ FlattenSeq(ss) = f[Len(ss)]
    BY <1>2, FlattenByRecursion
  <2> DEFINE M == Len(ss) - 1
             G == {k \in 0 .. M : Rises(f[k + 1], D) /\ ReadUpTo(f, ss, k + 1)}
  <2>2. M \in Nat /\ Len(ss) = M + 1
    BY <1>2, LenProperties
  <2>3. /\ \A k \in 1 .. M + 1 : f[k] \in Seq(Int) /\ ss[k] \in Seq(Int)
        /\ f[1] = ss[1]
        /\ \A k \in 2 .. M + 1 : f[k] = f[k - 1] \o ss[k]
    BY <2>1, <2>2, ElementOfSeq DEF Flattens
  <2>4. /\ \A i \in 1 .. M + 1 : Rises(ss[i], D)
        /\ \A i, j \in 1 .. M + 1 : i < j => Apart(ss[i], ss[j], D)
    BY <2>2 DEF AllApart
  <2> HIDE DEF M
  <2>5. 0 \in G
    <3>1. 1 \in 1 .. M + 1 /\ \A i \in 1 .. 1 : i = 1
      BY <2>2
    <3>2. ReadUpTo(f, ss, 1)
      BY <3>1, <2>3 DEF ReadUpTo
    <3>3. Rises(f[1], D)
      BY <3>1, <2>3, <2>4
    <3>4. 0 + 1 = 1 /\ 0 \in 0 .. M
      BY <2>2
    <3>5. QED
      BY <3>2, <3>3, <3>4
  <2>6. ASSUME NEW k \in 0 .. M - 1, k \in G
        PROVE  k + 1 \in G
    <3>1. /\ k + 1 \in 1 .. M + 1 /\ k + 2 \in 2 .. M + 1 /\ k + 2 \in 1 .. M + 1
          /\ (k + 2) - 1 = k + 1 /\ (k + 1) + 1 = k + 2 /\ k + 1 \in 0 .. M
          /\ \A i \in 1 .. k + 1 : i \in 1 .. M + 1 /\ i < k + 2 /\ i \in 1 .. k + 2
          /\ \A i \in 1 .. k + 2 : i \in 1 .. k + 1 \/ i = k + 2
          /\ k + 2 \in 1 .. k + 2
      BY <2>2
    <3>2. Rises(f[k + 1], D) /\ ReadUpTo(f, ss, k + 1)
      BY <2>6
    <3>3. /\ f[k + 2] = f[k + 1] \o ss[k + 2]
          /\ f[k + 1] \in Seq(Int) /\ ss[k + 2] \in Seq(Int)
      BY ONLY <3>1, <2>3
    <3>4. Apart(f[k + 1], ss[k + 2], D)
      <4>1. ASSUME NEW x \in Elements(f[k + 1]), NEW y \in Elements(ss[k + 2]), x \in D, y \in D
            PROVE  x < y
        <5>1. PICK i \in 1 .. k + 1 : x \in Elements(ss[i])
          BY <3>2 DEF ReadUpTo
        <5>2. Apart(ss[i], ss[k + 2], D)
          BY ONLY <3>1, <2>4
        <5>3. QED
          BY <5>1, <5>2, <4>1 DEF Apart
      <4>2. QED
        BY <4>1 DEF Apart
    <3>5. Rises(f[k + 2], D)
      <4>1. Rises(ss[k + 2], D)
        BY <3>1, <2>4
      <4>2. QED
        BY <4>1, <3>2, <3>3, <3>4, JoinedRises
    <3>6. Elements(f[k + 2]) = Elements(f[k + 1]) \cup Elements(ss[k + 2])
      BY <3>3, ConcatElements
    <3>7. ReadUpTo(f, ss, k + 2)
      BY ONLY <3>1, <3>2, <3>6 DEF ReadUpTo
    <3>8. QED
      BY <3>1, <3>5, <3>7
  <2> HIDE DEF G
  <2>7. \A k \in 0 .. M : k \in G
    BY <2>2, <2>5, <2>6, BoundedInduction, Zenon
  <2>8. M \in G
    BY <2>7, <2>2
  <2>9. Rises(f[M + 1], D) /\ ReadUpTo(f, ss, M + 1) /\ f[M + 1] \in Seq(Int)
    BY <2>8, <2>2, <2>3 DEF G
  <2>10. QED
    BY <2>1, <2>2, <2>9 DEF ReadUpTo
<1>3. QED
  BY <1>1, <1>2

----------------------------------------------------------------------------
(* A prefix and the next element. *)
LEMMA PrefixGrows ==
  ASSUME NEW E, NEW s \in Seq(E), NEW k \in 0 .. Len(s) - 1
  PROVE  /\ SubSeq(s, 1, k) \in Seq(E) /\ Len(SubSeq(s, 1, k)) = k
         /\ s[k + 1] \in E
         /\ SubSeq(s, 1, k + 1) = Append(SubSeq(s, 1, k), s[k + 1])
<1> DEFINE a == SubSeq(s, 1, k)
           t == SubSeq(s, 1, k + 1)
           x == s[k + 1]
           u == Append(a, x)
<1>1. k + 1 \in 1 .. Len(s) /\ k \in Nat /\ Len(s) \in Nat
  OBVIOUS
<1>2. x \in E
  BY <1>1, ElementOfSeq
<1>3. /\ a \in Seq(E) /\ t \in Seq(E) /\ Len(a) = k /\ Len(t) = k + 1
      /\ \A i \in 1 .. k : a[i] = s[i]
      /\ \A i \in 1 .. k + 1 : t[i] = s[i]
  BY <1>1
<1> HIDE DEF a, t, x
<1>4. /\ u \in Seq(E) /\ Len(u) = k + 1 /\ u[k + 1] = x
      /\ \A i \in 1 .. k : u[i] = a[i]
  BY <1>2, <1>3, AppendProperties
<1>5. \A i \in 1 .. k + 1 : i \in 1 .. k \/ i = k + 1
  BY <1>1
<1>6. \A i \in 1 .. k + 1 : t[i] = u[i]
  BY <1>3, <1>4, <1>5 DEF x
<1> HIDE DEF u
<1>7. t = u
  BY <1>3, <1>4, <1>6, SeqEqual
<1>8. QED
  BY <1>2, <1>3, <1>7 DEF u, a, t, x

(* As ConcatRegroups; the predicate keeps the provers from unfolding lists of *)
(* lists.                                                                    *)
ListOf(s, E) == s \in Seq(E)

(* Concatenation, and below its laws, without what \o is made of. *)
Cat(a, b) == a \o b

LEMMA CatIsList ==
  ASSUME NEW E, NEW a, NEW b, ListOf(a, E), ListOf(b, E)
  PROVE  ListOf(Cat(a, b), E)
  BY DEF ListOf, Cat

LEMMA CatNothing ==
  ASSUME NEW E, NEW a, ListOf(a, E)
  PROVE  Cat(a, <<>>) = a /\ Cat(<<>>, a) = a
  BY DEF ListOf, Cat

LEMMA CatRegroups ==
  ASSUME NEW E, NEW a, NEW b, NEW c, ListOf(a, E), ListOf(b, E), ListOf(c, E)
  PROVE  Cat(a, Cat(b, c)) = Cat(Cat(a, b), c)
  BY ConcatAssociative DEF ListOf, Cat

LEMMA Regroups ==
  ASSUME NEW E, NEW a, NEW b, NEW c, ListOf(a, E), ListOf(b, E), ListOf(c, E)
  PROVE  a \o (b \o c) = (a \o b) \o c
  BY ConcatAssociative DEF ListOf

LEMMA FlattenIsList ==
  ASSUME NEW E, NEW ss, ListOf(ss, Seq(E))
  PROVE  ListOf(FlattenSeq(ss), E)
  BY FlattenType DEF ListOf

LEMMA FlattenNone ==
  FlattenSeq(<<>>) = <<>>
  BY EmptySeq DEF FlattenSeq

LEMMA FlattenOne ==
  ASSUME NEW E, NEW s \in Seq(E)
  PROVE  FlattenSeq(<<s>>) = s
<1>1. <<>> \in Seq(Seq(E)) /\ Append(<<>>, s) = <<s>> /\ <<>> \o s = s
  OBVIOUS
<1>2. FlattenSeq(Append(<<>>, s)) = FlattenSeq(<<>>) \o s
  BY <1>1, FlattenAppend
<1>3. QED
  BY <1>1, <1>2, FlattenNone

(* FlattenSeq takes the sequences one after another. *)
LEMMA FlattenJoined ==
  ASSUME NEW E, NEW aa, NEW bb, ListOf(aa, Seq(E)), ListOf(bb, Seq(E))
  PROVE  FlattenSeq(aa \o bb) = FlattenSeq(aa) \o FlattenSeq(bb)
<1> USE DEF ListOf
<1> DEFINE n == Len(bb)
           first(k) == SubSeq(bb, 1, k)
           G == {k \in 0 .. n : FlattenSeq(aa \o first(k)) = FlattenSeq(aa) \o FlattenSeq(first(k))}
<1>0. n \in Nat
  BY LenProperties
<1>1. 0 \in G
  <2>1. first(0) = <<>> /\ aa \o <<>> = aa
    OBVIOUS
  <2>2. FlattenSeq(aa) \in Seq(E)
    BY FlattenType
  <2>3. FlattenSeq(aa) \o <<>> = FlattenSeq(aa)
    BY <2>2
  <2>4. FlattenSeq(aa \o first(0)) = FlattenSeq(aa) \o FlattenSeq(first(0))
    BY <2>1, <2>3, FlattenNone
  <2>5. QED
    BY <2>4, <1>0
<1>2. ASSUME NEW k \in 0 .. n - 1, k \in G
      PROVE  k + 1 \in G
  <2> DEFINE s == first(k)
             x == bb[k + 1]
             fa == FlattenSeq(aa)
             fs == FlattenSeq(s)
             w == aa \o s
  <2>1. /\ s \in Seq(Seq(E)) /\ x \in Seq(E) /\ first(k + 1) = Append(s, x)
    BY PrefixGrows
  <2>2. FlattenSeq(w) = fa \o fs
    BY <1>2
  <2> HIDE DEF s, x, first
  <2>3. w \in Seq(Seq(E)) /\ aa \o Append(s, x) = Append(w, x)
    BY <2>1
  <2>4. ListOf(fa, E) /\ ListOf(fs, E)
    <3> HIDE DEF ListOf
    <3>1. ListOf(aa, Seq(E)) /\ ListOf(s, Seq(E))
      BY <2>1 DEF ListOf
    <3>2. QED
      BY ONLY <3>1, FlattenIsList
  <2> HIDE DEF w, fa
  <2>5. FlattenSeq(Append(w, x)) = FlattenSeq(w) \o x
    BY <2>1, <2>3, FlattenAppend
  <2>6. FlattenSeq(Append(s, x)) = fs \o x
    BY <2>1, FlattenAppend
  <2> HIDE DEF fs
  <2>7. fa \o (fs \o x) = (fa \o fs) \o x
    <3> HIDE DEF ListOf
    <3>1. ListOf(x, E)
      BY <2>1 DEF ListOf
    <3>2. QED
      BY ONLY <2>4, <3>1, Regroups
  <2>8. FlattenSeq(aa \o first(k + 1)) = fa \o FlattenSeq(first(k + 1))
    BY ONLY <2>1, <2>2, <2>3, <2>5, <2>6, <2>7
  <2>9. k + 1 \in 0 .. n
    BY <1>0
  <2>10. QED
    BY <2>8, <2>9 DEF fa
<1> HIDE DEF G
<1>3. \A k \in 0 .. n : k \in G
  BY <1>0, <1>1, <1>2, BoundedInduction, Zenon
<1>4. n \in G
  BY <1>0, <1>3
<1>5. first(n) = bb
  <2> DEFINE S == Seq(E)
  <2> HIDE DEF S
  <2>1. bb \in Seq(S)
    BY DEF S
  <2>2. SubSeq(bb, 1, Len(bb)) = bb
    BY ONLY <2>1, SubSeqFull
  <2>3. QED
    BY <2>2
<1> HIDE DEF first
<1>6. QED
  BY <1>4, <1>5 DEF G

----------------------------------------------------------------------------
(* What a list says when each of its elements says a sequence. *)
(* f tells of each element of E a sequence over T. *)
Tells(f, E, T) == f \in [E -> Seq(T)]

(* What the elements of s say, and all of it in one list. *)
Told(f, s) == [p \in DOMAIN s |-> f[s[p]]]
ReadOff(f, s) == FlattenSeq(Told(f, s))

(* A function on 1 .. n is a list. *)
LEMMA ListFromFunction ==
  ASSUME NEW S, NEW n \in Nat, NEW f \in [1 .. n -> S]
  PROVE  f \in Seq(S) /\ Len(f) = n
<1>1. f \in Seq(S)
  BY SeqDef
<1>2. DOMAIN f = 1 .. Len(f) /\ Len(f) \in Nat
  BY <1>1, LenProperties
<1>3. 1 .. n = 1 .. Len(f)
  BY <1>2
<1>4. QED
  BY <1>1, <1>2, <1>3

LEMMA ToldType ==
  ASSUME NEW E, NEW T, NEW f, Tells(f, E, T), NEW s, ListOf(s, E)
  PROVE  /\ ListOf(Told(f, s), Seq(T))
         /\ Len(Told(f, s)) = Len(s)
         /\ \A p \in 1 .. Len(s) : Told(f, s)[p] = f[s[p]]
<1> DEFINE w == [p \in DOMAIN s |-> f[s[p]]]
           S == Seq(T)
<1>0. s \in Seq(E)
  BY DEF ListOf
<1>1. DOMAIN s = 1 .. Len(s) /\ Len(s) \in Nat
  BY <1>0, LenProperties
<1>2. \A p \in 1 .. Len(s) : f[s[p]] \in S
  BY <1>0, ElementOfSeq DEF Tells
<1>3. w \in [1 .. Len(s) -> S]
  <2> HIDE DEF S
  <2>1. QED
    BY <1>1, <1>2
<1> HIDE DEF w, S
<1>4. w \in Seq(S) /\ Len(w) = Len(s)
  BY <1>1, <1>3, ListFromFunction
<1>5. Told(f, s) = w
  BY DEF Told, w
<1>6. \A p \in 1 .. Len(s) : w[p] = f[s[p]]
  BY <1>1 DEF w
<1>7. QED
  BY <1>4, <1>5, <1>6 DEF S, ListOf

LEMMA ReadIsList ==
  ASSUME NEW E, NEW T, NEW f, Tells(f, E, T), NEW s, ListOf(s, E)
  PROVE  ListOf(ReadOff(f, s), T)
<1>1. ListOf(Told(f, s), Seq(T))
  BY ToldType
<1>2. QED
  BY <1>1, FlattenIsList DEF ReadOff

LEMMA ReadOne ==
  ASSUME NEW E, NEW T, NEW f, Tells(f, E, T), NEW x \in E
  PROVE  ReadOff(f, <<x>>) = f[x]
<1> DEFINE y == f[x]
           w == [p \in 1 .. 1 |-> y]
<1>1. [p \in DOMAIN <<x>> |-> f[<<x>>[p]]] = <<f[x]>>
  <2>1. DOMAIN <<x>> = 1 .. 1 /\ <<x>>[1] = x
    OBVIOUS
  <2>2. \A p \in 1 .. 1 : f[<<x>>[p]] = y
    BY <2>1
  <2>3. [p \in DOMAIN <<x>> |-> f[<<x>>[p]]] = w
    BY <2>1, <2>2
  <2> HIDE DEF y
  <2>4. w = <<y>>
    OBVIOUS
  <2>5. QED
    BY <2>3, <2>4 DEF y
<1>2. f[x] \in Seq(T)
  BY DEF Tells
<1>3. FlattenSeq(<<y>>) = y
  BY <1>2, FlattenOne
<1>4. QED
  BY <1>1, <1>3 DEF ReadOff, Told

LEMMA ConcatAt ==
  ASSUME NEW S, NEW a \in Seq(S), NEW b \in Seq(S), NEW m, NEW n, Len(a) = m, Len(b) = n
  PROVE  /\ a \o b \in Seq(S) /\ Len(a \o b) = m + n
         /\ \A p \in 1 .. m + n : (a \o b)[p] = IF p <= m THEN a[p] ELSE b[p - m]
  BY ConcatProperties

(* What two lists say after one another is what they say together. *)
LEMMA ReadJoined ==
  ASSUME NEW E, NEW T, NEW f, Tells(f, E, T), NEW a, NEW b, ListOf(a, E), ListOf(b, E)
  PROVE  ReadOff(f, Cat(a, b)) = Cat(ReadOff(f, a), ReadOff(f, b))
<1> DEFINE S == Seq(T)
           c == a \o b
           u == Told(f, a)
           v == Told(f, b)
           w == Told(f, c)
           z == u \o v
           m == Len(a)
           n == Len(b)
<1>0. a \in Seq(E) /\ b \in Seq(E)
  BY DEF ListOf
<1>1. m \in Nat /\ n \in Nat
  BY <1>0, LenProperties
<1>2. /\ c \in Seq(E) /\ Len(c) = m + n
      /\ \A p \in 1 .. m + n : c[p] = IF p <= m THEN a[p] ELSE b[p - m]
  BY <1>0, ConcatProperties, Zenon
<1> HIDE DEF c
<1>3. ListOf(u, S) /\ Len(u) = m /\ \A p \in 1 .. m : u[p] = f[a[p]]
  BY ToldType
<1>4. ListOf(v, S) /\ Len(v) = n /\ \A p \in 1 .. n : v[p] = f[b[p]]
  BY ToldType
<1>5. ListOf(w, S) /\ Len(w) = Len(c) /\ \A p \in 1 .. Len(c) : w[p] = f[c[p]]
  <2>1. ListOf(c, E)
    BY <1>2 DEF ListOf
  <2> HIDE DEF S, m, n
  <2>2. QED
    BY <2>1, ToldType DEF S
<1>6. Len(w) = m + n /\ \A p \in 1 .. m + n : w[p] = f[c[p]]
  <2> HIDE DEF w
  <2>1. QED
    BY <1>2, <1>5
<1> HIDE DEF u, v, w, S, m, n
<1>8. /\ z \in Seq(S) /\ Len(z) = m + n
      /\ \A p \in 1 .. m + n : z[p] = IF p <= m THEN u[p] ELSE v[p - m]
  <2>1. u \in Seq(S) /\ v \in Seq(S) /\ Len(u) = m /\ Len(v) = n
    BY <1>3, <1>4 DEF ListOf
  <2>2. QED
    BY ONLY <2>1, ConcatAt
<1> HIDE DEF z, m, n
<1>9. ASSUME NEW p \in 1 .. m + n
      PROVE  w[p] = z[p]
  <2>1. CASE p <= m
    <3>1. p \in 1 .. m
      BY <2>1, <1>1
    <3>2. c[p] = a[p] /\ z[p] = u[p]
      BY ONLY <2>1, <1>2, <1>8, <1>9
    <3>3. QED
      BY ONLY <3>1, <3>2, <1>3, <1>4, <1>6, <1>9
  <2>2. CASE ~(p <= m)
    <3>1. p - m \in 1 .. n
      BY <2>2, <1>1
    <3>2. c[p] = b[p - m] /\ z[p] = v[p - m]
      BY ONLY <2>2, <1>2, <1>8, <1>9
    <3>3. QED
      BY ONLY <3>1, <3>2, <1>3, <1>4, <1>6, <1>9
  <2>3. QED
    BY <2>1, <2>2
<1>10. w = z
  BY ONLY <1>1, <1>5, <1>6, <1>8, <1>9, SeqEqual DEF ListOf
<1>11. ListOf(u, Seq(T)) /\ ListOf(v, Seq(T))
  BY <1>3, <1>4 DEF S
<1>12. FlattenSeq(z) = FlattenSeq(u) \o FlattenSeq(v)
  BY <1>11, FlattenJoined DEF z
<1>13. QED
  BY ONLY <1>10, <1>12 DEF ReadOff, u, v, w, c, Cat

(* Lists taken apart at a place. *)
LeftOf(s, n) == SubSeq(s, 1, n - 1)
RightOf(s, n) == SubSeq(s, n + 1, Len(s))

LEMMA LeftIs ==
  ASSUME NEW E, NEW s, ListOf(s, E), NEW n \in 1 .. Len(s)
  PROVE  /\ ListOf(LeftOf(s, n), E) /\ Len(LeftOf(s, n)) = n - 1
         /\ \A i \in 1 .. n - 1 : LeftOf(s, n)[i] = s[i]
<1>0. s \in Seq(E) /\ Len(s) \in Nat
  BY DEF ListOf
<1>1. \A i \in 1 .. Len(s) : s[i] \in E
  BY <1>0, ElementOfSeq
<1>2. 1 \in Int /\ n - 1 \in Int /\ \A i \in 1 .. n - 1 : s[i] \in E
  BY <1>0, <1>1
<1>3. /\ SubSeq(s, 1, n - 1) \in Seq(E)
      /\ Len(SubSeq(s, 1, n - 1)) = IF 1 <= n - 1 THEN n - 1 - 1 + 1 ELSE 0
      /\ \A i \in 1 .. n - 1 - 1 + 1 : SubSeq(s, 1, n - 1)[i] = s[1 + i - 1]
  BY ONLY <1>2, SubSeqProperties
<1>4. QED
  BY <1>0, <1>3 DEF ListOf, LeftOf

LEMMA RightIs ==
  ASSUME NEW E, NEW s, ListOf(s, E), NEW n \in 1 .. Len(s)
  PROVE  /\ ListOf(RightOf(s, n), E) /\ Len(RightOf(s, n)) = Len(s) - n
         /\ \A i \in 1 .. Len(s) - n : RightOf(s, n)[i] = s[n + i]
<1>0. s \in Seq(E) /\ Len(s) \in Nat
  BY DEF ListOf
<1>1. \A i \in 1 .. Len(s) : s[i] \in E
  BY <1>0, ElementOfSeq
<1> DEFINE l == Len(s)
<1>2. n + 1 \in Int /\ l \in Int /\ \A i \in n + 1 .. l : s[i] \in E
  BY <1>0, <1>1
<1> HIDE DEF l
<1>3. /\ SubSeq(s, n + 1, l) \in Seq(E)
      /\ Len(SubSeq(s, n + 1, l)) = IF n + 1 <= l THEN l - (n + 1) + 1 ELSE 0
      /\ \A i \in 1 .. l - (n + 1) + 1 : SubSeq(s, n + 1, l)[i] = s[(n + 1) + i - 1]
  BY ONLY <1>2, SubSeqProperties
<1> USE DEF l
<1>4. n + 1 \in Nat /\ (IF n + 1 <= l THEN l - (n + 1) + 1 ELSE 0) = l - n
  BY <1>0
<1>5. \A i \in 1 .. l - n : i \in 1 .. l - (n + 1) + 1 /\ (n + 1) + i - 1 = n + i
  BY <1>0
<1>6. /\ Len(RightOf(s, n)) = l - n
      /\ \A i \in 1 .. l - n : RightOf(s, n)[i] = s[n + i]
  BY ONLY <1>3, <1>4, <1>5 DEF RightOf, l
<1>7. ListOf(RightOf(s, n), E)
  BY <1>3 DEF ListOf, RightOf
<1>8. QED
  BY <1>6, <1>7

LEMMA ElementIs ==
  ASSUME NEW E, NEW s, ListOf(s, E), NEW n \in 1 .. Len(s)
  PROVE  s[n] \in E /\ ListOf(<<s[n]>>, E)
<1>1. s \in Seq(E)
  BY DEF ListOf
<1>2. s[n] \in E
  BY <1>1, ElementOfSeq
<1>3. QED
  BY <1>2 DEF ListOf

LEMMA Parts ==
  ASSUME NEW E, NEW s, ListOf(s, E), NEW n \in 1 .. Len(s)
  PROVE  s = Cat(LeftOf(s, n), Cat(<<s[n]>>, RightOf(s, n)))
<1>0. s \in Seq(E) /\ Len(s) \in Nat
  BY DEF ListOf
<1>1. n \in n .. Len(s) /\ n \in 1 .. Len(s) + 1 /\ n - 1 \in n - 1 .. Len(s)
  BY <1>0
<1> DEFINE l == Len(s)
<1>2. SubSeq(s, n, l) = <<s[n]>> \o SubSeq(s, n + 1, l)
  <2>1. n \in 1 .. l /\ l \in n .. l
    BY <1>0
  <2>2. QED
    BY ONLY <1>0, <2>1, SubSeqRecursiveFirst
<1>3. SubSeq(s, 1, n - 1) \o SubSeq(s, (n - 1) + 1, l) = SubSeq(s, 1, l)
  <2>1. 1 \in 1 .. l + 1 /\ n - 1 \in 1 - 1 .. l /\ l \in n - 1 .. l
    BY <1>0
  <2>2. QED
    BY ONLY <1>0, <2>1, ConcatAdjacentSubSeq
<1>4. (n - 1) + 1 = n
  BY <1>0
<1>5. SubSeq(s, 1, l) = s
  BY <1>0, SubSeqFull
<1>6. QED
  BY ONLY <1>2, <1>3, <1>4, <1>5 DEF LeftOf, RightOf, Cat

(* A list says what stands before a place, what its element says, and the  *)
(* rest.                                                                   *)
LEMMA ReadParts ==
  ASSUME NEW E, NEW T, NEW f, Tells(f, E, T), NEW s, ListOf(s, E), NEW n \in 1 .. Len(s),
         NEW x, x = s[n]
  PROVE  ReadOff(f, s) = Cat(ReadOff(f, LeftOf(s, n)), Cat(f[x], ReadOff(f, RightOf(s, n))))
<1> DEFINE a == LeftOf(s, n)
           b == RightOf(s, n)
           y == <<x>>
           z == Cat(y, b)
<1>1. ListOf(a, E) /\ ListOf(b, E) /\ ListOf(y, E) /\ x \in E
  BY LeftIs, RightIs, ElementIs
<1>2. s = Cat(a, Cat(y, b))
  BY Parts
<1> HIDE DEF a, b
<1>3. ReadOff(f, y) = f[x]
  BY <1>1, ReadOne
<1> HIDE DEF y
<1>4. ListOf(y, E) /\ ListOf(b, E)
  BY <1>1
<1>5. ListOf(z, E)
  BY <1>4, CatIsList
<1>6. ReadOff(f, Cat(y, b)) = Cat(ReadOff(f, y), ReadOff(f, b))
  BY ONLY <1>4, Tells(f, E, T), ReadJoined
<1> HIDE DEF z
<1>7. ListOf(a, E) /\ ListOf(z, E)
  BY <1>1, <1>5
<1>8. ReadOff(f, Cat(a, z)) = Cat(ReadOff(f, a), ReadOff(f, z))
  BY ONLY <1>7, Tells(f, E, T), ReadJoined
<1>9. QED
  BY ONLY <1>2, <1>3, <1>6, <1>8 DEF a, b, z

(* A list without an element. *)
LEMMA ReadUnlink ==
  ASSUME NEW E, NEW T, NEW f, Tells(f, E, T), NEW s, ListOf(s, E), NEW n \in 1 .. Len(s)
  PROVE  /\ ListOf(Unlink(s, n), E)
         /\ ReadOff(f, Unlink(s, n)) = Cat(ReadOff(f, LeftOf(s, n)), ReadOff(f, RightOf(s, n)))
<1>1. ListOf(LeftOf(s, n), E) /\ ListOf(RightOf(s, n), E)
  BY LeftIs, RightIs
<1>2. Unlink(s, n) = Cat(LeftOf(s, n), RightOf(s, n))
  BY DEF Unlink, LeftOf, RightOf, Cat
<1>3. ListOf(Cat(LeftOf(s, n), RightOf(s, n)), E)
  BY <1>1, CatIsList
<1>4. ReadOff(f, Cat(LeftOf(s, n), RightOf(s, n))) = Cat(ReadOff(f, LeftOf(s, n)), ReadOff(f, RightOf(s, n)))
  BY <1>1, ReadJoined
<1>5. QED
  BY ONLY <1>2, <1>3, <1>4

(* t is s with x in the place of what stands from the p-th to the q-th place. *)
Spliced(t, s, p, q, x) ==
  /\ Len(t) = Len(s) - (q - p)
  /\ \A i \in 1 .. p - 1 : t[i] = s[i]
  /\ t[p] = x
  /\ \A i \in 1 .. Len(s) - q : t[p + i] = s[q + i]

LEMMA SplicedParts ==
  ASSUME NEW E, NEW s, ListOf(s, E), NEW t, ListOf(t, E),
         NEW p \in 1 .. Len(s), NEW q \in p .. Len(s), NEW x, Spliced(t, s, p, q, x)
  PROVE  /\ p \in 1 .. Len(t) /\ t[p] = x
         /\ LeftOf(t, p) = LeftOf(s, p) /\ RightOf(t, p) = RightOf(s, q)
<1>1. Len(s) \in Nat /\ Len(t) \in Nat
  BY LenProperties DEF ListOf
<1>2. p \in 1 .. Len(t) /\ q \in 1 .. Len(s) /\ Len(t) - p = Len(s) - q
  BY <1>1 DEF Spliced
<1>3. /\ ListOf(LeftOf(s, p), E) /\ Len(LeftOf(s, p)) = p - 1
      /\ \A i \in 1 .. p - 1 : LeftOf(s, p)[i] = s[i]
  BY ONLY ListOf(s, E), p \in 1 .. Len(s), LeftIs
<1>4. /\ ListOf(LeftOf(t, p), E) /\ Len(LeftOf(t, p)) = p - 1
      /\ \A i \in 1 .. p - 1 : LeftOf(t, p)[i] = t[i]
  BY ONLY ListOf(t, E), <1>2, LeftIs
<1>5. /\ ListOf(RightOf(s, q), E) /\ Len(RightOf(s, q)) = Len(s) - q
      /\ \A i \in 1 .. Len(s) - q : RightOf(s, q)[i] = s[q + i]
  BY ONLY ListOf(s, E), <1>2, RightIs
<1>6. /\ ListOf(RightOf(t, p), E) /\ Len(RightOf(t, p)) = Len(t) - p
      /\ \A i \in 1 .. Len(t) - p : RightOf(t, p)[i] = t[p + i]
  BY ONLY ListOf(t, E), <1>2, RightIs
<1>7. LeftOf(t, p) = LeftOf(s, p)
  <2>1. \A i \in 1 .. p - 1 : LeftOf(t, p)[i] = LeftOf(s, p)[i]
    BY ONLY <1>3, <1>4, Spliced(t, s, p, q, x) DEF Spliced
  <2>2. QED
    BY ONLY <1>3, <1>4, <2>1, SeqEqual DEF ListOf
<1>8. RightOf(t, p) = RightOf(s, q)
  <2>1. \A i \in 1 .. Len(s) - q : RightOf(t, p)[i] = RightOf(s, q)[i]
    BY ONLY <1>2, <1>5, <1>6, Spliced(t, s, p, q, x) DEF Spliced
  <2>2. QED
    BY ONLY <1>2, <1>5, <1>6, <2>1, SeqEqual DEF ListOf
<1>9. QED
  BY <1>2, <1>7, <1>8 DEF Spliced

(* So the list t says what s says before p and after q, and x between. *)
LEMMA ReadSpliced ==
  ASSUME NEW E, NEW T, NEW f, Tells(f, E, T), NEW s, ListOf(s, E), NEW t, ListOf(t, E),
         NEW p \in 1 .. Len(s), NEW q \in p .. Len(s), NEW x, Spliced(t, s, p, q, x)
  PROVE  ReadOff(f, t) = Cat(ReadOff(f, LeftOf(s, p)), Cat(f[x], ReadOff(f, RightOf(s, q))))
<1>1. /\ p \in 1 .. Len(t) /\ t[p] = x
      /\ LeftOf(t, p) = LeftOf(s, p) /\ RightOf(t, p) = RightOf(s, q)
  BY SplicedParts
<1>2. ReadOff(f, t) = Cat(ReadOff(f, LeftOf(t, p)), Cat(f[x], ReadOff(f, RightOf(t, p))))
  BY ONLY <1>1, Tells(f, E, T), ListOf(t, E), ReadParts
<1>3. QED
  BY ONLY <1>1, <1>2

(* The empty list says nothing. *)
LEMMA ReadNothing ==
  ASSUME NEW f
  PROVE  ReadOff(f, <<>>) = <<>>
<1>1. Told(f, <<>>) = <<>>
  BY DEF Told
<1>2. QED
  BY <1>1, FlattenNone DEF ReadOff

LEMMA SegmentIs ==
  ASSUME NEW E, NEW s, ListOf(s, E), NEW p \in Int, NEW q \in Int, 1 <= p, q <= Len(s)
  PROVE  ListOf(SubSeq(s, p, q), E)
<1>1. s \in Seq(E) /\ p \in Nat \ {0}
  BY DEF ListOf
<1>2. QED
  BY <1>1, SubSeqType DEF ListOf

(* What a segment says, from its first element and from its last one. *)
LEMMA ReadFirst ==
  ASSUME NEW E, NEW T, NEW f, Tells(f, E, T), NEW s, ListOf(s, E),
         NEW p \in 1 .. Len(s), NEW q \in p .. Len(s), NEW x, x = s[p]
  PROVE  ReadOff(f, SubSeq(s, p, q)) = Cat(f[x], ReadOff(f, SubSeq(s, p + 1, q)))
<1> DEFINE y == <<x>>
           z == SubSeq(s, p + 1, q)
<1>1. s \in Seq(E) /\ Len(s) \in Nat
  BY LenProperties DEF ListOf
<1>2. SubSeq(s, p, q) = Cat(y, z)
  BY <1>1, SubSeqRecursiveFirst DEF Cat
<1>3. ListOf(z, E)
  BY <1>1, SegmentIs
<1>4. x \in E
  BY <1>1, ElementOfSeq
<1> HIDE DEF z
<1>5. ReadOff(f, y) = f[x] /\ ListOf(y, E)
  BY <1>4, ReadOne DEF ListOf
<1> HIDE DEF y
<1>6. ListOf(y, E) /\ ListOf(z, E)
  BY <1>3, <1>5
<1>7. ReadOff(f, Cat(y, z)) = Cat(ReadOff(f, y), ReadOff(f, z))
  BY ONLY <1>6, Tells(f, E, T), ReadJoined
<1>8. QED
  BY ONLY <1>2, <1>5, <1>7 DEF z

LEMMA ReadLast ==
  ASSUME NEW E, NEW T, NEW f, Tells(f, E, T), NEW s, ListOf(s, E),
         NEW p \in 1 .. Len(s), NEW q \in p .. Len(s), NEW x, x = s[q]
  PROVE  ReadOff(f, SubSeq(s, p, q)) = Cat(ReadOff(f, SubSeq(s, p, q - 1)), f[x])
<1> DEFINE y == <<x>>
           z == SubSeq(s, p, q - 1)
<1>1. s \in Seq(E) /\ Len(s) \in Nat
  BY LenProperties DEF ListOf
<1>2. SubSeq(s, p, q) = Cat(z, y)
  BY <1>1, SubSeqRecursiveSecond DEF Cat
<1>3. ListOf(z, E)
  BY <1>1, SegmentIs
<1>4. x \in E
  BY <1>1, ElementOfSeq
<1> HIDE DEF z
<1>5. ReadOff(f, y) = f[x] /\ ListOf(y, E)
  BY <1>4, ReadOne DEF ListOf
<1> HIDE DEF y
<1>6. ListOf(z, E) /\ ListOf(y, E)
  BY <1>3, <1>5
<1>7. ReadOff(f, Cat(z, y)) = Cat(ReadOff(f, z), ReadOff(f, y))
  BY ONLY <1>6, Tells(f, E, T), ReadJoined
<1>8. QED
  BY ONLY <1>2, <1>5, <1>7 DEF z

(* A segment of elements that say nothing says nothing. *)
LEMMA ReadSilent ==
  ASSUME NEW E, NEW T, NEW f, Tells(f, E, T), NEW s, ListOf(s, E),
         NEW p \in Int, NEW q \in Int, 1 <= p, q <= Len(s),
         \A i \in p .. q : f[s[i]] = <<>>
  PROVE  ReadOff(f, SubSeq(s, p, q)) = <<>>
<1>1. CASE q < p
  <2>1. SubSeq(s, p, q) = <<>>
    BY <1>1, SubSeqEmpty
  <2>2. QED
    BY <2>1, ReadNothing
<1>2. CASE p <= q
  <2> DEFINE G == {k \in 0 .. q - p : ReadOff(f, SubSeq(s, p, p + k)) = <<>>}
  <2>0. Len(s) \in Nat
    BY LenProperties DEF ListOf
  <2>1. \A i \in p .. q : ReadOff(f, SubSeq(s, p, i)) = ReadOff(f, SubSeq(s, p, i - 1))
    <3>1. ASSUME NEW i \in p .. q
          PROVE  ReadOff(f, SubSeq(s, p, i)) = ReadOff(f, SubSeq(s, p, i - 1))
      <4>1. p \in 1 .. Len(s) /\ i \in p .. Len(s) /\ i - 1 \in Int /\ i - 1 <= Len(s)
        BY <1>2, <2>0
      <4> DEFINE x == s[i]
      <4>0. x = s[i]
        OBVIOUS
      <4> HIDE DEF x
      <4>2. ReadOff(f, SubSeq(s, p, i)) = Cat(ReadOff(f, SubSeq(s, p, i - 1)), f[x])
        BY ONLY <4>0, <4>1, Tells(f, E, T), ListOf(s, E), ReadLast
      <4>3. ListOf(SubSeq(s, p, i - 1), E)
        BY <4>1, SegmentIs
      <4>4. ListOf(ReadOff(f, SubSeq(s, p, i - 1)), T)
        BY <4>3, ReadIsList
      <4>5. Cat(ReadOff(f, SubSeq(s, p, i - 1)), <<>>) = ReadOff(f, SubSeq(s, p, i - 1))
        BY <4>4, CatNothing
      <4>6. QED
        BY <4>0, <4>2, <4>5
    <3>2. QED
      BY <3>1
  <2>2. ReadOff(f, SubSeq(s, p, p - 1)) = <<>>
    <3>1. SubSeq(s, p, p - 1) = <<>>
      BY SubSeqEmpty
    <3>2. QED
      BY <3>1, ReadNothing
  <2>3. 0 \in G
    <3>1. p \in p .. q /\ 0 \in 0 .. q - p /\ p + 0 = p
      BY <1>2
    <3>2. QED
      BY <3>1, <2>1, <2>2
  <2>4. ASSUME NEW k \in 0 .. (q - p) - 1, k \in G
        PROVE  k + 1 \in G
    <3>1. p + (k + 1) \in p .. q /\ k + 1 \in 0 .. q - p /\ (p + (k + 1)) - 1 = p + k
      BY <1>2
    <3>2. ReadOff(f, SubSeq(s, p, p + k)) = <<>>
      BY <2>4
    <3>3. ReadOff(f, SubSeq(s, p, p + (k + 1))) = ReadOff(f, SubSeq(s, p, p + k))
      BY <3>1, <2>1
    <3>4. QED
      BY <3>1, <3>2, <3>3
  <2>5. q - p \in Nat
    BY <1>2
  <2> HIDE DEF G
  <2>6. \A k \in 0 .. q - p : k \in G
    BY <2>3, <2>4, <2>5, BoundedInduction, Zenon
  <2>7. q - p \in G /\ p + (q - p) = q
    BY <2>5, <2>6
  <2>8. QED
    BY <2>7 DEF G
<1>3. QED
  BY <1>1, <1>2

(* What stands behind a place, taken apart at a later one. *)
LEMMA ReadRest ==
  ASSUME NEW E, NEW T, NEW f, Tells(f, E, T), NEW s, ListOf(s, E),
         NEW p \in 0 .. Len(s), NEW q \in p .. Len(s)
  PROVE  ReadOff(f, RightOf(s, p)) = Cat(ReadOff(f, SubSeq(s, p + 1, q)), ReadOff(f, RightOf(s, q)))
<1> DEFINE y == SubSeq(s, p + 1, q)
           z == SubSeq(s, q + 1, Len(s))
<1>1. s \in Seq(E) /\ Len(s) \in Nat
  BY LenProperties DEF ListOf
<1>2. SubSeq(s, p + 1, Len(s)) = Cat(y, z)
  <2>1. /\ p + 1 \in 1 .. Len(s) + 1 /\ q \in (p + 1) - 1 .. Len(s)
        /\ Len(s) \in q .. Len(s)
    BY <1>1
  <2>2. QED
    BY ONLY <1>1, <2>1, ConcatAdjacentSubSeq DEF Cat
<1>3. ListOf(y, E) /\ ListOf(z, E)
  BY <1>1, SegmentIs
<1> HIDE DEF y, z
<1>4. ReadOff(f, Cat(y, z)) = Cat(ReadOff(f, y), ReadOff(f, z))
  BY ONLY <1>3, Tells(f, E, T), ReadJoined
<1>5. QED
  BY ONLY <1>2, <1>4 DEF RightOf, y, z

(* A list taken apart around a segment. *)
LEMMA ReadThrough ==
  ASSUME NEW E, NEW T, NEW f, Tells(f, E, T), NEW s, ListOf(s, E),
         NEW p \in 1 .. Len(s), NEW q \in p - 1 .. Len(s)
  PROVE  ReadOff(f, s) = Cat(ReadOff(f, LeftOf(s, p)), Cat(ReadOff(f, SubSeq(s, p, q)), ReadOff(f, RightOf(s, q))))
<1> DEFINE r == p - 1
<1>0. Len(s) \in Nat /\ s \in Seq(E)
  BY LenProperties DEF ListOf
<1>1. r \in 0 .. Len(s) /\ q \in r .. Len(s) /\ r + 1 = p /\ 0 \in 0 .. Len(s) /\ 0 + 1 = 1
  BY <1>0
<1>2. RightOf(s, 0) = s
  BY <1>0, <1>1, SubSeqFull DEF RightOf
<1>3. LeftOf(s, p) = SubSeq(s, 1, r)
  BY DEF LeftOf
<1> HIDE DEF r
<1>4. ReadOff(f, RightOf(s, 0)) = Cat(ReadOff(f, SubSeq(s, 0 + 1, r)), ReadOff(f, RightOf(s, r)))
  BY ONLY <1>1, Tells(f, E, T), ListOf(s, E), ReadRest
<1>5. ReadOff(f, RightOf(s, r)) = Cat(ReadOff(f, SubSeq(s, r + 1, q)), ReadOff(f, RightOf(s, q)))
  BY ONLY <1>1, Tells(f, E, T), ListOf(s, E), ReadRest
<1>6. QED
  BY ONLY <1>1, <1>2, <1>3, <1>4, <1>5

(* If x says what it replaces, the list says what it said. *)
LEMMA SplicedSame ==
  ASSUME NEW E, NEW T, NEW f, Tells(f, E, T), NEW s, ListOf(s, E), NEW t, ListOf(t, E),
         NEW p \in 1 .. Len(s), NEW q \in p .. Len(s), NEW x, Spliced(t, s, p, q, x),
         f[x] = ReadOff(f, SubSeq(s, p, q))
  PROVE  ReadOff(f, t) = ReadOff(f, s)
<1>1. q \in p - 1 .. Len(s)
  OBVIOUS
<1>2. ReadOff(f, s) = Cat(ReadOff(f, LeftOf(s, p)), Cat(ReadOff(f, SubSeq(s, p, q)), ReadOff(f, RightOf(s, q))))
  BY <1>1, ReadThrough
<1>3. ReadOff(f, t) = Cat(ReadOff(f, LeftOf(s, p)), Cat(f[x], ReadOff(f, RightOf(s, q))))
  BY ReadSpliced
<1>4. QED
  BY ONLY <1>2, <1>3, f[x] = ReadOff(f, SubSeq(s, p, q))

(* Segments of two and three elements. *)
LEMMA ReadTwo ==
  ASSUME NEW E, NEW T, NEW f, Tells(f, E, T), NEW s, ListOf(s, E),
         NEW p \in 1 .. Len(s), NEW q \in p + 1 .. Len(s), NEW x, x = s[p], NEW y, y = s[q],
         \A i \in p + 1 .. q - 1 : f[s[i]] = <<>>
  PROVE  ReadOff(f, SubSeq(s, p, q)) = Cat(f[x], f[y])
<1> DEFINE u == p + 1
           v == q - 1
<1>0. Len(s) \in Nat
  BY LenProperties DEF ListOf
<1>1. /\ q \in p .. Len(s) /\ u \in 1 .. Len(s) /\ q \in u .. Len(s)
      /\ u \in Int /\ v \in Int /\ 1 <= u /\ v <= Len(s)
  BY <1>0
<1>2. ReadOff(f, SubSeq(s, p, q)) = Cat(f[x], ReadOff(f, SubSeq(s, u, q)))
  BY <1>1, ReadFirst
<1> HIDE DEF u
<1>3. ReadOff(f, SubSeq(s, u, q)) = Cat(ReadOff(f, SubSeq(s, u, v)), f[y])
  BY <1>1, ReadLast
<1> HIDE DEF v
<1>4. ReadOff(f, SubSeq(s, u, v)) = <<>>
  <2>1. \A i \in u .. v : f[s[i]] = <<>>
    BY DEF u, v
  <2>2. QED
    BY <1>1, <2>1, ReadSilent
<1>5. ListOf(f[y], T)
  <2>1. q \in 1 .. Len(s)
    BY <1>0
  <2>2. s[q] \in E
    BY ONLY <2>1, ListOf(s, E), ElementIs
  <2>3. QED
    BY <2>2 DEF Tells, ListOf
<1>6. Cat(<<>>, f[y]) = f[y]
  BY <1>5, CatNothing
<1>7. QED
  BY ONLY <1>2, <1>3, <1>4, <1>6

(* A segment that says nothing can be taken out. *)
LEMMA SilentOut ==
  ASSUME NEW E, NEW T, NEW f, Tells(f, E, T), NEW s, ListOf(s, E),
         NEW p \in 1 .. Len(s), NEW q \in p .. Len(s),
         \A i \in p .. q : f[s[i]] = <<>>
  PROVE  /\ ListOf(Without(s, p, q), E)
         /\ ReadOff(f, Without(s, p, q)) = ReadOff(f, s)
<1>0. Len(s) \in Nat
  BY LenProperties DEF ListOf
<1>1. q \in 1 .. Len(s) /\ q \in p - 1 .. Len(s) /\ p \in Int /\ q \in Int /\ 1 <= p /\ q <= Len(s)
  BY <1>0
<1>2. ListOf(LeftOf(s, p), E) /\ ListOf(RightOf(s, q), E)
  BY <1>1, LeftIs, RightIs
<1>3. Without(s, p, q) = Cat(LeftOf(s, p), RightOf(s, q))
  BY DEF Without, LeftOf, RightOf, Cat
<1>4. ListOf(Cat(LeftOf(s, p), RightOf(s, q)), E)
  BY <1>2, CatIsList
<1>5. ReadOff(f, Cat(LeftOf(s, p), RightOf(s, q))) = Cat(ReadOff(f, LeftOf(s, p)), ReadOff(f, RightOf(s, q)))
  BY <1>2, ReadJoined
<1>6. ReadOff(f, s) = Cat(ReadOff(f, LeftOf(s, p)), Cat(ReadOff(f, SubSeq(s, p, q)), ReadOff(f, RightOf(s, q))))
  BY <1>1, ReadThrough
<1>7. ReadOff(f, SubSeq(s, p, q)) = <<>>
  BY <1>1, ReadSilent
<1>8. ListOf(ReadOff(f, RightOf(s, q)), T)
  BY <1>2, ReadIsList
<1>9. Cat(<<>>, ReadOff(f, RightOf(s, q))) = ReadOff(f, RightOf(s, q))
  BY <1>8, CatNothing
<1>10. QED
  BY ONLY <1>3, <1>4, <1>5, <1>6, <1>7, <1>9

(* What two lists say that tell the same element by element. *)
LEMMA ReadAlike ==
  ASSUME NEW E, NEW s, ListOf(s, E), NEW t, ListOf(t, E), NEW f,
         Len(s) = Len(t), \A i \in 1 .. Len(s) : f[s[i]] = f[t[i]]
  PROVE  ReadOff(f, s) = ReadOff(f, t)
<1>1. DOMAIN s = 1 .. Len(s) /\ DOMAIN t = 1 .. Len(s)
  BY LenProperties DEF ListOf
<1>2. Told(f, s) = Told(f, t)
  BY <1>1 DEF Told
<1>3. QED
  BY <1>2 DEF ReadOff

(* An element put at the end. *)
LEMMA ReadOneMore ==
  ASSUME NEW E, NEW T, NEW f, Tells(f, E, T), NEW s, ListOf(s, E), NEW x \in E
  PROVE  ListOf(Append(s, x), E) /\ ReadOff(f, Append(s, x)) = Cat(ReadOff(f, s), f[x])
<1> DEFINE y == <<x>>
<1>1. ListOf(y, E) /\ ReadOff(f, y) = f[x]
  BY ReadOne DEF ListOf
<1>2. Append(s, x) = Cat(s, y)
  BY DEF Cat, ListOf
<1> HIDE DEF y
<1>3. ReadOff(f, Cat(s, y)) = Cat(ReadOff(f, s), ReadOff(f, y))
  BY <1>1, ReadJoined
<1>4. ListOf(Cat(s, y), E)
  BY <1>1, CatIsList
<1>5. QED
  BY ONLY <1>1, <1>2, <1>3, <1>4

(* Elements that say nothing can be left out. *)
LEMMA ReadAmong ==
  ASSUME NEW E, NEW T, NEW f, Tells(f, E, T), NEW s, ListOf(s, E), NEW S,
         \A i \in 1 .. Len(s) : s[i] \in S \/ f[s[i]] = <<>>
  PROVE  /\ ListOf(Among(s, S), E)
         /\ ReadOff(f, Among(s, S)) = ReadOff(f, s)
<1> DEFINE n == Len(s)
           first(k) == SubSeq(s, 1, k)
           G == {k \in 0 .. n : ReadOff(f, Among(first(k), S)) = ReadOff(f, first(k))}
<1>0. n \in Nat /\ s \in Seq(E)
  BY LenProperties DEF ListOf
<1>1. 0 \in G
  <2>1. first(0) = <<>>
    OBVIOUS
  <2>2. ReadOff(f, Among(first(0), S)) = ReadOff(f, first(0))
    BY <2>1, AmongNothing
  <2>3. QED
    BY <1>0, <2>2
<1>2. ASSUME NEW k \in 0 .. n - 1, k \in G
      PROVE  k + 1 \in G
  <2> DEFINE t == first(k)
             x == s[k + 1]
  <2>1. t \in Seq(E) /\ x \in E /\ first(k + 1) = Append(t, x)
    BY <1>0, PrefixGrows
  <2>2. ReadOff(f, Among(t, S)) = ReadOff(f, t)
    BY <1>2
  <2>3. k + 1 \in 0 .. n /\ k + 1 \in 1 .. n
    BY <1>0
  <2>4. x \in S \/ f[x] = <<>>
    BY <2>3
  <2> HIDE DEF t, x, first
  <2>5. Among(Append(t, x), S) = IF x \in S THEN Append(Among(t, S), x) ELSE Among(t, S)
    BY <2>1, AmongAppended
  <2>6. ListOf(Among(t, S), E) /\ ListOf(t, E)
    BY <2>1, AmongProperties DEF ListOf
  <2>7. ReadOff(f, Append(t, x)) = Cat(ReadOff(f, t), f[x])
    BY <2>1, <2>6, ReadOneMore
  <2>8. ReadOff(f, Among(Append(t, x), S)) = ReadOff(f, Append(t, x))
    <3>1. CASE x \in S
      <4> DEFINE w == Among(t, S)
      <4> HIDE DEF w
      <4>1. ReadOff(f, Append(w, x)) = Cat(ReadOff(f, w), f[x])
        BY <2>1, <2>6, ReadOneMore DEF w
      <4>2. QED
        BY ONLY <3>1, <2>2, <2>5, <2>7, <4>1 DEF w
    <3>2. CASE x \notin S
      <4>1. f[x] = <<>>
        BY <3>2, <2>4
      <4>2. ListOf(ReadOff(f, t), T)
        BY <2>6, ReadIsList
      <4>3. Cat(ReadOff(f, t), <<>>) = ReadOff(f, t)
        BY <4>2, CatNothing
      <4>4. QED
        BY ONLY <3>2, <2>2, <2>5, <2>7, <4>1, <4>3
    <3>3. QED
      BY <3>1, <3>2
  <2>9. QED
    BY <2>1, <2>3, <2>8
<1> HIDE DEF G
<1>3. \A k \in 0 .. n : k \in G
  BY <1>0, <1>1, <1>2, BoundedInduction, Zenon
<1>4. n \in G
  BY <1>0, <1>3
<1>5. first(n) = s
  BY <1>0, SubSeqFull
<1> HIDE DEF first
<1>6. ReadOff(f, Among(s, S)) = ReadOff(f, s)
  BY <1>4, <1>5 DEF G
<1>7. ListOf(Among(s, S), E)
  BY <1>0, AmongProperties DEF ListOf
<1>8. QED
  BY <1>6, <1>7

(* The length, the entries and the set of the entries of a concatenation. *)
LEMMA CatIs ==
  ASSUME NEW E, NEW a, NEW b, ListOf(a, E), ListOf(b, E)
  PROVE  /\ Len(a) \in Nat /\ Len(b) \in Nat
         /\ Len(Cat(a, b)) = Len(a) + Len(b)
         /\ \A p \in 1 .. Len(a) + Len(b) : Cat(a, b)[p] = IF p <= Len(a) THEN a[p] ELSE b[p - Len(a)]
  BY ConcatProperties, LenProperties DEF ListOf, Cat

LEMMA CatElements ==
  ASSUME NEW E, NEW a, NEW b, ListOf(a, E), ListOf(b, E)
  PROVE  Elements(Cat(a, b)) = Elements(a) \cup Elements(b)
<1> DEFINE m == Len(a)
           n == Len(b)
           c == Cat(a, b)
<1>1. /\ m \in Nat /\ n \in Nat /\ Len(c) = m + n
      /\ \A p \in 1 .. m + n : c[p] = IF p <= m THEN a[p] ELSE b[p - m]
  BY CatIs
<1> HIDE DEF m, n, c
<1>2. ASSUME NEW p \in 1 .. m + n
      PROVE  c[p] \in Elements(a) \cup Elements(b)
  <2>1. CASE p <= m
    <3>1. p \in 1 .. Len(a) /\ c[p] = a[p]
      BY <2>1, <1>1 DEF m
    <3>2. QED
      BY <3>1 DEF Elements
  <2>2. CASE ~(p <= m)
    <3>1. p - m \in 1 .. Len(b) /\ c[p] = b[p - m]
      BY <2>2, <1>1 DEF n
    <3>2. QED
      BY <3>1 DEF Elements
  <2>3. QED
    BY <2>1, <2>2
<1>3. ASSUME NEW p \in 1 .. m
      PROVE  a[p] \in Elements(c)
  <2>1. p \in 1 .. Len(c) /\ c[p] = a[p]
    BY <1>1
  <2>2. QED
    BY <2>1 DEF Elements
<1>4. ASSUME NEW p \in 1 .. n
      PROVE  b[p] \in Elements(c)
  <2>1. m + p \in 1 .. m + n /\ m + p \in 1 .. Len(c) /\ ~(m + p <= m) /\ (m + p) - m = p
    BY <1>1
  <2>2. c[m + p] = b[p]
    BY <1>1, <2>1
  <2>3. QED
    BY <2>1, <2>2 DEF Elements
<1>5. Elements(c) \subseteq Elements(a) \cup Elements(b)
  BY <1>1, <1>2 DEF Elements
<1>6. Elements(a) \subseteq Elements(c)
  BY <1>3 DEF Elements, m
<1>7. Elements(b) \subseteq Elements(c)
  BY <1>4 DEF Elements, n
<1>8. QED
  BY <1>5, <1>6, <1>7 DEF c

(* What is said of a list by the sets of what its elements say. *)
LEMMA ReadElements ==
  ASSUME NEW E, NEW T, NEW f, Tells(f, E, T), NEW s, ListOf(s, E)
  PROVE  \A y : y \in Elements(ReadOff(f, s)) <=> \E i \in 1 .. Len(s) : y \in Elements(f[s[i]])
<1> DEFINE n == Len(s)
           first(k) == SubSeq(s, 1, k)
           M(i) == Elements(f[s[i]])
           G == {k \in 0 .. n : \A y : y \in Elements(ReadOff(f, first(k))) <=> \E i \in 1 .. k : y \in M(i)}
<1>0. n \in Nat /\ s \in Seq(E)
  BY LenProperties DEF ListOf
<1>1. 0 \in G
  <2>1. first(0) = <<>> /\ 1 .. 0 = {} /\ 0 \in 0 .. n
    BY <1>0
  <2>2. Elements(<<>>) = {}
    BY DEF Elements
  <2>3. Elements(ReadOff(f, first(0))) = {}
    BY <2>1, <2>2, ReadNothing
  <2>4. QED
    BY <2>1, <2>3
<1>2. ASSUME NEW k \in 0 .. n - 1, k \in G
      PROVE  k + 1 \in G
  <2> DEFINE t == first(k)
             x == s[k + 1]
             w == ReadOff(f, t)
  <2>1. t \in Seq(E) /\ x \in E /\ first(k + 1) = Append(t, x)
    BY <1>0, PrefixGrows
  <2>2. \A y : y \in Elements(w) <=> \E i \in 1 .. k : y \in M(i)
    BY <1>2
  <2>3. k + 1 \in 0 .. n /\ \A i : i \in 1 .. k + 1 <=> i \in 1 .. k \/ i = k + 1
    BY <1>0
  <2> HIDE DEF t, first
  <2>4. ListOf(t, E)
    BY <2>1 DEF ListOf
  <2>5. ListOf(w, T)
    BY <2>4, ReadIsList
  <2>6. ListOf(f[x], T)
    BY <2>1 DEF Tells, ListOf
  <2>7. ReadOff(f, Append(t, x)) = Cat(w, f[x])
    <3> HIDE DEF x
    <3>1. QED
      BY <2>1, <2>4, ReadOneMore
  <2> HIDE DEF w
  <2>8. Elements(Cat(w, f[x])) = Elements(w) \cup Elements(f[x])
    BY <2>5, <2>6, CatElements
  <2>9. Elements(ReadOff(f, first(k + 1))) = Elements(w) \cup M(k + 1)
    BY ONLY <2>1, <2>7, <2>8
  <2> HIDE DEF M
  <2>10. \A y : y \in Elements(ReadOff(f, first(k + 1))) <=> \E i \in 1 .. k + 1 : y \in M(i)
    BY ONLY <2>2, <2>3, <2>9
  <2>11. QED
    BY <2>3, <2>10
<1> HIDE DEF G
<1>3. \A k \in 0 .. n : k \in G
  BY <1>0, <1>1, <1>2, BoundedInduction, Zenon
<1>4. n \in G
  BY <1>0, <1>3
<1>5. first(n) = s
  BY <1>0, SubSeqFull
<1> HIDE DEF first
<1>6. QED
  BY <1>4, <1>5 DEF G

(* Where an entry of what a list says comes from. *)
ComesFrom(f, s, p) ==
  \E i \in 1 .. Len(s) : \E j \in 1 .. Len(f[s[i]]) :
    /\ p = Len(ReadOff(f, LeftOf(s, i))) + j
    /\ ReadOff(f, s)[p] = f[s[i]][j]

(* Every entry of what a list says is an entry of what one of its elements *)
(* says, at its place.                                                     *)
LEMMA ReadAt ==
  ASSUME NEW E, NEW T, NEW f, Tells(f, E, T), NEW s, ListOf(s, E)
  PROVE  \A p \in 1 .. Len(ReadOff(f, s)) : ComesFrom(f, s, p)
<1> DEFINE n == Len(s)
           first(k) == SubSeq(s, 1, k)
           here(i) == Len(ReadOff(f, LeftOf(s, i)))
           M(i) == f[s[i]]
           G == {k \in 0 .. n : \A p \in 1 .. Len(ReadOff(f, first(k))) : \E i \in 1 .. k : \E j \in 1 .. Len(M(i)) :
                   p = here(i) + j /\ ReadOff(f, first(k))[p] = M(i)[j]}
<1>0. n \in Nat /\ s \in Seq(E)
  BY LenProperties DEF ListOf
<1>1. 0 \in G
  <2>1. first(0) = <<>> /\ 0 \in 0 .. n
    BY <1>0
  <2>2. ReadOff(f, first(0)) = <<>>
    BY <2>1, ReadNothing
  <2>3. Len(ReadOff(f, first(0))) = 0
    BY <2>2
  <2>4. 1 .. Len(ReadOff(f, first(0))) = {}
    BY <2>3
  <2>5. QED
    BY <2>1, <2>4
<1>2. ASSUME NEW k \in 0 .. n - 1, k \in G
      PROVE  k + 1 \in G
  <2> DEFINE t == first(k)
             x == s[k + 1]
             w == ReadOff(f, t)
             v == f[x]
  <2>1. t \in Seq(E) /\ x \in E /\ first(k + 1) = Append(t, x)
    BY <1>0, PrefixGrows
  <2>2. \A p \in 1 .. Len(w) : \E i \in 1 .. k : \E j \in 1 .. Len(M(i)) : p = here(i) + j /\ w[p] = M(i)[j]
    BY <1>2
  <2>3. k + 1 \in 0 .. n /\ k + 1 \in 1 .. n /\ k \in Nat /\ \A i \in 1 .. k : i \in 1 .. k + 1
    BY <1>0
  <2>4. here(k + 1) = Len(w) /\ M(k + 1) = v
    <3>1. LeftOf(s, k + 1) = t
      BY <2>3 DEF LeftOf
    <3>2. QED
      BY <3>1
  <2> HIDE DEF t, first, x
  <2>5. ListOf(t, E)
    BY <2>1 DEF ListOf
  <2>6. ListOf(w, T)
    BY <2>5, ReadIsList
  <2>7. ListOf(v, T)
    BY <2>1 DEF Tells, ListOf
  <2>8. ReadOff(f, first(k + 1)) = Cat(w, v)
    BY <2>1, <2>5, ReadOneMore
  <2> HIDE DEF w, v, here, M
  <2>9. /\ Len(w) \in Nat /\ Len(v) \in Nat /\ Len(Cat(w, v)) = Len(w) + Len(v)
        /\ \A p \in 1 .. Len(w) + Len(v) : Cat(w, v)[p] = IF p <= Len(w) THEN w[p] ELSE v[p - Len(w)]
    BY <2>6, <2>7, CatIs
  <2>10. ASSUME NEW p \in 1 .. Len(w) + Len(v)
         PROVE  \E i \in 1 .. k + 1 : \E j \in 1 .. Len(M(i)) : p = here(i) + j /\ Cat(w, v)[p] = M(i)[j]
    <3>1. CASE p <= Len(w)
      <4>1. p \in 1 .. Len(w) /\ Cat(w, v)[p] = w[p]
        BY <2>9, <3>1
      <4>2. PICK i \in 1 .. k : \E j \in 1 .. Len(M(i)) : p = here(i) + j /\ w[p] = M(i)[j]
        BY <2>2, <4>1
      <4>3. i \in 1 .. k + 1
        BY <2>3
      <4>4. QED
        BY <4>1, <4>2, <4>3
    <3>2. CASE ~(p <= Len(w))
      <4> DEFINE j == p - Len(w)
      <4>1. j \in 1 .. Len(v) /\ p = Len(w) + j /\ Cat(w, v)[p] = v[j]
        BY <2>9, <3>2
      <4> HIDE DEF j
      <4>2. k + 1 \in 1 .. k + 1
        BY <2>3
      <4>3. QED
        BY <2>4, <4>1, <4>2
    <3>3. QED
      BY <3>1, <3>2
  <2>11. \A p \in 1 .. Len(Cat(w, v)) : \E i \in 1 .. k + 1 : \E j \in 1 .. Len(M(i)) : p = here(i) + j /\ Cat(w, v)[p] = M(i)[j]
    BY <2>9, <2>10
  <2>12. \A p \in 1 .. Len(ReadOff(f, first(k + 1))) : \E i \in 1 .. k + 1 : \E j \in 1 .. Len(M(i)) :
           p = here(i) + j /\ ReadOff(f, first(k + 1))[p] = M(i)[j]
    BY ONLY <2>8, <2>11
  <2>13. QED
    BY <2>3, <2>12
<1> HIDE DEF G
<1>3. \A k \in 0 .. n : k \in G
  BY <1>0, <1>1, <1>2, BoundedInduction, Zenon
<1>4. n \in G
  BY <1>0, <1>3
<1>5. first(n) = s
  BY <1>0, SubSeqFull
<1> HIDE DEF first, here, M
<1>6. \A p \in 1 .. Len(ReadOff(f, first(n))) : \E i \in 1 .. n : \E j \in 1 .. Len(M(i)) :
        p = here(i) + j /\ ReadOff(f, first(n))[p] = M(i)[j]
  BY <1>4 DEF G
<1>7. \A p \in 1 .. Len(ReadOff(f, s)) : \E i \in 1 .. n : \E j \in 1 .. Len(M(i)) :
        p = here(i) + j /\ ReadOff(f, s)[p] = M(i)[j]
  BY ONLY <1>5, <1>6
<1>8. QED
  BY <1>7 DEF here, M, ComesFrom

(* A list over a set is one over a larger set. *)
LEMMA ListGrows ==
  ASSUME NEW E, NEW F, E \subseteq F, NEW s, ListOf(s, E)
  PROVE  ListOf(s, F)
  BY DEF ListOf

(* A prefix, and a longer one that ends in t. *)
LEMMA UpToNext ==
  ASSUME NEW E, NEW s, ListOf(s, E), NEW a \in 1 .. Len(s) + 1, NEW b \in a .. Len(s) + 1,
         NEW t \in [1 .. b - a -> E], \A n \in 1 .. b - a : t[n] = s[a + n - 1]
  PROVE  t \in Seq(E) /\ SubSeq(s, 1, b - 1) = SubSeq(s, 1, a - 1) \o t
<1> DEFINE u == SubSeq(s, 1, a - 1)
           v == SubSeq(s, 1, b - 1)
           w == u \o t
<1>1. s \in Seq(E) /\ Len(s) \in Nat /\ a \in Nat /\ b \in Nat /\ a <= b /\ b <= Len(s) + 1 /\ 1 <= a /\ b - a \in Nat
  BY LenProperties DEF ListOf
<1>2. t \in Seq(E) /\ Len(t) = b - a
  BY <1>1, ListFromFunction
<1>3. u \in Seq(E) /\ Len(u) = a - 1 /\ \A n \in 1 .. a - 1 : u[n] = s[n]
  BY <1>1
<1>4. v \in Seq(E) /\ Len(v) = b - 1 /\ \A n \in 1 .. b - 1 : v[n] = s[n]
  BY <1>1
<1> HIDE DEF u, v
<1>5. /\ w \in Seq(E) /\ Len(w) = (a - 1) + (b - a)
      /\ \A n \in 1 .. (a - 1) + (b - a) : w[n] = IF n <= a - 1 THEN u[n] ELSE t[n - (a - 1)]
  BY ONLY <1>2, <1>3, ConcatAt
<1> HIDE DEF w
<1>6. Len(w) = b - 1 /\ (a - 1) + (b - a) = b - 1
  BY <1>1, <1>5
<1>7. ASSUME NEW n \in 1 .. b - 1
      PROVE  v[n] = w[n]
  <2>1. w[n] = IF n <= a - 1 THEN u[n] ELSE t[n - (a - 1)]
    BY <1>5, <1>6
  <2>2. CASE n <= a - 1
    <3>1. n \in 1 .. a - 1
      BY <1>1, <2>2
    <3>2. QED
      BY <1>3, <1>4, <2>1, <2>2, <3>1
  <2>3. CASE ~(n <= a - 1)
    <3> DEFINE m == n - (a - 1)
    <3>1. m \in 1 .. b - a /\ a + m - 1 = n
      BY <1>1, <2>3
    <3> HIDE DEF m
    <3>2. t[m] = s[n]
      BY <3>1
    <3>3. w[n] = t[m]
      BY <2>1, <2>3 DEF m
    <3>4. QED
      BY <1>4, <3>2, <3>3
  <2>4. QED
    BY <2>2, <2>3
<1>8. v = w
  BY ONLY <1>4, <1>5, <1>6, <1>7, SeqEqual
<1>9. QED
  BY <1>2, <1>8 DEF v, w, u

(* The list c is a and then b, entry by entry. *)
Joins(c, a, b) ==
  /\ Len(a) \in Nat /\ Len(b) \in Nat /\ Len(c) = Len(a) + Len(b)
  /\ \A p \in 1 .. Len(a) + Len(b) : c[p] = IF p <= Len(a) THEN a[p] ELSE b[p - Len(a)]

LEMMA CatJoins ==
  ASSUME NEW E, NEW a, NEW b, ListOf(a, E), ListOf(b, E)
  PROVE  Joins(Cat(a, b), a, b)
  BY CatIs DEF Joins

(* The list w is s without its elements from the p-th to the q-th. *)
Lacks(w, s, p, q) ==
  /\ Len(w) = Len(s) - (q - p + 1)
  /\ \A i \in 1 .. p - 1 : w[i] = s[i]
  /\ \A i \in 1 .. Len(s) - q : w[p - 1 + i] = s[q + i]

(* Without takes out a run of elements. *)
LEMMA WithoutIs ==
  ASSUME NEW E, NEW s, ListOf(s, E), NEW p \in 1 .. Len(s), NEW q \in p .. Len(s)
  PROVE  ListOf(Without(s, p, q), E) /\ Lacks(Without(s, p, q), s, p, q)
<1> DEFINE a == LeftOf(s, p)
           b == RightOf(s, q)
           w == Cat(a, b)
           l == Len(s)
<1>0. l \in Nat /\ p \in Nat /\ q \in Nat /\ 1 <= p /\ p <= q /\ q <= l
  BY LenProperties DEF ListOf
<1>1. ListOf(a, E) /\ Len(a) = p - 1 /\ \A i \in 1 .. p - 1 : a[i] = s[i]
  BY LeftIs
<1>2. ListOf(b, E) /\ Len(b) = l - q /\ \A i \in 1 .. l - q : b[i] = s[q + i]
  <2>1. q \in 1 .. Len(s)
    BY <1>0
  <2>2. QED
    BY ONLY <2>1, ListOf(s, E), RightIs
<1>3. Without(s, p, q) = w
  BY DEF Without, Cat, LeftOf, RightOf
<1> HIDE DEF a, b
<1>4. ListOf(w, E)
  BY <1>1, <1>2, CatIsList
<1>5. Len(w) = Len(a) + Len(b) /\ \A i \in 1 .. Len(a) + Len(b) : w[i] = IF i <= Len(a) THEN a[i] ELSE b[i - Len(a)]
  <2>1. Joins(w, a, b)
    BY <1>1, <1>2, CatJoins
  <2> HIDE DEF w
  <2>2. QED
    BY <2>1 DEF Joins
<1> HIDE DEF w, l
<1>6. Len(w) = l - (q - p + 1)
  BY <1>0, <1>1, <1>2, <1>5
<1>7. \A i \in 1 .. p - 1 : w[i] = s[i]
  BY <1>0, <1>1, <1>2, <1>5
<1>8. ASSUME NEW i \in 1 .. l - q
      PROVE  w[p - 1 + i] = s[q + i]
  <2> DEFINE j == p - 1 + i
  <2>1. j \in 1 .. Len(a) + Len(b) /\ ~(j <= Len(a)) /\ j - Len(a) = i
    BY <1>0, <1>1, <1>2
  <2> HIDE DEF j
  <2>2. w[j] = b[i]
    BY <1>5, <2>1
  <2>3. QED
    BY <1>2, <2>2 DEF j
<1>9. QED
  BY <1>3, <1>4, <1>6, <1>7, <1>8 DEF l, Lacks

(* The list t is s with x for its n-th element. *)
Changed(t, s, n, x) ==
  /\ Len(t) = Len(s) /\ t[n] = x
  /\ \A i \in 1 .. Len(s) : i # n => t[i] = s[i]

LEMMA ChangedIs ==
  ASSUME NEW E, NEW s, ListOf(s, E), NEW n \in 1 .. Len(s), NEW x \in E,
         NEW t, t = [s EXCEPT ![n] = x]
  PROVE  ListOf(t, E) /\ Changed(t, s, n, x)
  BY DEF ListOf, Changed

(* Unlink takes out one element. *)
LEMMA UnlinkedIs ==
  ASSUME NEW E, NEW s, ListOf(s, E), NEW n \in 1 .. Len(s)
  PROVE  /\ ListOf(Unlink(s, n), E) /\ Len(Unlink(s, n)) = Len(s) - 1
         /\ \A i \in 1 .. n - 1 : Unlink(s, n)[i] = s[i]
         /\ \A i \in n .. Len(s) - 1 : Unlink(s, n)[i] = s[i + 1]
<1> DEFINE w == Without(s, n, n)
<1>0. Unlink(s, n) = w
  BY UnlinkIsWithout
<1>1. n \in n .. Len(s) /\ Len(s) \in Nat /\ n \in Nat
  BY LenProperties DEF ListOf
<1>2. /\ ListOf(w, E) /\ Len(w) = Len(s) - (n - n + 1)
      /\ \A i \in 1 .. n - 1 : w[i] = s[i]
      /\ \A i \in 1 .. Len(s) - n : w[n - 1 + i] = s[n + i]
  <2>1. ListOf(w, E) /\ Lacks(w, s, n, n)
    BY ONLY <1>1, ListOf(s, E), n \in 1 .. Len(s), WithoutIs
  <2> HIDE DEF w
  <2>2. QED
    BY <2>1 DEF Lacks
<1> HIDE DEF w
<1>3. ASSUME NEW i \in n .. Len(s) - 1
      PROVE  w[i] = s[i + 1]
  <2> DEFINE j == i - n + 1
  <2>1. j \in 1 .. Len(s) - n /\ n - 1 + j = i /\ n + j = i + 1
    BY <1>1
  <2> HIDE DEF j
  <2>2. w[n - 1 + j] = s[n + j]
    BY <1>2, <2>1
  <2>3. QED
    BY <2>1, <2>2
<1>4. QED
  BY <1>0, <1>1, <1>2, <1>3

(* The nodes from the p-th to the q-th become one, which stands at the     *)
(* first or at the last of their places.                                   *)
LEMMA SplicedAtFirst ==
  ASSUME NEW E, NEW s, ListOf(s, E), NEW p \in 1 .. Len(s), NEW q \in p + 1 .. Len(s), NEW x \in E,
         NEW t, t = [Without(s, p + 1, q) EXCEPT ![p] = x]
  PROVE  ListOf(t, E) /\ Spliced(t, s, p, q, x)
<1> DEFINE w == Without(s, p + 1, q)
           l == Len(s)
<1>0. l \in Nat /\ p \in Nat /\ q \in Nat /\ 1 <= p /\ p + 1 <= q /\ q <= l /\ p + 1 \in 1 .. Len(s)
  BY LenProperties DEF ListOf
<1>1. /\ ListOf(w, E) /\ Len(w) = Len(s) - (q - (p + 1) + 1)
      /\ \A i \in 1 .. (p + 1) - 1 : w[i] = s[i]
      /\ \A i \in 1 .. Len(s) - q : w[(p + 1) - 1 + i] = s[q + i]
  <2> DEFINE r == p + 1
  <2>1. r \in 1 .. Len(s) /\ q \in r .. Len(s)
    BY <1>0
  <2> HIDE DEF r
  <2>2. ListOf(Without(s, r, q), E) /\ Lacks(Without(s, r, q), s, r, q)
    BY ONLY <2>1, ListOf(s, E), WithoutIs
  <2>3. ListOf(w, E) /\ Lacks(w, s, p + 1, q)
    BY <2>2 DEF r
  <2> HIDE DEF w
  <2>4. QED
    BY <2>3 DEF Lacks
<1> HIDE DEF w
<1>2. p \in 1 .. Len(w) /\ Len(w) = Len(s) - (q - p)
  BY <1>0, <1>1
<1>3. /\ ListOf(t, E) /\ Len(t) = Len(w) /\ t[p] = x
      /\ \A i \in 1 .. Len(w) : i # p => t[i] = w[i]
  <2>1. t = [w EXCEPT ![p] = x]
    BY DEF w
  <2>2. ListOf(w, E)
    BY <1>1
  <2>3. ListOf(t, E) /\ Changed(t, w, p, x)
    BY ONLY <1>2, <2>1, <2>2, x \in E, ChangedIs
  <2>4. QED
    BY <2>3 DEF Changed
<1>4. \A i \in 1 .. p - 1 : t[i] = s[i]
  <2>1. \A i \in 1 .. p - 1 : i \in 1 .. Len(w) /\ i # p /\ i \in 1 .. (p + 1) - 1
    BY <1>0, <1>2
  <2>2. QED
    BY <1>1, <1>3, <2>1
<1>5. ASSUME NEW i \in 1 .. Len(s) - q
      PROVE  t[p + i] = s[q + i]
  <2>1. p + i \in 1 .. Len(w) /\ p + i # p /\ (p + 1) - 1 + i = p + i
    BY <1>0, <1>2
  <2>2. w[(p + 1) - 1 + i] = s[q + i]
    BY <1>1
  <2>3. QED
    BY <1>3, <2>1, <2>2
<1>6. QED
  BY <1>2, <1>3, <1>4, <1>5 DEF Spliced

LEMMA SplicedAtLast ==
  ASSUME NEW E, NEW s, ListOf(s, E), NEW p \in 1 .. Len(s) - 1, NEW x \in E,
         NEW t, t = [Unlink(s, p) EXCEPT ![p] = x]
  PROVE  ListOf(t, E) /\ Spliced(t, s, p, p + 1, x)
<1> DEFINE w == Unlink(s, p)
           l == Len(s)
<1>0. l \in Nat /\ p \in Nat /\ 1 <= p /\ p < l /\ p \in 1 .. Len(s)
  BY LenProperties DEF ListOf
<1>1. /\ ListOf(w, E) /\ Len(w) = Len(s) - 1
      /\ \A i \in 1 .. p - 1 : w[i] = s[i]
      /\ \A i \in p .. Len(s) - 1 : w[i] = s[i + 1]
  BY ONLY <1>0, ListOf(s, E), UnlinkedIs
<1> HIDE DEF w
<1>2. p \in 1 .. Len(w)
  BY <1>0, <1>1
<1>3. /\ ListOf(t, E) /\ Len(t) = Len(w) /\ t[p] = x
      /\ \A i \in 1 .. Len(w) : i # p => t[i] = w[i]
  <2>1. t = [w EXCEPT ![p] = x]
    BY DEF w
  <2>2. ListOf(w, E)
    BY <1>1
  <2>3. ListOf(t, E) /\ Changed(t, w, p, x)
    BY ONLY <1>2, <2>1, <2>2, x \in E, ChangedIs
  <2>4. QED
    BY <2>3 DEF Changed
<1>4. \A i \in 1 .. p - 1 : t[i] = s[i]
  <2>1. \A i \in 1 .. p - 1 : i \in 1 .. Len(w) /\ i # p
    BY <1>0, <1>2
  <2>2. QED
    BY <1>1, <1>3, <2>1
<1>5. ASSUME NEW i \in 1 .. Len(s) - (p + 1)
      PROVE  t[p + i] = s[(p + 1) + i]
  <2>1. p + i \in 1 .. Len(w) /\ p + i # p /\ p + i \in p .. Len(s) - 1 /\ (p + i) + 1 = (p + 1) + i
    BY <1>0, <1>1
  <2>2. w[p + i] = s[(p + i) + 1]
    BY <1>1, <2>1
  <2>3. QED
    BY <1>3, <2>1, <2>2
<1>6. Len(t) = Len(s) - ((p + 1) - p)
  <2>1. Len(t) = Len(s) - 1
    BY <1>1, <1>3
  <2>2. (p + 1) - p = 1
    BY <1>0
  <2>3. QED
    BY <2>1, <2>2
<1>7. QED
  BY <1>3, <1>4, <1>5, <1>6 DEF Spliced

(* Two nodes with silent ones between them, of which the first is freed    *)
(* and the other says what both have said.                                 *)
LEMMA ReadFreed ==
  ASSUME NEW E, NEW T, NEW f, Tells(f, E, T), NEW s, ListOf(s, E),
         NEW n \in 1 .. Len(s), NEW m \in n + 1 .. Len(s), NEW x \in E,
         NEW y, y = s[n], NEW z, z = s[m],
         \A i \in n + 1 .. m - 1 : f[s[i]] = <<>>,
         f[x] = Cat(f[y], f[z]),
         NEW t, t = Unlink([s EXCEPT ![m] = x], n)
  PROVE  ListOf(t, E) /\ Len(t) = Len(s) - 1 /\ ReadOff(f, t) = ReadOff(f, s)
<1> DEFINE e == [s EXCEPT ![m] = x]
           a == ReadOff(f, LeftOf(s, n))
           b == ReadOff(f, RightOf(s, m))
<1>0. Len(s) \in Nat /\ n \in Nat /\ m \in Nat /\ 1 <= n /\ n < m /\ m <= Len(s) /\ m \in 1 .. Len(s)
  BY LenProperties DEF ListOf
<1>1. /\ ListOf(e, E) /\ Len(e) = Len(s) /\ e[m] = x
      /\ \A i \in 1 .. Len(s) : i # m => e[i] = s[i]
  <2>1. ListOf(e, E) /\ Changed(e, s, m, x)
    BY ONLY <1>0, ListOf(s, E), x \in E, ChangedIs
  <2> HIDE DEF e
  <2>2. QED
    BY <2>1 DEF Changed
<1>2. t = Unlink(e, n)
  OBVIOUS
<1> HIDE DEF e
<1>3. n \in 1 .. Len(e) /\ m \in 1 .. Len(e) /\ n \in 0 .. Len(e) /\ m \in n .. Len(e) /\ m \in n + 1 .. Len(e)
  BY <1>0, <1>1
<1>4. ListOf(t, E) /\ Len(t) = Len(e) - 1
  BY <1>1, <1>2, <1>3, UnlinkedIs
<1>5. ReadOff(f, t) = Cat(ReadOff(f, LeftOf(e, n)), ReadOff(f, RightOf(e, n)))
  BY <1>1, <1>2, <1>3, ReadUnlink
<1>6. ReadOff(f, RightOf(e, n)) = Cat(ReadOff(f, SubSeq(e, n + 1, m)), ReadOff(f, RightOf(e, m)))
  BY ONLY <1>1, <1>3, Tells(f, E, T), ReadRest
<1>7. ReadOff(f, SubSeq(e, n + 1, m)) = f[x]
  <2> DEFINE u == n + 1
             v == m - 1
  <2>1. u \in 1 .. Len(e) /\ m \in u .. Len(e) /\ u \in Int /\ v \in Int /\ 1 <= u /\ v <= Len(e)
    BY <1>0, <1>1
  <2>2. \A i \in u .. v : f[e[i]] = <<>>
    <3>1. \A i \in u .. v : i \in n + 1 .. m - 1 /\ i \in 1 .. Len(s) /\ i # m
      BY <1>0
    <3>2. QED
      BY <1>1, <3>1
  <2> HIDE DEF u, v
  <2>3. ReadOff(f, SubSeq(e, u, v)) = <<>>
    BY ONLY <1>1, <2>1, <2>2, Tells(f, E, T), ReadSilent
  <2>4. ReadOff(f, SubSeq(e, u, m)) = Cat(ReadOff(f, SubSeq(e, u, m - 1)), f[x])
    BY ONLY <1>1, <2>1, Tells(f, E, T), ReadLast
  <2>5. ListOf(f[x], T)
    BY DEF Tells, ListOf
  <2>6. Cat(<<>>, f[x]) = f[x]
    BY <2>5, CatNothing
  <2>7. QED
    BY <2>3, <2>4, <2>6 DEF u, v
<1>8. LeftOf(e, n) = LeftOf(s, n)
  <2> DEFINE c == LeftOf(e, n)
             d == LeftOf(s, n)
  <2>1. ListOf(c, E) /\ Len(c) = n - 1 /\ \A i \in 1 .. n - 1 : c[i] = e[i]
    BY ONLY <1>1, <1>3, LeftIs
  <2>2. ListOf(d, E) /\ Len(d) = n - 1 /\ \A i \in 1 .. n - 1 : d[i] = s[i]
    BY LeftIs
  <2>3. \A i \in 1 .. n - 1 : e[i] = s[i]
    <3>1. \A i \in 1 .. n - 1 : i \in 1 .. Len(s) /\ i # m
      BY <1>0
    <3>2. QED
      BY <1>1, <3>1
  <2> HIDE DEF c, d
  <2>4. c \in Seq(E) /\ d \in Seq(E) /\ Len(c) = Len(d) /\ \A i \in 1 .. Len(c) : c[i] = d[i]
    BY <2>1, <2>2, <2>3 DEF ListOf
  <2>5. c = d
    BY ONLY <2>4, SeqEqual
  <2>6. QED
    BY <2>5 DEF c, d
<1>9. RightOf(e, m) = RightOf(s, m)
  <2> DEFINE c == RightOf(e, m)
             d == RightOf(s, m)
  <2>1. ListOf(c, E) /\ Len(c) = Len(e) - m /\ \A i \in 1 .. Len(e) - m : c[i] = e[m + i]
    BY ONLY <1>1, <1>3, RightIs
  <2>2. ListOf(d, E) /\ Len(d) = Len(s) - m /\ \A i \in 1 .. Len(s) - m : d[i] = s[m + i]
    BY ONLY <1>0, ListOf(s, E), RightIs
  <2>3. \A i \in 1 .. Len(s) - m : e[m + i] = s[m + i]
    <3>1. \A i \in 1 .. Len(s) - m : m + i \in 1 .. Len(s) /\ m + i # m
      BY <1>0
    <3>2. QED
      BY <1>1, <3>1
  <2> HIDE DEF c, d
  <2>4. c \in Seq(E) /\ d \in Seq(E) /\ Len(c) = Len(d) /\ \A i \in 1 .. Len(c) : c[i] = d[i]
    BY <1>1, <2>1, <2>2, <2>3 DEF ListOf
  <2>5. c = d
    BY ONLY <2>4, SeqEqual
  <2>6. QED
    BY <2>5 DEF c, d
<1>10. ReadOff(f, t) = Cat(a, Cat(f[x], b))
  BY <1>5, <1>6, <1>7, <1>8, <1>9
<1>11. ReadOff(f, s) = Cat(a, Cat(f[x], b))
  <2>1. n \in 1 .. Len(s) /\ m \in n - 1 .. Len(s)
    BY <1>0
  <2>2. ReadOff(f, s) = Cat(ReadOff(f, LeftOf(s, n)), Cat(ReadOff(f, SubSeq(s, n, m)), ReadOff(f, RightOf(s, m))))
    BY ONLY <2>1, Tells(f, E, T), ListOf(s, E), ReadThrough
  <2>3. ReadOff(f, SubSeq(s, n, m)) = Cat(f[y], f[z])
    BY ReadTwo
  <2>4. QED
    BY <2>2, <2>3
<1>12. QED
  BY <1>1, <1>4, <1>10, <1>11

(* What stands behind a place, and behind a later one. *)
LEMMA SuffixIs ==
  ASSUME NEW E, NEW s, ListOf(s, E), NEW p \in 1 .. Len(s) + 1, NEW q \in p .. Len(s) + 1
  PROVE  SubSeq(s, q, Len(s)) = RightOf(SubSeq(s, p, Len(s)), q - p)
<1> DEFINE n == Len(s)
           t == SubSeq(s, p, n)
           d == q - p
           u == SubSeq(s, q, n)
           v == RightOf(t, d)
<1>1. n \in Nat /\ s \in Seq(E) /\ p \in Int /\ q \in Int /\ 1 <= p /\ p <= q /\ q <= n + 1
  BY LenProperties DEF ListOf
<1> HIDE DEF n
<1>2. t \in Seq(E) /\ Len(t) = n - p + 1 /\ \A i \in 1 .. n - p + 1 : t[i] = s[p + i - 1]
  BY <1>1, SubSeqProperties DEF n
<1>3. u \in Seq(E) /\ Len(u) = n - q + 1 /\ \A i \in 1 .. n - q + 1 : u[i] = s[q + i - 1]
  BY <1>1, SubSeqProperties DEF n
<1> HIDE DEF t, u
<1>4. v = SubSeq(t, d + 1, Len(t))
  BY DEF RightOf
<1>5. d \in Int /\ d = q - p /\ d + 1 \in Int /\ 1 <= d + 1
  BY <1>1
<1> HIDE DEF d, v
<1>6. v \in Seq(E) /\ Len(v) = n - q + 1 /\ \A i \in 1 .. n - q + 1 : v[i] = t[d + i]
  <2> DEFINE a == d + 1
             m == Len(t)
  <2>1. a \in Int /\ m \in Int /\ 1 <= a /\ m - a + 1 = n - q + 1 /\ a <= m + 1 /\ v = SubSeq(t, a, m)
    BY <1>1, <1>2, <1>4, <1>5
  <2>2. \A i \in 1 .. n - q + 1 : a + i - 1 = d + i
    BY <1>1, <1>5
  <2> HIDE DEF a
  <2>3. v \in Seq(E) /\ Len(v) = m - a + 1 /\ \A i \in 1 .. m - a + 1 : v[i] = t[a + i - 1]
    <3>1. a <= m + 1 => SubSeq(t, a, m) \in Seq(E) /\ Len(SubSeq(t, a, m)) = m - a + 1
                        /\ \A i \in 1 .. m - a + 1 : SubSeq(t, a, m)[i] = t[a + i - 1]
      BY <1>2, <2>1, SubSeqProperties
    <3>2. QED
      BY <2>1, <3>1
  <2>4. QED
    BY <2>1, <2>2, <2>3
<1>7. ASSUME NEW i \in 1 .. n - q + 1
      PROVE  u[i] = v[i]
  <2> DEFINE j == d + i
  <2>1. j \in 1 .. n - p + 1 /\ p + j - 1 = q + i - 1
    BY <1>1, <1>5
  <2>2. v[i] = t[j]
    BY <1>6
  <2> HIDE DEF j
  <2>3. t[j] = s[p + j - 1]
    BY <1>2, <2>1
  <2>4. u[i] = s[q + i - 1]
    BY <1>3
  <2>5. QED
    BY <2>1, <2>2, <2>3, <2>4
<1>8. u = v
  BY ONLY <1>1, <1>3, <1>6, <1>7, SeqEqual
<1>9. QED
  BY <1>8 DEF u, v, t, d, n

LEMMA WholeIs ==
  ASSUME NEW E, NEW s, ListOf(s, E)
  PROVE  SubSeq(s, 1, Len(s)) = s
  BY SubSeqFull DEF ListOf

(* Five lists regrouped around the third. *)
LEMMA FourParts ==
  ASSUME NEW E, NEW a, NEW b, NEW y, NEW c, NEW d, ListOf(a, E), ListOf(b, E), ListOf(y, E), ListOf(c, E), ListOf(d, E)
  PROVE  Cat(a, Cat(Cat(b, Cat(y, c)), d)) = Cat(Cat(a, b), Cat(y, Cat(c, d)))
<1>1. ListOf(Cat(y, c), E) /\ ListOf(Cat(c, d), E)
  BY CatIsList
<1>2. Cat(Cat(b, Cat(y, c)), d) = Cat(b, Cat(Cat(y, c), d))
  BY <1>1, CatRegroups
<1>3. Cat(Cat(y, c), d) = Cat(y, Cat(c, d))
  BY CatRegroups
<1>4. ListOf(Cat(y, Cat(c, d)), E)
  BY <1>1, CatIsList
<1>5. Cat(a, Cat(b, Cat(y, Cat(c, d)))) = Cat(Cat(a, b), Cat(y, Cat(c, d)))
  BY <1>4, CatRegroups
<1>6. QED
  BY <1>2, <1>3, <1>5

(* What stands before and behind a changed element is unchanged. *)
LEMMA ChangedSides ==
  ASSUME NEW E, NEW s, ListOf(s, E), NEW t, ListOf(t, E), NEW n \in 1 .. Len(s), NEW x, Changed(t, s, n, x)
  PROVE  LeftOf(t, n) = LeftOf(s, n) /\ RightOf(t, n) = RightOf(s, n)
<1>1. Len(s) \in Nat
  BY LenProperties DEF ListOf
<1>2. Spliced(t, s, n, n, x)
  <2>1. Len(t) = Len(s) - (n - n) /\ t[n] = x
    BY <1>1 DEF Changed
  <2>2. \A i \in 1 .. n - 1 : t[i] = s[i]
    <3>1. \A i \in 1 .. n - 1 : i \in 1 .. Len(s) /\ i # n
      BY <1>1
    <3>2. QED
      BY <3>1 DEF Changed
  <2>3. \A i \in 1 .. Len(s) - n : t[n + i] = s[n + i]
    <3>1. \A i \in 1 .. Len(s) - n : n + i \in 1 .. Len(s) /\ n + i # n
      BY <1>1
    <3>2. QED
      BY <3>1 DEF Changed
  <2>4. QED
    BY <2>1, <2>2, <2>3 DEF Spliced
<1>3. n \in n .. Len(s)
  BY <1>1
<1>4. QED
  BY <1>2, <1>3, SplicedParts

(* The element after the w-th is taken out. *)
LEMMA UnlinkSides ==
  ASSUME NEW E, NEW s, ListOf(s, E), NEW w \in 1 .. Len(s), NEW v \in 1 .. Len(s), v = w + 1, NEW u, u = Unlink(s, v)
  PROVE  /\ ListOf(u, E) /\ w \in 1 .. Len(u) /\ u[w] = s[w]
         /\ LeftOf(u, w) = LeftOf(s, w) /\ RightOf(u, w) = RightOf(s, v)
<1>1. Len(s) \in Nat
  BY LenProperties DEF ListOf
<1>2. /\ ListOf(u, E) /\ Len(u) = Len(s) - 1
      /\ \A i \in 1 .. v - 1 : u[i] = s[i]
      /\ \A i \in v .. Len(s) - 1 : u[i] = s[i + 1]
  <2>1. ListOf(Unlink(s, v), E) /\ Len(Unlink(s, v)) = Len(s) - 1
    BY ONLY ListOf(s, E), v \in 1 .. Len(s), UnlinkedIs
  <2>2. \A i \in 1 .. v - 1 : Unlink(s, v)[i] = s[i]
    BY ONLY ListOf(s, E), v \in 1 .. Len(s), UnlinkedIs
  <2>3. \A i \in v .. Len(s) - 1 : Unlink(s, v)[i] = s[i + 1]
    BY ONLY ListOf(s, E), v \in 1 .. Len(s), UnlinkedIs
  <2>4. QED
    BY <2>1, <2>2, <2>3
<1> DEFINE x == s[w]
<1>3. Spliced(u, s, w, v, x)
  <2>1. Len(u) = Len(s) - (v - w) /\ u[w] = x
    BY <1>1, <1>2
  <2>2. \A i \in 1 .. w - 1 : u[i] = s[i]
    BY <1>2
  <2>3. \A i \in 1 .. Len(s) - v : u[w + i] = s[v + i]
    <3> SUFFICES ASSUME NEW i \in 1 .. Len(s) - v PROVE u[w + i] = s[v + i]
      OBVIOUS
    <3> DEFINE j == w + i
    <3>1. j \in v .. Len(s) - 1 /\ j + 1 = v + i
      BY <1>1
    <3> HIDE DEF j
    <3>2. u[j] = s[j + 1]
      BY <1>2, <3>1
    <3>3. QED
      BY <3>1, <3>2 DEF j
  <2>4. QED
    BY <2>1, <2>2, <2>3 DEF Spliced
<1>4. v \in w .. Len(s)
  BY <1>1
<1> HIDE DEF x
<1>5. w \in 1 .. Len(u) /\ u[w] = x /\ LeftOf(u, w) = LeftOf(s, w) /\ RightOf(u, w) = RightOf(s, v)
  BY <1>2, <1>3, <1>4, SplicedParts
<1>6. QED
  BY <1>2, <1>5 DEF x

(* The first element is taken out. *)
LEMMA UnlinkFirst ==
  ASSUME NEW E, NEW T, NEW f, Tells(f, E, T), NEW s, ListOf(s, E), NEW x, 1 \in 1 .. Len(s), x = s[1]
  PROVE  /\ ListOf(Unlink(s, 1), E)
         /\ ReadOff(f, s) = Cat(f[x], ReadOff(f, Unlink(s, 1)))
         /\ ListOf(f[x], T) /\ ListOf(ReadOff(f, Unlink(s, 1)), T)
<1> DEFINE r == RightOf(s, 1)
           n == 1
<1>1. ListOf(r, E)
  BY RightIs
<1>2. LeftOf(s, n) = <<>>
  <2>1. 1 \in Int /\ n - 1 \in Int /\ n - 1 < 1
    OBVIOUS
  <2>2. SubSeq(s, 1, n - 1) = <<>>
    BY <2>1, SubSeqEmpty
  <2>3. QED
    BY <2>2 DEF LeftOf
<1>3. n \in 1 .. Len(s) /\ x = s[n] /\ r = RightOf(s, n)
  OBVIOUS
<1> HIDE DEF n, r
<1>4. ReadOff(f, <<>>) = <<>>
  BY ReadNothing
<1>5. x \in E
  BY <1>3, ElementIs
<1>6. ListOf(f[x], T)
  BY <1>5 DEF Tells, ListOf
<1>7. ListOf(ReadOff(f, r), T)
  BY <1>1, ReadIsList
<1>8. ReadOff(f, s) = Cat(ReadOff(f, LeftOf(s, n)), Cat(f[x], ReadOff(f, RightOf(s, n))))
  BY <1>3, ReadParts
<1>9. ListOf(Unlink(s, n), E) /\ ReadOff(f, Unlink(s, n)) = Cat(ReadOff(f, LeftOf(s, n)), ReadOff(f, RightOf(s, n)))
  BY <1>3, ReadUnlink
<1>10. ReadOff(f, Unlink(s, n)) = ReadOff(f, r)
  BY <1>2, <1>3, <1>4, <1>7, <1>9, CatNothing
<1>11. ListOf(Cat(f[x], ReadOff(f, r)), T)
  BY <1>6, <1>7, CatIsList
<1>12. ReadOff(f, s) = Cat(f[x], ReadOff(f, r))
  BY <1>2, <1>3, <1>4, <1>8, <1>11, CatNothing
<1>13. QED
  BY <1>6, <1>7, <1>9, <1>10, <1>12 DEF n

(* What stands behind a place starts with the next element. *)
LEMMA NextRead ==
  ASSUME NEW E, NEW T, NEW f, Tells(f, E, T), NEW s, ListOf(s, E), NEW w \in Nat, NEW v \in 1 .. Len(s),
         v = w + 1, NEW x, x = s[v]
  PROVE  /\ ReadOff(f, RightOf(s, w)) = Cat(f[x], ReadOff(f, RightOf(s, v)))
         /\ ListOf(f[x], T) /\ ListOf(ReadOff(f, RightOf(s, v)), T)
<1> DEFINE n == Len(s)
<1>1. n \in v .. Len(s) /\ n \in Nat
  BY LenProperties DEF ListOf
<1>2. RightOf(s, w) = SubSeq(s, v, n)
  BY DEF RightOf
<1>3. RightOf(s, v) = SubSeq(s, v + 1, n)
  BY DEF RightOf
<1> HIDE DEF n
<1>4. ReadOff(f, SubSeq(s, v, n)) = Cat(f[x], ReadOff(f, SubSeq(s, v + 1, n)))
  BY <1>1, ReadFirst
<1>5. x \in E
  BY ElementIs
<1>6. ListOf(f[x], T)
  BY <1>5 DEF Tells, ListOf
<1>7. ListOf(RightOf(s, v), E)
  BY RightIs
<1>8. ListOf(ReadOff(f, RightOf(s, v)), T)
  BY <1>7, ReadIsList
<1>9. QED
  BY <1>2, <1>3, <1>4, <1>6, <1>8

(* Lists that agree before a place have the same part before it. *)
LEMMA LeftAlike ==
  ASSUME NEW E, NEW s, ListOf(s, E), NEW t, ListOf(t, E), NEW c, c \in 1 .. Len(s), c \in 1 .. Len(t),
         \A i \in 1 .. c - 1 : t[i] = s[i]
  PROVE  LeftOf(t, c) = LeftOf(s, c)
<1> DEFINE a == LeftOf(s, c)
           b == LeftOf(t, c)
<1>1. ListOf(a, E) /\ Len(a) = c - 1 /\ \A i \in 1 .. c - 1 : a[i] = s[i]
  BY LeftIs
<1>2. ListOf(b, E) /\ Len(b) = c - 1 /\ \A i \in 1 .. c - 1 : b[i] = t[i]
  BY LeftIs
<1> HIDE DEF a, b
<1>3. a \in Seq(E) /\ b \in Seq(E) /\ Len(a) = Len(b)
  BY <1>1, <1>2 DEF ListOf
<1>4. \A i \in 1 .. Len(a) : a[i] = b[i]
  BY <1>1, <1>2
<1>5. a = b
  BY ONLY <1>3, <1>4, SeqEqual
<1>6. QED
  BY <1>5 DEF a, b

(* The elements of a suffix. *)
LEMMA SuffixAt ==
  ASSUME NEW E, NEW s, ListOf(s, E), NEW w \in 1 .. Len(s), NEW t, t = SubSeq(s, w, Len(s))
  PROVE  /\ Len(t) = Len(s) - w + 1
         /\ \A i \in 1 .. Len(s) - w + 1 : t[i] = s[w + i - 1]
<1> DEFINE n == Len(s)
<1>1. n \in Nat /\ w \in Int /\ n \in Int /\ 1 <= w /\ w <= n /\ s \in Seq(E)
  BY LenProperties DEF ListOf
<1>2. \A i \in w .. n : s[i] \in E
  BY <1>1, ElementOfSeq
<1>3. t = SubSeq(s, w, n)
  OBVIOUS
<1> HIDE DEF n
<1>4. Len(SubSeq(s, w, n)) = n - w + 1 /\ \A i \in 1 .. n - w + 1 : SubSeq(s, w, n)[i] = s[w + i - 1]
  BY ONLY <1>1, <1>2, SubSeqProperties
<1>5. QED
  BY <1>3, <1>4 DEF n

=============================================================================
