----------------------------- MODULE TableProofs -----------------------------
(***************************************************************************)
(* Proofs about clean_rowspan of src/src/table.c, for every table: nothing *)
(* but an empty cell below a span is removed, and no cell twice; and the   *)
(* cells that are left are shown in the columns where LaTeX had them.      *)
(***************************************************************************)
EXTENDS Tabular, ListsProofs, FiniteSetTheorems

(* A cell, as Table has it and with what Tabular knows of it besides. *)
MultirowTd ==
  [row_span : Nat \ {0}, col_span : Nat \ {0}, fill : Fills \cup {"deep"}, multirow : Int]
TdNode == [row_span : Nat \ {0}, col_span : Nat \ {0}, fill : Fills] \cup MultirowTd

(* The cells that fix_table_row_span has passed, and the cells that such a *)
(* cell spans, in its column.                                              *)
Passed(a)   == a[1] < row \/ (a[1] = row /\ a[2] < col)
Spanned(a)  == a[1] + 1 .. a[1] + Cell(a).row_span - 1
Covers(a, k) == k[1] \in Spanned(a) /\ Column(a) = Column(k)

(* What is gone is what the cells passed span, and was empty.              *)
IInv ==
  /\ table \in Seq(Seq(TdNode))
  /\ row \in Nat \ {0} /\ col \in Nat \ {0}
  /\ gone \in SUBSET Cells
  /\ "twice" \notin errors
  /\ \A k \in gone : ~Refused(k)
  /\ \A k \in gone : \E a \in Cells : Passed(a) /\ Covers(a, k)
  /\ \A a, k \in Cells : Passed(a) /\ Covers(a, k) => k \in gone

----------------------------------------------------------------------------
(* A cell starts to the right of those before it. *)

LEMMA TotalIs ==
  ASSUME NEW w \in Seq(Nat)
  PROVE  /\ Total(w) \in [0 .. Len(w) -> Nat]
         /\ Total(w)[0] = 0
         /\ \A c \in 1 .. Len(w) : Total(w)[c] = Total(w)[c - 1] + w[c]
<1> DEFINE n == Len(w)
           step == [c \in 1 .. n |-> [x \in Nat |-> x + w[c]]]
           Unfolds(f) == f = [c \in 0 .. n |-> IF c = 0 THEN 0 ELSE f[c - 1] + w[c]]
           total == CHOOSE f : Unfolds(f)
<1>1. n \in Nat /\ \A c \in 1 .. n : w[c] \in Nat
  OBVIOUS
<1>2. \A c \in 1 .. n : \A x \in Nat : step[c][x] = x + w[c] /\ step[c][x] \in Nat
  BY <1>1
<1> HIDE DEF n, step
<1>3. IsStep(step, n, Nat)
  BY <1>2 DEF IsStep
<1>4. PICK f : Iterates(f, 0, step, n, Nat)
  <2>1. 0 \in Nat
    OBVIOUS
  <2>2. QED
    BY <1>1, <1>3, <2>1, Recursion
<1>5. f \in [0 .. n -> Nat] /\ f[0] = 0 /\ \A c \in 1 .. n : f[c] = f[c - 1] + w[c]
  <2>1. \A c \in 1 .. n : c - 1 \in 0 .. n
    BY <1>1
  <2>2. QED
    BY <1>2, <1>4, <2>1 DEF Iterates
<1>6. Unfolds(f)
  <2> DEFINE g == [c \in 0 .. n |-> IF c = 0 THEN 0 ELSE f[c - 1] + w[c]]
  <2>1. \A c \in 0 .. n : c = 0 \/ c \in 1 .. n
    BY <1>1
  <2>2. \A c \in 0 .. n : g[c] = f[c]
    BY <1>5, <2>1
  <2>3. f = [c \in 0 .. n |-> f[c]] /\ g = [c \in 0 .. n |-> g[c]]
    BY <1>5
  <2>4. QED
    BY <2>2, <2>3
<1>7. Unfolds(total)
  BY <1>6
<1>8. Total(w) = total
  BY DEF Total, n
<1> HIDE DEF total
<1>9. total = [c \in 0 .. n |-> IF c = 0 THEN 0 ELSE total[c - 1] + w[c]]
  BY <1>7
<1>10. total[0] = 0 /\ \A c \in 1 .. n : total[c] = total[c - 1] + w[c]
  <2>1. 0 \in 0 .. n /\ \A c \in 1 .. n : c \in 0 .. n /\ c # 0
    BY <1>1
  <2>2. QED
    BY <1>9, <2>1
<1>11. \A c \in 0 .. n : total[c] \in Nat
  <2> DEFINE G == {c \in 0 .. n : total[c] \in Nat}
  <2>1. 0 \in G
    BY <1>1, <1>10
  <2>2. ASSUME NEW c \in 0 .. n - 1, c \in G
        PROVE  c + 1 \in G
    <3>1. c + 1 \in 1 .. n /\ c + 1 \in 0 .. n /\ (c + 1) - 1 = c
      BY <1>1
    <3>2. total[c + 1] = total[c] + w[c + 1] /\ w[c + 1] \in Nat
      BY <1>1, <1>10, <3>1
    <3>3. QED
      BY <2>2, <3>1, <3>2
  <2> HIDE DEF G
  <2>3. \A c \in 0 .. n : c \in G
    BY <1>1, <2>1, <2>2, BoundedInduction, Zenon
  <2>4. QED
    BY <2>3 DEF G
<1>12. total \in [0 .. n -> Nat]
  BY <1>9, <1>11
<1>13. QED
  BY <1>8, <1>10, <1>12 DEF n

LEMMA TotalAscends ==
  ASSUME NEW w \in Seq(Nat \ {0})
  PROVE  \A c, e \in 0 .. Len(w) : c < e => Total(w)[c] < Total(w)[e]
<1> DEFINE n == Len(w)
           t == Total(w)
<1>1. n \in Nat /\ w \in Seq(Nat) /\ \A c \in 1 .. n : w[c] \in Nat \ {0}
  OBVIOUS
<1>2. t \in [0 .. n -> Nat] /\ \A c \in 1 .. n : t[c] = t[c - 1] + w[c]
  BY <1>1, TotalIs
<1> HIDE DEF n, t
<1>3. ASSUME NEW c \in 0 .. n
      PROVE  \A e \in 0 .. n : c < e => t[c] < t[e]
  <2> DEFINE G == {e \in 0 .. n : c < e => t[c] < t[e]}
  <2>1. 0 \in G
    BY <1>1
  <2>2. ASSUME NEW e \in 0 .. n - 1, e \in G
        PROVE  e + 1 \in G
    <3>1. e + 1 \in 1 .. n /\ (e + 1) - 1 = e /\ e \in 0 .. n /\ e + 1 \in 0 .. n
      BY <1>1
    <3>2. t[e + 1] = t[e] + w[e + 1] /\ w[e + 1] \in Nat \ {0}
      BY <1>1, <1>2, <3>1
    <3>3. t[c] \in Nat /\ t[e] \in Nat
      BY <1>2, <3>1
    <3>4. c < e + 1 => c < e \/ c = e
      BY <1>1
    <3>5. c < e + 1 => t[c] < t[e + 1]
      BY <2>2, <3>2, <3>3, <3>4
    <3>6. QED
      BY <3>1, <3>5
  <2> HIDE DEF G
  <2>3. \A e \in 0 .. n : e \in G
    BY <1>1, <2>1, <2>2, BoundedInduction, Zenon
  <2>4. QED
    BY <2>3 DEF G
<1>4. QED
  BY <1>3 DEF n, t

LEMMA CellsAre ==
  ASSUME table \in Seq(Seq(TdNode)), NEW k
  PROVE  /\ k \in Cells => /\ k = <<k[1], k[2]>>
                           /\ k[1] \in 1 .. num_rows /\ k[2] \in 1 .. Len(table[k[1]])
                           /\ Cell(k) \in TdNode
         /\ \A r \in 1 .. num_rows : \A c \in 1 .. Len(table[r]) : <<r, c>> \in Cells
<1>1. DOMAIN table = 1 .. num_rows /\ \A r \in DOMAIN table : table[r] \in Seq(TdNode)
  BY DEF num_rows
<1>2. \A r \in DOMAIN table : DOMAIN table[r] = 1 .. Len(table[r]) /\ \A c \in DOMAIN table[r] : table[r][c] \in TdNode
  BY <1>1
<1>3. k \in Cells => /\ k = <<k[1], k[2]>>
                     /\ k[1] \in 1 .. num_rows /\ k[2] \in 1 .. Len(table[k[1]])
  <2> SUFFICES ASSUME k \in Cells
               PROVE  /\ k = <<k[1], k[2]>>
                      /\ k[1] \in 1 .. num_rows /\ k[2] \in 1 .. Len(table[k[1]])
    OBVIOUS
  <2>1. PICK r \in DOMAIN table : k \in {r} \X DOMAIN table[r]
    BY DEF Cells
  <2>2. k = <<k[1], k[2]>> /\ k[1] = r /\ k[2] \in DOMAIN table[r]
    BY <2>1
  <2>3. QED
    BY <1>1, <1>2, <2>1, <2>2
<1>4. k \in Cells => Cell(k) \in TdNode
  BY <1>1, <1>2, <1>3 DEF Cell
<1>5. ASSUME NEW r \in 1 .. num_rows, NEW c \in 1 .. Len(table[r])
      PROVE  <<r, c>> \in Cells
  <2>1. r \in DOMAIN table /\ c \in DOMAIN table[r]
    BY <1>1, <1>2
  <2>2. <<r, c>> \in {r} \X DOMAIN table[r]
    BY <2>1
  <2>3. QED
    BY <2>1, <2>2 DEF Cells
<1>6. QED
  BY <1>3, <1>4, <1>5

LEMMA TdIs ==
  ASSUME NEW d \in TdNode
  PROVE  /\ d.row_span \in Nat \ {0} /\ d.col_span \in Nat \ {0}
         /\ \A span \in Nat \ {0} :
              /\ [d EXCEPT !.row_span = span] \in TdNode
              /\ [d EXCEPT !.row_span = span].row_span = span
              /\ [d EXCEPT !.row_span = span].col_span = d.col_span
              /\ [d EXCEPT !.row_span = span].fill = d.fill
<1>1. CASE d \in [row_span : Nat \ {0}, col_span : Nat \ {0}, fill : Fills]
  BY <1>1 DEF TdNode
<1>2. CASE d \in MultirowTd
  <2>1. /\ d.row_span \in Nat \ {0} /\ d.col_span \in Nat \ {0}
        /\ \A span \in Nat \ {0} :
             /\ [d EXCEPT !.row_span = span] \in MultirowTd
             /\ [d EXCEPT !.row_span = span].row_span = span
             /\ [d EXCEPT !.row_span = span].col_span = d.col_span
             /\ [d EXCEPT !.row_span = span].fill = d.fill
    BY <1>2 DEF MultirowTd
  <2>2. QED
    BY <2>1 DEF TdNode
<1>3. QED
  BY <1>1, <1>2 DEF TdNode

(* Two cells of a row do not start in one column. *)
LEMMA ColumnsDiffer ==
  ASSUME table \in Seq(Seq(TdNode)), NEW a \in Cells, NEW k \in Cells,
         a[1] = k[1], Column(a) = Column(k)
  PROVE  a = k
<1> DEFINE r == a[1]
           w == Widths(r)
           n == Len(table[r])
<1>1. /\ a = <<r, a[2]>> /\ k = <<r, k[2]>> /\ r \in 1 .. num_rows
      /\ a[2] \in 1 .. n /\ k[2] \in 1 .. n
  BY CellsAre
<1>2. table[r] \in Seq(TdNode) /\ n \in Nat
  BY <1>1 DEF num_rows
<1>3. w \in Seq(Nat \ {0}) /\ Len(w) = n
  <2>1. \A c \in 1 .. n : table[r][c].col_span \in Nat \ {0}
    <3> TAKE c \in 1 .. n
    <3>1. table[r][c] \in TdNode
      BY <1>2
    <3>2. QED
      BY <3>1, TdIs
  <2>2. w = [c \in 1 .. n |-> table[r][c].col_span]
    BY <1>2 DEF Widths
  <2>3. QED
    BY <1>2, <2>1, <2>2
<1>4. Column(a) = Total(w)[a[2] - 1] /\ Column(k) = Total(w)[k[2] - 1]
  BY DEF Column
<1> HIDE DEF w, n, r
<1>5. a[2] - 1 \in 0 .. n /\ k[2] - 1 \in 0 .. n
  BY <1>1, <1>2
<1>6. \A c, e \in 0 .. n : c < e => Total(w)[c] < Total(w)[e]
  BY <1>3, TotalAscends
<1>7. Total(w) \in [0 .. n -> Nat]
  <2>1. w \in Seq(Nat)
    BY <1>3
  <2>2. QED
    BY <1>3, <2>1, TotalIs
<1>8. Total(w)[a[2] - 1] \in Nat /\ Total(w)[k[2] - 1] \in Nat
  BY <1>5, <1>7
<1>9. ~(a[2] - 1 < k[2] - 1) /\ ~(k[2] - 1 < a[2] - 1)
  <2> DEFINE c == a[2] - 1
             e == k[2] - 1
  <2>1. c \in 0 .. n /\ e \in 0 .. n /\ Total(w)[c] = Total(w)[e] /\ Total(w)[c] \in Nat
    BY <1>4, <1>5, <1>8
  <2> HIDE DEF c, e
  <2>2. ~(c < e) /\ ~(e < c)
    BY <1>6, <2>1
  <2>3. QED
    BY <2>2 DEF c, e
<1>10. a[2] = k[2]
  BY <1>1, <1>2, <1>9
<1>11. QED
  BY <1>1, <1>10

----------------------------------------------------------------------------
(* What a step leaves of the table. *)

(* The rows keep their cells, their widths and their contents.             *)
SameCells ==
  /\ num_rows' = num_rows
  /\ Cells' = Cells
  /\ \A k \in Cells : Column(k)' = Column(k)

LEMMA TableStays ==
  ASSUME table' = table
  PROVE  SameCells /\ \A k : Cell(k)' = Cell(k) /\ Refused(k)' = Refused(k)
<1>1. num_rows' = num_rows /\ Cells' = Cells
  BY DEF num_rows, Cells
<1>2. \A k : Column(k)' = Column(k)
  BY DEF Column, Widths
<1>3. \A k : Cell(k)' = Cell(k)
  BY DEF Cell
<1>4. \A k : Refused(k)' = Refused(k)
  BY DEF Refused, HasContent, Cell
<1>5. QED
  BY <1>1, <1>2, <1>3, <1>4 DEF SameCells

LEMMA SpanClamped ==
  ASSUME IInv, AtCell, NEW c, c = <<row, col>>, NEW span \in Nat \ {0},
         table' = [table EXCEPT ![row][col].row_span = span]
  PROVE  /\ table' \in Seq(Seq(TdNode)) /\ SameCells /\ c \in Cells
         /\ Cell(c)' = [Cell(c) EXCEPT !.row_span = span]
         /\ \A k \in Cells : k # c => Cell(k)' = Cell(k) /\ Refused(k)' = Refused(k)
<1> DEFINE n == Len(table)
           t == table[row]
           new == [t EXCEPT ![col].row_span = span]
<1>1. /\ row \in 1 .. n /\ n \in Nat /\ t \in Seq(TdNode) /\ col \in 1 .. Len(t) /\ t[col] \in TdNode
      /\ table \in Seq(Seq(TdNode)) /\ num_rows = n
  <2>1. row \in 1 .. n /\ n \in Nat /\ table \in Seq(Seq(TdNode)) /\ num_rows = n
    BY DEF IInv, AtCell, num_rows
  <2>2. t \in Seq(TdNode) /\ col \in 1 .. Len(t)
    BY <2>1 DEF IInv, AtCell
  <2>3. QED
    BY <2>1, <2>2
<1>2. [t[col] EXCEPT !.row_span = span] \in TdNode
  BY <1>1, TdIs
<1>3. /\ new \in Seq(TdNode) /\ Len(new) = Len(t)
      /\ new[col] = [t[col] EXCEPT !.row_span = span]
      /\ \A i \in 1 .. Len(t) : i # col => new[i] = t[i]
  <2> DEFINE x == [t[col] EXCEPT !.row_span = span]
  <2>1. new = [t EXCEPT ![col] = x]
    OBVIOUS
  <2> HIDE DEF x
  <2>2. QED
    BY <1>1, <1>2, <2>1 DEF x
<1>4. table' = [table EXCEPT ![row] = new]
  OBVIOUS
<1> HIDE DEF new
<1>5. /\ table' \in Seq(Seq(TdNode)) /\ Len(table') = n /\ table'[row] = new
      /\ \A r \in 1 .. n : r # row => table'[r] = table[r]
  BY <1>1, <1>3, <1>4
<1>6. DOMAIN table' = 1 .. n /\ DOMAIN table = 1 .. n
  BY <1>1, <1>5
<1>7. \A r \in 1 .. n : DOMAIN table'[r] = DOMAIN table[r] /\ table[r] \in Seq(TdNode)
  <2> TAKE r \in 1 .. n
  <2>1. table[r] \in Seq(TdNode)
    BY <1>1
  <2>2. CASE r = row
    BY <1>1, <1>3, <1>5, <2>1, <2>2
  <2>3. CASE r # row
    BY <1>5, <2>1, <2>3
  <2>4. QED
    BY <2>2, <2>3
<1>8. Cells' = Cells
  <2>1. Cells' = UNION {{r} \X DOMAIN table'[r] : r \in DOMAIN table'}
    BY DEF Cells
  <2>2. Cells = UNION {{r} \X DOMAIN table[r] : r \in DOMAIN table}
    BY DEF Cells
  <2>3. \A r \in 1 .. n : {r} \X DOMAIN table'[r] = {r} \X DOMAIN table[r]
    BY <1>7
  <2>4. QED
    BY <1>6, <2>1, <2>2, <2>3
<1>9. c \in Cells
  BY <1>1, CellsAre
<1>b. Cell(c) = table[row][col] /\ Cell(c)' = table'[row][col]
  BY DEF Cell
<1>10. \A k \in Cells : /\ k[1] \in 1 .. n /\ k[2] \in 1 .. Len(table[k[1]]) /\ k = <<k[1], k[2]>>
                        /\ Cell(k) = table[k[1]][k[2]] /\ Cell(k)' = table'[k[1]][k[2]]
  BY <1>1, CellsAre DEF Cell
<1>11. Cell(c)' = [Cell(c) EXCEPT !.row_span = span]
  BY <1>3, <1>5, <1>b
<1>12. \A k \in Cells : k # c => Cell(k)' = Cell(k)
  <2> SUFFICES ASSUME NEW k \in Cells, k # c PROVE Cell(k)' = Cell(k)
    OBVIOUS
  <2>1. CASE k[1] = row
    <3>1. k[2] # col /\ k[2] \in 1 .. Len(t)
      BY <1>10, <2>1
    <3>2. new[k[2]] = t[k[2]]
      BY <1>3, <3>1
    <3>3. QED
      BY <1>5, <1>10, <2>1, <3>2
  <2>2. CASE k[1] # row
    BY <1>5, <1>10, <2>2
  <2>3. QED
    BY <2>1, <2>2
<1>13. \A k \in Cells : k # c => Refused(k)' = Refused(k)
  <2> SUFFICES ASSUME NEW k \in Cells, k # c PROVE Refused(k)' = Refused(k)
    OBVIOUS
  <2>1. Cell(k)' = Cell(k)
    BY <1>12
  <2>2. QED
    BY <2>1 DEF Refused, HasContent
<1>14. \A k \in Cells : Column(k)' = Column(k)
  <2> SUFFICES ASSUME NEW k \in Cells PROVE Column(k)' = Column(k)
    OBVIOUS
  <2> DEFINE r == k[1]
  <2>1. r \in 1 .. n
    BY <1>10
  <2>2. \A i \in DOMAIN table[r] : table'[r][i].col_span = table[r][i].col_span
    <3> TAKE i \in DOMAIN table[r]
    <3>1. CASE r = row /\ i = col
      BY <1>1, <1>3, <1>5, <3>1, TdIs
    <3>2. CASE r = row /\ i # col
      <4>1. i \in 1 .. Len(t)
        BY <1>1, <3>2
      <4>2. new[i] = t[i]
        BY <1>3, <3>2, <4>1
      <4>3. QED
        BY <1>5, <3>2, <4>2
    <3>3. CASE r # row
      BY <1>5, <2>1, <3>3
    <3>4. QED
      BY <3>1, <3>2, <3>3
  <2>3. DOMAIN table'[r] = DOMAIN table[r]
    BY <1>7, <2>1
  <2>4. Widths(r)' = Widths(r)
    <3>1. Widths(r)' = [i \in DOMAIN table'[r] |-> table'[r][i].col_span]
      BY DEF Widths
    <3>2. QED
      BY <2>2, <2>3, <3>1 DEF Widths
  <2>5. QED
    BY <2>4 DEF Column
<1>15. SameCells
  BY <1>1, <1>5, <1>8, <1>14 DEF SameCells, num_rows
<1>16. QED
  BY <1>5, <1>9, <1>11, <1>12, <1>13, <1>15

----------------------------------------------------------------------------
(* The steps of fix_table_row_span. *)

LEMMA NextCellPasses ==
  ASSUME IInv, row <= num_rows, NextCell, NEW a \in Cells
  PROVE  /\ row' \in Nat \ {0} /\ col' \in Nat \ {0}
         /\ Passed(a)' <=> Passed(a) \/ a = <<row, col>>
<1>1. /\ a = <<a[1], a[2]>> /\ a[1] \in 1 .. num_rows /\ a[2] \in 1 .. Len(table[a[1]])
      /\ num_rows \in Nat
  BY CellsAre DEF IInv, num_rows
<1>2. table[row] \in Seq(TdNode) /\ table[a[1]] \in Seq(TdNode) /\ row \in Nat \ {0} /\ col \in Nat \ {0}
  BY <1>1 DEF IInv, num_rows
<1>3. Len(table[row]) \in Nat /\ Len(table[a[1]]) \in Nat
  BY <1>2
<1>4. Passed(a)' <=> a[1] < row' \/ (a[1] = row' /\ a[2] < col')
  BY DEF Passed
<1>5. a = <<row, col>> <=> a[1] = row /\ a[2] = col
  BY <1>1
<1>6. CASE col < Len(table[row])
  <2>1. row' = row /\ col' = col + 1
    BY <1>6 DEF NextCell
  <2>2. QED
    BY <1>1, <1>2, <1>3, <1>4, <1>5, <2>1 DEF Passed
<1>7. CASE ~(col < Len(table[row]))
  <2>1. row' = row + 1 /\ col' = 1
    BY <1>7 DEF NextCell
  <2>2. a[1] = row => a[2] <= col
    BY <1>1, <1>2, <1>3, <1>7
  <2>3. QED
    BY <1>1, <1>2, <1>3, <1>4, <1>5, <2>1, <2>2 DEF Passed
<1>8. QED
  BY <1>6, <1>7

LEMMA ClampedIs ==
  ASSUME IInv, AtCell
  PROVE  /\ <<row, col>> \in Cells /\ Cell(<<row, col>>) = table[row][col]
         /\ Cell(<<row, col>>) \in TdNode /\ num_rows \in Nat /\ row \in 1 .. num_rows
         /\ Clamped(row, table[row][col].row_span) \in Nat \ {0}
         /\ row + Clamped(row, table[row][col].row_span) - 1 <= num_rows
<1>1. row \in 1 .. num_rows /\ num_rows \in Nat /\ table[row] \in Seq(TdNode)
  BY DEF IInv, AtCell, num_rows
<1>2. col \in 1 .. Len(table[row])
  BY <1>1 DEF IInv, AtCell
<1>3. <<row, col>> \in Cells /\ Cell(<<row, col>>) \in TdNode
  BY <1>1, <1>2, CellsAre DEF IInv
<1>4. Cell(<<row, col>>) = table[row][col]
  BY DEF Cell
<1>5. table[row][col].row_span \in Nat \ {0}
  BY <1>3, <1>4, TdIs
<1>6. \A span \in Nat \ {0} : /\ Clamped(row, span) \in Nat \ {0}
                              /\ row + Clamped(row, span) - 1 <= num_rows
  <2> DEFINE n == num_rows
  <2>1. row \in 1 .. n /\ n \in Nat
    BY <1>1
  <2> HIDE DEF n
  <2>2. \A span \in Nat \ {0} : Clamped(row, span) = IF row + span - 1 > n THEN n - row + 1 ELSE span
    BY DEF Clamped, n
  <2>3. QED
    BY <2>1, <2>2 DEF n
<1>7. QED
  BY ONLY <1>1, <1>3, <1>4, <1>5, <1>6

LEMMA BelowIs ==
  ASSUME IInv, AtCell, NEW i \in Rows, NEW k
  PROVE  k \in Below(i) <=> k \in Cells /\ k[1] = row + i /\ Column(k) = Column(<<row, col>>)
<1>1. row + i \in 1 .. num_rows
  BY ClampedIs DEF Rows
<1>2. Below(i) = {<<row + i, c>> : c \in {e \in DOMAIN table[row + i] : Column(<<row + i, e>>) = Column(<<row, col>>)}}
  BY DEF Below, CellByIndex
<1>3. table \in Seq(Seq(TdNode)) /\ DOMAIN table[row + i] = 1 .. Len(table[row + i])
  BY <1>1 DEF IInv, num_rows
<1>4. ASSUME k \in Below(i)
      PROVE  k \in Cells /\ k[1] = row + i /\ Column(k) = Column(<<row, col>>)
  <2>1. PICK c \in DOMAIN table[row + i] : k = <<row + i, c>> /\ Column(<<row + i, c>>) = Column(<<row, col>>)
    BY <1>2, <1>4
  <2>2. QED
    BY <1>1, <1>3, <2>1, CellsAre
<1>5. ASSUME k \in Cells, k[1] = row + i, Column(k) = Column(<<row, col>>)
      PROVE  k \in Below(i)
  <2>1. k = <<row + i, k[2]>> /\ k[2] \in DOMAIN table[row + i]
    BY <1>3, <1>5, CellsAre
  <2>2. QED
    BY <1>2, <1>5, <2>1
<1>6. QED
  BY <1>4, <1>5

(* A step that removes nothing and passes at most a cell that spans none.  *)
LEMMA NothingRemoved ==
  ASSUME IInv, table' = table, gone' = gone, "twice" \notin errors',
         row' \in Nat \ {0}, col' \in Nat \ {0},
         \A a \in Cells : Passed(a) => Passed(a)',
         \A a \in Cells : Passed(a)' => Passed(a) \/ Cell(a).row_span = 1
  PROVE  IInv'
<1>1. Cells' = Cells /\ \A k \in Cells : Column(k)' = Column(k)
  BY TableStays DEF SameCells
<1>2. \A k : Cell(k)' = Cell(k) /\ Refused(k)' = Refused(k)
  BY TableStays
<1>3. \A a, k \in Cells : Covers(a, k)' <=> Covers(a, k)
  BY <1>1, <1>2 DEF Covers, Spanned
<1>4. \A a, k \in Cells : Covers(a, k) => Cell(a).row_span # 1
  <2> SUFFICES ASSUME NEW a \in Cells, NEW k \in Cells, Covers(a, k), Cell(a).row_span = 1
               PROVE  FALSE
    OBVIOUS
  <2>1. a[1] \in Nat
    BY CellsAre DEF IInv, num_rows
  <2>2. Spanned(a) = {}
    BY <2>1 DEF Spanned
  <2>3. QED
    BY <2>2 DEF Covers
<1>5. \A k \in gone' : \E a \in Cells' : Passed(a)' /\ Covers(a, k)'
  BY <1>1, <1>3 DEF IInv
<1>6. \A a, k \in Cells' : Passed(a)' /\ Covers(a, k)' => k \in gone'
  BY <1>1, <1>3, <1>4 DEF IInv
<1>7. \A k \in gone' : ~Refused(k)'
  BY <1>2 DEF IInv
<1>8. table' \in Seq(Seq(TdNode)) /\ gone' \in SUBSET Cells'
  BY <1>1 DEF IInv
<1>9. QED
  BY <1>5, <1>6, <1>7, <1>8 DEF IInv

LEMMA SkipCellStep ==
  ASSUME IInv, SkipCell
  PROVE  IInv'
<1>1. /\ row <= num_rows /\ NextCell /\ table' = table /\ gone' = gone /\ errors' = errors
      /\ col <= Len(table[row]) => table[row][col].row_span = 1
  BY DEF SkipCell
<1>2. \A a \in Cells : Passed(a)' <=> Passed(a) \/ a = <<row, col>>
  BY <1>1, NextCellPasses
<1>3. \A a \in Cells : a = <<row, col>> => Cell(a).row_span = 1
  <2> SUFFICES ASSUME <<row, col>> \in Cells PROVE Cell(<<row, col>>).row_span = 1
    OBVIOUS
  <2>1. col \in 1 .. Len(table[row])
    BY CellsAre DEF IInv
  <2>2. table[row][col].row_span = 1
    BY <1>1, <2>1
  <2>3. QED
    BY <2>2 DEF Cell
<1>4. row' \in Nat \ {0} /\ col' \in Nat \ {0}
  BY <1>1 DEF NextCell, IInv
<1>5. QED
  BY <1>1, <1>2, <1>3, <1>4, NothingRemoved DEF IInv

(* A cell below two spans was below the first of them, which has removed   *)
(* the second.                                                             *)
LEMMA RemoveBelowStep ==
  ASSUME IInv, RemoveBelow
  PROVE  IInv'
<1>0. PICK c : c = <<row, col>>
  OBVIOUS
<1> DEFINE span == Clamped(row, table[row][col].row_span)
           covered == UNION {Below(i) : i \in Rows}
<1>1. /\ AtCell /\ table[row][col].row_span > 1 /\ \A i \in Rows : ~Bad(i)
      /\ errors' = errors \cup TooMany \cup (IF covered \cap gone # {} THEN {"twice"} ELSE {})
      /\ gone' = gone \cup covered /\ NextCell
      /\ table' = [table EXCEPT ![row][col].row_span = Clamped(row, @)]
  BY DEF RemoveBelow
<1>2. /\ c \in Cells /\ Cell(c) = table[row][col] /\ num_rows \in Nat /\ row \in 1 .. num_rows
      /\ Cell(c) \in TdNode /\ span \in Nat \ {0} /\ row + span - 1 <= num_rows
  BY <1>0, <1>1, ClampedIs
<1>3. Rows = 1 .. span - 1
  BY DEF Rows
<1>4. table' = [table EXCEPT ![row][col].row_span = span]
  BY <1>1
<1> HIDE DEF span
<1>5. /\ table' \in Seq(Seq(TdNode)) /\ SameCells
      /\ Cell(c)' = [Cell(c) EXCEPT !.row_span = span]
      /\ \A k \in Cells : k # c => Cell(k)' = Cell(k) /\ Refused(k)' = Refused(k)
  BY <1>0, <1>1, <1>2, <1>4, SpanClamped
<1>6. Cells' = Cells /\ \A k \in Cells : Column(k)' = Column(k)
  BY <1>5 DEF SameCells
<1>7. \A k : k \in covered <=> k \in Cells /\ k[1] \in row + 1 .. row + span - 1 /\ Column(k) = Column(c)
  <2> TAKE k
  <2>1. k \in covered <=> \E i \in Rows : k \in Cells /\ k[1] = row + i /\ Column(k) = Column(c)
    BY <1>0, <1>1, BelowIs
  <2>2. k \in Cells => k[1] \in Nat
    BY <1>2, CellsAre DEF IInv
  <2>3. ASSUME k \in Cells
        PROVE  (\E i \in Rows : k[1] = row + i) <=> k[1] \in row + 1 .. row + span - 1
    <3>1. k[1] \in Nat /\ row \in Nat /\ span \in Nat
      BY <1>2, <2>2, <2>3
    <3>2. k[1] \in row + 1 .. row + span - 1 => k[1] - row \in Rows /\ k[1] = row + (k[1] - row)
      BY <1>3, <3>1
    <3>3. \A i \in Rows : row + i \in row + 1 .. row + span - 1
      BY <1>3, <3>1
    <3>4. QED
      BY <3>2, <3>3
  <2>4. QED
    BY <2>1, <2>3
<1>8. \A k \in covered : ~Refused(k) /\ k # c
  <2> TAKE k \in covered
  <2>1. PICK i \in Rows : k \in Below(i)
    OBVIOUS
  <2>2. ~Refused(k)
    BY <1>1, <2>1 DEF Bad
  <2>3. k[1] > row
    <3>1. k[1] \in row + 1 .. row + span - 1
      BY <1>7
    <3>2. QED
      BY <1>2, <3>1
  <2>4. QED
    BY <1>0, <1>2, <2>2, <2>3
<1> HIDE DEF covered
<1>9. \A k \in gone : ~Refused(k) /\ k # c /\ k \in Cells
  <2>1. Refused(c)
    BY <1>1, <1>2, TdIs DEF Refused
  <2>2. QED
    BY <2>1 DEF IInv
<1>10. \A a \in Cells : Passed(a)' <=> Passed(a) \/ a = c
  BY <1>0, <1>1, <1>2, NextCellPasses
<1>11. ~Passed(c)
  BY <1>0, <1>2 DEF Passed, IInv
<1>12. \A a, k \in Cells : a # c => (Covers(a, k)' <=> Covers(a, k))
  BY <1>5, <1>6 DEF Covers, Spanned
<1>13. \A k \in Cells : Covers(c, k)' <=> k \in covered
  <2> TAKE k \in Cells
  <2>1. Cell(c)'.row_span = span
    BY <1>2, <1>5, TdIs
  <2>2. Column(c)' = Column(c) /\ Column(k)' = Column(k)
    BY <1>2, <1>6
  <2>3. Covers(c, k)' <=> k[1] \in row + 1 .. row + span - 1 /\ Column(c) = Column(k)
    <3>1. c[1] = row
      BY <1>0
    <3>2. QED
      BY <2>1, <2>2, <3>1 DEF Covers, Spanned
  <2>4. QED
    BY <1>7, <2>3
<1>14. covered \cap gone = {}
  <2> SUFFICES ASSUME NEW k \in covered, k \in gone PROVE FALSE
    OBVIOUS
  <2>1. PICK a \in Cells : Passed(a) /\ Covers(a, k)
    BY DEF IInv
  <2>2. k \in Cells /\ k[1] \in row + 1 .. row + span - 1 /\ Column(k) = Column(c)
    BY <1>7
  <2>3. k[1] \in a[1] + 1 .. a[1] + Cell(a).row_span - 1 /\ Column(a) = Column(c)
    BY <2>1, <2>2 DEF Covers, Spanned
  <2>4. a # c /\ a[1] <= row /\ a[1] \in Nat /\ Cell(a) \in TdNode
    <3>1. a[1] \in 1 .. num_rows /\ Cell(a) \in TdNode
      BY CellsAre DEF IInv
    <3>2. a[1] < row \/ a[1] = row
      BY <2>1 DEF Passed
    <3>3. a # c
      BY <1>11, <2>1
    <3>4. QED
      BY <1>2, <3>1, <3>2, <3>3
  <2>5. a[1] # row
    <3> SUFFICES ASSUME a[1] = row PROVE FALSE
      OBVIOUS
    <3>1. a[1] = c[1]
      BY <1>0
    <3>2. a = c
      BY <1>2, <2>3, <3>1, ColumnsDiffer DEF IInv
    <3>3. QED
      BY <2>4, <3>2
  <2>6. Cell(a).row_span \in Nat
    BY <2>4, TdIs
  <2>7. c[1] \in Spanned(a)
    BY <1>0, <1>2, <2>2, <2>3, <2>4, <2>5, <2>6 DEF Spanned
  <2>8. Covers(a, c)
    BY <2>3, <2>7 DEF Covers
  <2>9. c \in gone
    BY <1>2, <2>1, <2>8 DEF IInv
  <2>10. QED
    BY <1>9, <2>9
<1>15. "twice" \notin errors'
  BY <1>1, <1>14 DEF TooMany, IInv
<1>16. gone' \in SUBSET Cells'
  BY <1>1, <1>6, <1>7 DEF IInv
<1>17. \A k \in gone' : ~Refused(k)'
  BY <1>1, <1>5, <1>7, <1>8, <1>9
<1>18. \A k \in gone' : \E a \in Cells' : Passed(a)' /\ Covers(a, k)'
  <2> TAKE k \in gone'
  <2>1. CASE k \in gone
    <3>1. PICK a \in Cells : Passed(a) /\ Covers(a, k)
      BY <2>1 DEF IInv
    <3>2. a # c /\ k \in Cells
      BY <1>9, <1>11, <2>1, <3>1
    <3>3. Passed(a)' /\ Covers(a, k)'
      BY <1>10, <1>12, <3>1, <3>2
    <3>4. QED
      BY <1>6, <3>3
  <2>2. CASE k \in covered
    <3>1. k \in Cells
      BY <1>7, <2>2
    <3>2. Passed(c)' /\ Covers(c, k)'
      BY <1>2, <1>10, <1>13, <2>2, <3>1
    <3>3. QED
      BY <1>2, <1>6, <3>2
  <2>3. QED
    BY <1>1, <2>1, <2>2
<1>19. \A a, k \in Cells' : Passed(a)' /\ Covers(a, k)' => k \in gone'
  <2> SUFFICES ASSUME NEW a \in Cells, NEW k \in Cells, Passed(a)', Covers(a, k)'
               PROVE  k \in gone'
    BY <1>6
  <2>1. CASE a = c
    BY <1>1, <1>13, <2>1
  <2>2. CASE a # c
    <3>1. Passed(a) /\ Covers(a, k)
      BY <1>10, <1>12, <2>2
    <3>2. QED
      BY <1>1, <3>1 DEF IInv
  <2>3. QED
    BY <2>1, <2>2
<1>20. row' \in Nat \ {0} /\ col' \in Nat \ {0}
  BY <1>1 DEF NextCell, IInv
<1>21. QED
  BY <1>5, <1>15, <1>16, <1>17, <1>18, <1>19, <1>20 DEF IInv

LEMMA InitGood == Init => IInv
<1> SUFFICES ASSUME Init PROVE IInv
  OBVIOUS
<1>1. PICK t \in Tables : table = t.rows
  BY DEF Init
<1>2. table \in Seq(Seq(TdNode))
  <2> DEFINE S == [row_span : Nat \ {0}, col_span : Nat \ {0}, fill : Fills]
  <2>1. table \in Seq(Seq(S))
    BY <1>1, TablesAssumption
  <2>2. S \subseteq TdNode
    BY DEF TdNode
  <2> HIDE DEF S
  <2>3. Seq(S) \subseteq Seq(TdNode)
    BY <2>2
  <2>4. QED
    BY <2>1, <2>3
<1>3. row = 1 /\ col = 1 /\ gone = {} /\ errors = {}
  BY DEF Init
<1>4. \A a \in Cells : ~Passed(a)
  <2> TAKE a \in Cells
  <2>1. a[1] \in 1 .. num_rows /\ a[2] \in 1 .. Len(table[a[1]]) /\ num_rows \in Nat
    BY <1>2, CellsAre DEF num_rows
  <2>2. table[a[1]] \in Seq(TdNode)
    BY <1>2, <2>1 DEF num_rows
  <2>3. a[2] \in Nat /\ 1 <= a[2]
    BY <2>1, <2>2
  <2>4. QED
    BY <1>3, <2>1, <2>3 DEF Passed
<1>5. QED
  BY <1>2, <1>3, <1>4 DEF IInv

LEMMA StepGood == IInv /\ [Next]_vars => IInv'
<1> SUFFICES ASSUME IInv, [Next]_vars PROVE IInv'
  OBVIOUS
<1>1. CASE SkipCell
  BY <1>1, SkipCellStep
<1>2. CASE RemoveBelow
  BY <1>2, RemoveBelowStep
<1>3. CASE BuildTable \/ ReadMissing \/ Refuse \/ Fixed \/ Align \/ UNCHANGED vars
  <2>1. BuildTable \/ ReadMissing \/ Fixed \/ Align \/ UNCHANGED vars =>
          table' = table /\ gone' = gone /\ row' = row /\ col' = col /\ errors' = errors
    <3>1. BuildTable => table' = table /\ gone' = gone /\ row' = row /\ col' = col /\ errors' = errors
      BY DEF BuildTable
    <3>2. ReadMissing \/ Fixed => table' = table /\ gone' = gone /\ row' = row /\ col' = col /\ errors' = errors
      BY DEF ReadMissing, Fixed
    <3>3. Align => table' = table /\ gone' = gone /\ row' = row /\ col' = col /\ errors' = errors
      BY DEF Align
    <3>4. UNCHANGED vars => table' = table /\ gone' = gone /\ row' = row /\ col' = col /\ errors' = errors
      BY DEF vars
    <3>5. QED
      BY <3>1, <3>2, <3>3, <3>4
  <2>2. Refuse => /\ table' = table /\ gone' = gone /\ row' = row /\ col' = col
                  /\ errors' = errors \cup {"refused"}
    BY DEF Refuse
  <2>3. \A a : Passed(a)' <=> Passed(a)
    BY <1>3, <2>1, <2>2 DEF Passed
  <2>4. "twice" \notin errors'
    BY <1>3, <2>1, <2>2 DEF IInv
  <2>5. table' = table /\ gone' = gone /\ row' = row /\ col' = col
    <3>1. CASE Refuse
      BY <2>2, <3>1
    <3>2. CASE ~Refuse
      BY <1>3, <2>1, <3>2
    <3>3. QED
      BY <3>1, <3>2
  <2>6. row' \in Nat \ {0} /\ col' \in Nat \ {0}
    BY <2>5 DEF IInv
  <2>7. \A a \in Cells : Passed(a) => Passed(a)'
    BY <2>3
  <2>8. \A a \in Cells : Passed(a)' => Passed(a) \/ Cell(a).row_span = 1
    BY <2>3
  <2>9. QED
    BY <2>4, <2>5, <2>6, <2>7, <2>8, NothingRemoved
<1>4. QED
  BY <1>1, <1>2, <1>3 DEF Next

(* Of the cells that are gone each was below one that is there.            *)
LEMMA OnlyEmpty == IInv => OnlyEmptyCellsRemoved
<1> SUFFICES ASSUME IInv PROVE OnlyEmptyCellsRemoved
  OBVIOUS
<1>1. ASSUME NEW k \in gone
      PROVE  /\ Cell(k).fill = "none" /\ Cell(k).row_span = 1 /\ Cell(k).col_span = 1
             /\ \E a \in Cells \ gone : /\ a[1] < k[1] /\ k[1] < a[1] + Cell(a).row_span
                                        /\ Column(a) = Column(k)
  <2>1. Cell(k).fill = "none" /\ Cell(k).row_span = 1 /\ Cell(k).col_span = 1
    BY DEF IInv, Refused, HasContent
  <2>2. PICK a \in Cells : Covers(a, k)
    BY DEF IInv
  <2>3. /\ a[1] \in Nat /\ Cell(a) \in TdNode
        /\ k[1] \in a[1] + 1 .. a[1] + Cell(a).row_span - 1 /\ Column(a) = Column(k)
    BY <2>2, CellsAre DEF Covers, Spanned, IInv, num_rows
  <2>4. Cell(a).row_span \in Nat
    BY <2>3, TdIs
  <2>5. a[1] < k[1] /\ k[1] < a[1] + Cell(a).row_span /\ Cell(a).row_span # 1
    BY <2>3, <2>4
  <2>6. a \notin gone
    BY <2>5 DEF IInv, Refused
  <2>7. QED
    BY <2>1, <2>2, <2>3, <2>5, <2>6
<1>2. QED
  BY <1>1 DEF OnlyEmptyCellsRemoved, IInv

(* Table!OnlyEmptyCellsRemoved: fix_table_row_span removes only cells that *)
(* are empty and stand below a cell that spans them, and reports for no    *)
(* table that it removes a cell twice.                                     *)
THEOREM OnlyEmptyCellsGo == Spec => []OnlyEmptyCellsRemoved
<1>1. Spec => []IInv
  BY InitGood, StepGood, PTL DEF Spec
<1>2. QED
  BY <1>1, OnlyEmpty, PTL

----------------------------------------------------------------------------
(* Where a browser puts the cells.  The columns of LaTeX are the sums of   *)
(* the widths before a cell, also of those that are gone.                  *)

LEMMA WidthsAre ==
  ASSUME table \in Seq(Seq(TdNode)), NEW r \in 1 .. num_rows
  PROVE  /\ Len(table[r]) \in Nat
         /\ Widths(r) \in Seq(Nat \ {0}) /\ Len(Widths(r)) = Len(table[r])
         /\ \A c \in 1 .. Len(table[r]) : Widths(r)[c] = Cell(<<r, c>>).col_span
<1> DEFINE n == Len(table[r])
<1>1. table[r] \in Seq(TdNode) /\ n \in Nat /\ DOMAIN table[r] = 1 .. n
  BY DEF num_rows
<1>2. \A c \in 1 .. n : table[r][c].col_span \in Nat \ {0}
  <2> TAKE c \in 1 .. n
  <2>1. table[r][c] \in TdNode
    BY <1>1
  <2>2. QED
    BY <2>1, TdIs
<1>3. Widths(r) = [c \in 1 .. n |-> table[r][c].col_span]
  BY <1>1 DEF Widths
<1>4. \A c \in 1 .. n : Widths(r)[c] = Cell(<<r, c>>).col_span
  BY <1>3 DEF Cell
<1>5. Widths(r) \in Seq(Nat \ {0}) /\ Len(Widths(r)) = n
  BY <1>1, <1>2, <1>3
<1>6. QED
  BY <1>1, <1>4, <1>5

LEMMA TotalsGrow ==
  ASSUME NEW w \in Seq(Nat \ {0})
  PROVE  /\ Total(w) \in [0 .. Len(w) -> Nat] /\ Total(w)[0] = 0
         /\ \A c \in 1 .. Len(w) : Total(w)[c] = Total(w)[c - 1] + w[c]
         /\ \A c, e \in 0 .. Len(w) : c <= e => Total(w)[c] <= Total(w)[e]
<1>1. w \in Seq(Nat)
  OBVIOUS
<1>2. /\ Total(w) \in [0 .. Len(w) -> Nat] /\ Total(w)[0] = 0
      /\ \A c \in 1 .. Len(w) : Total(w)[c] = Total(w)[c - 1] + w[c]
  BY <1>1, TotalIs
<1>3. \A c, e \in 0 .. Len(w) : c < e => Total(w)[c] < Total(w)[e]
  BY TotalAscends
<1>4. ASSUME NEW c \in 0 .. Len(w), NEW e \in 0 .. Len(w), c <= e
      PROVE  Total(w)[c] <= Total(w)[e]
  <2>1. Total(w)[c] \in Nat /\ Total(w)[e] \in Nat
    BY <1>2
  <2>2. c < e \/ c = e
    BY <1>4
  <2>3. CASE c < e
    BY <1>3, <2>1, <2>3
  <2>4. CASE c = e
    BY <2>1, <2>4
  <2>5. QED
    BY <2>2, <2>3, <2>4
<1>5. QED
  BY <1>2, <1>4

LEMMA ColumnIs ==
  ASSUME table \in Seq(Seq(TdNode)), NEW k \in Cells
  PROVE  /\ Column(k) \in Nat /\ Column(k) <= Width(k[1])
         /\ Column(k) = Total(Widths(k[1]))[k[2] - 1]
         /\ Total(Widths(k[1]))[k[2]] = Column(k) + Cell(k).col_span
         /\ Cell(k).col_span \in Nat \ {0} /\ Cell(k).row_span \in Nat \ {0}
<1> DEFINE r == k[1]
           c == k[2]
           n == Len(table[r])
           w == Widths(r)
<1>1. k = <<r, c>> /\ r \in 1 .. num_rows /\ c \in 1 .. n /\ Cell(k) \in TdNode
  BY CellsAre
<1>2. n \in Nat /\ w \in Seq(Nat \ {0}) /\ Len(w) = n /\ w[c] = Cell(k).col_span
  BY <1>1, WidthsAre
<1>3. Column(k) = Total(w)[c - 1] /\ Width(r) = Total(w)[n]
  BY DEF Column, Width
<1> HIDE DEF n, w, r, c
<1>4. c \in 1 .. n /\ c - 1 \in 0 .. n /\ n \in 0 .. n /\ c - 1 <= n
  BY <1>1, <1>2
<1>5. /\ Total(w) \in [0 .. n -> Nat]
      /\ Total(w)[c] = Total(w)[c - 1] + w[c]
      /\ Total(w)[c - 1] <= Total(w)[n]
  BY <1>2, <1>4, TotalsGrow
<1>6. Column(k) \in Nat
  BY <1>3, <1>4, <1>5
<1>7. Cell(k).col_span \in Nat \ {0} /\ Cell(k).row_span \in Nat \ {0}
  BY <1>1, TdIs
<1>8. Column(k) <= Width(r) /\ Total(w)[c] = Column(k) + Cell(k).col_span
  BY <1>2, <1>3, <1>5
<1>9. QED
  BY <1>3, <1>6, <1>7, <1>8 DEF r, c, w

(* A cell ends before the next begins. *)
LEMMA CellsApart ==
  ASSUME table \in Seq(Seq(TdNode)), NEW a \in Cells, NEW k \in Cells,
         a[1] = k[1], a[2] < k[2]
  PROVE  Column(a) + Cell(a).col_span <= Column(k)
<1> DEFINE r == k[1]
           n == Len(table[r])
           w == Widths(r)
<1>1. /\ r \in 1 .. num_rows /\ a[2] \in 1 .. n /\ k[2] \in 1 .. n
  BY CellsAre
<1>2. n \in Nat /\ w \in Seq(Nat \ {0}) /\ Len(w) = n
  BY <1>1, WidthsAre
<1>3. Total(w)[a[2]] = Column(a) + Cell(a).col_span /\ Column(k) = Total(w)[k[2] - 1]
  <2>1. Total(Widths(a[1]))[a[2]] = Column(a) + Cell(a).col_span
    BY ColumnIs
  <2>2. Column(k) = Total(Widths(k[1]))[k[2] - 1]
    BY ColumnIs
  <2>3. QED
    BY <2>1, <2>2
<1> HIDE DEF n, w, r
<1>4. a[2] \in 0 .. n /\ k[2] - 1 \in 0 .. n /\ a[2] <= k[2] - 1
  <2> DEFINE c == a[2]
             e == k[2]
  <2>1. n \in Nat /\ c \in 1 .. n /\ e \in 1 .. n /\ c < e
    BY <1>1, <1>2
  <2> HIDE DEF c, e
  <2>2. c \in 0 .. n /\ e - 1 \in 0 .. n /\ c <= e - 1
    BY ONLY <2>1
  <2>3. QED
    BY <2>2 DEF c, e
<1>5. Total(w)[a[2]] <= Total(w)[k[2] - 1]
  <2> DEFINE c == a[2]
             e == k[2] - 1
  <2>1. c \in 0 .. n /\ e \in 0 .. n /\ c <= e
    BY <1>4
  <2> HIDE DEF c, e
  <2>2. Total(w)[c] <= Total(w)[e]
    BY <1>2, <2>1, TotalsGrow
  <2>3. QED
    BY <2>2 DEF c, e
<1>6. QED
  BY <1>3, <1>5

(* Each column before a cell is a column of a cell before it. *)
LEMMA ColumnOfSome ==
  ASSUME NEW w \in Seq(Nat \ {0}), NEW c \in 0 .. Len(w), NEW y \in Nat, y < Total(w)[c]
  PROVE  \E j \in 1 .. c : Total(w)[j - 1] <= y /\ y < Total(w)[j]
<1> DEFINE n == Len(w)
           t == Total(w)
           G == {e \in 0 .. n : y < t[e] => \E j \in 1 .. e : t[j - 1] <= y /\ y < t[j]}
<1>1. t \in [0 .. n -> Nat] /\ t[0] = 0 /\ n \in Nat /\ c \in 0 .. n
  BY TotalsGrow
<1> HIDE DEF n, t
<1>2. 0 \in G
  BY <1>1
<1>3. ASSUME NEW e \in 0 .. n - 1, e \in G
      PROVE  e + 1 \in G
  <2>1. e + 1 \in 0 .. n /\ e \in 0 .. n /\ e + 1 \in 1 .. e + 1 /\ (e + 1) - 1 = e
    BY <1>1
  <2>2. CASE y < t[e]
    <3>1. PICK j \in 1 .. e : t[j - 1] <= y /\ y < t[j]
      BY <1>3, <2>2
    <3>2. j \in 1 .. e + 1
      OBVIOUS
    <3>3. QED
      BY <2>1, <3>1, <3>2
  <2>3. CASE ~(y < t[e])
    <3>1. t[(e + 1) - 1] <= y
      BY <1>1, <2>1, <2>3
    <3>2. QED
      BY <2>1, <3>1
  <2>4. QED
    BY <2>2, <2>3
<1> HIDE DEF G
<1>4. \A e \in 0 .. n : e \in G
  BY <1>1, <1>2, <1>3, BoundedInduction, Zenon
<1>5. c \in G /\ y < t[c]
  BY <1>1, <1>4 DEF t
<1>6. QED
  BY <1>5 DEF G, t

(* A table whose cells all have been passed: what is below a span is gone, *)
(* and what is gone was below a span of a cell that is left.               *)
Settled ==
  /\ table \in Seq(Seq(TdNode)) /\ gone \subseteq Cells
  /\ \A a, k \in Cells : Covers(a, k) => k \in gone
  /\ \A k \in gone :
       /\ Cell(k).col_span = 1
       /\ \E a \in Cells \ gone : /\ a[1] < k[1] /\ k[1] < a[1] + Cell(a).row_span
                                  /\ Column(a) = Column(k)

(* The cells that are left up to one, and where they are when each of them *)
(* is in its own column.                                                   *)
UpTo(r, c) == {k \in Cells \ gone : k[1] < r \/ (k[1] = r /\ k[2] <= c)}
LaidOut(K) == [taken |-> UNION {Area(k, Column(k)) : k \in K},
               at    |-> {<<k, Column(k)>> : k \in K}]

LEMMA TakenIs ==
  ASSUME NEW K, NEW r \in Int, NEW x \in Int
  PROVE  <<r, x>> \in LaidOut(K).taken <=>
           \E k \in K : /\ r \in k[1] .. k[1] + Cell(k).row_span - 1
                        /\ x \in Column(k) .. Column(k) + Cell(k).col_span - 1
<1>1. <<r, x>> \in LaidOut(K).taken <=> \E k \in K : <<r, x>> \in Area(k, Column(k))
  BY DEF LaidOut
<1>2. \A k \in K : <<r, x>> \in Area(k, Column(k)) <=>
                     /\ r \in k[1] .. k[1] + Cell(k).row_span - 1
                     /\ x \in Column(k) .. Column(k) + Cell(k).col_span - 1
  BY DEF Area
<1>3. QED
  BY <1>1, <1>2

(* To the left of a cell the row is full. *)
LEMMA LeftIsTaken ==
  ASSUME Settled, NEW k \in Cells, NEW y \in Nat, y < Column(k)
  PROVE  <<k[1], y>> \in LaidOut(UpTo(k[1], k[2] - 1)).taken
<1> DEFINE r == k[1]
           c == k[2]
           n == Len(table[r])
           w == Widths(r)
           K == UpTo(r, c - 1)
<1>1. /\ table \in Seq(Seq(TdNode)) /\ r \in 1 .. num_rows /\ num_rows \in Nat /\ c \in 1 .. n
      /\ n \in Nat /\ w \in Seq(Nat \ {0}) /\ Len(w) = n
      /\ \A j \in 1 .. n : <<r, j>> \in Cells
  BY CellsAre, WidthsAre DEF Settled, num_rows
<1>2. Column(k) = Total(w)[c - 1]
  BY <1>1, ColumnIs
<1> SUFFICES <<r, y>> \in LaidOut(K).taken
  OBVIOUS
<1>3. /\ \A b \in Cells : b[1] = r => b \in Cells /\ Column(b) = Total(w)[b[2] - 1]
      /\ \A b \in Cells : b[1] = r => Total(w)[b[2]] = Column(b) + Cell(b).col_span
  BY <1>1, ColumnIs
<1>4. \A b \in Cells : /\ Column(b) \in Nat /\ b[1] \in 1 .. num_rows
                       /\ Cell(b).col_span \in Nat \ {0} /\ Cell(b).row_span \in Nat \ {0}
  BY <1>1, CellsAre, ColumnIs
<1>5. \A b : b \in K <=> b \in Cells \ gone /\ (b[1] < r \/ (b[1] = r /\ b[2] <= c - 1))
  BY DEF UpTo
<1>6. \A b \in K : /\ r \in b[1] .. b[1] + Cell(b).row_span - 1
                   /\ y \in Column(b) .. Column(b) + Cell(b).col_span - 1
                   => <<r, y>> \in LaidOut(K).taken
  <2>1. r \in Int /\ y \in Int
    BY <1>1
  <2> HIDE DEF r, K
  <2>2. QED
    BY ONLY <2>1, TakenIs
<1> HIDE DEF w, n, r, c, K
<1>7. PICK j \in 1 .. c - 1 : Total(w)[j - 1] <= y /\ y < Total(w)[j]
  <2>1. c - 1 \in 0 .. Len(w)
    BY <1>1
  <2> DEFINE e == c - 1
  <2>2. e \in 0 .. Len(w) /\ y < Total(w)[e]
    BY <1>2, <2>1
  <2> HIDE DEF e
  <2>3. \E j \in 1 .. e : Total(w)[j - 1] <= y /\ y < Total(w)[j]
    BY <1>1, <2>2, ColumnOfSome
  <2>4. QED
    BY <2>3 DEF e
<1>8. j \in 1 .. n /\ j <= c - 1
  BY <1>1
<1>9. PICK b : b = <<r, j>> /\ b \in Cells
  BY <1>1, <1>8
<1>10. /\ Column(b) \in Nat /\ Column(b) = Total(w)[j - 1]
      /\ Total(w)[j] = Column(b) + Cell(b).col_span
      /\ Cell(b).col_span \in Nat \ {0} /\ Cell(b).row_span \in Nat \ {0}
  <2>1. b[1] = r /\ b[2] = j
    BY <1>9
  <2>2. QED
    BY <1>9, <1>3, <1>4, <2>1
<1>11. y \in Column(b) .. Column(b) + Cell(b).col_span - 1
  BY <1>7, <1>10
<1>12. CASE b \notin gone
  <2>1. b \in K
    BY <1>8, <1>9, <1>12, <1>5
  <2>2. r \in b[1] .. b[1] + Cell(b).row_span - 1
    <3> DEFINE s == Cell(b).row_span
    <3>1. b[1] = r /\ s \in Nat \ {0} /\ r \in Nat
      BY <1>1, <1>9, <1>10
    <3> HIDE DEF s
    <3>2. r \in r .. r + s - 1
      BY <3>1
    <3>3. QED
      BY <3>1, <3>2 DEF s
  <2>3. QED
    BY <1>11, <1>6, <2>1, <2>2
<1>13. CASE b \in gone
  <2>1. PICK a \in Cells \ gone : /\ a[1] < b[1] /\ b[1] < a[1] + Cell(a).row_span
                                  /\ Column(a) = Column(b)
    BY <1>13 DEF Settled
  <2>2. Cell(b).col_span = 1
    BY <1>13 DEF Settled
  <2>3. /\ a[1] \in 1 .. num_rows /\ Cell(a).col_span \in Nat \ {0} /\ Cell(a).row_span \in Nat \ {0}
        /\ Column(a) \in Nat
    BY <1>4
  <2>4. b[1] = r
    BY <1>9
  <2>5. a \in K
    BY <1>5, <2>1, <2>4
  <2>6. r \in a[1] .. a[1] + Cell(a).row_span - 1
    <3> DEFINE s == Cell(a).row_span
               q == a[1]
    <3>1. q \in Nat /\ s \in Nat \ {0} /\ r \in Nat /\ q < r /\ r < q + s
      BY <1>1, <2>1, <2>3, <2>4
    <3> HIDE DEF s, q
    <3>2. r \in q .. q + s - 1
      BY <3>1
    <3>3. QED
      BY <3>2 DEF s, q
  <2>7. y \in Column(a) .. Column(a) + Cell(a).col_span - 1
    BY <1>10, <1>11, <2>1, <2>2, <2>3
  <2>8. QED
    BY <1>6, <2>5, <2>6, <2>7
<1>14. QED
  BY <1>12, <1>13

(* Where a cell begins the row is free. *)
LEMMA OwnIsFree ==
  ASSUME Settled, NarrowSpans, NEW k \in Cells \ gone
  PROVE  <<k[1], Column(k)>> \notin LaidOut(UpTo(k[1], k[2] - 1)).taken
<1> DEFINE r == k[1]
           c == k[2]
           K == UpTo(r, c - 1)
<1>1. /\ table \in Seq(Seq(TdNode)) /\ r \in 1 .. num_rows /\ num_rows \in Nat
      /\ Column(k) \in Nat /\ k = <<r, k[2]>>
      /\ k[2] \in 1 .. Len(table[r]) /\ Len(table[r]) \in Nat
  BY CellsAre, ColumnIs, WidthsAre DEF Settled, num_rows
<1>2. r \in Nat /\ Column(k) \in Nat
  BY <1>1
<1>3. <<r, Column(k)>> \in LaidOut(K).taken =>
        \E a \in K : /\ r \in a[1] .. a[1] + Cell(a).row_span - 1
                    /\ Column(k) \in Column(a) .. Column(a) + Cell(a).col_span - 1
  <2> DEFINE x == Column(k)
  <2>1. r \in Int /\ x \in Int
    BY <1>2
  <2> HIDE DEF r, x, K
  <2>2. <<r, x>> \in LaidOut(K).taken =>
          \E a \in K : /\ r \in a[1] .. a[1] + Cell(a).row_span - 1
                      /\ x \in Column(a) .. Column(a) + Cell(a).col_span - 1
    BY ONLY <2>1, TakenIs
  <2>3. QED
    BY <2>2 DEF x
<1> SUFFICES ASSUME NEW a \in K,
                    r \in a[1] .. a[1] + Cell(a).row_span - 1,
                    Column(k) \in Column(a) .. Column(a) + Cell(a).col_span - 1
             PROVE  FALSE
  BY <1>3
<1>4. r \in a[1] .. a[1] + Cell(a).row_span - 1
  OBVIOUS
<1>5. /\ a \in Cells \ gone /\ a[1] \in 1 .. num_rows /\ a[1] \in Nat
      /\ Column(a) \in Nat /\ Cell(a).col_span \in Nat \ {0} /\ Cell(a).row_span \in Nat \ {0}
  <2>1. a \in Cells \ gone
    BY DEF UpTo
  <2>2. a[1] \in 1 .. num_rows
    BY <1>1, <2>1, CellsAre
  <2>3. a[1] \in Nat
    BY <1>1, <2>2
  <2>4. QED
    BY <1>1, <2>1, <2>2, <2>3, ColumnIs
<1>6. a[1] < r \/ (a[1] = r /\ a[2] <= c - 1)
  BY DEF UpTo
<1>7. a[2] \in Nat /\ c \in Nat
  <2>1. a[2] \in 1 .. Len(table[a[1]]) /\ Len(table[a[1]]) \in Nat
    BY <1>1, <1>5, CellsAre, WidthsAre
  <2>2. QED
    BY <1>1, <2>1
<1>8. CASE a[1] = r
  <2>1. a[2] < k[2]
    BY <1>1, <1>6, <1>7, <1>8
  <2>2. Column(a) + Cell(a).col_span <= Column(k)
    BY <1>1, <1>5, <1>8, <2>1, CellsApart
  <2>3. QED
    BY <1>1, <1>5, <2>2
<1>9. CASE a[1] < r
  <2>1. Cell(a).row_span > 1
    BY ONLY <1>2, <1>4, <1>5, <1>9
  <2>2. Cell(a).col_span = 1
    BY <1>5, <2>1 DEF NarrowSpans
  <2>3. Column(a) = Column(k)
    BY <1>1, <1>5, <2>2
  <2>4. r \in a[1] + 1 .. a[1] + Cell(a).row_span - 1
    <3> DEFINE s == Cell(a).row_span
               q == a[1]
    <3>1. q \in Nat /\ s \in Nat \ {0} /\ r \in Nat
      BY ONLY <1>2, <1>5, Zenon
    <3>2. q < r /\ r \in q .. q + s - 1
      BY <1>4, <1>9, Zenon
    <3> HIDE DEF s, q
    <3>3. r \in q + 1 .. q + s - 1
      BY <3>1, <3>2
    <3>4. QED
      BY <3>3 DEF s, q
  <2>5. Covers(a, k)
    BY <2>3, <2>4 DEF Covers, Spanned
  <2>6. QED
    BY <1>5, <2>5 DEF Settled
<1>10. QED
  BY <1>6, <1>8, <1>9

(* So the first column that is free is that of the cell. *)
LEMMA FreeIs ==
  ASSUME Settled, NarrowSpans, NEW k \in Cells \ gone
  PROVE  FirstFree(LaidOut(UpTo(k[1], k[2] - 1)).taken, k[1]) = {Column(k)}
<1> DEFINE r == k[1]
           T == LaidOut(UpTo(k[1], k[2] - 1)).taken
           x == Column(k)
<1>1. x \in Nat /\ x <= Width(r) /\ Width(r) \in Nat
  <2>1. table \in Seq(Seq(TdNode)) /\ r \in 1 .. num_rows
    BY CellsAre DEF Settled
  <2>2. x \in Nat /\ x <= Width(r)
    BY <2>1, ColumnIs
  <2>3. Width(r) \in Nat
    <3> DEFINE n == Len(table[r])
               w == Widths(r)
    <3>1. n \in Nat /\ w \in Seq(Nat \ {0}) /\ Len(w) = n /\ Width(r) = Total(w)[n]
      BY <2>1, WidthsAre DEF Width
    <3> HIDE DEF n, w
    <3>2. Total(w) \in [0 .. Len(w) -> Nat]
      BY <3>1, TotalsGrow
    <3>3. n \in 0 .. n
      BY <3>1
    <3>4. QED
      BY <3>1, <3>2, <3>3
  <2>4. QED
    BY <2>2, <2>3
<1>2. <<r, x>> \notin T
  BY OwnIsFree
<1>3. \A y \in Nat : y < x => <<r, y>> \in T
  BY LeftIsTaken
<1>4. FirstFree(T, r) = {y \in 0 .. Width(r) : /\ <<r, y>> \notin T
                                               /\ \A z \in 0 .. y - 1 : <<r, z>> \in T}
  BY DEF FirstFree
<1> HIDE DEF r, T, x
<1>5. ASSUME NEW y \in 0 .. Width(r)
      PROVE  (<<r, y>> \notin T /\ \A z \in 0 .. y - 1 : <<r, z>> \in T) <=> y = x
  <2>1. y \in Nat
    BY <1>1
  <2>2. CASE y < x
    BY <1>1, <1>3, <2>1, <2>2
  <2>3. CASE y = x
    <3>1. \A z \in 0 .. y - 1 : z \in Nat /\ z < x
      BY <1>1, <2>1, <2>3
    <3>2. QED
      BY <1>2, <1>3, <2>3, <3>1
  <2>4. CASE x < y
    <3>1. x \in 0 .. y - 1 /\ y # x
      BY <1>1, <2>1, <2>4
    <3>2. QED
      BY <1>2, <3>1
  <2>5. QED
    BY <1>1, <2>1, <2>2, <2>3, <2>4
<1>6. x \in 0 .. Width(r)
  BY <1>1
<1>7. FirstFree(T, r) = {x}
  BY <1>4, <1>5, <1>6
<1>8. QED
  BY <1>7 DEF r, T, x

LEMMA LaidOutOne ==
  ASSUME NEW K, NEW k
  PROVE  LaidOut(K \cup {k}) =
           [taken |-> LaidOut(K).taken \cup Area(k, Column(k)),
            at    |-> LaidOut(K).at \cup {<<k, Column(k)>>}]
<1>1. UNION {Area(b, Column(b)) : b \in K \cup {k}} =
        (UNION {Area(b, Column(b)) : b \in K}) \cup Area(k, Column(k))
  OBVIOUS
<1>2. {<<b, Column(b)>> : b \in K \cup {k}} =
        {<<b, Column(b)>> : b \in K} \cup {<<k, Column(k)>>}
  OBVIOUS
<1>3. QED
  BY <1>1, <1>2 DEF LaidOut

(* A cell of the row after those before it. *)
LEMMA PutIs ==
  ASSUME Settled, NarrowSpans, NEW r \in 1 .. num_rows, NEW c \in 1 .. Len(table[r])
  PROVE  Put(LaidOut(UpTo(r, c - 1)), <<r, c>>) = LaidOut(UpTo(r, c))
<1> DEFINE k == <<r, c>>
           K == UpTo(r, c - 1)
<1>1. table \in Seq(Seq(TdNode)) /\ k \in Cells /\ k[1] = r /\ k[2] = c
  BY CellsAre DEF Settled
<1>2. Len(table[r]) \in Nat /\ c \in Nat
  BY <1>1, WidthsAre
<1>3. ASSUME NEW b \in Cells, b[1] = r
      PROVE  b[2] <= c <=> b[2] <= c - 1 \/ b = k
  <2>1. b = <<r, b[2]>> /\ b[2] \in 1 .. Len(table[r])
    BY <1>1, <1>3, CellsAre
  <2>2. b[2] \in Nat
    BY <1>2, <2>1
  <2>3. b = k <=> b[2] = c
    BY <2>1
  <2>4. QED
    BY <1>2, <2>2, <2>3
<1>4. UpTo(r, c) = IF k \in gone THEN K ELSE K \cup {k}
  BY <1>1, <1>2, <1>3 DEF UpTo
<1>5. CASE k \in gone
  BY <1>4, <1>5 DEF Put
<1>6. CASE k \notin gone
  <2>1. FirstFree(LaidOut(K).taken, r) = {Column(k)}
    <3>1. k \in Cells \ gone
      BY <1>1, <1>6
    <3>2. FirstFree(LaidOut(UpTo(k[1], k[2] - 1)).taken, k[1]) = {Column(k)}
      BY <3>1, FreeIs
    <3>3. QED
      BY <1>1, <3>2
  <2> HIDE DEF k, K
  <2>2. Put(LaidOut(K), k) =
          [taken |-> LaidOut(K).taken \cup UNION {Area(k, x) : x \in {Column(k)}},
           at    |-> LaidOut(K).at \cup {<<k, x>> : x \in {Column(k)}}]
    BY <1>1, <1>6, <2>1 DEF Put
  <2>3. /\ UNION {Area(k, x) : x \in {Column(k)}} = Area(k, Column(k))
        /\ {<<k, x>> : x \in {Column(k)}} = {<<k, Column(k)>>}
    OBVIOUS
  <2>4. Put(LaidOut(K), k) = LaidOut(K \cup {k})
    BY <2>2, <2>3, LaidOutOne
  <2>5. QED
    BY <1>4, <1>6, <2>4 DEF k, K
<1>7. QED
  BY <1>5, <1>6

(* A row after those above it. *)
LEMMA PutRowIs ==
  ASSUME Settled, NarrowSpans, NEW r \in 1 .. num_rows
  PROVE  PutRow(LaidOut(UpTo(r, 0)), r) = LaidOut(UpTo(r + 1, 0))
<1> DEFINE n == Len(table[r])
           done == LaidOut(UpTo(r, 0))
           Unfolds(f) == f = [c \in 0 .. n |-> IF c = 0 THEN done ELSE Put(f[c - 1], <<r, c>>)]
           puts == CHOOSE f : Unfolds(f)
           e == [c \in 0 .. n |-> LaidOut(UpTo(r, c))]
<1>1. /\ table \in Seq(Seq(TdNode)) /\ n \in Nat /\ num_rows \in Nat
  BY WidthsAre DEF Settled, num_rows
<1>2. \A c \in 1 .. n : Put(LaidOut(UpTo(r, c - 1)), <<r, c>>) = LaidOut(UpTo(r, c))
  BY PutIs
<1>3. PutRow(done, r) = puts[n]
  BY DEF PutRow
<1>4. e[0] = done /\ \A c \in 1 .. n : e[c] = Put(e[c - 1], <<r, c>>)
  <2>1. 0 \in 0 .. n /\ \A c \in 1 .. n : c \in 0 .. n /\ c - 1 \in 0 .. n
    BY <1>1
  <2> HIDE DEF n
  <2>2. QED
    BY <1>2, <2>1
<1>5. n \in 0 .. n /\ e[n] = LaidOut(UpTo(r, n))
  BY <1>1
<1>6. e = [c \in 0 .. n |-> e[c]]
  OBVIOUS
<1> HIDE DEF n, done, e
<1>7. Unfolds(e)
  <2>1. \A c \in 0 .. n : e[c] = IF c = 0 THEN done ELSE Put(e[c - 1], <<r, c>>)
    <3> TAKE c \in 0 .. n
    <3>1. c = 0 \/ c \in 1 .. n
      BY <1>1
    <3>2. QED
      BY <1>4, <3>1
  <2>2. QED
    BY <1>6, <2>1
<1>8. Unfolds(puts)
  BY <1>7
<1> HIDE DEF puts
<1>9. StepAlike(puts, e, n)
  <2>1. puts = [c \in 0 .. n |-> IF c = 0 THEN done ELSE Put(puts[c - 1], <<r, c>>)]
    BY <1>8
  <2>2. 0 \in 0 .. n /\ \A c \in 1 .. n : c \in 0 .. n /\ c # 0
    BY <1>1
  <2>3. puts[0] = done /\ \A c \in 1 .. n : puts[c] = Put(puts[c - 1], <<r, c>>)
    BY <2>1, <2>2
  <2>4. QED
    BY <1>4, <2>3 DEF StepAlike
<1>10. puts[n] = LaidOut(UpTo(r, n))
  <2>1. \A c \in 0 .. n : puts[c] = e[c]
    BY <1>1, <1>9, RecursionUnique
  <2>2. QED
    BY <1>5, <2>1
<1>11. UpTo(r, n) = UpTo(r + 1, 0)
  <2>1. ASSUME NEW b \in Cells
        PROVE  b[1] < r \/ (b[1] = r /\ b[2] <= n) <=> b[1] < r + 1 \/ (b[1] = r + 1 /\ b[2] <= 0)
    <3>1. /\ b[1] \in 1 .. num_rows /\ b[2] \in 1 .. Len(table[b[1]])
          /\ Len(table[b[1]]) \in Nat
      BY <1>1, CellsAre, WidthsAre
    <3>2. b[1] = r => b[2] <= n
      BY <3>1 DEF n
    <3>3. b[1] \in Nat /\ b[2] \in Nat /\ ~(b[2] <= 0) /\ r \in Nat
      BY <1>1, <3>1
    <3>4. QED
      BY <3>2, <3>3
  <2>2. QED
    BY <2>1 DEF UpTo
<1>12. QED
  BY <1>3, <1>10, <1>11 DEF done

(* All rows: every cell that is left is in its own column. *)
LEMMA PlacedIs ==
  ASSUME Settled, NarrowSpans
  PROVE  Placed = {<<k, Column(k)>> : k \in Cells \ gone}
<1> DEFINE n == num_rows
           none == [taken |-> {}, at |-> {}]
           Unfolds(f) == f = [r \in 0 .. n |-> IF r = 0 THEN none ELSE PutRow(f[r - 1], r)]
           puts == CHOOSE f : Unfolds(f)
           e == [r \in 0 .. n |-> LaidOut(UpTo(r + 1, 0))]
<1>1. table \in Seq(Seq(TdNode)) /\ n \in Nat
  BY DEF Settled, num_rows
<1>2. \A b \in Cells : b[1] \in 1 .. n /\ b[2] \in Nat \ {0}
  <2> TAKE b \in Cells
  <2>1. /\ b[1] \in 1 .. num_rows /\ b[2] \in 1 .. Len(table[b[1]])
        /\ Len(table[b[1]]) \in Nat
    BY <1>1, CellsAre, WidthsAre
  <2>2. QED
    BY <2>1
<1>3. \A r \in 1 .. n : PutRow(LaidOut(UpTo(r, 0)), r) = LaidOut(UpTo(r + 1, 0))
  BY PutRowIs
<1>4. Placed = puts[n].at
  BY DEF Placed
<1>5. UpTo(1, 0) = {} /\ UpTo(n + 1, 0) = Cells \ gone
  <2>1. \A b \in Cells : ~(b[1] < 1 \/ (b[1] = 1 /\ b[2] <= 0)) /\ b[1] < n + 1
    BY <1>1, <1>2
  <2>2. QED
    BY <2>1 DEF UpTo
<1>6. LaidOut({}) = none
  BY DEF LaidOut
<1>7. e[0] = none /\ \A r \in 1 .. n : e[r] = PutRow(e[r - 1], r)
  <2>1. 0 \in 0 .. n /\ \A r \in 1 .. n : r \in 0 .. n /\ r - 1 \in 0 .. n /\ (r - 1) + 1 = r
    BY <1>1
  <2> HIDE DEF n, none
  <2>2. e[0] = none
    <3>1. e[0] = LaidOut(UpTo(0 + 1, 0)) /\ 0 + 1 = 1
      BY <2>1
    <3>2. QED
      BY <1>5, <1>6, <3>1
  <2>3. \A r \in 1 .. n : e[r] = LaidOut(UpTo(r + 1, 0)) /\ e[r - 1] = LaidOut(UpTo(r, 0))
    BY <2>1
  <2>4. QED
    BY <1>3, <2>2, <2>3
<1>8. n \in 0 .. n /\ e[n] = LaidOut(Cells \ gone)
  <2>1. n \in 0 .. n
    BY <1>1
  <2>2. e[n] = LaidOut(UpTo(n + 1, 0))
    BY ONLY <2>1
  <2>3. QED
    BY <1>5, <2>1, <2>2
<1>9. e = [r \in 0 .. n |-> e[r]]
  OBVIOUS
<1> HIDE DEF n, none, e
<1>10. Unfolds(e)
  <2>1. \A r \in 0 .. n : e[r] = IF r = 0 THEN none ELSE PutRow(e[r - 1], r)
    <3> TAKE r \in 0 .. n
    <3>1. r = 0 \/ r \in 1 .. n
      BY <1>1
    <3>2. QED
      BY <1>7, <3>1
  <2>2. QED
    BY <1>9, <2>1
<1>11. Unfolds(puts)
  BY <1>10
<1> HIDE DEF puts
<1>12. StepAlike(puts, e, n)
  <2>1. puts = [r \in 0 .. n |-> IF r = 0 THEN none ELSE PutRow(puts[r - 1], r)]
    BY <1>11
  <2>2. 0 \in 0 .. n /\ \A r \in 1 .. n : r \in 0 .. n /\ r # 0
    BY <1>1
  <2>3. puts[0] = none /\ \A r \in 1 .. n : puts[r] = PutRow(puts[r - 1], r)
    BY <2>1, <2>2
  <2>4. QED
    BY <1>7, <2>3 DEF StepAlike
<1>13. puts[n] = LaidOut(Cells \ gone)
  <2>1. \A r \in 0 .. n : puts[r] = e[r]
    BY <1>1, <1>12, RecursionUnique
  <2>2. QED
    BY <1>8, <2>1
<1>14. LaidOut(Cells \ gone).at = {<<k, Column(k)>> : k \in Cells \ gone}
  BY DEF LaidOut
<1>15. QED
  BY <1>4, <1>13, <1>14

(* A table is accepted when all its cells were passed. *)
AllPassed ==
  status \in {"aligning", "done"} /\ "refused" \notin errors => row > num_rows

LEMMA StepPasses == IInv /\ AllPassed /\ [Next]_vars => AllPassed'
<1> SUFFICES ASSUME IInv, AllPassed, [Next]_vars PROVE AllPassed'
  OBVIOUS
<1>1. CASE BuildTable
  <2>1. status' \notin {"aligning", "done"}
    BY <1>1 DEF BuildTable
  <2>2. QED
    BY <2>1 DEF AllPassed
<1>2. CASE SkipCell \/ RemoveBelow
  <2>1. status' = "fixing"
    <3>1. SkipCell => status' = "fixing"
      BY DEF SkipCell
    <3>2. RemoveBelow => status' = "fixing"
      BY DEF RemoveBelow, AtCell
    <3>3. QED
      BY <1>2, <3>1, <3>2
  <2>2. QED
    BY <2>1 DEF AllPassed
<1>3. CASE ReadMissing
  BY <1>3 DEF ReadMissing, AllPassed
<1>4. CASE Refuse
  BY <1>4 DEF Refuse, AllPassed
<1>5. CASE Fixed
  BY <1>5 DEF Fixed, AllPassed, num_rows
<1>6. CASE Align
  BY <1>6 DEF Align, AllPassed, num_rows
<1>7. CASE UNCHANGED vars
  BY <1>7 DEF vars, AllPassed, num_rows
<1>8. QED
  BY <1>1, <1>2, <1>3, <1>4, <1>5, <1>6, <1>7 DEF Next

LEMMA PassedIsSettled ==
  ASSUME IInv, row > num_rows
  PROVE  Settled
<1>1. \A a \in Cells : Passed(a)
  <2> TAKE a \in Cells
  <2>1. a[1] \in 1 .. num_rows /\ num_rows \in Nat /\ row \in Nat
    BY CellsAre DEF IInv, num_rows
  <2>2. a[1] < row
    BY <2>1
  <2>3. QED
    BY <2>2 DEF Passed
<1>2. OnlyEmptyCellsRemoved
  BY OnlyEmpty
<1>3. \A a, k \in Cells : Covers(a, k) => k \in gone
  BY <1>1 DEF IInv
<1>4. table \in Seq(Seq(TdNode)) /\ gone \subseteq Cells
  BY DEF IInv
<1>5. QED
  BY <1>2, <1>3, <1>4 DEF Settled, OnlyEmptyCellsRemoved

LEMMA AcceptedIsLaidOut == IInv /\ AllPassed => LayoutKept
<1> SUFFICES ASSUME IInv, AllPassed, status = "done", "refused" \notin errors, NarrowSpans
             PROVE  Placed = {<<k, Column(k)>> : k \in Cells \ gone}
  BY DEF LayoutKept
<1>1. Settled
  BY PassedIsSettled DEF AllPassed
<1>2. QED
  BY <1>1, PlacedIs

(* Table!LayoutKept: when set_column_alignment has run on a table that     *)
(* fix_table_row_span did not refuse, and no cell of it spans both rows    *)
(* and columns, a browser shows every cell that is left in the column in   *)
(* which LaTeX had it.                                                     *)
THEOREM AcceptedLooksTheSame == Spec => []LayoutKept
<1>1. Init => IInv /\ AllPassed
  <2>1. Init => AllPassed
    BY DEF Init, AllPassed
  <2>2. QED
    BY <2>1, InitGood
<1>2. IInv /\ AllPassed /\ [Next]_vars => (IInv /\ AllPassed)'
  BY StepGood, StepPasses
<1>3. QED
  BY <1>1, <1>2, AcceptedIsLaidOut, PTL DEF Spec

----------------------------------------------------------------------------
(* The tables of Tabular: whatever LaTeX may write, create_line_groups and *)
(* the stylesheet make rows of cells of it.                                *)

RowNode == LatexCells \cup [kind : {"vline", "intercolumn"}]
PlainNode == [kind : ModelKinds \cup {"columnsModel", "eol", "hline", "setcolor", "sline"}]
ListNode(model) == LatexCells \cup CLines(model) \cup PlainNode
ResultNode(model) ==
  CLines(model) \cup PlainNode \cup [kind : {"rowGroup"}, rows : Seq(Seq(RowNode))]
LineState ==
  [grouped : BOOLEAN, rowGroup : Seq(Seq(RowNode)),
   line : Seq(RowNode), tageol : BOOLEAN, cvlinee : Nat, c : Nat]

(* There is a p-th column as long as p is not more than there are. *)
LEMMA ColAtIs ==
  ASSUME NEW model \in Seq(ModelKinds), NEW p \in 1 .. Cols(model)
  PROVE  ColAt(model, p) \in 1 .. Len(model)
<1> DEFINE n == Len(model)
           Up(i) == {j \in 1 .. i : model[j] = "col"}
           G == {m \in 0 .. n : /\ Cardinality(Up(m)) \in Nat
                                /\ \A q \in 1 .. Cardinality(Up(m)) :
                                     \E i \in 1 .. m : model[i] = "col" /\ Cardinality(Up(i)) = q}
<1>1. n \in Nat /\ DOMAIN model = 1 .. n
  OBVIOUS
<1>2. \A i : i \in 0 .. n => IsFiniteSet(Up(i))
  <2> SUFFICES ASSUME NEW i \in 0 .. n PROVE IsFiniteSet(Up(i))
    OBVIOUS
  <2>1. IsFiniteSet(1 .. i)
    BY <1>1, FS_Interval
  <2>2. Up(i) \subseteq 1 .. i
    OBVIOUS
  <2> HIDE DEF Up
  <2>3. QED
    BY <2>1, <2>2, FS_Subset
<1>3. Up(0) = {}
  OBVIOUS
<1>4. \A k \in 0 .. n - 1 : Up(k + 1) = IF model[k + 1] = "col" THEN Up(k) \cup {k + 1} ELSE Up(k)
  BY <1>1
<1>5. \A k \in 0 .. n - 1 : k + 1 \notin Up(k)
  BY <1>1
<1>6. Cols(model) = Cardinality(Up(n))
  BY <1>1 DEF Cols
<1> HIDE DEF n, Up
<1>7. 0 \in G
  <2>1. Cardinality(Up(0)) = 0
    BY <1>3, FS_EmptySet
  <2>2. \A q : q \notin 1 .. Cardinality(Up(0))
    BY <2>1
  <2>3. Cardinality(Up(0)) \in Nat /\ 0 \in 0 .. n
    BY <1>1, <2>1
  <2>4. QED
    BY <2>2, <2>3, Zenon
<1>8. ASSUME NEW k \in 0 .. n - 1, k \in G
      PROVE  k + 1 \in G
  <2>1. /\ k + 1 \in 0 .. n /\ k \in 0 .. n
        /\ \A i \in 1 .. k : i \in 1 .. k + 1
        /\ k + 1 \in 1 .. k + 1
    BY <1>1
  <2>2. /\ Cardinality(Up(k)) \in Nat
        /\ \A q \in 1 .. Cardinality(Up(k)) :
             \E i \in 1 .. k : model[i] = "col" /\ Cardinality(Up(i)) = q
    BY <1>8
  <2>3. CASE model[k + 1] = "col"
    <3>1. Cardinality(Up(k + 1)) = Cardinality(Up(k)) + 1
      BY <1>2, <1>4, <1>5, <2>1, <2>3, FS_AddElement
    <3>2. ASSUME NEW q \in 1 .. Cardinality(Up(k + 1))
          PROVE  \E i \in 1 .. k + 1 : model[i] = "col" /\ Cardinality(Up(i)) = q
      <4>1. q \in 1 .. Cardinality(Up(k)) \/ q = Cardinality(Up(k + 1))
        BY <2>2, <3>1
      <4>2. QED
        BY <2>1, <2>2, <2>3, <4>1
    <3>3. QED
      BY <2>1, <2>2, <3>1, <3>2
  <2>4. CASE model[k + 1] # "col"
    <3>1. Up(k + 1) = Up(k)
      BY <1>4, <2>4
    <3>2. QED
      BY <2>1, <2>2, <3>1
  <2>5. QED
    BY <2>3, <2>4
<1> HIDE DEF G
<1>9. \A m \in 0 .. n : m \in G
  BY <1>1, <1>7, <1>8, BoundedInduction, Zenon
<1>10. PICK i \in 1 .. n : model[i] = "col" /\ Cardinality(Up(i)) = p
  <2>1. n \in 0 .. n
    BY <1>1
  <2>2. QED
    BY <1>6, <1>9, <2>1 DEF G
<1>11. ColAt(model, p) = CHOOSE j \in 1 .. n : model[j] = "col" /\ Cardinality(Up(j)) = p
  BY <1>1 DEF ColAt, Up
<1>12. ColAt(model, p) \in 1 .. n
  BY <1>10, <1>11
<1>13. QED
  BY <1>12 DEF n

LEMMA NodesForType ==
  ASSUME NEW ks \in Seq(ModelKinds), NEW model
  PROVE  NodesFor(ks) \in Seq(ListNode(model))
<1>1. \A k \in ModelKinds : Node(k) \in ListNode(model)
  BY DEF Node, ListNode, PlainNode
<1>2. NodesFor(ks) = [i \in 1 .. Len(ks) |-> Node(ks[i])] /\ Len(ks) \in Nat
  BY DEF NodesFor
<1>3. \A i \in 1 .. Len(ks) : Node(ks[i]) \in ListNode(model)
  BY <1>1
<1> HIDE DEF Node, ListNode
<1>4. QED
  BY <1>2, <1>3

LEMMA AroundCells ==
  ASSUME NEW model \in Seq(ModelKinds), NEW p \in 1 .. Cols(model), Cols(model) \in Nat
  PROVE  Lead(model) \in Seq(ModelKinds) /\ After(model, p) \in Seq(ModelKinds)
<1> DEFINE n == Len(model)
<1>1. n \in Nat /\ 1 \in 1 .. Cols(model)
  OBVIOUS
<1>2. ColAt(model, 1) \in 1 .. n /\ ColAt(model, p) \in 1 .. n
  BY <1>1, ColAtIs
<1>3. Lead(model) \in Seq(ModelKinds)
  <2> DEFINE b == ColAt(model, 1) - 1
  <2>1. b \in Int /\ b <= n /\ 1 \in Nat \ {0}
    BY <1>1, <1>2
  <2> HIDE DEF b
  <2>2. SubSeq(model, 1, b) \in Seq(ModelKinds)
    BY <2>1, SubSeqType
  <2>3. QED
    BY <2>2 DEF Lead, b
<1>4. After(model, p) \in Seq(ModelKinds)
  <2> DEFINE a == ColAt(model, p) + 1
             b == IF p = Cols(model) THEN n ELSE ColAt(model, p + 1) - 1
  <2>1. a \in Nat \ {0}
    BY <1>1, <1>2
  <2>2. b \in Int /\ b <= n
    <3>1. CASE p = Cols(model)
      BY <1>1, <3>1
    <3>2. CASE p # Cols(model)
      <4>1. p + 1 \in 1 .. Cols(model)
        BY <3>2
      <4> DEFINE q == p + 1
      <4>2. q \in 1 .. Cols(model)
        BY <4>1
      <4> HIDE DEF q
      <4>3. ColAt(model, q) \in 1 .. n
        BY <4>2, ColAtIs
      <4>4. QED
        BY <1>1, <3>2, <4>3 DEF q
    <3>3. QED
      BY <3>1, <3>2
  <2> HIDE DEF a, b
  <2>3. SubSeq(model, a, b) \in Seq(ModelKinds)
    BY <2>1, <2>2, SubSeqType
  <2>4. QED
    BY <2>3 DEF After, a, b
<1>5. QED
  BY <1>3, <1>4

(* What the style files write. *)
LEMMA WrittenCellType ==
  ASSUME NEW model \in Seq(ModelKinds), Cols(model) \in Nat, NEW p \in 1 .. Cols(model),
         NEW cell \in LatexCells, NEW ends \in BOOLEAN
  PROVE  WrittenCell(model, p, cell, ends) \in Seq(ListNode(model))
<1> DEFINE E == ListNode(model)
           eol == [cell EXCEPT !.eols = @ + IF ends THEN 1 ELSE 0]
<1>1. cell \in E
  BY DEF ListNode
<1>2. Node("eol") \in E
  <2>1. Node("eol") \in PlainNode
    BY DEF Node, PlainNode
  <2>2. QED
    BY <2>1 DEF ListNode
<1>3. eol \in E
  <2>1. eol \in LatexCells
    BY DEF LatexCells
  <2>2. QED
    BY <2>1 DEF ListNode
<1>4. NodesFor(Lead(model)) \in Seq(E) /\ NodesFor(After(model, p)) \in Seq(E)
  BY AroundCells, NodesForType
<1> HIDE DEF E, eol
<1>5. <<cell>> \o (IF ends THEN <<Node("eol")>> ELSE <<>>) \in Seq(E)
  BY <1>1, <1>2
<1>6. (IF p = 1 THEN NodesFor(Lead(model)) ELSE <<>>) \o <<eol>> \o NodesFor(After(model, p)) \in Seq(E)
  <2>1. (IF p = 1 THEN NodesFor(Lead(model)) ELSE <<>>) \in Seq(E) /\ <<eol>> \in Seq(E)
    BY <1>3, <1>4
  <2>2. QED
    BY <1>4, <2>1
<1>7. QED
  BY <1>5, <1>6 DEF WrittenCell, E, eol

LEMMA WrittenLineType ==
  ASSUME NEW model \in Seq(ModelKinds), Cols(model) \in Nat,
         NEW cells \in Seq(LatexCells), NEW ends \in BOOLEAN,
         \A i \in DOMAIN cells : Position(cells, i) <= Cols(model)
  PROVE  WrittenLine(model, cells, ends) \in Seq(ListNode(model))
<1> DEFINE n == Len(cells)
           w == [j \in DOMAIN cells |-> cells[j].span]
           ss == [i \in DOMAIN cells |->
                    WrittenCell(model, Position(cells, i), cells[i], ends /\ i = Len(cells))]
<1>1. n \in Nat /\ DOMAIN cells = 1 .. n
  OBVIOUS
<1>2. w \in Seq(Nat) /\ Len(w) = n
  <2>1. \A j \in 1 .. n : cells[j].span \in Nat
    <3>1. \A e \in LatexCells : e.span \in Nat
      BY DEF LatexCells
    <3>2. \A j \in 1 .. n : cells[j] \in LatexCells
      OBVIOUS
    <3>3. QED
      BY <3>1, <3>2
  <2>2. w = [j \in 1 .. n |-> cells[j].span]
    BY <1>1
  <2> HIDE DEF n
  <2>3. QED
    BY <1>1, <2>1, <2>2
<1>3. \A i \in 1 .. n : Position(cells, i) \in 1 .. Cols(model)
  <2> TAKE i \in 1 .. n
  <2>1. Position(cells, i) = 1 + Total(w)[i - 1]
    BY DEF Position
  <2> HIDE DEF w, n
  <2>2. Total(w) \in [0 .. Len(w) -> Nat]
    BY <1>2, TotalIs
  <2>3. i - 1 \in 0 .. Len(w)
    BY <1>1, <1>2
  <2>4. Total(w)[i - 1] \in Nat
    BY <2>2, <2>3
  <2>5. Position(cells, i) <= Cols(model)
    BY <1>1
  <2>6. QED
    BY <2>1, <2>4, <2>5
<1>4. \A i \in 1 .. n : WrittenCell(model, Position(cells, i), cells[i], ends /\ i = Len(cells)) \in Seq(ListNode(model))
  <2> TAKE i \in 1 .. n
  <2> DEFINE p == Position(cells, i)
             cell == cells[i]
             last == ends /\ i = Len(cells)
  <2>1. p \in 1 .. Cols(model) /\ cell \in LatexCells /\ last \in BOOLEAN
    BY <1>3
  <2> HIDE DEF p, cell, last
  <2>2. WrittenCell(model, p, cell, last) \in Seq(ListNode(model))
    BY <2>1, WrittenCellType
  <2>3. QED
    BY <2>2 DEF p, cell, last
<1>5. ss \in Seq(Seq(ListNode(model)))
  <2>1. ss = [i \in 1 .. n |-> WrittenCell(model, Position(cells, i), cells[i], ends /\ i = Len(cells))]
    BY <1>1
  <2> HIDE DEF n, ss
  <2>2. QED
    BY <1>1, <1>4, <2>1
<1> HIDE DEF ss
<1>6. FlattenSeq(ss) \in Seq(ListNode(model))
  BY <1>5, FlattenType
<1>7. QED
  BY <1>6 DEF WrittenLine, ss

LEMMA WrittenType ==
  ASSUME NEW t, t.model \in Seq(ModelKinds), Cols(t.model) \in Nat,
         t.body \in Seq(LatexLines(t.model) \cup CLines(t.model)
                          \cup [kind : {"hline", "setcolor", "sline"}])
  PROVE  Written(t) \in Seq(ListNode(t.model))
<1> DEFINE model == t.model
           body == t.body
           E == ListNode(model)
           n == Len(body)
           one(i) == IF body[i].kind # "line" THEN <<body[i]>>
                     ELSE WrittenLine(model, body[i].cells, i < Len(body) \/ t.ended)
           ss == [i \in DOMAIN body |-> one(i)]
<1>1. n \in Nat /\ DOMAIN body = 1 .. n
  OBVIOUS
<1>2. \A i \in 1 .. n : one(i) \in Seq(E)
  <2> TAKE i \in 1 .. n
  <2>1. body[i] \in LatexLines(model) \cup CLines(model) \cup [kind : {"hline", "setcolor", "sline"}]
    OBVIOUS
  <2>2. CASE body[i].kind # "line"
    <3>1. body[i] \notin LatexLines(model)
      BY <2>2 DEF LatexLines
    <3>2. body[i] \in E
      BY <2>1, <3>1 DEF ListNode, PlainNode
    <3> HIDE DEF E
    <3>3. QED
      BY <2>2, <3>2
  <2>3. CASE body[i].kind = "line"
    <3>1. body[i] \in LatexLines(model)
      BY <2>1, <2>3 DEF CLines
    <3> DEFINE cells == body[i].cells
               ends == i < Len(body) \/ t.ended
    <3>2. cells \in Seq(LatexCells) /\ \A j \in DOMAIN cells : Position(cells, j) <= Cols(model)
      BY <3>1 DEF LatexLines
    <3> HIDE DEF cells
    <3>3. ends \in BOOLEAN
      OBVIOUS
    <3> HIDE DEF ends, model
    <3>4. WrittenLine(model, cells, ends) \in Seq(ListNode(model))
      BY <3>2, <3>3, WrittenLineType DEF model
    <3>5. QED
      BY <2>3, <3>4 DEF cells, ends, model
  <2>4. QED
    BY <2>2, <2>3
<1> HIDE DEF one, n, E
<1>3. ss \in Seq(Seq(E))
  <2>1. ss = [i \in 1 .. n |-> one(i)]
    BY <1>1
  <2> HIDE DEF ss, body
  <2>2. QED
    BY ONLY <1>1, <1>2, <2>1
<1> HIDE DEF ss
<1>4. FlattenSeq(ss) \in Seq(E)
  BY <1>3, FlattenType
<1>5. <<Node("columnsModel")>> \in Seq(E)
  <2>1. Node("columnsModel") \in E
    BY DEF Node, E, ListNode, PlainNode
  <2>2. QED
    BY <2>1
<1>6. Written(t) = <<Node("columnsModel")>> \o FlattenSeq(ss)
  BY DEF Written, ss, one
<1>7. QED
  BY <1>4, <1>5, <1>6 DEF E

(* Until clean_rowspan starts nothing is passed or removed. *)
TabularTypes ==
  /\ tab.model \in Seq(ModelKinds) /\ Cols(tab.model) \in Nat \ {0}
  /\ nodes \in Seq(ListNode(tab.model)) /\ result \in Seq(ResultNode(tab.model))
  /\ lg \in LineState
TabularInv ==
  /\ TabularTypes
  /\ stage = "spans" => table \in Seq(Seq(MultirowTd))
  /\ stage # "table" => row = 1 /\ col = 1 /\ gone = {} /\ status = "waiting"
  /\ IInv /\ AllPassed

Fresh ==
  /\ table \in Seq(Seq(TdNode)) /\ row = 1 /\ col = 1 /\ gone = {}
  /\ "twice" \notin errors /\ status \in {"waiting", "building"}

LEMMA FreshGood == Fresh => IInv /\ AllPassed
<1> SUFFICES ASSUME Fresh PROVE IInv /\ AllPassed
  OBVIOUS
<1>1. table \in Seq(Seq(TdNode)) /\ row = 1 /\ col = 1 /\ gone = {} /\ "twice" \notin errors
  BY DEF Fresh
<1>2. \A a \in Cells : ~Passed(a)
  <2> TAKE a \in Cells
  <2>1. a[1] \in 1 .. num_rows /\ a[2] \in 1 .. Len(table[a[1]]) /\ num_rows \in Nat
    BY <1>1, CellsAre DEF num_rows
  <2>2. table[a[1]] \in Seq(TdNode)
    BY <1>1, <2>1 DEF num_rows
  <2>3. a[2] \in Nat /\ 1 <= a[2]
    BY <2>1, <2>2
  <2>4. QED
    BY <1>1, <2>1, <2>3 DEF Passed
<1>3. IInv
  BY <1>1, <1>2 DEF IInv
<1>4. AllPassed
  BY DEF Fresh, AllPassed
<1>5. QED
  BY <1>3, <1>4

LEMMA FreshLater == Fresh' => IInv' /\ AllPassed'
  BY FreshGood, PTL

LEMMA MultirowIsTd == Seq(Seq(MultirowTd)) \subseteq Seq(Seq(TdNode))
<1>1. MultirowTd \subseteq TdNode
  BY DEF TdNode
<1>2. Seq(MultirowTd) \subseteq Seq(TdNode)
  BY <1>1
<1>3. QED
  BY <1>2

LEMMA TabularInitGood == TabularInit => TabularInv
<1> SUFFICES ASSUME TabularInit PROVE TabularInv
  OBVIOUS
<1>1. /\ nodes = Written(tab) /\ result = <<>> /\ lg = NewRow(FALSE, <<>>) /\ stage = "tabular"
      /\ table = <<>> /\ row = 1 /\ col = 1 /\ gone = {} /\ errors = {} /\ status = "waiting"
  BY DEF TabularInit
<1>2. PICK ts \in Tabulars : tab \in ts
  BY DEF TabularInit
<1>3. /\ tab.model \in Seq(ModelKinds) /\ Cols(tab.model) > 0
      /\ tab.body \in Seq(LatexLines(tab.model) \cup CLines(tab.model)
                            \cup [kind : {"hline", "setcolor", "sline"}])
  BY <1>2, TabularsAssumption
<1>4. Cols(tab.model) \in Nat
  <2> DEFINE m == tab.model
             S == {i \in DOMAIN m : m[i] = "col"}
  <2>1. Len(m) \in Nat /\ S \subseteq 1 .. Len(m)
    BY <1>3
  <2>2. IsFiniteSet(1 .. Len(m))
    BY <2>1, FS_Interval
  <2>3. Cols(m) = Cardinality(S)
    BY DEF Cols
  <2> HIDE DEF S
  <2>4. QED
    BY <2>1, <2>2, <2>3, FS_Subset, FS_CardinalityType
<1>5. Cols(tab.model) \in Nat \ {0}
  BY <1>3, <1>4
<1>6. nodes \in Seq(ListNode(tab.model))
  BY <1>1, <1>3, <1>4, WrittenType
<1>7. lg \in LineState
  BY <1>1 DEF NewRow, LineState
<1>8. result \in Seq(ResultNode(tab.model))
  BY <1>1
<1>9. TabularTypes
  BY <1>3, <1>5, <1>6, <1>7, <1>8 DEF TabularTypes
<1>10. Fresh
  BY <1>1 DEF Fresh
<1>11. QED
  BY <1>1, <1>9, <1>10, FreshGood DEF TabularInv

(* create_line_groups. *)
LEMMA ContinueKeeps ==
  ASSUME TabularTypes, nodes # <<>>, NEW s \in LineState, Continue(s)
  PROVE  /\ tab' = tab /\ stage' = stage /\ UNCHANGED vars
         /\ nodes' \in Seq(ListNode(tab.model)) /\ lg' \in LineState
<1>1. tab' = tab /\ stage' = stage /\ UNCHANGED vars /\ nodes' = Tail(nodes)
  BY DEF Continue
<1>2. nodes' \in Seq(ListNode(tab.model))
  BY <1>1 DEF TabularTypes
<1>3. WithRow(s) \in Seq(Seq(RowNode))
  <2>1. s.line \in Seq(RowNode) /\ s.rowGroup \in Seq(Seq(RowNode))
    BY DEF LineState
  <2>2. QED
    BY <2>1 DEF WithRow
<1>4. NewRow(TRUE, WithRow(s)) \in LineState
  BY <1>3 DEF NewRow, LineState
<1>5. lg' \in LineState
  BY <1>4 DEF Continue
<1>6. QED
  BY <1>1, <1>2, <1>5

LEMMA GroupType ==
  ASSUME NEW s \in LineState, NEW model
  PROVE  Group(s) \in Seq(ResultNode(model))
<1>1. s.rowGroup \in Seq(Seq(RowNode))
  BY DEF LineState
<1>2. [kind |-> "rowGroup", rows |-> s.rowGroup] \in ResultNode(model)
  BY <1>1 DEF ResultNode
<1>3. <<[kind |-> "rowGroup", rows |-> s.rowGroup]>> \in Seq(ResultNode(model))
  BY <1>2
<1>4. QED
  BY <1>3 DEF Group

Reading ==
  \/ ReadModel \/ AddRule \/ AddCell \/ AddBetween \/ AddMulticolumn \/ ReadEol \/ DropNode

LEMMA ReadingKeeps ==
  ASSUME TabularTypes, Reading
  PROVE  TabularTypes' /\ stage' = stage /\ UNCHANGED vars
<1> DEFINE E == ListNode(tab.model)
           R == ResultNode(tab.model)
<1>1. /\ nodes # <<>> => node \in E
      /\ nodes \in Seq(E) /\ result \in Seq(R) /\ lg \in LineState
  <2>1. nodes \in Seq(E) /\ result \in Seq(R) /\ lg \in LineState
    BY DEF TabularTypes
  <2> HIDE DEF E, R
  <2>2. nodes # <<>> => Head(nodes) \in E
    BY <2>1
  <2>3. QED
    BY <2>1, <2>2 DEF node
<1>2. /\ lg.line \in Seq(RowNode) /\ lg.rowGroup \in Seq(Seq(RowNode))
      /\ lg.cvlinee \in Nat /\ lg.c \in Nat /\ lg.tageol \in BOOLEAN
  BY <1>1 DEF LineState
<1>3. ASSUME node \in E, node \notin LatexCells
      PROVE  node \in R
  BY <1>3 DEF ListNode, ResultNode
<1>4. \A line \in Seq(RowNode) : \A b \in BOOLEAN : \A v, c \in Nat :
        /\ [lg EXCEPT !.line = line] \in LineState
        /\ [lg EXCEPT !.line = line, !.tageol = b] \in LineState
        /\ [lg EXCEPT !.line = line, !.cvlinee = v] \in LineState
        /\ [lg EXCEPT !.line = line, !.c = c] \in LineState
        /\ [lg EXCEPT !.tageol = b] \in LineState
  BY <1>1 DEF LineState
<1>5. \A group \in Seq(Seq(RowNode)) : [lg EXCEPT !.grouped = FALSE, !.rowGroup = group] \in LineState
  BY <1>1 DEF LineState
<1>6. ASSUME NEW n \in RowNode
      PROVE  Append(lg.line, n) \in Seq(RowNode)
  BY <1>2
<1>7. CASE ReadModel
  <2>1. nodes # <<>> /\ node.kind = "columnsModel" /\ result' = Append(result, node) /\ Continue(lg)
    BY <1>7 DEF ReadModel, Reads
  <2>2. node \in R
    BY <1>1, <1>3, <2>1 DEF LatexCells
  <2> HIDE DEF E, R
  <2>3. result' \in Seq(R)
    BY <1>1, <2>1, <2>2
  <2>4. QED
    BY <1>1, <2>1, <2>3, ContinueKeeps DEF E, R, TabularTypes
<1>8. CASE AddRule
  <2> DEFINE s == [lg EXCEPT !.grouped = FALSE, !.rowGroup = <<>>]
  <2>1. nodes # <<>> /\ node.kind \in {"hline", "cline"} /\ result' = result \o Group(lg) \o <<node>> /\ Continue(s)
    BY <1>8 DEF AddRule, Reads
  <2>2. node \in R
    BY <1>1, <1>3, <2>1 DEF LatexCells
  <2>3. s \in LineState
    <3>1. <<>> \in Seq(Seq(RowNode))
      OBVIOUS
    <3> HIDE DEF s
    <3>2. QED
      BY <1>5, <3>1 DEF s
  <2>4. Group(lg) \in Seq(R)
    BY <1>1, GroupType
  <2> HIDE DEF E, R, s
  <2>5. result' \in Seq(R)
    BY <1>1, <2>1, <2>2, <2>4
  <2>6. QED
    BY <2>1, <2>3, <2>5, ContinueKeeps DEF E, R, TabularTypes
<1>9. CASE AddCell
  <2> DEFINE n == [node EXCEPT !.eols = IF @ > 0 THEN @ - 1 ELSE 0]
             s == [lg EXCEPT !.line = Append(@, n), !.tageol = @ \/ node.eols > 0]
  <2>1. nodes # <<>> /\ node.kind = "cell" /\ result' = result /\ Continue(s)
    BY <1>9 DEF AddCell, Reads
  <2>2. node \in LatexCells
    <3>1. node \notin CLines(tab.model) /\ node \notin PlainNode
      BY <2>1 DEF CLines, PlainNode, ModelKinds
    <3>2. QED
      BY <1>1, <2>1, <3>1 DEF ListNode
  <2>3. n \in RowNode
    <3>1. n \in LatexCells
      BY <2>2 DEF LatexCells
    <3>2. QED
      BY <3>1 DEF RowNode
  <2>4. s \in LineState
    <3> DEFINE line == Append(lg.line, n)
               b == lg.tageol \/ node.eols > 0
    <3>1. line \in Seq(RowNode) /\ b \in BOOLEAN
      BY <1>2, <1>6, <2>3
    <3>2. s = [lg EXCEPT !.line = line, !.tageol = b]
      OBVIOUS
    <3> HIDE DEF s, line, b
    <3>3. QED
      BY <1>4, <3>1, <3>2
  <2> HIDE DEF s
  <2>5. QED
    BY <1>1, <2>1, <2>4, ContinueKeeps DEF TabularTypes
<1>10. CASE AddBetween
  <2> DEFINE s == [lg EXCEPT !.line = Append(@, node),
                             !.cvlinee = IF lg.c = ncols \/ lg.tageol THEN @ + 1 ELSE @]
  <2>1. nodes # <<>> /\ node.kind \in {"vline", "intercolumn"} /\ result' = result /\ Continue(s)
    BY <1>10 DEF AddBetween, Reads
  <2>2. node \in PlainNode
    BY <1>1, <2>1 DEF ListNode, CLines, LatexCells
  <2>3. node \in RowNode
    BY <2>1, <2>2 DEF PlainNode, RowNode
  <2>4. s \in LineState
    <3> DEFINE line == Append(lg.line, node)
               v == IF lg.c = ncols \/ lg.tageol THEN lg.cvlinee + 1 ELSE lg.cvlinee
    <3>1. line \in Seq(RowNode) /\ v \in Nat
      BY <1>2, <1>6, <2>3
    <3>2. s = [lg EXCEPT !.line = line, !.cvlinee = v]
      OBVIOUS
    <3> HIDE DEF s, line, v
    <3>3. QED
      BY <1>4, <3>1, <3>2
  <2> HIDE DEF s
  <2>5. QED
    BY <1>1, <2>1, <2>4, ContinueKeeps DEF TabularTypes
<1>11. CASE AddMulticolumn
  <2> DEFINE s == [lg EXCEPT !.line = Append(@, node), !.c = @ + node.span]
  <2>1. nodes # <<>> /\ node.kind = "multicolumn" /\ result' = result /\ Continue(s)
    BY <1>11 DEF AddMulticolumn, Reads
  <2>2. node \in LatexCells
    <3>1. node \notin CLines(tab.model) /\ node \notin PlainNode
      BY <2>1 DEF CLines, PlainNode, ModelKinds
    <3>2. QED
      BY <1>1, <2>1, <3>1 DEF ListNode
  <2>3. node \in RowNode /\ node.span \in Nat
    BY <2>2 DEF LatexCells, RowNode
  <2>4. s \in LineState
    <3> DEFINE line == Append(lg.line, node)
               c == lg.c + node.span
    <3>1. line \in Seq(RowNode) /\ c \in Nat
      BY <1>2, <1>6, <2>3
    <3>2. s = [lg EXCEPT !.line = line, !.c = c]
      OBVIOUS
    <3> HIDE DEF s, line, c
    <3>3. QED
      BY <1>4, <3>1, <3>2
  <2> HIDE DEF s
  <2>5. QED
    BY <1>1, <2>1, <2>4, ContinueKeeps DEF TabularTypes
<1>12. CASE ReadEol
  <2> DEFINE s == [lg EXCEPT !.tageol = TRUE]
  <2>1. nodes # <<>> /\ result' = result /\ Continue(s)
    BY <1>12 DEF ReadEol, Reads
  <2>2. s \in LineState
    BY <1>1 DEF LineState
  <2> HIDE DEF s
  <2>3. QED
    BY <1>1, <2>1, <2>2, ContinueKeeps DEF TabularTypes
<1>13. CASE DropNode
  <2>1. nodes # <<>> /\ result' = result /\ Continue(lg)
    BY <1>13 DEF DropNode, Reads
  <2>2. QED
    BY <1>1, <2>1, ContinueKeeps DEF TabularTypes
<1>14. QED
  BY <1>7, <1>8, <1>9, <1>10, <1>11, <1>12, <1>13 DEF Reading

(* The stylesheet. *)
LEMMA TdType ==
  ASSUME NEW span \in Nat \ {0}, NEW fill \in Fills \cup {"deep"}, NEW multirow \in Int
  PROVE  Td(span, fill, multirow) \in MultirowTd
<1>1. 1 \in Nat \ {0}
  OBVIOUS
<1>2. QED
  BY <1>1 DEF Td, MultirowTd

LEMMA TdsType ==
  ASSUME NEW nodesOfRow \in Seq(RowNode)
  PROVE  Tds(nodesOfRow) \in Seq(MultirowTd)
<1> DEFINE S == {n \in Elements(nodesOfRow) : n.kind # "vline"}
           shown == Among(nodesOfRow, S)
           td(n) == IF n.kind = "intercolumn" THEN Td(1, "element", 0)
                    ELSE Td(n.span, n.fill, n.multirow)
<1>1. shown \in Seq(RowNode) /\ Elements(shown) = Elements(nodesOfRow) \cap S
  <2> HIDE DEF S
  <2>1. QED
    BY AmongProperties
<1>2. Tds(nodesOfRow) = [i \in DOMAIN shown |-> td(shown[i])]
  BY DEF Tds
<1>3. \A n \in RowNode : n.kind # "vline" => td(n) \in MultirowTd
  <2> TAKE n \in RowNode
  <2> HAVE n.kind # "vline"
  <2>1. CASE n \in LatexCells
    <3>1. n.span \in Nat \ {0} /\ n.fill \in Fills \cup {"deep"} /\ n.multirow \in Int /\ n.kind # "intercolumn"
      BY <2>1 DEF LatexCells
    <3>2. QED
      BY <3>1, TdType
  <2>2. CASE n \notin LatexCells
    <3>1. n.kind = "intercolumn"
      BY <2>2 DEF RowNode
    <3>2. 1 \in Nat \ {0} /\ "element" \in Fills \cup {"deep"} /\ 0 \in Int
      BY DEF Fills
    <3>3. QED
      BY <3>1, <3>2, TdType
  <2>3. QED
    BY <2>1, <2>2
<1>4. \A i \in 1 .. Len(shown) : shown[i] \in RowNode /\ shown[i].kind # "vline"
  <2> TAKE i \in 1 .. Len(shown)
  <2>1. shown[i] \in Elements(shown)
    BY DEF Elements
  <2>2. shown[i] \in S
    BY <1>1, <2>1
  <2> HIDE DEF shown
  <2>3. QED
    BY <1>1, <2>2
<1> HIDE DEF shown, td
<1>5. \A i \in 1 .. Len(shown) : td(shown[i]) \in MultirowTd
  BY <1>3, <1>4
<1>6. DOMAIN shown = 1 .. Len(shown) /\ Len(shown) \in Nat
  BY <1>1
<1>7. QED
  BY <1>2, <1>5, <1>6

LEMMA EmptyType ==
  ASSUME NEW span \in Nat
  PROVE  Empty(span) \in Seq(MultirowTd)
<1>1. CASE span = 0
  BY <1>1 DEF Empty
<1>2. CASE span # 0
  <2>1. span \in Nat \ {0} /\ "none" \in Fills \cup {"deep"} /\ 0 \in Int
    BY <1>2 DEF Fills
  <2>2. Td(span, "none", 0) \in MultirowTd
    BY <2>1, TdType
  <2>3. QED
    BY <1>2, <2>2 DEF Empty
<1>3. QED
  BY <1>1, <1>2

LEMMA TrsType ==
  ASSUME TabularTypes, NEW i \in DOMAIN result
  PROVE  Trs(i) \in Seq(Seq(MultirowTd))
<1> DEFINE n == result[i]
           line(span) == Td(span, "element", 0)
<1>1. n \in ResultNode(tab.model) /\ ncols \in Nat \ {0}
  BY DEF TabularTypes, ncols
<1>2. \A span \in Nat \ {0} : line(span) \in MultirowTd
  <2>1. "element" \in Fills \cup {"deep"} /\ 0 \in Int
    BY DEF Fills
  <2>2. QED
    BY <2>1, TdType
<1> HIDE DEF n, line
<1>3. CASE n.kind = "rowGroup"
  <2>1. n.rows \in Seq(Seq(RowNode))
    BY <1>1, <1>3 DEF ResultNode, CLines, PlainNode, ModelKinds
  <2> DEFINE rows == n.rows
  <2>2. Trs(i) = [r \in DOMAIN rows |-> Tds(rows[r])]
    BY <1>3 DEF Trs, n
  <2>3. rows \in Seq(Seq(RowNode))
    BY <2>1
  <2> HIDE DEF rows
  <2>4. DOMAIN rows = 1 .. Len(rows) /\ Len(rows) \in Nat /\ \A r \in 1 .. Len(rows) : rows[r] \in Seq(RowNode)
    BY <2>3
  <2>5. \A r \in 1 .. Len(rows) : Tds(rows[r]) \in Seq(MultirowTd)
    BY <2>4, TdsType
  <2>6. QED
    BY ONLY <2>2, <2>4, <2>5
<1>4. CASE n.kind = "cline"
  <2>1. n \in CLines(tab.model)
    BY <1>1, <1>4 DEF ResultNode, PlainNode, ModelKinds
  <2>2. n.from \in Nat \ {0} /\ n.to \in Nat /\ n.from <= n.to /\ n.to <= ncols
    BY <2>1 DEF CLines, ncols
  <2> DEFINE before == n.from - 1
             span == n.to - n.from + 1
             after == ncols - n.to
  <2>3. before \in Nat /\ span \in Nat \ {0} /\ after \in Nat
    BY <1>1, <2>2
  <2>4. Trs(i) = <<Empty(before) \o <<line(span)>> \o Empty(after)>>
    BY <1>4 DEF Trs, n, line
  <2> HIDE DEF before, span, after
  <2>5. Empty(before) \in Seq(MultirowTd) /\ Empty(after) \in Seq(MultirowTd)
    BY <2>3, EmptyType
  <2>6. line(span) \in MultirowTd
    BY <1>2, <2>3
  <2>7. Empty(before) \o <<line(span)>> \o Empty(after) \in Seq(MultirowTd)
    BY <2>5, <2>6
  <2>8. QED
    BY <2>4, <2>7
<1>5. CASE n.kind \notin {"rowGroup", "cline"}
  <2>1. Trs(i) = <<<<line(ncols)>>>> \/ Trs(i) = <<>>
    BY <1>5 DEF Trs, n, line
  <2>2. line(ncols) \in MultirowTd
    BY <1>1, <1>2
  <2>3. <<line(ncols)>> \in Seq(MultirowTd)
    BY <2>2
  <2>4. <<<<line(ncols)>>>> \in Seq(Seq(MultirowTd)) /\ <<>> \in Seq(Seq(MultirowTd))
    BY <2>3
  <2>5. QED
    BY <2>1, <2>4
<1>6. QED
  BY <1>3, <1>4, <1>5

LEMMA ToXhtmlKeeps == TabularInv /\ ToXhtml => TabularInv'
<1> SUFFICES ASSUME TabularInv, ToXhtml PROVE TabularInv'
  OBVIOUS
<1> DEFINE trs == [i \in DOMAIN result |-> Trs(i)]
<1>1. /\ stage = "rows" /\ stage' = "spans" /\ table' = FlattenSeq(trs)
      /\ UNCHANGED <<tab, nodes, result, lg, row, col, gone, errors, status>>
  BY DEF ToXhtml
<1>2. TabularTypes /\ row = 1 /\ col = 1 /\ gone = {} /\ status = "waiting" /\ "twice" \notin errors
  BY <1>1 DEF TabularInv, IInv
<1>3. trs \in Seq(Seq(Seq(MultirowTd)))
  <2>1. DOMAIN result = 1 .. Len(result) /\ Len(result) \in Nat
    BY <1>2 DEF TabularTypes
  <2>2. \A i \in 1 .. Len(result) : Trs(i) \in Seq(Seq(MultirowTd))
    BY <1>2, <2>1, TrsType
  <2>3. trs = [i \in 1 .. Len(result) |-> Trs(i)]
    BY <2>1
  <2> HIDE DEF trs
  <2>4. QED
    BY ONLY <2>1, <2>2, <2>3
<1> HIDE DEF trs
<1>4. table' \in Seq(Seq(MultirowTd))
  <2> DEFINE E == Seq(MultirowTd)
  <2>1. trs \in Seq(Seq(E))
    BY <1>3
  <2> HIDE DEF E
  <2>2. FlattenSeq(trs) \in Seq(E)
    BY <2>1, FlattenType
  <2>3. QED
    BY <1>1, <2>2 DEF E
<1>5. table' \in Seq(Seq(TdNode))
  BY <1>4, MultirowIsTd
<1>6. Fresh'
  BY <1>1, <1>2, <1>5 DEF Fresh
<1>7. IInv' /\ AllPassed'
  BY <1>6, FreshLater
<1>8. TabularTypes'
  BY <1>1, <1>2 DEF TabularTypes
<1>9. QED
  BY <1>1, <1>2, <1>4, <1>7, <1>8 DEF TabularInv

(* A \multirow that spans rows spans two at least. *)
LEMMA UpdateRowspanKeeps == TabularInv /\ UpdateRowspan => TabularInv'
<1> SUFFICES ASSUME TabularInv, UpdateRowspan PROVE TabularInv'
  OBVIOUS
<1> DEFINE td(r, i) == [table[r][i] EXCEPT !.row_span =
                          IF Spans(table[r][i]) /\ table[r][i].fill = "element"
                          THEN table[r][i].multirow ELSE @]
           tds(r) == [i \in DOMAIN table[r] |-> td(r, i)]
<1>1. /\ stage = "spans" /\ stage' = "table" /\ status' = "building"
      /\ table' = [r \in DOMAIN table |-> tds(r)]
      /\ UNCHANGED <<tab, nodes, result, lg, row, col, gone>>
  BY DEF UpdateRowspan
<1>2. errors' \subseteq errors \cup {"multirow span not in table cell"}
  BY DEF UpdateRowspan
<1>3. /\ TabularTypes /\ row = 1 /\ col = 1 /\ gone = {} /\ "twice" \notin errors
      /\ table \in Seq(Seq(MultirowTd))
  BY <1>1 DEF TabularInv, IInv
<1>4. \A d \in MultirowTd :
        [d EXCEPT !.row_span = IF Spans(d) /\ d.fill = "element" THEN d.multirow ELSE @] \in MultirowTd
  <2> TAKE d \in MultirowTd
  <2>1. CASE Spans(d) /\ d.fill = "element"
    <3>1. d.multirow \in Nat \ {0}
      BY <2>1 DEF MultirowTd, Spans
    <3>2. QED
      BY <2>1, <3>1 DEF MultirowTd
  <2>2. CASE ~(Spans(d) /\ d.fill = "element")
    BY <2>2 DEF MultirowTd
  <2>3. QED
    BY <2>1, <2>2
<1>5. DOMAIN table = 1 .. Len(table) /\ Len(table) \in Nat /\ \A r \in 1 .. Len(table) : table[r] \in Seq(MultirowTd)
  BY <1>3
<1>6. ASSUME NEW r \in 1 .. Len(table)
      PROVE  tds(r) \in Seq(MultirowTd)
  <2> DEFINE cells == table[r]
  <2>1. cells \in Seq(MultirowTd)
    BY <1>5
  <2>2. tds(r) = [i \in DOMAIN cells |-> td(r, i)]
    OBVIOUS
  <2>3. \A i \in DOMAIN cells : cells[i] \in MultirowTd => td(r, i) \in MultirowTd
    BY <1>4
  <2> HIDE DEF cells, td
  <2>4. DOMAIN cells = 1 .. Len(cells) /\ Len(cells) \in Nat /\ \A i \in 1 .. Len(cells) : cells[i] \in MultirowTd
    BY <2>1
  <2>5. \A i \in 1 .. Len(cells) : td(r, i) \in MultirowTd
    BY <2>3, <2>4
  <2>6. QED
    BY ONLY <2>2, <2>4, <2>5
<1> HIDE DEF tds
<1>7. table' \in Seq(Seq(MultirowTd))
  <2>1. table' = [r \in 1 .. Len(table) |-> tds(r)]
    BY <1>1, <1>5
  <2>2. QED
    BY ONLY <1>5, <1>6, <2>1
<1>8. table' \in Seq(Seq(TdNode))
  BY <1>7, MultirowIsTd
<1>9. "twice" \notin errors'
  BY <1>2, <1>3
<1>10. Fresh'
  BY <1>1, <1>3, <1>8, <1>9 DEF Fresh
<1>11. IInv' /\ AllPassed'
  BY <1>10, FreshLater
<1>12. TabularTypes'
  BY <1>1, <1>3 DEF TabularTypes
<1>13. QED
  BY <1>1, <1>11, <1>12 DEF TabularInv

LEMMA TabularStepGood == TabularInv /\ [TabularNext]_tabularVars => TabularInv'
<1> SUFFICES ASSUME TabularInv, [TabularNext]_tabularVars PROVE TabularInv'
  OBVIOUS
<1>1. TabularTypes /\ IInv /\ AllPassed
  BY DEF TabularInv
<1>2. UNCHANGED vars => IInv' /\ AllPassed'
  BY <1>1, StepGood, StepPasses
<1>3. ASSUME UNCHANGED vars, stage' # "spans", stage' = "table" <=> stage = "table", TabularTypes'
      PROVE  TabularInv'
  <2>1. row' = row /\ col' = col /\ gone' = gone /\ status' = status
    BY <1>3 DEF vars
  <2>2. stage' # "table" => row' = 1 /\ col' = 1 /\ gone' = {} /\ status' = "waiting"
    BY <1>3, <2>1 DEF TabularInv
  <2>3. IInv' /\ AllPassed'
    BY <1>2, <1>3
  <2>4. QED
    BY <1>3, <2>2, <2>3 DEF TabularInv
<1>4. CASE Reading
  <2>1. stage = "tabular"
    BY <1>4 DEF Reading, Reads, ReadModel, AddRule, AddCell, AddBetween, AddMulticolumn, ReadEol, DropNode
  <2>2. TabularTypes' /\ stage' = stage /\ UNCHANGED vars
    BY <1>1, <1>4, ReadingKeeps
  <2>3. QED
    BY <1>3, <2>1, <2>2
<1>5. CASE LastGroup
  <2> DEFINE R == ResultNode(tab.model)
  <2>1. stage = "tabular" /\ stage' = "rows" /\ result' = result \o Group(lg) /\ UNCHANGED <<tab, nodes, lg>> /\ UNCHANGED vars
    BY <1>5 DEF LastGroup
  <2>2. result \in Seq(R) /\ lg \in LineState
    BY <1>1 DEF TabularTypes
  <2>3. Group(lg) \in Seq(R)
    BY <2>2, GroupType
  <2>4. result' \in Seq(R)
    <3> HIDE DEF R
    <3>1. QED
      BY <2>1, <2>2, <2>3
  <2>5. TabularTypes'
    BY <1>1, <2>1, <2>4 DEF TabularTypes
  <2>6. QED
    BY <1>3, <2>1, <2>5
<1>6. CASE ToXhtml
  BY <1>6, ToXhtmlKeeps
<1>7. CASE UpdateRowspan
  BY <1>7, UpdateRowspanKeeps
<1>8. CASE CleanRowspan
  <2>1. stage = "table" /\ Next /\ UNCHANGED <<tab, nodes, result, lg, stage>>
    BY <1>8 DEF CleanRowspan
  <2>2. IInv' /\ AllPassed'
    BY <1>1, <2>1, StepGood, StepPasses
  <2>3. TabularTypes'
    BY <1>1, <2>1 DEF TabularTypes
  <2>4. QED
    BY <2>1, <2>2, <2>3 DEF TabularInv
<1>9. CASE UNCHANGED tabularVars
  <2>1. UNCHANGED <<tab, nodes, result, lg, stage>> /\ UNCHANGED vars
    BY <1>9 DEF tabularVars
  <2>2. table' = table /\ row' = row /\ col' = col /\ gone' = gone /\ status' = status
    BY <2>1 DEF vars
  <2>3. TabularTypes'
    BY <1>1, <2>1 DEF TabularTypes
  <2>4. IInv' /\ AllPassed'
    BY <1>2, <2>1
  <2>5. QED
    BY <2>1, <2>2, <2>3, <2>4 DEF TabularInv
<1>10. QED
  BY <1>4, <1>5, <1>6, <1>7, <1>8, <1>9 DEF TabularNext, Reading

LEMMA TabularsGood == TabularSpec => [](IInv /\ AllPassed)
<1>1. TabularInv => IInv /\ AllPassed
  BY DEF TabularInv
<1>2. QED
  BY <1>1, TabularInitGood, TabularStepGood, PTL DEF TabularSpec

(* Table!OnlyEmptyCellsRemoved, of the tables that LaTeX writes: whatever  *)
(* lines, \multicolumns, \multirows and rules a tabular has, clean_rowspan *)
(* removes only empty cells, each below one that spans it, and none twice. *)
THEOREM TabularsLoseOnlyEmptyCells == TabularSpec => []OnlyEmptyCellsRemoved
BY TabularsGood, OnlyEmpty, PTL

(* Table!LayoutKept, of the tables that LaTeX writes: a tabular that is    *)
(* accepted, and in which no cell spans both rows and columns, looks in    *)
(* XHTML as it did with the empty cells of LaTeX.                          *)
THEOREM TabularsLookTheSame == TabularSpec => []LayoutKept
BY TabularsGood, AcceptedIsLaidOut, PTL

=============================================================================
