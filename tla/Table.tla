-------------------------------- MODULE Table --------------------------------
(***************************************************************************)
(* clean_rowspan of src/src/table.c on one table: LaTeX leaves an empty    *)
(* cell in every row that a \multirow cell spans, XHTML has none there.    *)
(* fix_table_row_span finds these cells by their column and removes them,  *)
(* set_column_alignment gives the cells that remain the alignment of their *)
(* column.                                                                 *)
(***************************************************************************)
EXTENDS Integers, Sequences, SequencesExt, FiniteSetsExt

CONSTANT
  Tables   (* the tables of XHTML: the cols in their colgroups, their rows *)

(* What a cell of a table is: its spans, and what it has for children.     *)
Fills == {"none", "space", "element"}
ASSUME TablesAssumption ==
  \A t \in Tables :
    /\ t.num_cols \in Nat
    /\ t.rows \in Seq(Seq([row_span : Nat \ {0}, col_span : Nat \ {0}, fill : Fills]))

VARIABLES
  table,    (* the rows of cells as they were built                        *)
  num_cols, (* the columns declared by colgroups                           *)
  row, col, (* the cell fix_table_row_span looks at                        *)
  gone,     (* the cells <<r, c>> whose node was removed                   *)
  align,    (* align[cell]: the column whose alignment it was given        *)
  errors,   (* the reports on stderr                                       *)
  status    (* "building", "fixing", "aligning", "done" or "fault"         *)

vars == <<table, num_cols, row, col, gone, align, errors, status>>

num_rows == Len(table)
Cells == UNION {{r} \X DOMAIN table[r] : r \in DOMAIN table}
Cell(k) == table[k[1]][k[2]]

Init ==
  /\ \E t \in Tables : table = t.rows /\ num_cols = t.num_cols
  /\ row = 1 /\ col = 1 /\ gone = {} /\ align = [k \in {} |-> 0]
  /\ errors = {} /\ status = "building"

----------------------------------------------------------------------------
(* build_cell: for a cell whose only child is a text, node->content is the *)
(* content of the cell itself, which is NULL.                              *)
HasContent(k) == Cell(k).fill # "none"
BuildTable ==
  /\ status = "building"
  /\ status' = IF \E k \in Cells : Cell(k).fill = "space" THEN "fault" ELSE "fixing"
  /\ UNCHANGED <<table, num_cols, row, col, gone, align, errors>>

(* The column in which a cell of a row starts, counted from 0: the widths  *)
(* of the cells before it.                                                 *)
Widths(r) == [c \in DOMAIN table[r] |-> table[r][c].col_span]
Total(w) ==
  LET total[c \in 0 .. Len(w)] == IF c = 0 THEN 0 ELSE total[c - 1] + w[c]
  IN  total
Column(k) == Total(Widths(k[1]))[k[2] - 1]

(* get_cell_by_index, as a set of one cell or none *)
CellByIndex(r, index) ==
  {<<r, c>> : c \in {i \in DOMAIN table[r] : Column(<<r, i>>) = index}}

(* Mutants: the content of the cell does not matter, nor its width.        *)
Refused_SpanOnly(k) == Cell(k).row_span # 1 \/ Cell(k).col_span # 1
Refused_AnyWidth(k) == HasContent(k) \/ Cell(k).row_span # 1

Refused(k) == HasContent(k) \/ Cell(k).row_span # 1 \/ Cell(k).col_span # 1

(* The rows left to a span that starts in row r. *)
Clamped(r, span) ==
  IF r + span - 1 > num_rows THEN num_rows - r + 1 ELSE span

NextCell ==
  IF col < Len(table[row]) THEN row' = row /\ col' = col + 1
  ELSE row' = row + 1 /\ col' = 1
AtCell == status = "fixing" /\ row <= num_rows /\ col <= Len(table[row])

(* A cell that spans no other row, or a row without cells. *)
SkipCell ==
  /\ status = "fixing" /\ row <= num_rows
  /\ col <= Len(table[row]) => table[row][col].row_span = 1
  /\ NextCell
  /\ UNCHANGED <<table, num_cols, gone, align, errors, status>>

(* The cells that the current one covers, from top to bottom. *)
Below(i) == CellByIndex(row + i, Column(<<row, col>>))
Rows == 1 .. Clamped(row, table[row][col].row_span) - 1
TooMany == IF Clamped(row, table[row][col].row_span) # table[row][col].row_span
           THEN {"clamped"} ELSE {}

(* The first row that has no such cell is a NULL that is read; the first   *)
(* cell that may not be removed ends the whole pass over the table.        *)
Bad(i) == Below(i) = {} \/ \E k \in Below(i) : Refused(k)
ReadMissing ==
  /\ AtCell
  /\ \E i \in Rows : Below(i) = {} /\ \A j \in 1 .. i - 1 : ~Bad(j)
  /\ status' = "fault"
  /\ UNCHANGED <<table, num_cols, row, col, gone, align, errors>>
Refuse ==
  /\ AtCell
  /\ \E i \in Rows : Below(i) # {} /\ Bad(i) /\ \A j \in 1 .. i - 1 : ~Bad(j)
  /\ errors' = errors \cup {"refused"}
  /\ status' = "aligning"
  /\ UNCHANGED <<table, num_cols, row, col, gone, align>>
RemoveBelow ==
  /\ AtCell /\ table[row][col].row_span > 1
  /\ \A i \in Rows : ~Bad(i)
  /\ LET covered == UNION {Below(i) : i \in Rows}
     IN  /\ errors' = errors \cup TooMany
                      \cup IF covered \cap gone # {} THEN {"twice"} ELSE {}
         /\ gone' = gone \cup covered
  /\ table' = [table EXCEPT ![row][col].row_span = Clamped(row, @)]
  /\ NextCell
  /\ UNCHANGED <<num_cols, align, status>>
Fixed ==
  /\ status = "fixing" /\ row > num_rows
  /\ status' = "aligning"
  /\ UNCHANGED <<table, num_cols, row, col, gone, align, errors>>

(* set_column_alignment *)
Align ==
  /\ status = "aligning" /\ status' = "done"
  /\ align' = [k \in UNION {CellByIndex(r, c) : r \in DOMAIN table,
                                                c \in 0 .. num_cols - 1} \ gone
                 |-> Column(k)]
  /\ UNCHANGED <<table, num_cols, row, col, gone, errors>>

Next ==
  \/ BuildTable \/ SkipCell \/ ReadMissing \/ Refuse \/ RemoveBelow \/ Fixed
  \/ Align

Spec == Init /\ [][Next]_vars

----------------------------------------------------------------------------
(* Removing the cells below a span never removes anything but an empty     *)
(* cell, in the row and the column where LaTeX left it for the span; and   *)
(* spans that overlap are refused before the cell below both is freed a    *)
(* second time: no table provokes the report "clean_rowspan is trying to   *)
(* remove a cell twice" (table.c).                                         *)
OnlyEmptyCellsRemoved ==
  /\ "twice" \notin errors
  /\ \A k \in gone :
    /\ Cell(k).fill = "none" /\ Cell(k).row_span = 1 /\ Cell(k).col_span = 1
    /\ \E a \in Cells \ gone :
         /\ a[1] < k[1] /\ k[1] < a[1] + Cell(a).row_span
         /\ Column(a) = Column(k)

(* Where a browser puts the cells that are left, row by row: each in the   *)
(* first column of its row that no cell before it covers.  One beyond the  *)
(* cells that LaTeX had in the row is nowhere.                             *)
Width(r) == Total(Widths(r))[Len(table[r])]
FirstFree(taken, r) ==
  {x \in 0 .. Width(r) : /\ <<r, x>> \notin taken
                         /\ \A y \in 0 .. x - 1 : <<r, y>> \in taken}
Area(k, x) ==
  (k[1] .. k[1] + Cell(k).row_span - 1) \X (x .. x + Cell(k).col_span - 1)
Put(done, k) ==
  LET free == FirstFree(done.taken, k[1])
  IN  IF k \in gone THEN done
      ELSE [taken |-> done.taken \cup UNION {Area(k, x) : x \in free},
            at    |-> done.at \cup {<<k, x>> : x \in free}]

PutRow(done, r) ==
  LET puts[c \in 0 .. Len(table[r])] ==
        IF c = 0 THEN done ELSE Put(puts[c - 1], <<r, c>>)
  IN  puts[Len(table[r])]
Placed ==
  LET puts[r \in 0 .. num_rows] ==
        IF r = 0 THEN [taken |-> {}, at |-> {}] ELSE PutRow(puts[r - 1], r)
  IN  puts[num_rows].at

(* A table that is accepted, and whose spanning cells are one column wide, *)
(* looks as it did in LaTeX: the cells that are left, and only they, are   *)
(* shown, each in the column where LaTeX had it.                           *)
NarrowSpans == \A k \in Cells : Cell(k).row_span > 1 => Cell(k).col_span = 1
LayoutKept ==
  status = "done" /\ "refused" \notin errors /\ NarrowSpans =>
    Placed = {<<k, Column(k)>> : k \in Cells \ gone}

(* "has_content is 0 only if one TEXT child which is only space" (comment  *)
(* of build_cell): a cell of spaces is one without content, and tables     *)
(* that have one are built.                                                *)
SpacesAreNoContent ==
  (\E k \in Cells : Cell(k).fill = "space") => status # "fault"

=============================================================================
