------------------------------- MODULE Tabular -------------------------------
(***************************************************************************)
(* rebuild_tabulars of src/src/postxml.c on one tabular or array, and what *)
(* the stylesheet tabular2xhtml and update_rowspan make of it for          *)
(* clean_rowspan (Table). TeX writes the cells of a table one after the    *)
(* other; create_line_groups gathers them into rows, and the rows between  *)
(* two rules into groups.                                                  *)
(***************************************************************************)
EXTENDS Table, Lists

CONSTANT
  Tabulars  (* sets of tables as LaTeX has them: the elements of the       *)
            (* columns model, the lines and rules, and whether \\ ends the *)
            (* last line                                                   *)

Cols(model) == Cardinality({i \in DOMAIN model : model[i] = "col"})

(* The column, from 1, in which the i-th cell of a line stands.            *)
Position(cells, i) == 1 + Total([j \in DOMAIN cells |-> cells[j].span])[i - 1]

(* What may be in a table: the fill of a cell is "deep" when its \multirow *)
(* is not its only child; a rule crosses columns of the model.             *)
ModelKinds == {"col", "vline", "intercolumn"}
LatexCells ==
  [kind : {"cell", "multicolumn"}, span : Nat \ {0}, multirow : Int,
   fill : Fills \cup {"deep"}, eols : Nat]
CLines(model) ==
  {n \in [kind : {"cline"}, from : Nat \ {0}, to : Nat] : n.from <= n.to /\ n.to <= Cols(model)}
LatexLines(model) ==
  {l \in [kind : {"line"}, cells : Seq(LatexCells)] :
     \A i \in DOMAIN l.cells : Position(l.cells, i) <= Cols(model)}
ASSUME TabularsAssumption ==
  \A ts \in Tabulars : \A t \in ts :
    /\ t.model \in Seq(ModelKinds) /\ Cols(t.model) > 0
    /\ t.body \in Seq(LatexLines(t.model) \cup CLines(t.model)
                     \cup [kind : {"hline", "setcolor", "sline"}])

VARIABLES
  tab,     (* the table as it was written in LaTeX                         *)
  nodes,   (* the children of the tabular node that are not read yet       *)
  result,  (* the children of the new node                                 *)
  lg,      (* the variables of create_line_groups                          *)
  stage    (* "tabular", "rows", "spans", "table"                          *)

tableVars == <<table, num_cols, row, col, gone, align>>
tabularVars == <<tab, nodes, result, lg, stage, vars>>

----------------------------------------------------------------------------
(* What the style files write for a table: the elements of the columns     *)
(* model around each cell, or the \multicolumn in their place; the end of  *)
(* the line in its last cell, or after it when that is a \multicolumn.     *)
Node(kind) == [kind |-> kind]
NodesFor(ks) == [i \in DOMAIN ks |-> Node(ks[i])]
ColAt(model, p) ==
  CHOOSE i \in DOMAIN model :
    /\ model[i] = "col"
    /\ Cardinality({j \in 1 .. i : model[j] = "col"}) = p
Lead(model) == SubSeq(model, 1, ColAt(model, 1) - 1)
After(model, p) ==
  SubSeq(model, ColAt(model, p) + 1,
         IF p = Cols(model) THEN Len(model) ELSE ColAt(model, p + 1) - 1)

WrittenCell(model, p, cell, ends) ==
  IF cell.kind = "multicolumn"
  THEN <<cell>> \o IF ends THEN <<Node("eol")>> ELSE <<>>
  ELSE (IF p = 1 THEN NodesFor(Lead(model)) ELSE <<>>)
       \o <<[cell EXCEPT !.eols = @ + IF ends THEN 1 ELSE 0]>>
       \o NodesFor(After(model, p))
WrittenLine(model, cells, ends) ==
  FlattenSeq([i \in DOMAIN cells |->
    WrittenCell(model, Position(cells, i), cells[i], ends /\ i = Len(cells))])
Written(t) ==
  <<Node("columnsModel")>> \o
  FlattenSeq([i \in DOMAIN t.body |->
    IF t.body[i].kind # "line" THEN <<t.body[i]>>
    ELSE WrittenLine(t.model, t.body[i].cells, i < Len(t.body) \/ t.ended)])

NewRow(grouped, rowGroup) ==
  [grouped |-> grouped, rowGroup |-> rowGroup,
   line |-> <<>>, tageol |-> FALSE, cvlinee |-> 0, c |-> 0]
TabularInit ==
  /\ \E ts \in Tabulars : tab \in ts
  /\ nodes = Written(tab) /\ result = <<>> /\ lg = NewRow(FALSE, <<>>)
  /\ stage = "tabular"
  /\ table = <<>> /\ num_cols = 0 /\ row = 1 /\ col = 1
  /\ gone = {} /\ align = [k \in {} |-> 0]
  /\ errors = {} /\ status = "waiting"

----------------------------------------------------------------------------
(* count_number_of_columns: the columns, and what comes before the first   *)
(* element between them.                                                   *)
ncols == Cols(tab.model)
nvlines ==
  LET between == {i \in DOMAIN tab.model : tab.model[i] # "col"}
  IN  IF between = {} THEN Len(tab.model) ELSE Min(between) - 1

node == Head(nodes)
Reads(kinds) == stage = "tabular" /\ nodes # <<>> /\ node.kind \in kinds

(* The end of the loop over the children: the row is complete once all its *)
(* columns or the end of its line were seen; only after a \multicolumn the *)
(* rules that close the row are counted.                                   *)
Complete(s) ==
  /\ s.c = ncols \/ s.tageol
  /\ s.cvlinee = nvlines \/ node.kind # "multicolumn"
WithRow(s) == IF s.line = <<>> THEN s.rowGroup ELSE Append(s.rowGroup, s.line)
Continue(s) ==
  /\ nodes' = Tail(nodes)
  /\ lg' = IF Complete(s) THEN NewRow(TRUE, WithRow(s)) ELSE s
  /\ UNCHANGED <<tab, stage, vars>>

Group(s) == IF s.grouped THEN <<[kind |-> "rowGroup", rows |-> s.rowGroup]>> ELSE <<>>

ReadModel ==
  /\ Reads({"columnsModel"})
  /\ result' = Append(result, node)
  /\ Continue(lg)

(* Mutant: the group is added with the last rule only. *)
AddRule_GroupStays ==
  /\ Reads({"hline", "cline"})
  /\ result' = Append(result, node)
  /\ Continue(lg)

(* A rule ends the group of rows before it. *)
AddRule ==
  /\ Reads({"hline", "cline"})
  /\ result' = result \o Group(lg) \o <<node>>
  /\ Continue([lg EXCEPT !.grouped = FALSE, !.rowGroup = <<>>])

(* find_eol looks for an end of line at any depth of the cell and removes  *)
(* it: that of a table in the cell is as good.                             *)
AddCell ==
  /\ Reads({"cell"})
  /\ Continue([lg EXCEPT !.line = Append(@, [node EXCEPT !.eols = IF @ > 0 THEN @ - 1 ELSE 0]),
                         !.tageol = @ \/ node.eols > 0])
  /\ UNCHANGED result

AddBetween ==
  /\ Reads({"vline", "intercolumn"})
  /\ Continue([lg EXCEPT !.line = Append(@, node),
                         !.cvlinee = IF lg.c = ncols \/ lg.tageol THEN @ + 1 ELSE @])
  /\ UNCHANGED result

AddMulticolumn ==
  /\ Reads({"multicolumn"})
  /\ Continue([lg EXCEPT !.line = Append(@, node), !.c = @ + node.span])
  /\ UNCHANGED result

ReadEol ==
  /\ Reads({"eol"})
  /\ Continue([lg EXCEPT !.tageol = TRUE])
  /\ UNCHANGED result

(* Rules that are neither, colours and texts between the cells are freed   *)
(* with the old node.                                                      *)
DropNode ==
  /\ Reads({"setcolor", "sline"})
  /\ Continue(lg)
  /\ UNCHANGED result

(* The row that no end of line completed is in no group. *)
LastGroup ==
  /\ stage = "tabular" /\ nodes = <<>>
  /\ result' = result \o Group(lg)
  /\ stage' = "rows"
  /\ UNCHANGED <<tab, nodes, lg, vars>>

----------------------------------------------------------------------------
(* create_col_groups, and the rows of XHTML: one for each row, one for     *)
(* each \cline and for each \hline between two groups.                     *)
ColumnsGroups == SelectSeq(tab.model, LAMBDA kind : kind # "vline")

Td(span, fill, multirow) ==
  [row_span |-> 1, col_span |-> span, fill |-> fill, multirow |-> multirow]
Empty(span) == IF span = 0 THEN <<>> ELSE <<Td(span, "none", 0)>>
Tds(nodesOfRow) ==
  LET shown == Among(nodesOfRow, {n \in Elements(nodesOfRow) : n.kind # "vline"})
  IN  [i \in DOMAIN shown |->
         IF shown[i].kind = "intercolumn" THEN Td(1, "element", 0)
         ELSE Td(shown[i].span, shown[i].fill, shown[i].multirow)]
IsGroup(i) == i \in DOMAIN result /\ result[i].kind = "rowGroup"
Trs(i) ==
  LET n == result[i] IN
  CASE n.kind = "rowGroup" -> [r \in DOMAIN n.rows |-> Tds(n.rows[r])]
    [] n.kind = "hline" /\ IsGroup(i - 1) /\ IsGroup(i + 1) ->
         <<<<Td(ncols, "element", 0)>>>>
    [] n.kind = "cline" ->
         <<Empty(n.from - 1) \o <<Td(n.to - n.from + 1, "element", 0)>>
           \o Empty(ncols - n.to)>>
    [] OTHER -> <<>>

ToXhtml ==
  /\ stage = "rows" /\ stage' = "spans"
  /\ table' = FlattenSeq([i \in DOMAIN result |-> Trs(i)])
  /\ num_cols' = Len(ColumnsGroups)
  /\ UNCHANGED <<tab, nodes, result, lg, row, col, gone, align, errors, status>>

(* update_rowspan: a \multirow makes the cell it is in span its rows; one   *)
(* that is deeper in the cell is reported.                                 *)
Spans(td) == td.multirow >= 2
UpdateRowspan ==
  /\ stage = "spans" /\ stage' = "table"
  /\ table' = [r \in DOMAIN table |-> [i \in DOMAIN table[r] |->
                 [table[r][i] EXCEPT !.row_span =
                    IF Spans(table[r][i]) /\ table[r][i].fill = "element"
                    THEN table[r][i].multirow ELSE @]]]
  /\ errors' = errors \cup IF \E k \in Cells : Spans(Cell(k)) /\ Cell(k).fill = "deep"
                          THEN {"multirow span not in table cell"} ELSE {}
  /\ status' = "building"
  /\ UNCHANGED <<tab, nodes, result, lg, num_cols, row, col, gone, align>>

CleanRowspan ==
  /\ stage = "table" /\ Next
  /\ UNCHANGED <<tab, nodes, result, lg, stage>>

TabularNext ==
  \/ ReadModel \/ AddRule \/ AddCell \/ AddBetween \/ AddMulticolumn
  \/ ReadEol \/ DropNode \/ LastGroup \/ ToXhtml \/ UpdateRowspan
  \/ CleanRowspan

TabularSpec == TabularInit /\ [][TabularNext]_tabularVars

----------------------------------------------------------------------------
(* The lines of LaTeX are the rows of the table, with the rules between    *)
(* them where they were (postxml.c, create_line_groups). Three tables are  *)
(* excepted: the cells of a last line without \\ are lost; the first end   *)
(* of line of a table in a cell also ends the row of the cell; and what    *)
(* the columns model has after the last cell of a line opens the next      *)
(* row. Even then no other cell is lost, doubled or out of order.          *)
IsTd(n) == n.kind \in {"cell", "multicolumn", "intercolumn"}
ReadCell(n) == IF n.kind = "cell" THEN [n EXCEPT !.eols = 0] ELSE n
RowOf(ns) == LET tds == SelectSeq(ns, IsTd) IN [i \in DOMAIN tds |-> ReadCell(tds[i])]
Lines ==
  LET body == SelectSeq(tab.body, LAMBDA n : n.kind \in {"line", "hline", "cline"})
  IN  [i \in DOMAIN body |->
         IF body[i].kind = "line"
         THEN RowOf(WrittenLine(tab.model, body[i].cells, FALSE))
         ELSE <<body[i]>>]
RowsRead ==
  FlattenSeq([i \in DOMAIN result |->
    CASE result[i].kind = "rowGroup" ->
           [r \in DOMAIN result[i].rows |-> RowOf(result[i].rows[r])]
      [] result[i].kind \in {"hline", "cline"} -> <<<<result[i]>>>>
      [] OTHER -> <<>>])

Unfinished == ~tab.ended /\ Last(tab.body).kind = "line"
Simple ==
  LET ends(cells) == Last(RowOf(WrittenLine(tab.model, cells, FALSE)))
  IN  \A i \in DOMAIN tab.body : tab.body[i].kind = "line" =>
        /\ ends(tab.body[i].cells).kind # "intercolumn"
        /\ \A k \in DOMAIN tab.body[i].cells : tab.body[i].cells[k].eols = 0
InOrderOf(rows) == SelectSeq(FlattenSeq(rows), LAMBDA n : n.kind # "intercolumn")

LinesKept ==
  stage = "rows" =>
    /\ IsPrefix(InOrderOf(RowsRead), InOrderOf(Lines))
    /\ IsPrefix(InOrderOf(IF Unfinished THEN Front(Lines) ELSE Lines),
                InOrderOf(RowsRead))
    /\ Simple => RowsRead \in {Lines} \cup IF Unfinished THEN {Front(Lines)} ELSE {}

=============================================================================
