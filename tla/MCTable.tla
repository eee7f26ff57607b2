------------------------------ MODULE MCTable ------------------------------
EXTENDS Tabular

LatexCell(kind, span, rows, f, eols) ==
  [kind |-> kind, span |-> span, multirow |-> rows, fill |-> f, eols |-> eols]
Plain(rows, f) == LatexCell("cell", 1, rows, f, 0)
Wide(rows, f) == LatexCell("multicolumn", 2, rows, f, 0)
WithTable == LatexCell("cell", 1, 0, "element", 1)

MCCells == {Plain(0, "none"), Plain(0, "element"), Plain(2, "element"),
            Plain(3, "element"), Wide(0, "none"), Wide(0, "element"),
            Wide(2, "element")}
RowsOf(cells) == UNION {[1 .. n -> cells] : n \in 1 .. 2}
Line(cells) == [kind |-> "line", cells |-> cells]
HLine == [kind |-> "hline"]
CLine(from, to) == [kind |-> "cline", from |-> from, to |-> to]
Tabular(model, body, ended) == [model |-> model, body |-> body, ended |-> ended]

(* Every table of two or three lines that starts with a spanning cell and  *)
(* another one.                                                            *)
ThreeColumns == <<"vline", "col", "vline", "col", "col">>
SpanTabulars ==
  {Tabular(ThreeColumns, <<Line(<<Plain(n, "element"), a>>), Line(r2)>> \o l3, TRUE) :
     n \in 2 .. 3, a \in MCCells, r2 \in RowsOf(MCCells),
     l3 \in {<<>>} \cup {<<Line(r3)>> : r3 \in RowsOf(MCCells)}}

(* Every place of rules, cells with tables, columns models and ends around *)
(* two lines of two columns.                                               *)
Models == {<<"col", "col">>, <<"col", "vline", "col", "vline">>,
           <<"vline", "col", "intercolumn", "col">>,
           <<"col", "intercolumn", "col", "intercolumn">>}
RuleCells == {Plain(0, "none"), Plain(2, "element"), WithTable,
              LatexCell("multicolumn", 1, 0, "element", 0)}
RuleRows == [1 .. 2 -> RuleCells] \cup {<<Wide(0, "element")>>, <<Plain(2, "deep")>>}
Rulings == {<<>>, <<HLine>>, <<HLine, HLine>>, <<CLine(2, 2)>>,
            <<CLine(1, 1)>>, <<[kind |-> "sline"], CLine(1, 2)>>}
Frame(above, below, ended) == [above |-> above, below |-> below, ended |-> ended]
Frames == {Frame(<<>>, <<>>, TRUE), Frame(<<[kind |-> "setcolor"]>>, <<>>, FALSE),
           Frame(<<HLine>>, <<HLine>>, TRUE)}
RuleTabulars ==
  {Tabular(m, f.above \o <<Line(r1)>> \o between \o <<Line(r2)>> \o f.below, f.ended) :
     m \in Models, r1 \in RuleRows, r2 \in RuleRows, between \in Rulings, f \in Frames}

MCTabulars == {SpanTabulars, RuleTabulars}

NoTables == {}

=============================================================================
