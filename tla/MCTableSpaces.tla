--------------------------- MODULE MCTableSpaces ---------------------------
EXTENDS Table

XhtmlCell(f) == [row_span |-> 1, col_span |-> 1, fill |-> f]
SpaceTables ==
  {[num_cols |-> 2, rows |-> <<<<XhtmlCell(f)>>, <<XhtmlCell(g), XhtmlCell(h)>>>>] :
     f \in Fills, g \in Fills, h \in Fills}

=============================================================================
