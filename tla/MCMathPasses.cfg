SPECIFICATION Spec
CONSTANTS
  Class <- MCClass
  Font <- MCFont
  Variant <- MCVariant
  Pieces <- MCPieces
  Formulas <- MCFormulas
INVARIANTS
  FormulaIsRead
  EndsOnlyForFatal
  OnlyParamsAreStale
