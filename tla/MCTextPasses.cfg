SPECIFICATION TextSpec
CONSTANTS
  Documents <- MCDocuments
  LineGap = 1
  Accents <- MCAccents
INVARIANTS
  GlyphsKept
  WordsAreThoseOfThePaper
  TextsHaveOneFont
  AccentsRead
