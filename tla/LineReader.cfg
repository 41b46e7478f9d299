SPECIFICATION Spec
CONSTANTS
  a = a
  b = b
  c = c
  nl = nl
  junk = junk
  NUL = NUL
  NULL = NULL
  NewLine = nl
  Chars <- MCChars
  Texts <- MCTexts
  Garbage <- MCGarbage
  LineLimit = 3
  MaxEntries = 3
INVARIANTS
  TypeOK
  PipeUnlessTorn
PROPERTIES
  LineIsFormattedLine
