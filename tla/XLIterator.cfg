CONSTANTS
  quote = quote
  curve = curve
  instrument = instrument
  Ids = {quote, curve}
  Wrappers = {w1, w2, w3}
  None = None
  Uses <- TwoLayers
  Deletable = {quote, curve}
  SplitConstruction = FALSE
  MaxDepth = 3
  Ranges = {cell1, cell2}
  CellRanges = {cell1, cell2}
SYMMETRY XLSymmetry
SPECIFICATION SpecXL
INVARIANTS
  IteratorSurvives
