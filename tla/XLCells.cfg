CONSTANTS
  quote = quote
  curve = curve
  instrument = instrument
  Ids = {quote, curve, instrument}
  Wrappers = {w1, w2, w3}
  None = None
  Uses <- LayeredUses
  Deletable = {}
  SplitConstruction = FALSE
  MaxDepth = 4
  Ranges = {cell1, cell2}
  CellRanges = {cell1, cell2}
SYMMETRY XLSymmetry
SPECIFICATION SpecXL
INVARIANTS
  TypeOKXL
  StoredIsResident
PROPERTIES
  OrphansCollected
  OnlyOrphansCollected
