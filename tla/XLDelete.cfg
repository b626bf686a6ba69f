CONSTANTS
  quote = quote
  curve = curve
  instrument = instrument
  Ids = {quote, curve}
  Wrappers = {w1, w2, w3}
  None = None
  Uses <- TwoLayers
  Deletable = {quote, curve}
  SplitConstruction = FALSE
  MaxDepth = 3
  Ranges = {cell1, VBA}
  CellRanges = {cell1}
SPECIFICATION FairSpecXL
INVARIANTS
  ResidentsLive
PROPERTIES
  CollectionEnds
