CONSTANTS
  quote = quote
  curve = curve
  instrument = instrument
  Ids = {quote, curve, instrument}
  Wrappers = {w1, w2, w3}
  None = None
  Uses <- LayeredUses
  Deletable = {}
  SplitConstruction = FALSE
  MaxDepth = 4
SPECIFICATION FairSpec
INVARIANTS
  AlwaysFresh
PROPERTIES
  CallsReturn
  ImplementsObjectStore
