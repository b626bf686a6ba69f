CONSTANTS
  quote = quote
  curve = curve
  instrument = instrument
  Ids = {quote, curve, instrument}
  Wrappers = {w1, w2, w3, w4}
  None = None
  Uses <- LayeredUses
  Deletable = {quote, curve, instrument}
  SplitConstruction = FALSE
  MaxDepth = 4
SYMMETRY WrapperSymmetry
SPECIFICATION Spec
INVARIANTS
  DirtinessPropagates
  FreshWhereObserved
  RegisteredWithAll
  NothingLeaks
  NoRunaway
