CONSTANTS
  quote = quote
  curve = curve
  instrument = instrument
  Ids = {quote, curve}
  Wrappers = {w1, w2, w3}
  None = None
  Uses <- AnyUses
  Deletable = {quote, curve}
  SplitConstruction = TRUE
  MaxDepth = 4
SYMMETRY WrapperSymmetry
SPECIFICATION Spec
INVARIANTS
  TypeOK
  LinksMatch
  NoUseAfterFree
