CONSTANTS
  left = left
  right = right
  both = both
  odd = odd
  Addresses = {left, both, odd}
  Cells <- AddressCells
  Parsed = {left, both}
  Messages = {m1, m2}
  None = None
  MaxKeys = 2
  MaxCount = 1
  ObjectIDs = {quote}
SYMMETRY MessageSymmetry
SPECIFICATION SpecXL
INVARIANTS
  RangesTypeOK
  InstanceIsTheCall
  LastErrorKept
  RelevantErrorRetrieved
  OneNamePerCell
  NamedIsKnown
PROPERTIES
  UpdateIsSeen
