CONSTANTS
  engineA = engineA
  swap = swap
  book = book
  desk = desk
  Groups = {book, desk}
  Instruments = {swap}
  Engines = {engineA}
  Paths = {p, q}
  GroupLists <- Listed
  SaveLists <- SavedLists
  MaxNesting = 3
  Cut = Cut
  None = None
SYMMETRY FileSymmetry
SPECIFICATION Spec
INVARIANTS
  TypeOK
  SavesTheClosure
  LoadRestores
