CONSTANTS
  Handles = {h1}
  Targets = {t1, t2}
  Objects = {o1, o2}
  None = None
  MaxFile = 2
SYMMETRY HandleSymmetry
SPECIFICATION Spec
INVARIANTS
  TypeOK
  LinkAsNamed
  CoercionsAgree
PROPERTIES
  LoadLinks
