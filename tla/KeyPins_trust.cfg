SPECIFICATION Spec
CONSTANTS
  p1 = p1
  k1 = k1
  k2 = k2
  t1 = t1
  t2 = t2
  None = None
  Peers = {p1}
  Keys = {k1, k2}
  Tasks = {t1, t2}
SYMMETRY KeySymmetry
VIEW KeyView
INVARIANTS
  TypeOK
  PinnedCards
  SendsVouched
  UnflaggedVouched
PROPERTIES
  OnlyUserUnflags
