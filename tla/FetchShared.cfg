SPECIFICATION Spec
CONSTANTS
  p1 = p1
  p2 = p2
  None = None
  Payload <- MCPayload
  MaxSize = 2
  Size <- MCSize
  Fetch = {f1, f2}
  Dest = {d1}
  Inode = {i1, i2, i3}
SYMMETRY MCSymmetry
INVARIANTS
  TypeOK
  NeverTorn
PROPERTIES
  AlonePublishesWhole
  StrayOnlyByKill
  ImplementsAtomicCache
