SPECIFICATION Spec
CONSTANTS
  v1 = v1
  v2 = v2
  memsize = memsize
  guestinfo = guestinfo
  a = a
  b = b
  None = None
  Call = {c1, c2}
  VM = {v1, v2}
  Key <- MCKey
  Value = {a, b}
  Settings <- MCSettings
  Image <- MCImage
  Foreign <- MCForeign
  Target <- MCTarget
  Crowded = {v1}
  ListFails = FALSE
  MaxVMs = 2
SYMMETRY MCSymmetry
INVARIANTS
  TypeOK
  ToldIsTrue
PROPERTIES
  NotEditedWhileRunning
  ImplementsContract
