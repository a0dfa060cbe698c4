SPECIFICATION Spec
CONSTANTS
  v1 = v1
  v2 = v2
  memsize = memsize
  guestinfo = guestinfo
  a = a
  b = b
  None = None
  Call = {c1}
  VM = {v1}
  Key <- MCKey
  Value = {a, b}
  Settings <- MCSettings
  Image <- MCImage
  Foreign = {}
  Target = {v1}
  Crowded = {v1}
  ListFails = FALSE
  MaxVMs = 1
PROPERTY CreateWorks
