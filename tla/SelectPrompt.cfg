SPECIFICATION Spec
CONSTANTS
  None = None
  Call = {c1}
  Slow = FALSE
INVARIANTS
  TypeOK
  NeverGuessed
  AnswersAreFresh
  CapabilitiesDecide
