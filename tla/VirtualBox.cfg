SPECIFICATION Spec
CONSTANTS
  None = None
  Call = {c1, c2}
  VM = {v1, v2}
  Target = {v1}
  CPUs = {two, four}
SYMMETRY MCSymmetry
INVARIANT TypeOK
PROPERTIES
  ListIsTrue
  CreatedIsComplete
  ImplementsContract
