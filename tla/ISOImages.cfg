SPECIFICATION Spec
CONSTANTS
  seed = seed
  seedISO = seedISO
  a = a
  b = b
  None = None
  Call = {c1, c2}
  Path <- MCPath
  WithISO <- MCWithISO
  Arg = {a, b}
  Word <- MCWord
  Words <- MCWords
  Holding <- MCHolding
  Installer <- MCInstaller
SYMMETRY MCSymmetry
INVARIANT TypeOK
PROPERTIES
  AddedOnce
  ReplyIsTrue
  KeptIfNothingToAdd
