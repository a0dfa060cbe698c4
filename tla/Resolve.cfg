SPECIFICATION Spec
CONSTANTS
  Any = Any
  Catalog <- MCCatalog
  Boxes <- MCBoxes
  Unknown <- MCUnknown
  Arch <- MCArch
CHECK_DEADLOCK FALSE
INVARIANTS
  TypeOK
  ResolvedIsUsable
  PicksBestVariant
