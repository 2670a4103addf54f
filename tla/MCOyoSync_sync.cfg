SPECIFICATION Spec
CONSTANTS
  red = red  blue = blue  first = first
  Choice = {red, blue}
  First = first
  RollbackWindow = 1
  MaxReorgDepth = 2
  BatchBlocks = 2
  MaxPerCall = 3
  MaxHeight = 4
  Env = {}
SYMMETRY Branches
INVARIANTS
  TypeOK StoresAgree  DepthBounded
PROPERTIES
  MirrorsAChain
