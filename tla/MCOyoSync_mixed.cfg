SPECIFICATION Spec
CONSTANTS
  red = red  blue = blue  first = first
  Choice = {red, blue}
  First = first
  RollbackWindow = 1
  MaxReorgDepth = 2
  BatchBlocks = 2
  MaxPerCall = 2
  MaxHeight = 3
  Env = {}
SYMMETRY Branches
INVARIANTS OneBranch
