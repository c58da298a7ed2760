SPECIFICATION Spec
CONSTANTS
  WordSize <- MCWordSize
  Multiplier <- MCMultiplier
  Sizes <- MCSizes
  Keys <- MCKeys
  Objs = {o1, o2, o3}
  NULL = NULL
INVARIANTS IndexInRange Owned
PROPERTIES MapSpec
