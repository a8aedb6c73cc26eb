SPECIFICATION Spec
CONSTANTS
  a = a b = b r = r w = w none = none
  Tier = {a, b}
  NoTools = {}
  NoTier = none
  Reader = {r}
  Mutator = {w}
  MaxLlm = 3
  MaxTools = 2
  MaxRounds = 3
  MaxPlan = 1
  MaxReflect = 1
  LoopRounds = 2
INVARIANT OurLimitsBlameNoTier
CHECK_DEADLOCK FALSE
