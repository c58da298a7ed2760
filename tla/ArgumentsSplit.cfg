SPECIFICATION Spec
CONSTANTS
  TokensCap <- MCTokensCap
  MaxArgs <- MCMaxArgs
  Strings = {"x", "y"}
  Given <- SplitFull
  Pie = TRUE
  Depth = 3
  Failures <- AllFailures
  Signals = {"fatal"}
CHECK_DEADLOCK FALSE
INVARIANTS InBounds
