SPECIFICATION Spec
CONSTANTS
  TokensCap <- MCTokensCap
  MaxArgs <- MCMaxArgs
  Strings = {"x", "y"}
  Given <- Few
  Pie = TRUE
  Depth = 3
  Failures <- AllFailures
  Signals = {"silent"}
CHECK_DEADLOCK FALSE
INVARIANTS Launched
