SPECIFICATION Spec
CONSTANTS
  TokensCap <- MCTokensCap
  MaxArgs <- MCMaxArgs
  Strings = {"x", "y"}
  Given <- Few
  Pie = FALSE
  Depth = 3
  Failures <- AllFailures
  Signals = {"fatal"}
CHECK_DEADLOCK FALSE
INVARIANTS HandleValid
