SPECIFICATION Spec
CONSTANTS
  TokensCap <- MCTokensCap
  MaxArgs <- MCMaxArgs
  Strings = {"x", "y"}
  Given <- Few
  Pie = TRUE
  Depth = 3
  Failures <- AllFailures
  Signals = {"fatal"}
INVARIANTS InBounds OneReader Launched PromptTrue
PROPERTIES Delivered StartEnds
CHECK_DEADLOCK FALSE
