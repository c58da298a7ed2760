SPECIFICATION Spec
CONSTANTS
  Code <- Straight
  Funcs <- MCFuncs
  Main <- MCMain
  Libc <- MCLibc
  BreakAt <- MCBreakAt
  CommandAt <- WhereFramed
  MaxDepth = 3
INVARIANT BacktraceTrue
PROPERTIES NextNotDeeper NextStops FinishReturns
