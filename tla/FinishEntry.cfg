SPECIFICATION Spec
CONSTANTS
  Code <- Straight
  Funcs <- MCFuncs
  Main <- MCMain
  Libc <- MCLibc
  BreakAt <- MCBreakAt
  CommandAt <- AtEntries
  MaxDepth = 3
PROPERTY FinishReturns
