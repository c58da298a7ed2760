SPECIFICATION Spec
CONSTANTS
  Code <- Loop
  Funcs <- MCFuncs
  Main <- MCMain
  Libc <- MCLibc
  BreakAt <- MCBreakAt
  CommandAt <- WhereFramed
  MaxDepth = 3
PROPERTY NextStops
