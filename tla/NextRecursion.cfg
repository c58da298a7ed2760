SPECIFICATION Spec
CONSTANTS
  Code <- Recursive
  Funcs <- MCFuncs
  Main <- MCMain
  Libc <- MCLibc
  BreakAt <- MCBreakAt
  CommandAt <- WhereFramed
  MaxDepth = 3
PROPERTY NextNotDeeper
