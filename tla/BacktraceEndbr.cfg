SPECIFICATION Spec
CONSTANTS
  Code <- Endbr
  Funcs <- MCFuncs
  Main <- MCMain
  Libc <- MCLibc
  BreakAt <- MCBreakAt
  CommandAt <- WhereFramed
  MaxDepth = 3
INVARIANT BacktraceTrue
