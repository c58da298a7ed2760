SPECIFICATION Spec
CONSTANTS
  Executables <- MCExecutables
  Base = 1000
  Contexts = {0, 3}
  Asked = {0, 4, 7, 9, 10}
  Bits = 16
  SourceLen = 10
  None = None
INVARIANT ContextReturns
