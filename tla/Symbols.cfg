SPECIFICATION Spec
CONSTANTS
  Executables <- MCExecutables
  Base = 1000
  Contexts <- MCContexts
  Asked = {0, 4, 7, 9, 10}
  Bits = 16
  SourceLen = 10
  None = None
INVARIANTS CallNamed ArrowShown AddressBreaks LineBreaks ContextTrue
