SPECIFICATION Spec
CONSTANTS
  HasDwarf = TRUE
  Typed <- PrefixTyped
  Scripts <- MCScripts
  Descs <- PrefixDescs
  Found <- PrefixFound
  Covers <- PrefixCovers
  MaxBps = 3
  MaxOpen = 3
  Argvs <- MCArgvs
  LineOf <- MCLineOf
  Words <- MCWords
  Texts <- MCTexts
  Sources = {"a.c"}
  None = None
INVARIANT OthersSpared
