SPECIFICATION Spec
CONSTANTS
  HasDwarf = TRUE
  Typed <- MCTyped
  Scripts <- MCScripts
  Descs <- MCDescs
  Found <- Twins
  Covers <- OwnOnly
  MaxBps = 3
  MaxOpen = 3
  Argvs <- MCArgvs
  LineOf <- MCLineOf
  Words <- MCWords
  Texts <- MCTexts
  Sources = {"a.c"}
  None = None
INVARIANTS OthersSpared EachDeleted OffersMeant
PROPERTIES CommandEnds OptionsObeyed
