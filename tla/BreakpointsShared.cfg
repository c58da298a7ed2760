SPECIFICATION LSpec
CONSTANTS
  InstrAddrs <- MCInstrAddrs
  LoadBase <- MCLoadBase
  Mapped <- MCMapped
  Text <- MCText
  MaxBps = 3
  AllowSharing = TRUE
  SilentSignals = FALSE
  Written <- MCWritten
  PokePatched = FALSE
INVARIANTS MemoryIntact NoDangling ListsLinked
PROPERTY PatchStepsJustified
