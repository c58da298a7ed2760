SPECIFICATION LSpec
CONSTANTS
  InstrAddrs <- MCTwoInstrAddrs
  LoadBase <- MCLoadBase
  Mapped <- MCMapped
  Text <- MCText
  MaxBps = 2
  AllowSharing = FALSE
  SilentSignals = FALSE
  Written <- MCWritten
  PokePatched = TRUE
INVARIANT WritesKept
