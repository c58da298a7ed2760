SPECIFICATION LSpec
CONSTANTS
  InstrAddrs <- MCTwoInstrAddrs
  LoadBase <- MCLoadBase
  Mapped <- MCMapped
  Text <- MCText
  MaxBps = 2
  AllowSharing = TRUE
  SilentSignals = FALSE
  Written <- MCWritten
  PokePatched = FALSE
INVARIANT EnabledStops
