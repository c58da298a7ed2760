SPECIFICATION Spec
CONSTANTS
  InstrAddrs <- MCInstrAddrs
  LoadBase <- MCLoadBase
  Mapped <- MCMapped
  Text <- MCText
  MaxBps = 2
  AllowSharing = TRUE
  SilentSignals = FALSE
  Written <- MCWritten
  PokePatched = FALSE
  Flow <- FaultFlow
  Raise <- FaultRaise
  Handlers <- FaultHandlers
  Line <- LoopLine
  Reported <- MCReported
  Entry <- MCEntry
  TempAddrs <- MCTempAddrs
  Used <- NoStepping
  Killable = FALSE
  OtherSignals = FALSE
INVARIANT FaultForwarded
PROPERTIES CommandReturns ContinueMoves
