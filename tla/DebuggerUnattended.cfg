SPECIFICATION Spec
CONSTANTS
  InstrAddrs <- MCInstrAddrs
  LoadBase <- MCLoadBase
  Mapped <- MCMapped
  Text <- MCText
  MaxBps = 1
  AllowSharing = TRUE
  SilentSignals = TRUE
  Written <- MCWritten
  PokePatched = FALSE
  Flow <- LoopFlow
  Raise <- NoRaise
  Handlers = {}
  Line <- LoopLine
  Reported <- MCReported
  Entry <- MCEntry
  TempAddrs <- MCTempAddrs
  Used <- SilentUsed
  Killable = TRUE
  OtherSignals = TRUE
PROPERTY BPSpec
