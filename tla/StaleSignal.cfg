SPECIFICATION Spec
CONSTANTS
  InstrAddrs <- MCInstrAddrs
  LoadBase <- MCLoadBase
  Mapped <- MCMapped
  Text <- MCText
  MaxBps = 2
  AllowSharing = FALSE
  SilentSignals = FALSE
  Written <- MCWritten
  PokePatched = FALSE
  Flow <- FaultFlow
  Raise <- FaultRaise
  Handlers = {}
  Line <- LoopLine
  Reported <- MCReported
  Entry <- MCEntry
  TempAddrs <- MCTempAddrs
  Used <- NoStepping
  Killable = FALSE
  OtherSignals = FALSE
INVARIANT SignalIsOwn
