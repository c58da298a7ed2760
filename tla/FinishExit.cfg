SPECIFICATION Spec
CONSTANTS
  InstrAddrs <- MCInstrAddrs
  LoadBase <- MCLoadBase
  Mapped <- MCMapped
  Text <- MCText
  MaxBps = 2
  AllowSharing = FALSE
  SilentSignals = FALSE
  Written <- MCWritten
  PokePatched = FALSE
  Flow <- ExitFlow
  Raise <- NoRaise
  Handlers = {}
  Line <- LoopLine
  Reported <- MCReported
  Entry <- MCEntry
  TempAddrs <- MCTempAddrs
  Used <- FewCommands
  Killable = FALSE
  OtherSignals = FALSE
INVARIANT UnsetWhileActive
