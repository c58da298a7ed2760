----------------------------- MODULE MCDebugger -----------------------------
(***************************************************************************)
(* Instances of Debugger for TLC.  Instructions are two bytes long, so the *)
(* address behind an int3 is no instruction.  The executable is position-  *)
(* independent, mapped at 10.                                              *)
(***************************************************************************)
EXTENDS Debugger, TLC

MCLoadBase == 10
MCMapped == {12, 14, 16, 18}
MCText == [a \in MCMapped |-> a + 70]
MCInstrAddrs == {2, 4}
MCTempAddrs == {14, 16}
MCEntry == 12
MCWritten == {7}
MCReported == {12, 14, 16}

\* A program that loops for ever, over two source lines.
LoopFlow == (12 :> {14}) @@ (14 :> {16}) @@ (16 :> {12, 14}) @@ (18 :> {18})
LoopLine == (12 :> 1) @@ (14 :> 1) @@ (16 :> 2) @@ (18 :> 0)
NoRaise == [a \in MCMapped |-> "none"]

\* A program that ends: at 18, in the C library.
ExitFlow == (12 :> {14}) @@ (14 :> {16}) @@ (16 :> {18}) @@ (18 :> {})

\* A program that may fault at 14 or abort at 16 on its way to the end.
FaultFlow == (12 :> {14, 16, 18}) @@ (14 :> {16}) @@ (16 :> {18}) @@ (18 :> {})
FaultHandlers == {12}
FaultRaise == (12 :> "none") @@ (14 :> "segv") @@ (16 :> "abrt") @@ (18 :> "none")

\* The commands given in a run.
Manage == {"break", "enable", "disable", "delete"}
All == Manage \cup {"run", "restart", "continue", "exit", "stepi", "step", "finish", "next",
                   "register", "break line"}
NoStepping == Manage \cup {"run", "restart", "continue", "memory", "exit"}
LineAtAbort == NoStepping \cup {"break line"}
NoDisarming == {"break", "run", "restart", "continue", "stepi", "step", "finish"}
FewCommands == {"break", "disable", "run", "continue", "step", "finish"}
StepDisabled == {"break", "disable", "run", "step", "stepi"}
SilentUsed == {"break", "break line", "run", "step", "next"}

=============================================================================
