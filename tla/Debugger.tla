------------------------------- MODULE Debugger -------------------------------
(***************************************************************************)
(* The engine of vdbg (debugger.c, stepping.c, the handlers of commands.c  *)
(* that use it) together with the tracee and the kernel between them.      *)
(*                                                                         *)
(* The debugger is one thread that blocks in two places: reading the next  *)
(* command, and waitpid in wait_for_signal.  ctl is where it stands; an    *)
(* action is the code between two points at which the tracee can act or    *)
(* the breakpoint table is seen by another function.  The tracee executes  *)
(* one instruction per action.                                             *)
(***************************************************************************)
EXTENDS Breakpoints

CONSTANTS
  Flow,          \* Flow[a]: where the instruction at a may lead; {}: it exits
  Raise,         \* Raise[a]: "none", or the signal the instruction at a raises
  Handlers,      \* where the tracee handles SIGSEGV and SIGABRT; {}: nowhere
  Line,          \* Line[a]: the source line of a, 0 when libdwfl has none
  Reported,      \* addresses of the modules setup_dwfl reported to libdwfl
  Entry,         \* where the tracee stops after exec
  TempAddrs,     \* addresses `finish' and `next' may want to stop at
  Used,          \* bound: the commands the user gives
  Killable,      \* may somebody else kill the tracee?
  OtherSignals   \* may the tracee get a signal wait_for_signal has no case for?

ASSUME DebuggerAssumption ==
  /\ Flow \in [Mapped -> SUBSET Mapped]
  /\ Raise \in [Mapped -> {"none", "segv", "abrt"}]
  /\ Handlers \subseteq Mapped
  /\ Line \in [Mapped -> Nat]
  /\ Reported \subseteq Mapped
  /\ Entry \in Mapped
  /\ TempAddrs \subseteq Addrs
  /\ Killable \in BOOLEAN
  /\ OtherSignals \in BOOLEAN

VARIABLES
  pc,         \* the tracee's rip
  mode,       \* how it was resumed: "cont" or "step"
  event,      \* why it stopped, until waitpid reports it
  owed,       \* it was stopped by a fatal signal it has not received yet
  ctl,        \* where the debugger stands
  cmd,        \* the command it executes
  sig,        \* dbg->pending_signal
  line,       \* `line' of step_in
  goal,       \* where `finish' or `next' want to stop
  toDelete    \* to_delete of step_over, should_remove_breakpoint of step_out

traceeVars == <<pc, mode, event, owed>>
cmdVars == <<cmd, sig, line, goal, toDelete>>
vars == <<bpmVars, traceeVars, ctl, cmdVars>>

Places == {"prompt", "spawn", "resolve", "over", "single", "stepwait", "replant",
           "print", "loop", "cont", "contwait", "unset",
           "aborted", "undefined", "exited"}

DTypeOK ==
  /\ BPTypeOK
  /\ pc \in Nat
  /\ mode \in {"cont", "step"}
  /\ event \in {"none", "brk", "trace", "segv", "abrt", "silent", "other"}
  /\ owed \in BOOLEAN
  /\ ctl \in Places
  /\ cmd \in {"none", "run", "continue", "stepi", "step", "finish", "next"}
  /\ sig \in {"none", "segv", "abrt"}
  /\ line \in Nat
  /\ goal \subseteq TempAddrs
  /\ toDelete \subseteq goal

Init ==
  /\ BPInit
  /\ pc = Entry /\ mode = "cont" /\ event = "none" /\ owed = FALSE
  /\ ctl = "prompt" /\ cmd = "none" /\ sig = "none" /\ line = 0
  /\ goal = {} /\ toDelete = {}

\* get_pc.  PTRACE_GETREGS fails unless the tracee is stopped; the structure
\* is then read uninitialised.
ReadPc == IF proc = "stopped" THEN {pc} ELSE Addrs \cup {NULL}

GoTo(p) == ctl' = p /\ UNCHANGED <<traceeVars, cmdVars>>

-----------------------------------------------------------------------------
(***************************************************************************)
(* Commands, read at the prompt.                                           *)
(***************************************************************************)
Prompt(c) == ctl = "prompt" /\ c \in Used

break(c) ==
  /\ Prompt(c)
  /\ \E i \in InstrAddrs : set_breakpoint(i)
  /\ GoTo("prompt")

cmd_break == break("break")

\* get_line_from_pc.  Outside a module libdwfl knows its sanity check aborts.
NoModule == -1
get_line_from_pc(p) == IF p \in Reported THEN Line[p] ELSE NoModule

\* The command is over before it has done anything.
give_up(c, ends) ==
  /\ Prompt(c) /\ active
  /\ UNCHANGED bpmVars
  /\ \E end \in ends : GoTo(end)

\* break <line>: with a tracee, the file is the one of its pc.
cmd_break_line ==
  \E known \in IF active THEN {get_line_from_pc(p) # NoModule : p \in ReadPc} ELSE {TRUE} :
    IF known THEN break("break line") ELSE give_up("break line", {"aborted"})

cmd_enable ==
  /\ Prompt("enable")
  /\ enable_all_breakpoints \/ \E b \in Ids : bp_enable(b)
  /\ GoTo("prompt")

cmd_disable ==
  /\ Prompt("disable")
  /\ disable_all_breakpoints \/ \E b \in Ids : bp_disable(b)
  /\ GoTo("prompt")

cmd_delete ==
  /\ Prompt("delete")
  /\ remove_all_breakpoints \/ \E b \in Ids : remove_breakpoint(b)
  /\ GoTo("prompt")

\* run and restart.  With an active tracee, run asks first; "n" changes nothing.
cmd_run ==
  /\ \/ Prompt("run") /\ ~active /\ UNCHANGED bpmVars
     \/ (Prompt("run") \/ Prompt("restart")) /\ kill_tracee
  /\ ctl' = "spawn"
  /\ event' = "none"
  /\ UNCHANGED <<pc, mode, owed, cmdVars>>

cmd_continue ==
  /\ Prompt("continue") /\ active
  /\ ctl' = "over"
  /\ cmd' = "continue"
  /\ UNCHANGED <<bpmVars, traceeVars, sig, line, goal, toDelete>>

\* Mutant: there is no step where there is no location.
always_over(p) == "over"

\* single_step_instruction_with_breakpoint_check: a location at the pc is
\* stepped over, patched or not.
with_breakpoint_check(p) == IF p \in locs THEN "over" ELSE "single"

cmd_stepi ==
  /\ Prompt("stepi") /\ active
  /\ \E p \in ReadPc : ctl' = with_breakpoint_check(p)
  /\ cmd' = "stepi"
  /\ UNCHANGED <<bpmVars, traceeVars, sig, line, goal, toDelete>>

\* step_in up to its loop.  Without a line the command ends with a message.
cmd_step ==
  /\ Prompt("step") /\ active
  /\ \E p \in ReadPc :
       LET l == get_line_from_pc(p)
       IN  IF l = NoModule THEN ctl' = "aborted" /\ UNCHANGED line
           ELSE l # 0 /\ ctl' = "loop" /\ line' = l
  /\ cmd' = "step"
  /\ UNCHANGED <<bpmVars, traceeVars, sig, goal, toDelete>>

\* step_out and step_over: temporary breakpoints at the addresses S, then
\* continue_execution.  toDelete is where set_temp_bp_location returned true.
temp_then_continue(c, S) ==
  /\ Prompt(c) /\ active
  /\ set_temp_bp_location(S)
  /\ ctl' = "over"
  /\ cmd' = c
  /\ goal' = S
  /\ toDelete' = S \ locs
  /\ UNCHANGED <<traceeVars, sig, line>>

cmd_finish == \E a \in TempAddrs : temp_then_continue("finish", {a})

\* step_over needs a module, a function and a line; without a function it
\* returns, without the others it aborts.
cmd_next ==
  \E p \in ReadPc :
    IF get_line_from_pc(p) \in {0, NoModule}
    THEN give_up("next", IF p \in Reported THEN {"prompt", "aborted"} ELSE {"aborted"})
    ELSE \E S \in SUBSET TempAddrs : temp_then_continue("next", S)

cmd_mem ==
  /\ Prompt("memory")
  /\ \E a \in Mapped, v \in Written : write_memory(a, v)
  /\ GoTo("prompt")

\* register write rip <value>, what set_pc does too: PTRACE_GETREGS, the value
\* into its place, PTRACE_SETREGS; both fail unless the tracee is stopped.
\* Bound: the user jumps to an instruction of a module libdwfl knows.
set_register_value(v) == pc' = IF proc = "stopped" THEN v ELSE pc

cmd_reg ==
  /\ Prompt("register") /\ active
  /\ \E v \in Reported : set_register_value(v)
  /\ UNCHANGED <<bpmVars, mode, event, owed, ctl, cmdVars>>

\* exit, and EOF: dbg_kill_tracee, dbg_free.
cmd_exit ==
  /\ Prompt("exit")
  /\ IF active THEN kill_tracee ELSE UNCHANGED bpmVars
  /\ GoTo("exited")

\* The debugger has exited, aborted or run into undefined behaviour.
ended == ctl \in {"exited", "aborted", "undefined"} /\ UNCHANGED vars

-----------------------------------------------------------------------------
(***************************************************************************)
(* Starting the tracee and resuming it.                                    *)
(***************************************************************************)
spawn ==
  /\ ctl = "spawn"
  /\ spawn_tracee
  /\ pc' = Entry /\ mode' = "cont" /\ event' = "none" /\ owed' = FALSE
  /\ ctl' = "resolve"
  /\ cmd' = "run"
  /\ UNCHANGED <<sig, line, goal, toDelete>>

resolve_pending_breakpoints ==
  /\ ctl = "resolve"
  /\ \/ resolve_pending_breakpoint /\ GoTo("resolve")
     \/ todo = {} /\ UNCHANGED bpmVars /\ GoTo("over")

\* Where the code goes after a single step or instead of one.
AfterStep == CASE cmd = "stepi" -> "print" [] cmd = "step" -> "loop" [] OTHER -> "cont"

\* Mutant: the single step is done with the int3 in place.
step_without_lift ==
  /\ ctl = "over"
  /\ \E p \in ReadPc : GoTo(IF p \in patched THEN "single" ELSE AfterStep)
  /\ UNCHANGED bpmVars

\* execute_step_over_loc, up to the single step.
execute_step_over_loc ==
  /\ ctl = "over"
  /\ \E p \in ReadPc :
       IF p \in patched THEN lift(p) /\ GoTo("single")
       ELSE UNCHANGED bpmVars /\ GoTo(AfterStep)

\* A ptrace request that resumes the tracee, delivering signal s, or fails.  The
\* signal kills the tracee or is handled.
ptrace_resume(m, s) ==
  IF proc # "stopped" THEN UNCHANGED <<bpmVars, traceeVars>>
  ELSE /\ \/ resume /\ pc' \in IF s = "none" THEN {pc} ELSE Handlers
          \/ s # "none" /\ die /\ pc' = pc
       /\ mode' = m
       /\ event' = "none"
       /\ owed' = (owed /\ s = "none")

single_step_instruction ==
  /\ ctl = "single"
  /\ ptrace_resume("step", "none")
  /\ ctl' = "stepwait"
  /\ UNCHANGED cmdVars

loc_enable_after_step ==
  /\ ctl = "replant"
  /\ replant
  /\ GoTo(AfterStep)

\* print_source_at_current_pc at the end of stepi.
print_source_at_current_pc ==
  /\ ctl = "print"
  /\ \E p \in ReadPc : GoTo(IF get_line_from_pc(p) = NoModule THEN "aborted" ELSE "prompt")
  /\ UNCHANGED bpmVars

\* The loop of step_in; print_source asserts that there is a line.
step_in_loop ==
  /\ ctl = "loop"
  /\ \E p \in ReadPc :
       LET l == get_line_from_pc(p)
       IN  GoTo(CASE l = line -> with_breakpoint_check(p)
                  [] l # line /\ l \in {0, NoModule} -> "aborted"
                  [] OTHER -> "prompt")
  /\ UNCHANGED bpmVars

\* Mutant: continue_execution returns without waiting.
continue_no_wait ==
  /\ ctl = "cont"
  /\ ptrace_resume("cont", sig)
  /\ sig' = "none"
  /\ ctl' = "unset"
  /\ UNCHANGED <<cmd, line, goal, toDelete>>

\* The end of continue_execution.
continue_execution ==
  /\ ctl = "cont"
  /\ ptrace_resume("cont", sig)
  /\ sig' = "none"
  /\ ctl' = "contwait"
  /\ UNCHANGED <<cmd, line, goal, toDelete>>

\* Mutant: the temporary breakpoints stay.
unset_nothing ==
  /\ ctl = "unset"
  /\ ctl' = "prompt" /\ goal' = {}
  /\ UNCHANGED <<bpmVars, traceeVars, cmd, sig, line, toDelete>>

\* The temporary breakpoints go, one unset_temp_bp_location after the other.
unset_temps ==
  /\ ctl = "unset"
  /\ \/ /\ toDelete = {}
        /\ ctl' = "prompt" /\ goal' = {}
        /\ UNCHANGED <<bpmVars, traceeVars, toDelete>>
     \/ /\ toDelete # {} /\ ~active
        /\ ctl' = "aborted"
        /\ UNCHANGED <<bpmVars, traceeVars, goal, toDelete>>
     \/ \E a \in toDelete :
          /\ unset_temp_bp_location(a)
          /\ toDelete' = toDelete \ {a}
          /\ UNCHANGED <<traceeVars, ctl, goal>>
  /\ UNCHANGED <<cmd, sig, line>>

-----------------------------------------------------------------------------
(***************************************************************************)
(* wait_for_signal.                                                        *)
(***************************************************************************)

\* Mutant: execute_step_over_loc forgets to plant the int3 again.
return_unplanted == IF ctl = "contwait" THEN "unset" ELSE AfterStep

\* Where wait_for_signal returns to.
Return ==
  IF ctl = "contwait" THEN "unset"
  ELSE IF lifted # NULL THEN "replant" ELSE AfterStep

\* waitpid reports a stop for the reason e.
Waited(e) == ctl \in {"stepwait", "contwait"} /\ proc = "stopped" /\ event = e

Report(p) == ctl' = p /\ event' = "none" /\ UNCHANGED <<mode, owed, cmd, line, goal, toDelete>>

\* ECHILD: there is no tracee any more.
wait_no_child ==
  /\ ctl \in {"stepwait", "contwait"} /\ proc = "none"
  /\ UNCHANGED bpmVars
  /\ GoTo(Return)

\* Mutant: the step-over goes on as if its location were still there.
death_unnoticed ==
  /\ ctl \in {"stepwait", "contwait"}
  /\ reap_tracee
  /\ Report(Return)
  /\ UNCHANGED <<pc, sig>>

\* WIFEXITED and WIFSIGNALED.  When execute_step_over_loc is waiting, the
\* location it is about to enable again has been freed.
wait_death ==
  /\ ctl \in {"stepwait", "contwait"}
  /\ reap_tracee
  /\ Report(IF Return = "replant" THEN "undefined" ELSE Return)
  /\ UNCHANGED <<pc, sig>>

\* Where the breakpoint was: int3 is one byte long.
\* Mutant: the pc is not put back.
behind_int3 == pc
at_int3 == pc - 1

\* assert(loc) and "how is it possible that a bp_location doesn't have a bp".
print_bp_hit_message_at_loc(a) == a \in locs /\ (a \in temp \/ members[a] # {})

\* handle_sigtrap, SI_KERNEL and TRAP_BRKPT: the message, then the source.
wait_breakpoint ==
  /\ Waited("brk")
  /\ pc' = at_int3
  /\ Report(IF print_bp_hit_message_at_loc(pc') /\ get_line_from_pc(pc') # NoModule
            THEN Return ELSE "aborted")
  /\ UNCHANGED <<bpmVars, sig>>

\* handle_sigtrap, TRAP_TRACE.
wait_trace ==
  /\ Waited("trace")
  /\ Report(Return)
  /\ UNCHANGED <<bpmVars, pc, sig>>

\* Mutant: the signal is not kept for the tracee.
fault_dropped ==
  /\ \/ Waited("segv") /\ Report(IF get_line_from_pc(pc) = NoModule THEN "aborted" ELSE Return)
     \/ Waited("abrt") /\ Report(Return)
  /\ UNCHANGED <<bpmVars, pc, sig>>

\* SIGSEGV, with the source of the pc, and SIGABRT, without.
wait_fault ==
  /\ \/ Waited("segv") /\ Report(IF get_line_from_pc(pc) = NoModule THEN "aborted" ELSE Return)
     \/ Waited("abrt") /\ Report(Return)
  /\ sig' = event
  /\ UNCHANGED <<bpmVars, pc>>

\* SIGWINCH, SIGCHLD, SIGURG, SIGALRM: PTRACE_CONT and no other waitpid.
wait_silent ==
  /\ Waited("silent")
  /\ resume
  /\ ctl' = Return /\ event' = "none" /\ mode' = "cont"
  /\ UNCHANGED <<pc, owed, cmdVars>>

\* The default case: the signal is reported and dropped.
wait_other ==
  /\ Waited("other")
  /\ Report(Return)
  /\ UNCHANGED <<bpmVars, pc, sig>>

-----------------------------------------------------------------------------
(***************************************************************************)
(* The tracee and the kernel (external).                                   *)
(***************************************************************************)
Stops(e) == stop /\ event' = e /\ UNCHANGED <<mode, ctl, cmdVars>>

execute_int3 ==
  /\ pc \in Mapped /\ mem[pc] = INT3
  /\ Stops("brk")
  /\ pc' = pc + 1
  /\ UNCHANGED owed

execute_fault ==
  /\ pc \in Mapped => mem[pc] # INT3 /\ Raise[pc] = "segv"
  /\ Stops("segv")
  /\ owed' = TRUE
  /\ UNCHANGED pc

execute_abort ==
  /\ pc \in Mapped /\ mem[pc] # INT3 /\ Raise[pc] = "abrt"
  /\ Stops("abrt")
  /\ owed' = TRUE
  /\ pc' \in Flow[pc]

execute_plain ==
  /\ proc = "running" /\ pc \in Mapped /\ mem[pc] # INT3 /\ Raise[pc] = "none"
  /\ pc' \in Flow[pc]
  /\ IF mode = "step" THEN Stops("trace")
     ELSE UNCHANGED <<bpmVars, mode, event, ctl, cmdVars>>
  /\ UNCHANGED owed

execute_exit ==
  /\ proc = "running" /\ pc \in Mapped /\ mem[pc] # INT3 /\ Raise[pc] = "none"
  /\ Flow[pc] = {}
  /\ die
  /\ UNCHANGED <<traceeVars, ctl, cmdVars>>

execute == execute_int3 \/ execute_fault \/ execute_abort \/ execute_plain \/ execute_exit

receive_signal ==
  /\ \/ SilentSignals /\ Stops("silent")
     \/ OtherSignals /\ Stops("other")
  /\ UNCHANGED <<pc, owed>>

killed ==
  /\ Killable
  /\ die
  /\ UNCHANGED <<traceeVars, ctl, cmdVars>>

-----------------------------------------------------------------------------
user ==
  \/ cmd_break \/ cmd_break_line \/ cmd_enable \/ cmd_disable \/ cmd_delete
  \/ cmd_run \/ cmd_continue \/ cmd_stepi \/ cmd_step \/ cmd_finish \/ cmd_next
  \/ cmd_mem \/ cmd_reg \/ cmd_exit \/ ended

debugger ==
  \/ spawn \/ resolve_pending_breakpoints \/ execute_step_over_loc
  \/ single_step_instruction \/ loc_enable_after_step \/ print_source_at_current_pc
  \/ step_in_loop \/ continue_execution \/ unset_temps
  \/ wait_no_child \/ wait_death \/ wait_breakpoint \/ wait_trace \/ wait_fault
  \/ wait_silent \/ wait_other

Next == user \/ debugger \/ execute \/ receive_signal \/ killed

\* The debugger thread runs when it is not blocked, and a running tracee
\* executes its instructions; nobody is obliged to type, signal or kill.
Spec == Init /\ [][Next]_vars /\ WF_vars(debugger) /\ WF_vars(execute)

-----------------------------------------------------------------------------
(***************************************************************************)
(* Properties.  BPSpec is one of them: the engine keeps the contract of    *)
(* the breakpoint table, at every step of every command.                   *)
(***************************************************************************)

\* When a command is over, however it ended, nothing of it is left: no
\* temporary location, no lifted patch and, unless a silent signal let the
\* tracee run on, no report nobody waited for; the tracee then stands on an
\* instruction, not behind the int3 it hit.
PromptQuiet ==
  ctl = "prompt" =>
    /\ Quiet /\ toDelete = {}
    /\ \/ SilentSignals
       \/ event = "none" /\ (proc = "stopped" => pc \in Mapped)

\* The prompt is not given while the tracee runs ("without giving user the
\* prompt", the comment on the signals wait_for_signal forwards).
PromptAttended == ctl = "prompt" => proc # "running"

\* No assertion or sanity check of the engine fails and no freed location is
\* used: print_bp_hit_message_at_loc finds a location at every int3,
\* unset_temp_bp_location an active tracee, libdwfl a module.
AbortFree == ctl \notin {"aborted", "undefined"}

\* The location execute_step_over_loc arms again is the one it has disarmed:
\* the tracee's death in between does not free it.
LocationOutlives == ctl # "undefined"

\* assert(dbg->state == ACTIVE) in unset_temp_bp_location.
UnsetWhileActive == ctl = "unset" /\ toDelete # {} => active

\* The tracee does not run past an enabled breakpoint: only the single step
\* of a step command or of execute_step_over_loc executes the instruction.
NoSkippedBreakpoint ==
  [][ proc = "running" /\ mode = "cont" /\ pc' # pc /\ event' # "brk" =>
        \A b \in enable : location[b] # pc ]_vars

\* A tracee stopped by SIGSEGV or SIGABRT is resumed with that signal.
FaultForwarded == ctl = "cont" /\ owed => sig # "none"

\* ... and no tracee is sent a signal it did not raise ("saving the signal to
\* pass it to the tracee").
SignalIsOwn == ctl = "cont" /\ sig # "none" => owed

\* While finish and next wait, the addresses they want to stop at are armed
\* ("`finish` sets a temp bp at the return address"), except where a location
\* was found whose breakpoints are disabled or deleted.
GoalArmed ==
  cmd \in {"finish", "next"} /\ proc = "running" /\ mode = "cont" =>
    \A a \in goal \ patched : a \in locs \ temp /\ members[a] \cap enable = {}

\* Every command ends at the prompt.
CommandReturns == ctl \notin {"prompt", "exited"} ~> ctl \in {"prompt", "exited"}

\* All locations are armed, none is a disabled or deleted breakpoint's.
AllArmed == locs \subseteq patched \cup {lifted}

\* The loop of step leaves the line it started on, when no unarmed location
\* can make it turn without stepping.
StepReturns == ctl = "loop" /\ AllArmed ~> ctl \in {"prompt", "aborted", "undefined"}

\* ... or in any case ("Step one source line").
StepAlwaysReturns == ctl = "loop" ~> ctl \in {"prompt", "aborted", "undefined"}

Standing(c, a) ==
  cmd = c /\ ctl \in {"over", "single"} /\ proc = "stopped" /\ pc = a

\* continue executes the instruction it stands on, or it faults, also when a
\* breakpoint is planted there.
ContinueMoves ==
  \A a \in Mapped : Standing("continue", a) ~> (pc \in Mapped \ {a} \/ owed \/ ~active)

\* So does stepi, unless it stands on an unarmed location.
StepiMoves ==
  \A a \in Mapped :
    Standing("stepi", a) /\ a \notin locs \ (patched \cup {lifted})
      ~> (pc \in Mapped \ {a} \/ owed \/ ~active)

=============================================================================
