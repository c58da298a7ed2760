---------------------------- MODULE DebuggerProofs ----------------------------
(***************************************************************************)
(* Proofs about the engine, for every program, every user and any number   *)
(* of breakpoints.  The engine is first shown to keep the contract of the  *)
(* breakpoint table (Spec => BPSpec), so that what is proved of the table  *)
(* holds of every command; what the engine promises beyond the table       *)
(* follows from where it stands when it touches it.                        *)
(***************************************************************************)
EXTENDS Debugger, BreakpointsProofs

\* The two calls of wait_for_signal.
Waits == {"stepwait", "contwait"}

\* What DTypeOK says of the engine's own variables.
EngineTypeOK ==
  /\ pc \in Nat
  /\ mode \in {"cont", "step"}
  /\ event \in {"none", "brk", "trace", "segv", "abrt", "silent", "other"}
  /\ owed \in BOOLEAN
  /\ ctl \in Places
  /\ cmd \in {"none", "run", "continue", "stepi", "step", "finish", "next"}
  /\ sig \in {"none", "segv", "abrt"}
  /\ line \in Nat
  /\ goal \subseteq TempAddrs
  /\ toDelete \subseteq goal

\* Which part of the table each place of the engine has in hand.
Phase ==
  /\ todo # {} => ctl = "resolve"
  /\ lifted # NULL => ctl \in {"single", "stepwait", "replant", "aborted"}
  /\ ctl = "replant" => lifted # NULL
  /\ ctl = "spawn" => proc = "none"
  /\ ctl = "resolve" => cmd = "run"
  /\ ctl = "print" => cmd = "stepi"
  /\ ctl = "loop" => cmd = "step"

\* to_delete and should_remove_breakpoint name the temporary locations of a
\* live tracee, and only finish and next have any.
Temps ==
  /\ active => temp = toDelete
  /\ ctl \in {"prompt", "spawn", "resolve"} => toDelete = {}
  /\ toDelete # {} => cmd \in {"finish", "next"}

\* The engine touches the table only while the tracee stands still, unless a
\* silent signal was forwarded.
Standstill ==
  /\ proc = "running" => SilentSignals \/ ctl \in Waits
  /\ event = "silent" => SilentSignals
  /\ event = "brk" => pc # 0

Conduct == EngineTypeOK /\ Phase /\ Temps /\ Standstill

EngineInv == TableInv /\ Conduct

\* Without silent signals every stop is waited for: the tracee runs only
\* under the wait its resumption belongs to, and it stops on an instruction or
\* right behind an int3.
WaitedFor ==
  /\ event # "none" => ctl \in Waits /\ proc # "none"
  /\ proc = "running" =>
       /\ event = "none"
       /\ mode = "cont" => ctl = "contwait"
       /\ mode = "step" => ctl = "stepwait"
  /\ proc \in {"stopped", "running"} =>
       IF event = "brk" THEN pc - 1 \in Mapped ELSE pc \in Mapped

\* A signal the tracee is owed is in pending_signal or about to be put there,
\* or the tracee is dead.
Owing ==
  /\ ctl \in {"resolve", "over", "cont"} => active
  /\ ctl \in {"single", "stepwait"} /\ lifted = NULL => cmd \in {"stepi", "step"}
  /\ owed => \/ sig # "none" \/ event \in {"segv", "abrt"} \/ ~active
             \/ proc = "zombie" /\ ctl = "contwait"

\* From the call of set_temp_bp_location to the end of the wait.
Underway == {"over", "single", "stepwait", "replant", "cont", "contwait"}

\* While finish and next are under way their addresses have locations, and the
\* temporary ones among them are armed.
TempArmed == temp \subseteq patched \cup {lifted}
Aimed ==
  active /\ cmd \in {"finish", "next"} /\ ctl \in Underway => goal \subseteq locs

-----------------------------------------------------------------------------
(***************************************************************************)
(* The engine keeps the contract of the table.                             *)
(***************************************************************************)

\* At the prompt no command is under way and the tracee stands still.
LEMMA PromptContract ==
  ASSUME EngineInv, ctl = "prompt"
  PROVE  Quiet /\ Attended
<1>1. todo = {} /\ lifted = NULL
  BY DEF EngineInv, Conduct, Phase
<1>2. temp = {}
  BY DEF EngineInv, Conduct, Temps, TableInv, Life, Lists
<1>3. Attended
  BY DEF EngineInv, Conduct, Standstill, Attended, Waits
<1> QED
  BY <1>1, <1>2, <1>3 DEF Quiet

\* Where the engine goes after a single step depends on the command alone.
LEMMA AfterStepPlace ==
  /\ AfterStep \in {"print", "loop", "cont"}
  /\ AfterStep = "print" <=> cmd = "stepi"
  /\ AfterStep = "loop" <=> cmd = "step"
BY DEF AfterStep

\* Where wait_for_signal returns to.
LEMMA ReturnPlace ==
  ASSUME ctl \in Waits
  PROVE  /\ ctl = "contwait" => Return = "unset"
         /\ ctl = "stepwait" /\ lifted # NULL => Return = "replant"
         /\ ctl = "stepwait" /\ lifted = NULL => Return = AfterStep
BY DEF Return, Waits

\* The loop of step_in steps on, over a location or not, or ends.
LEMMA LoopPlace ==
  ASSUME step_in_loop
  PROVE  /\ ctl = "loop" /\ UNCHANGED <<traceeVars, cmdVars, bpmVars>>
         /\ ctl' \in {"over", "single", "aborted", "prompt"}
         /\ ctl' = "over" => locs # {}
<1>1. \A p : /\ with_breakpoint_check(p) \in {"over", "single"}
             /\ with_breakpoint_check(p) = "over" => locs # {}
  BY DEF with_breakpoint_check
<1>2. PICK p \in ReadPc :
        GoTo(CASE get_line_from_pc(p) = line -> with_breakpoint_check(p)
               [] get_line_from_pc(p) # line /\ get_line_from_pc(p) \in {0, NoModule} -> "aborted"
               [] OTHER -> "prompt")
  BY DEF step_in_loop
<1>3. ctl' \in {with_breakpoint_check(p), "aborted", "prompt"} /\ UNCHANGED <<traceeVars, cmdVars>>
  BY <1>2 DEF GoTo
<1> QED
  BY <1>1, <1>3 DEF step_in_loop

\* The commands that only manage breakpoints, memory or registers.
BreakCommand == \E c \in {"break", "break line"} : break(c)
ManageCommand ==
  BreakCommand \/ cmd_enable \/ cmd_disable \/ cmd_delete \/ cmd_mem

\* The commands that set temporary breakpoints.
TempCommand ==
  \E c \in {"finish", "next"}, S \in SUBSET TempAddrs : temp_then_continue(c, S)

\* The commands that end before they have done anything, for want of a line.
GivesUp ==
  /\ ctl = "prompt" /\ active
  /\ \E p \in ReadPc : get_line_from_pc(p) \in {0, NoModule}
  /\ UNCHANGED bpmVars
  /\ \E end \in {"prompt", "aborted"} : GoTo(end)

\* What the user may do, by its effect.
LEMMA UserCases ==
  ASSUME user
  PROVE  \/ ManageCommand \/ GivesUp \/ cmd_run \/ cmd_exit \/ cmd_reg \/ ended
         \/ cmd_continue \/ cmd_stepi \/ cmd_step \/ TempCommand
<1>1. cmd_break => BreakCommand
  BY DEF cmd_break, BreakCommand
<1>2. cmd_break_line => BreakCommand \/ GivesUp
  <2> SUFFICES ASSUME cmd_break_line, ~BreakCommand PROVE GivesUp
    OBVIOUS
  <2>1. ~break("break line")
    BY DEF BreakCommand
  <2>2. PICK known \in IF active THEN {get_line_from_pc(p) # NoModule : p \in ReadPc}
                       ELSE {TRUE} : ~known /\ give_up("break line", {"aborted"})
    BY <2>1 DEF cmd_break_line
  <2>3. active /\ ctl = "prompt" /\ UNCHANGED bpmVars /\ GoTo("aborted")
    BY <2>2 DEF give_up, Prompt
  <2>4. \E p \in ReadPc : get_line_from_pc(p) = NoModule
    BY <2>2, <2>3
  <2> QED
    BY <2>3, <2>4 DEF GivesUp
<1>3. cmd_finish => TempCommand
  BY DEF cmd_finish, TempCommand
<1>4. cmd_next => TempCommand \/ GivesUp
  <2> SUFFICES ASSUME cmd_next PROVE TempCommand \/ GivesUp
    OBVIOUS
  <2>1. PICK p \in ReadPc :
          IF get_line_from_pc(p) \in {0, NoModule}
          THEN give_up("next", IF p \in Reported THEN {"prompt", "aborted"} ELSE {"aborted"})
          ELSE \E S \in SUBSET TempAddrs : temp_then_continue("next", S)
    BY DEF cmd_next
  <2> QED
    BY <2>1 DEF give_up, Prompt, GivesUp, TempCommand
<1> QED
  BY <1>1, <1>2, <1>3, <1>4 DEF user, ManageCommand

\* They are operations of the table, given at the prompt ...
LEMMA ManageMaps ==
  ASSUME EngineInv, ManageCommand
  PROVE  Quiet /\ Attended /\ manage /\ ctl = "prompt"
<1>1. ctl = "prompt"
  BY DEF ManageCommand, BreakCommand, break, cmd_enable, cmd_disable, cmd_delete, cmd_mem, Prompt
<1>2. manage
  BY DEF ManageCommand, BreakCommand, break, cmd_enable, cmd_disable, cmd_delete, cmd_mem, manage
<1> QED
  BY <1>1, <1>2, PromptContract

\* ... that leave the tracee alone and no command under way.
LEMMA ManageEffect ==
  ASSUME EngineInv, ManageCommand
  PROVE  /\ ctl = "prompt" /\ GoTo("prompt")
         /\ UNCHANGED <<proc, active, todo, temp, lifted>>
<1>1. GoTo("prompt") /\ temp = {} /\ ctl = "prompt"
  BY ManageMaps
  DEF ManageCommand, BreakCommand, break, cmd_enable, cmd_disable, cmd_delete, cmd_mem, Quiet
<1>2. ASSUME NEW i \in InstrAddrs, set_breakpoint(i)
      PROVE  UNCHANGED <<proc, active, todo, temp, lifted>>
  BY <1>2 DEF set_breakpoint, attach, tableVars
<1>3. ASSUME NEW b \in Ids, bp_enable(b) \/ bp_disable(b) \/ remove_breakpoint(b)
      PROVE  UNCHANGED <<proc, active, todo, temp, lifted>>
  BY <1>3 DEF bp_enable, bp_disable, remove_breakpoint, tableVars
<1>4. ASSUME enable_all_breakpoints \/ disable_all_breakpoints
      PROVE  UNCHANGED <<proc, active, todo, temp, lifted>>
  BY <1>4 DEF enable_all_breakpoints, disable_all_breakpoints, tableVars
<1>5. ASSUME remove_all_breakpoints
      PROVE  UNCHANGED <<proc, active, todo, temp, lifted>>
  BY <1>1, <1>5 DEF remove_all_breakpoints, loc_free
<1>6. ASSUME NEW a \in Mapped, NEW v \in Written, write_memory(a, v)
      PROVE  UNCHANGED <<proc, active, todo, temp, lifted>>
  BY <1>6 DEF write_memory, tableVars
<1> QED
  BY <1>1, <1>2, <1>3, <1>4, <1>5, <1>6
  DEF ManageCommand, BreakCommand, break, cmd_enable, cmd_disable, cmd_delete, cmd_mem

\* run, restart and exit kill the tracee from the prompt, or find none.
LEMMA KillMaps ==
  ASSUME EngineInv, cmd_run \/ cmd_exit
  PROVE  /\ (Quiet /\ Attended /\ manage) \/ UNCHANGED bpmVars
         /\ ctl = "prompt"
<1>1. ctl = "prompt"
  BY DEF cmd_run, cmd_exit, Prompt
<1>2. kill_tracee \/ UNCHANGED bpmVars
  BY DEF cmd_run, cmd_exit
<1> QED
  BY <1>1, <1>2, PromptContract DEF manage

\* What they leave behind.
LEMMA KillEffect ==
  ASSUME EngineInv, cmd_run \/ cmd_exit
  PROVE  /\ proc' = "none" /\ active' = FALSE
         /\ todo' = {} /\ lifted' = NULL /\ ctl = "prompt"
<1>1. ctl = "prompt" /\ todo = {} /\ lifted = NULL
  BY KillMaps, PromptContract DEF Quiet
<1>2. CASE kill_tracee
  BY <1>1, <1>2 DEF kill_tracee, cleanup_at_tracee_death
<1>3. CASE ~active /\ UNCHANGED bpmVars
  BY <1>1, <1>3 DEF bpmVars, EngineInv, TableInv, Life, BPTypeOK
<1> QED
  BY <1>2, <1>3 DEF cmd_run, cmd_exit

\* finish and next.
LEMMA TempMaps ==
  ASSUME EngineInv, TempCommand
  PROVE  Quiet /\ Attended /\
         \E c \in {"finish", "next"}, S \in SUBSET TempAddrs : temp_then_continue(c, S)
<1>1. \E c \in {"finish", "next"}, S \in SUBSET TempAddrs : temp_then_continue(c, S)
  BY DEF TempCommand
<1>2. ctl = "prompt"
  BY <1>1 DEF temp_then_continue, Prompt
<1> QED
  BY <1>1, <1>2, PromptContract

\* Every step of the engine, the tracee and the kernel is a step of the table
\* under its contract, or leaves the table alone.
LEMMA StepMaps ==
  ASSUME EngineInv, [Next]_vars
  PROVE  [BPNext]_bpmVars
<1> USE DEF Waits
<1>1. CASE UNCHANGED vars
  BY <1>1 DEF vars
<1>2. CASE ManageCommand
  BY <1>2, ManageMaps DEF BPNext
<1>3. CASE cmd_run \/ cmd_exit
  BY <1>3, KillMaps DEF BPNext
<1>4. CASE TempCommand
  <2>1. PICK S \in SUBSET TempAddrs : set_temp_bp_location(S)
    BY <1>4, TempMaps DEF temp_then_continue
  <2>2. S \in SUBSET Addrs
    BY DebuggerAssumption
  <2>3. manage
    BY <2>1, <2>2 DEF manage
  <2> QED
    BY <1>4, <2>3, TempMaps DEF BPNext
<1>5. CASE cmd_continue \/ cmd_stepi \/ cmd_step \/ cmd_reg \/ ended
  BY <1>5 DEF cmd_continue, cmd_stepi, cmd_step, cmd_reg, ended, vars
<1>16. CASE GivesUp
  BY <1>16 DEF GivesUp
<1>6. CASE spawn
  <2>1. todo = {} /\ lifted = NULL /\ proc = "none"
    BY <1>6 DEF spawn, EngineInv, Conduct, Phase
  <2>2. temp = {}
    BY <2>1 DEF EngineInv, TableInv, Life, Lists
  <2> QED
    BY <1>6, <2>1, <2>2 DEF spawn, BPNext, Quiet
<1>7. CASE resolve_pending_breakpoints
  BY <1>7 DEF resolve_pending_breakpoints, BPNext
<1>8. CASE execute_step_over_loc
  <2>1. todo = {} /\ lifted = NULL /\ Attended
    BY <1>8
    DEF execute_step_over_loc, EngineInv, Conduct, Phase, Standstill, Attended
  <2>2. UNCHANGED bpmVars \/ \E a \in Addrs : lift(a)
    BY <1>8 DEF execute_step_over_loc, EngineInv, TableInv, BPTypeOK
  <2> QED
    BY <2>1, <2>2 DEF BPNext
<1>9. CASE single_step_instruction \/ continue_execution
  <2>1. todo = {}
    BY <1>9 DEF single_step_instruction, continue_execution, EngineInv, Conduct, Phase
  <2>2. UNCHANGED bpmVars \/ resume \/ die
    BY <1>9 DEF single_step_instruction, continue_execution, ptrace_resume
  <2> QED
    BY <2>1, <2>2 DEF BPNext
<1>10. CASE loc_enable_after_step
  <2>1. lifted # NULL /\ Attended
    BY <1>10
    DEF loc_enable_after_step, EngineInv, Conduct, Phase, Standstill, Attended
  <2> QED
    BY <1>10, <2>1 DEF loc_enable_after_step, BPNext
<1>11. CASE print_source_at_current_pc \/ step_in_loop
  BY <1>11 DEF print_source_at_current_pc, step_in_loop
<1>12. CASE unset_temps
  <2>1. todo = {} /\ lifted = NULL /\ Attended
    BY <1>12 DEF unset_temps, EngineInv, Conduct, Phase, Standstill, Attended
  <2>2. UNCHANGED bpmVars \/ \E a \in toDelete : unset_temp_bp_location(a)
    BY <1>12 DEF unset_temps
  <2>3. \A a \in toDelete : unset_temp_bp_location(a) => a \in temp /\ a \in Addrs
    BY DEF unset_temp_bp_location, EngineInv, TableInv, BPTypeOK, Conduct, Temps
  <2> QED
    BY <2>1, <2>2, <2>3 DEF BPNext
<1>13. CASE wait_death \/ wait_silent
  <2>1. todo = {}
    BY <1>13 DEF wait_death, wait_silent, Waited, EngineInv, Conduct, Phase
  <2> QED
    BY <1>13, <2>1 DEF wait_death, wait_silent, BPNext
<1>14. CASE wait_no_child \/ wait_breakpoint \/ wait_trace \/ wait_fault \/ wait_other
  BY <1>14 DEF wait_no_child, wait_breakpoint, wait_trace, wait_fault, wait_other
<1>15. CASE execute \/ receive_signal \/ killed
  <2>1. stop \/ die \/ UNCHANGED bpmVars
    BY <1>15
    DEF execute, execute_int3, execute_fault, execute_abort, execute_plain, execute_exit,
        receive_signal, killed, Stops
  <2> QED
    BY <2>1 DEF BPNext
<1> QED
  BY <1>1, <1>2, <1>3, <1>4, <1>5, <1>6, <1>7, <1>8, <1>9, <1>10, <1>11, <1>12, <1>13,
     <1>14, <1>15, <1>16, UserCases
  DEF Next, debugger

-----------------------------------------------------------------------------
(***************************************************************************)
(* The engine's own invariant.                                             *)
(***************************************************************************)

\* The commands that touch nothing but breakpoints, memory or registers.
LEMMA ManageConduct ==
  ASSUME EngineInv, ManageCommand \/ cmd_reg
  PROVE  Conduct'
<1>1. CASE ManageCommand
  BY <1>1, ManageEffect
  DEF EngineInv, Conduct, EngineTypeOK, Phase, Temps, Standstill, GoTo, traceeVars, cmdVars
<1>2. CASE cmd_reg
  <2>1. \A v \in Reported : v \in Nat /\ v # 0
    BY ConstantsAssumption, DebuggerAssumption DEF Addrs, NULL
  <2> QED
    BY <1>2, <2>1
    DEF cmd_reg, set_register_value, EngineInv, Conduct, EngineTypeOK, Phase, Temps,
        Standstill, bpmVars, cmdVars, Waits, Prompt
<1> QED
  BY <1>1, <1>2

\* run, restart and exit.
LEMMA KillConduct ==
  ASSUME EngineInv, cmd_run \/ cmd_exit
  PROVE  Conduct'
<1>1. UNCHANGED <<pc, mode, owed, cmdVars>> /\ event' \in {event, "none"}
  BY DEF cmd_run, cmd_exit, GoTo, traceeVars
<1>2. ctl' \in {"spawn", "exited"}
  BY DEF cmd_run, cmd_exit, GoTo
<1>3. proc' = "none" /\ active' = FALSE /\ todo' = {} /\ lifted' = NULL /\ ctl = "prompt"
  BY KillEffect
<1>4. EngineTypeOK'
  BY <1>1, <1>2 DEF EngineInv, Conduct, EngineTypeOK, Places, cmdVars
<1>5. Phase' /\ Temps' /\ Standstill'
  BY <1>1, <1>2, <1>3 DEF EngineInv, Conduct, Phase, Temps, Standstill, cmdVars
<1> QED
  BY <1>4, <1>5 DEF Conduct

\* The commands that resume the tracee, up to their first step.
LEMMA CommandConduct ==
  ASSUME EngineInv, cmd_continue \/ cmd_stepi \/ cmd_step \/ TempCommand \/ GivesUp
  PROVE  Conduct'
<1> USE DEF Waits, Places, traceeVars, bpmVars
<1>0. ctl = "prompt"
  BY DEF cmd_continue, cmd_stepi, cmd_step, TempCommand, temp_then_continue, GivesUp, Prompt
<1>1. CASE cmd_continue
  BY <1>0, <1>1
  DEF cmd_continue, EngineInv, Conduct, EngineTypeOK, Phase, Temps, Standstill
<1>2. CASE cmd_stepi
  <2>1. ctl' \in {"over", "single"}
    BY <1>2 DEF cmd_stepi, with_breakpoint_check
  <2> QED
    BY <1>0, <1>2, <2>1
    DEF cmd_stepi, EngineInv, Conduct, EngineTypeOK, Phase, Temps, Standstill
<1>3. CASE cmd_step
  <2>1. ctl' \in {"loop", "aborted"} /\ line' \in Nat
    BY <1>3, DebuggerAssumption
    DEF cmd_step, get_line_from_pc, NoModule, EngineInv, Conduct, EngineTypeOK
  <2> QED
    BY <1>0, <1>3, <2>1
    DEF cmd_step, EngineInv, Conduct, EngineTypeOK, Phase, Temps, Standstill
<1>4. CASE TempCommand
  <2>1. PICK c \in {"finish", "next"}, S \in SUBSET TempAddrs : temp_then_continue(c, S)
    BY <1>4, TempMaps
  <2>2. /\ temp' = S \ locs /\ toDelete' = S \ locs /\ goal' = S
        /\ UNCHANGED <<proc, active, todo, lifted>>
    BY <2>1 DEF temp_then_continue, set_temp_bp_location
  <2>3. ctl' = "over" /\ cmd' = c /\ UNCHANGED <<pc, mode, event, owed, sig, line>>
    BY <2>1 DEF temp_then_continue
  <2> QED
    BY <1>0, <2>2, <2>3
    DEF EngineInv, Conduct, EngineTypeOK, Phase, Temps, Standstill
<1>5. CASE GivesUp
  BY <1>0, <1>5
  DEF GivesUp, GoTo, cmdVars, EngineInv, Conduct, EngineTypeOK, Phase, Temps, Standstill
<1> QED
  BY <1>1, <1>2, <1>3, <1>4, <1>5

\* spawn_tracee and resolve_pending_breakpoints.
LEMMA StartConduct ==
  ASSUME EngineInv, spawn \/ resolve_pending_breakpoints
  PROVE  Conduct'
<1> USE DEF Waits, Places
<1>1. CASE spawn
  <2>1. /\ proc = "none" /\ lifted = NULL /\ toDelete = {}
        /\ ctl' = "resolve" /\ cmd' = "run"
        /\ pc' = Entry /\ mode' = "cont" /\ event' = "none" /\ owed' = FALSE
        /\ UNCHANGED <<sig, line, goal, toDelete>>
    BY <1>1 DEF spawn, EngineInv, Conduct, Phase, Temps
  <2>2. temp = {}
    BY <2>1 DEF EngineInv, TableInv, Life, Lists
  <2>3. proc' = "stopped" /\ UNCHANGED <<temp, lifted>>
    BY <1>1 DEF spawn, spawn_tracee, tableVars
  <2>4. Entry \in Nat
    BY ConstantsAssumption, DebuggerAssumption
  <2> QED
    BY <2>1, <2>2, <2>3, <2>4
    DEF EngineInv, Conduct, EngineTypeOK, Phase, Temps, Standstill
<1>2. CASE resolve_pending_breakpoints
  <2>1. ctl = "resolve" /\ UNCHANGED <<traceeVars, cmdVars>>
    BY <1>2 DEF resolve_pending_breakpoints, GoTo
  <2>2. UNCHANGED <<proc, active, temp, lifted>>
    BY <1>2
    DEF resolve_pending_breakpoints, resolve_pending_breakpoint, attach, bpmVars
  <2>3. ctl' \in {"resolve", "over"} /\ (ctl' = "over" => todo' = {})
    BY <1>2 DEF resolve_pending_breakpoints, GoTo, bpmVars
  <2> QED
    BY <2>1, <2>2, <2>3
    DEF EngineInv, Conduct, EngineTypeOK, Phase, Temps, Standstill, traceeVars, cmdVars
<1> QED
  BY <1>1, <1>2

\* The engine between two waits: stepping over a location, resuming, planting
\* the int3 again, printing.
LEMMA StepConduct ==
  ASSUME EngineInv,
         \/ execute_step_over_loc \/ single_step_instruction \/ loc_enable_after_step
         \/ print_source_at_current_pc \/ step_in_loop \/ continue_execution
  PROVE  Conduct'
<1> USE DEF Waits, Places, traceeVars, cmdVars
<1>1. CASE execute_step_over_loc
  <2>1. /\ ctl = "over" /\ UNCHANGED <<traceeVars, cmdVars, proc, active, todo, temp>>
        /\ \/ ctl' = "single"
           \/ ctl' = AfterStep /\ lifted' = lifted
    BY <1>1 DEF execute_step_over_loc, lift, GoTo, tableVars, bpmVars
  <2> QED
    BY <2>1, AfterStepPlace
    DEF EngineInv, Conduct, EngineTypeOK, Phase, Temps, Standstill
<1>2. CASE single_step_instruction
  <2>1. /\ ctl = "single" /\ ctl' = "stepwait" /\ UNCHANGED cmdVars
        /\ UNCHANGED <<active, todo, temp, lifted>>
        /\ pc' = pc /\ mode' \in {mode, "step"} /\ event' \in {event, "none"}
        /\ owed' \in {owed, owed /\ TRUE}
    BY <1>2
    DEF single_step_instruction, ptrace_resume, resume, bpmVars, tableVars
  <2> QED
    BY <2>1 DEF EngineInv, Conduct, EngineTypeOK, Phase, Temps, Standstill
<1>3. CASE loc_enable_after_step
  <2>1. /\ ctl = "replant" /\ ctl' = AfterStep /\ lifted' = NULL
        /\ UNCHANGED <<traceeVars, cmdVars, proc, active, todo, temp>>
    BY <1>3 DEF loc_enable_after_step, replant, GoTo, tableVars
  <2> QED
    BY <2>1, AfterStepPlace
    DEF EngineInv, Conduct, EngineTypeOK, Phase, Temps, Standstill
<1>4. CASE print_source_at_current_pc
  <2>1. /\ ctl = "print" /\ ctl' \in {"aborted", "prompt"}
        /\ UNCHANGED <<traceeVars, cmdVars, bpmVars>>
    BY <1>4 DEF print_source_at_current_pc, GoTo
  <2> QED
    BY <2>1 DEF EngineInv, Conduct, EngineTypeOK, Phase, Temps, Standstill, bpmVars
<1>5. CASE step_in_loop
  BY <1>5, LoopPlace
  DEF EngineInv, Conduct, EngineTypeOK, Phase, Temps, Standstill, bpmVars
<1>6. CASE continue_execution
  <2>1. /\ ctl = "cont" /\ ctl' = "contwait" /\ UNCHANGED <<cmd, line, goal, toDelete>>
        /\ sig' = "none"
        /\ UNCHANGED <<active, todo, temp, lifted>>
    BY <1>6
    DEF continue_execution, ptrace_resume, resume, die, bpmVars, tableVars
  <2>2. /\ pc' \in Nat /\ mode' \in {mode, "cont"} /\ event' \in {event, "none"}
        /\ event' = "brk" => pc' # 0
    <3>1. Handlers \subseteq Nat
      BY ConstantsAssumption, DebuggerAssumption
    <3> QED
      BY <1>6, <3>1
      DEF continue_execution, ptrace_resume, EngineInv, Conduct, EngineTypeOK, Standstill
  <2>3. owed' \in BOOLEAN
    BY <1>6 DEF continue_execution, ptrace_resume, EngineInv, Conduct, EngineTypeOK
  <2> QED
    BY <2>1, <2>2, <2>3 DEF EngineInv, Conduct, EngineTypeOK, Phase, Temps, Standstill
<1> QED
  BY <1>1, <1>2, <1>3, <1>4, <1>5, <1>6

\* The end of finish and next.
LEMMA UnsetConduct ==
  ASSUME EngineInv, unset_temps
  PROVE  Conduct'
<1> USE DEF Waits, Places, traceeVars
<1>1. ctl = "unset" /\ UNCHANGED <<traceeVars, cmd, sig, line, proc, active, todo, lifted>>
  BY DEF unset_temps, unset_temp_bp_location, bpmVars
<1>2. \/ ctl' = "prompt" /\ goal' = {} /\ toDelete = {} /\ toDelete' = {} /\ temp' = temp
      \/ ctl' = "aborted" /\ ~active /\ UNCHANGED <<goal, toDelete>>
      \/ /\ \E a \in toDelete : toDelete' = toDelete \ {a} /\ temp' = temp \ {a}
         /\ ctl' = "unset" /\ goal' = goal
  BY <1>1 DEF unset_temps, unset_temp_bp_location, loc_free, bpmVars
<1> QED
  BY <1>1, <1>2 DEF EngineInv, Conduct, EngineTypeOK, Phase, Temps, Standstill

\* wait_for_signal.
LEMMA WaitConduct ==
  ASSUME EngineInv,
         \/ wait_no_child \/ wait_death \/ wait_breakpoint \/ wait_trace \/ wait_fault
         \/ wait_silent \/ wait_other
  PROVE  Conduct'
<1> USE DEF Waits, Places, traceeVars, cmdVars, Waited, Report
<1>0. ctl \in Waits
  BY DEF wait_no_child, wait_death, wait_breakpoint, wait_trace, wait_fault, wait_silent,
         wait_other
<1>1. CASE wait_no_child
  <2>1. proc = "none" /\ ctl' = Return /\ UNCHANGED <<traceeVars, cmdVars, bpmVars>>
    BY <1>1 DEF wait_no_child, GoTo
  <2> QED
    BY <1>0, <2>1, ReturnPlace, AfterStepPlace
    DEF EngineInv, Conduct, EngineTypeOK, Phase, Temps, Standstill, bpmVars
<1>2. CASE wait_death
  <2>1. /\ proc' = "none" /\ active' = FALSE /\ lifted' = NULL /\ todo' = todo
        /\ event' = "none" /\ UNCHANGED <<pc, mode, owed, cmdVars>>
        /\ ctl' = IF Return = "replant" THEN "undefined" ELSE Return
    BY <1>2 DEF wait_death, reap_tracee, cleanup_at_tracee_death
  <2> QED
    BY <1>0, <2>1, ReturnPlace, AfterStepPlace
    DEF EngineInv, Conduct, EngineTypeOK, Phase, Temps, Standstill
<1>3. CASE wait_breakpoint \/ wait_trace \/ wait_fault \/ wait_other
  <2>1. /\ proc = "stopped" /\ event' = "none" /\ ctl' \in {Return, "aborted"}
        /\ UNCHANGED <<mode, owed, cmd, line, goal, toDelete, bpmVars>>
    BY <1>3 DEF wait_breakpoint, wait_trace, wait_fault, wait_other
  <2>2. pc' \in Nat
    BY <1>3
    DEF wait_breakpoint, wait_trace, wait_fault, wait_other, at_int3, EngineInv, Conduct,
        EngineTypeOK, Standstill
  <2>3. sig' \in {"none", "segv", "abrt"}
    BY <1>3
    DEF wait_breakpoint, wait_trace, wait_fault, wait_other, EngineInv, Conduct, EngineTypeOK
  <2> QED
    BY <1>0, <2>1, <2>2, <2>3, ReturnPlace, AfterStepPlace
    DEF EngineInv, Conduct, EngineTypeOK, Phase, Temps, Standstill, bpmVars
<1>4. CASE wait_silent
  <2>1. /\ SilentSignals
        /\ ctl' = Return /\ event' = "none" /\ mode' = "cont"
        /\ UNCHANGED <<pc, owed, cmdVars>>
        /\ proc' = "running" /\ UNCHANGED <<active, todo, temp, lifted>>
    BY <1>4 DEF wait_silent, resume, tableVars, EngineInv, Conduct, Standstill
  <2> QED
    BY <1>0, <2>1, ReturnPlace, AfterStepPlace
    DEF EngineInv, Conduct, EngineTypeOK, Phase, Temps, Standstill
<1> QED
  BY <1>1, <1>2, <1>3, <1>4

\* The tracee and the kernel.
LEMMA TraceeConduct ==
  ASSUME EngineInv, execute \/ receive_signal \/ killed
  PROVE  Conduct'
<1> USE DEF Waits, Places, traceeVars, cmdVars
<1>1. /\ UNCHANGED <<ctl, cmdVars, mode, active, todo, temp, lifted>>
      /\ proc # "none" /\ proc' \in {"running", "stopped", "zombie"}
      /\ proc' = "running" => proc = "running"
  BY DEF execute, execute_int3, execute_fault, execute_abort, execute_plain, execute_exit,
         receive_signal, killed, Stops, stop, die, bpmVars, tableVars
<1>2. /\ pc' \in Nat
      /\ event' = "brk" => pc' # 0
  <2>1. \A a \in Mapped : a \in Nat /\ a # 0
    BY ConstantsAssumption DEF Addrs, NULL
  <2>2. \A a \in Mapped : Flow[a] \subseteq Mapped
    BY DebuggerAssumption
  <2> QED
    BY <2>1, <2>2
    DEF execute, execute_int3, execute_fault, execute_abort, execute_plain, execute_exit,
        receive_signal, killed, Stops, EngineInv, Conduct, EngineTypeOK, Standstill
<1>3. /\ event' \in {"none", "brk", "trace", "segv", "abrt", "silent", "other"}
      /\ event' = "silent" => SilentSignals
      /\ owed' \in BOOLEAN
  BY DEF execute, execute_int3, execute_fault, execute_abort, execute_plain, execute_exit,
         receive_signal, killed, Stops, EngineInv, Conduct, EngineTypeOK, Standstill
<1> QED
  BY <1>1, <1>2, <1>3
  DEF EngineInv, Conduct, EngineTypeOK, Phase, Temps, Standstill

\* Every step keeps the invariant.
LEMMA NextEngine == EngineInv /\ [Next]_vars => EngineInv'
<1> SUFFICES ASSUME EngineInv, [Next]_vars PROVE EngineInv'
  OBVIOUS
<1>1. TableInv'
  BY StepMaps, NextTable DEF EngineInv
<1>2. Conduct'
  <2>1. CASE UNCHANGED vars \/ ended
    BY <2>1
    DEF vars, ended, traceeVars, cmdVars, bpmVars, EngineInv, Conduct, EngineTypeOK, Phase,
        Temps, Standstill
  <2> QED
    BY <2>1, ManageConduct, KillConduct, CommandConduct, StartConduct, StepConduct,
       UnsetConduct, WaitConduct, TraceeConduct, UserCases
    DEF Next, debugger
<1> QED
  BY <1>1, <1>2 DEF EngineInv

\* main starts the engine at the prompt, without a tracee.
LEMMA InitEngine == Init => EngineInv
<1> SUFFICES ASSUME Init PROVE EngineInv
  OBVIOUS
<1>1. TableInv
  BY InitTable DEF Init
<1>2. Entry \in Nat
  BY ConstantsAssumption, DebuggerAssumption
<1>3. Conduct
  BY <1>2
  DEF Init, BPInit, Conduct, EngineTypeOK, Phase, Temps, Standstill, Places
<1> QED
  BY <1>1, <1>3 DEF EngineInv

\* What the engine does to the breakpoint table is what the table allows, at
\* every step of every command, through every death of the tracee and, in an
\* unattended tracee, through every silent signal: the callers in commands.c,
\* stepping.c and debugger.c keep the contract the table's proofs rest on.
THEOREM KeepsContract == Spec => BPSpec
<1>1. Init => BPInit
  BY DEF Init
<1>2. EngineInv /\ [Next]_vars => [BPNext]_bpmVars
  BY StepMaps
<1> QED
  BY <1>1, <1>2, InitEngine, NextEngine, PTL DEF Spec, BPSpec

\* The engine's variables keep their types: a pc put back before an int3
\* stays an address, and what finish and next have to delete is among the
\* addresses they set.
THEOREM EngineTyped == Spec => []DTypeOK
<1>1. EngineInv => DTypeOK
  BY DEF EngineInv, TableInv, Conduct, EngineTypeOK, DTypeOK
<1> QED
  BY <1>1, InitEngine, NextEngine, PTL DEF Spec

\* With one breakpoint per address, no silent signal and no write over a
\* patch, every command leaves 0xcc at each enabled breakpoint of a stopped
\* tracee and at no disabled one, and every other byte its own.
THEOREM EngineFlagsObeyed ==
  ASSUME ~AllowSharing, ~SilentSignals, ~PokePatched
  PROVE  Spec => [](EnabledStops /\ DisabledSilent /\ MemoryIntact)
<1>1. BPSpec => [](EnabledStops /\ DisabledSilent)
  BY FlagsObeyed
<1>2. BPSpec => []MemoryIntact
  BY MemoryCorrect
<1> QED
  BY <1>1, <1>2, KeepsContract, PTL

-----------------------------------------------------------------------------
(***************************************************************************)
(* Without silent signals: every stop is waited for.                       *)
(***************************************************************************)

\* The user's commands keep WaitedFor.
LEMMA UserWaitedFor ==
  ASSUME ~SilentSignals, EngineInv, WaitedFor, user
  PROVE  WaitedFor'
<1> USE DEF Waits, traceeVars, bpmVars
<1>1. CASE ManageCommand
  BY <1>1, ManageEffect DEF WaitedFor, GoTo
<1>2. CASE cmd_reg
  BY <1>2, DebuggerAssumption DEF cmd_reg, set_register_value, Prompt, WaitedFor
<1>3. CASE cmd_run \/ cmd_exit
  <2>1. event' \in {event, "none"} /\ event = "none"
    BY <1>3, KillEffect DEF cmd_run, cmd_exit, GoTo, WaitedFor
  <2> QED
    BY <1>3, <2>1, KillEffect DEF WaitedFor
<1>4. CASE cmd_continue \/ cmd_stepi \/ cmd_step
  BY <1>4 DEF cmd_continue, cmd_stepi, cmd_step, Prompt, WaitedFor, EngineInv, Conduct,
              EngineTypeOK
<1>5. CASE TempCommand
  <2>1. ctl = "prompt" /\ UNCHANGED <<traceeVars, proc>>
    BY <1>5, TempMaps DEF temp_then_continue, Prompt, set_temp_bp_location
  <2> QED
    BY <2>1 DEF WaitedFor, EngineInv, Conduct, EngineTypeOK
<1>6. CASE ended
  BY <1>6 DEF ended, vars, WaitedFor
<1>7. CASE GivesUp
  BY <1>7 DEF GivesUp, GoTo, WaitedFor
<1> QED
  BY <1>1, <1>2, <1>3, <1>4, <1>5, <1>6, <1>7, UserCases

\* So does the engine.
LEMMA DebuggerWaitedFor ==
  ASSUME ~SilentSignals, EngineInv, WaitedFor, debugger
  PROVE  WaitedFor'
<1> USE DEF Waits, traceeVars, Waited, Report
<1>1. CASE spawn
  <2>1. proc' = "stopped" /\ event' = "none" /\ pc' = Entry
    BY <1>1 DEF spawn, spawn_tracee
  <2> QED
    BY <2>1, DebuggerAssumption DEF WaitedFor
<1>2. CASE resolve_pending_breakpoints
  <2>1. ctl = "resolve" /\ UNCHANGED <<traceeVars, proc>>
    BY <1>2 DEF resolve_pending_breakpoints, resolve_pending_breakpoint, GoTo, bpmVars
  <2> QED
    BY <2>1 DEF WaitedFor, EngineInv, Conduct, EngineTypeOK
<1>3. CASE execute_step_over_loc \/ loc_enable_after_step
  <2>1. ctl \in {"over", "replant"} /\ UNCHANGED <<traceeVars, proc>>
    BY <1>3 DEF execute_step_over_loc, loc_enable_after_step, lift, replant, GoTo, bpmVars
  <2> QED
    BY <2>1 DEF WaitedFor, EngineInv, Conduct, EngineTypeOK
<1>4. CASE print_source_at_current_pc \/ step_in_loop
  <2>1. ctl \in {"print", "loop"} /\ UNCHANGED <<traceeVars, proc>>
    BY <1>4, LoopPlace DEF print_source_at_current_pc, GoTo, bpmVars
  <2> QED
    BY <2>1 DEF WaitedFor, EngineInv, Conduct, EngineTypeOK
<1>5. CASE single_step_instruction \/ continue_execution
  <2>1. /\ ctl \in {"single", "cont"} /\ event = "none" /\ event' = "none"
        /\ pc' = pc \/ pc' \in Mapped
        /\ ctl = "single" => ctl' = "stepwait"
        /\ ctl = "cont" => ctl' = "contwait"
    BY <1>5, DebuggerAssumption
    DEF single_step_instruction, continue_execution, ptrace_resume, WaitedFor
  <2>2. proc # "running"
    BY <2>1 DEF EngineInv, Conduct, Standstill
  <2>3. \/ proc' = proc
        \/ proc = "stopped" /\ proc' \in {"running", "zombie"}
             /\ mode' = IF ctl = "single" THEN "step" ELSE "cont"
    BY <1>5
    DEF single_step_instruction, continue_execution, ptrace_resume, resume, die, bpmVars
  <2> QED
    BY <2>1, <2>2, <2>3 DEF WaitedFor
<1>6. CASE unset_temps
  <2>1. ctl = "unset" /\ UNCHANGED <<traceeVars, proc>>
    BY <1>6 DEF unset_temps, unset_temp_bp_location, bpmVars
  <2> QED
    BY <2>1 DEF WaitedFor, EngineInv, Conduct, EngineTypeOK
<1>7. CASE wait_no_child
  BY <1>7 DEF wait_no_child, GoTo, WaitedFor, bpmVars, EngineInv, Conduct, EngineTypeOK
<1>8. CASE wait_death
  BY <1>8 DEF wait_death, reap_tracee, cleanup_at_tracee_death, WaitedFor
<1>9. CASE wait_breakpoint
  BY <1>9 DEF wait_breakpoint, at_int3, WaitedFor, bpmVars
<1>10. CASE wait_trace \/ wait_fault \/ wait_other
  BY <1>10 DEF wait_trace, wait_fault, wait_other, WaitedFor, bpmVars
<1>11. CASE wait_silent
  BY <1>11 DEF wait_silent, EngineInv, Conduct, Standstill
<1> QED
  BY <1>1, <1>2, <1>3, <1>4, <1>5, <1>6, <1>7, <1>8, <1>9, <1>10, <1>11 DEF debugger

\* So do the tracee and the kernel.
LEMMA TraceeWaitedFor ==
  ASSUME ~SilentSignals, EngineInv, WaitedFor, execute \/ receive_signal \/ killed
  PROVE  WaitedFor'
<1> USE DEF Waits, traceeVars, Stops, stop, die, bpmVars
<1>0. \A a \in Mapped : a \in Nat /\ Flow[a] \subseteq Mapped
  BY ConstantsAssumption, DebuggerAssumption
<1>1. CASE killed \/ execute_exit
  BY <1>1 DEF killed, execute_exit, WaitedFor
<1>2. CASE receive_signal
  BY <1>2 DEF receive_signal, WaitedFor, EngineInv, Conduct, Standstill
<1>3. CASE execute_int3
  BY <1>0, <1>3 DEF execute_int3, WaitedFor, EngineInv, Conduct, Standstill
<1>4. CASE execute_fault \/ execute_abort
  BY <1>0, <1>4 DEF execute_fault, execute_abort, WaitedFor, EngineInv, Conduct, Standstill
<1>5. CASE execute_plain
  BY <1>0, <1>5 DEF execute_plain, WaitedFor, EngineInv, Conduct, Standstill
<1> QED
  BY <1>1, <1>2, <1>3, <1>4, <1>5 DEF execute

\* Every step keeps it.
LEMMA NextWaitedFor ==
  ASSUME ~SilentSignals, EngineInv, WaitedFor, [Next]_vars
  PROVE  WaitedFor'
<1>1. CASE UNCHANGED vars
  BY <1>1 DEF vars, traceeVars, bpmVars, WaitedFor
<1> QED
  BY <1>1, UserWaitedFor, DebuggerWaitedFor, TraceeWaitedFor DEF Next

\* It holds at the start.
LEMMA InitWaitedFor == Init => WaitedFor
BY DEF Init, BPInit, WaitedFor

\* Whatever ended the command, at the prompt nothing of it is left, and without
\* silent signals no stop is unreported and the tracee stands on an
\* instruction, not behind the int3 it hit.
THEOREM PromptCorrect == Spec => []PromptQuiet
<1>1. EngineInv /\ (SilentSignals \/ WaitedFor) => PromptQuiet
  <2> SUFFICES ASSUME EngineInv, SilentSignals \/ WaitedFor, ctl = "prompt"
               PROVE  /\ Quiet /\ toDelete = {}
                      /\ \/ SilentSignals
                         \/ event = "none" /\ (proc = "stopped" => pc \in Mapped)
    BY DEF PromptQuiet
  <2>1. Quiet /\ toDelete = {}
    BY PromptContract DEF EngineInv, Conduct, Temps
  <2>2. WaitedFor => event = "none" /\ (proc = "stopped" => pc \in Mapped)
    BY DEF WaitedFor, Waits
  <2> QED
    BY <2>1, <2>2
<1>2. EngineInv /\ (SilentSignals \/ WaitedFor) /\ [Next]_vars => (SilentSignals \/ WaitedFor)'
  BY NextWaitedFor
<1> QED
  BY <1>1, <1>2, InitEngine, NextEngine, InitWaitedFor, PTL DEF Spec

-----------------------------------------------------------------------------
(***************************************************************************)
(* A fatal signal reaches the tracee.                                      *)
(***************************************************************************)

\* The user's commands keep Owing.
LEMMA UserOwing ==
  ASSUME ~SilentSignals, EngineInv, WaitedFor, Owing, user
  PROVE  Owing'
<1> USE DEF Waits, traceeVars, cmdVars, bpmVars
<1>0. CASE ended
  BY <1>0 DEF ended, vars, Owing
<1> SUFFICES ASSUME ~ended PROVE Owing'
  BY <1>0
<1>1. ctl = "prompt" /\ event = "none" /\ lifted = NULL
  <2>1. ctl = "prompt"
    BY UserCases, ManageMaps, KillMaps
    DEF cmd_reg, cmd_continue, cmd_stepi, cmd_step, TempCommand, temp_then_continue, GivesUp,
        Prompt
  <2> QED
    BY <2>1 DEF WaitedFor, EngineInv, Conduct, Phase
<1>2. CASE ManageCommand
  BY <1>1, <1>2, ManageEffect DEF Owing, GoTo
<1>3. CASE cmd_reg
  BY <1>1, <1>3 DEF cmd_reg, set_register_value, Owing
<1>4. CASE cmd_run \/ cmd_exit
  <2>1. ctl' \in {"spawn", "exited"}
    BY <1>4 DEF cmd_run, cmd_exit, GoTo
  <2> QED
    BY <1>4, <2>1, KillEffect DEF Owing
<1>5. CASE cmd_continue
  BY <1>1, <1>5 DEF cmd_continue, Owing
<1>6. CASE cmd_stepi
  <2>1. active /\ cmd' = "stepi" /\ ctl' \in {"over", "single"}
    BY <1>6 DEF cmd_stepi, with_breakpoint_check
  <2> QED
    BY <1>1, <1>6, <2>1 DEF cmd_stepi, Owing
<1>7. CASE cmd_step
  <2>1. ctl' \in {"loop", "aborted"}
    BY <1>7 DEF cmd_step
  <2> QED
    BY <1>1, <1>7, <2>1 DEF cmd_step, Owing
<1>8. CASE TempCommand
  <2>1. /\ ctl' = "over" /\ active /\ UNCHANGED <<traceeVars, sig, proc, active>>
    BY <1>8, TempMaps DEF temp_then_continue, set_temp_bp_location
  <2> QED
    BY <1>1, <2>1 DEF Owing
<1>9. CASE GivesUp
  BY <1>1, <1>9 DEF GivesUp, GoTo, Owing
<1> QED
  BY <1>2, <1>3, <1>4, <1>5, <1>6, <1>7, <1>8, <1>9, UserCases

\* So does the engine: only the continue_execution that delivers the signal
\* forgets it, or one that finds the tracee dead.
LEMMA DebuggerOwing ==
  ASSUME ~SilentSignals, EngineInv, WaitedFor, Owing, debugger
  PROVE  Owing'
<1> USE DEF Waits, traceeVars, cmdVars, Waited, Report
<1>1. CASE spawn
  BY <1>1 DEF spawn, spawn_tracee, Owing
<1>2. CASE resolve_pending_breakpoints
  <2>1. ctl = "resolve" /\ ctl' \in {"resolve", "over"}
        /\ UNCHANGED <<traceeVars, cmdVars, proc, active, lifted>>
    BY <1>2 DEF resolve_pending_breakpoints, resolve_pending_breakpoint, GoTo, bpmVars
  <2>2. ctl = "resolve" => active
    BY DEF Owing
  <2> QED
    BY <2>1, <2>2 DEF Owing
<1>3. CASE execute_step_over_loc
  <2>1. /\ ctl = "over" /\ UNCHANGED <<traceeVars, cmdVars, proc, active>>
        /\ \/ ctl' = "single" /\ lifted' # NULL
           \/ ctl' = AfterStep
    BY <1>3, ConstantsAssumption
    DEF execute_step_over_loc, lift, GoTo, bpmVars, EngineInv, TableInv, BPTypeOK
  <2> QED
    BY <2>1, AfterStepPlace DEF Owing
<1>4. CASE loc_enable_after_step
  <2>1. /\ ctl = "replant" /\ ctl' = AfterStep
        /\ UNCHANGED <<traceeVars, cmdVars, proc, active>>
    BY <1>4 DEF loc_enable_after_step, replant, GoTo
  <2>2. active
    BY <2>1 DEF EngineInv, Conduct, Phase, TableInv, Life
  <2> QED
    BY <2>1, <2>2, AfterStepPlace DEF Owing
<1>5. CASE print_source_at_current_pc
  BY <1>5 DEF print_source_at_current_pc, GoTo, bpmVars, Owing
<1>6. CASE step_in_loop
  <2>1. /\ ctl = "loop" /\ UNCHANGED <<traceeVars, cmdVars, bpmVars>>
        /\ ctl' \in {"over", "single", "aborted", "prompt"}
        /\ ctl' = "over" => locs # {}
    BY <1>6, LoopPlace
  <2>2. cmd = "step" /\ (locs # {} => active)
    BY <2>1 DEF EngineInv, Conduct, Phase, TableInv, Life
  <2> QED
    BY <2>1, <2>2 DEF Owing, bpmVars
<1>7. CASE single_step_instruction
  <2>1. /\ ctl = "single" /\ ctl' = "stepwait" /\ UNCHANGED <<cmdVars, active, lifted>>
        /\ \/ UNCHANGED traceeVars /\ proc' = proc
           \/ owed' = owed
    BY <1>7
    DEF single_step_instruction, ptrace_resume, resume, bpmVars, EngineInv, Conduct, EngineTypeOK
  <2>2. event = "none"
    BY <2>1 DEF WaitedFor
  <2> QED
    BY <2>1, <2>2 DEF Owing
<1>8. CASE continue_execution
  <2>1. ctl = "cont" /\ ctl' = "contwait" /\ event = "none" /\ active
    BY <1>8 DEF continue_execution, WaitedFor, Owing
  <2>2. owed => sig # "none"
    BY <2>1 DEF Owing
  <2>3. CASE proc = "stopped"
    <3>1. ~owed'
      BY <1>8, <2>2, <2>3 DEF continue_execution, ptrace_resume
    <3> QED
      BY <2>1, <3>1 DEF Owing
  <2>4. CASE proc # "stopped"
    <3>1. proc = "zombie" /\ proc' = "zombie"
      BY <1>8, <2>1, <2>4
      DEF continue_execution, ptrace_resume, bpmVars, EngineInv, Conduct, Standstill,
          TableInv, BPTypeOK, Life
    <3> QED
      BY <2>1, <3>1 DEF Owing
  <2> QED
    BY <2>3, <2>4
<1>9. CASE unset_temps
  <2>1. ctl = "unset" /\ ctl' \in {"unset", "prompt", "aborted"}
        /\ UNCHANGED <<traceeVars, sig, proc, active>>
    BY <1>9 DEF unset_temps, unset_temp_bp_location, bpmVars
  <2> QED
    BY <2>1 DEF Owing
<1>10. CASE wait_no_child
  <2>1. /\ ctl \in Waits /\ ctl' = Return /\ proc = "none"
        /\ UNCHANGED <<traceeVars, cmdVars, bpmVars>>
    BY <1>10 DEF wait_no_child, GoTo
  <2>2. ~active /\ lifted = NULL
    BY <2>1 DEF EngineInv, TableInv, Life
  <2>3. Return \in {"unset", "print", "loop"}
    BY <2>1, <2>2, ReturnPlace, AfterStepPlace DEF Owing
  <2> QED
    BY <2>1, <2>2, <2>3 DEF Owing, bpmVars
<1>11. CASE wait_death
  <2>1. /\ ctl \in Waits /\ active' = FALSE
        /\ ctl' = IF Return = "replant" THEN "undefined" ELSE Return
    BY <1>11 DEF wait_death, reap_tracee, cleanup_at_tracee_death
  <2>2. ctl' \in {"undefined", "unset", "print", "loop"}
    BY <2>1, ReturnPlace, AfterStepPlace DEF Owing
  <2> QED
    BY <2>1, <2>2 DEF Owing
<1>12. CASE wait_breakpoint \/ wait_trace \/ wait_fault \/ wait_other
  <2>1. /\ ctl \in Waits /\ proc = "stopped" /\ event' = "none" /\ owed' = owed
        /\ ctl' \in {Return, "aborted"} /\ UNCHANGED <<cmd, bpmVars>>
        /\ event \in {"segv", "abrt"} => sig' # "none"
        /\ event \notin {"segv", "abrt"} => sig' = sig
    BY <1>12 DEF wait_breakpoint, wait_trace, wait_fault, wait_other
  <2>2. ctl' \in {"aborted", "unset", "print", "loop", "replant"}
    BY <2>1, ReturnPlace, AfterStepPlace DEF Owing
  <2> QED
    BY <2>1, <2>2 DEF Owing, bpmVars
<1>13. CASE wait_silent
  BY <1>13 DEF wait_silent, EngineInv, Conduct, Standstill
<1> QED
  BY <1>1, <1>2, <1>3, <1>4, <1>5, <1>6, <1>7, <1>8, <1>9, <1>10, <1>11, <1>12, <1>13
  DEF debugger

\* So do the tracee and the kernel.
LEMMA TraceeOwing ==
  ASSUME ~SilentSignals, EngineInv, WaitedFor, Owing, execute \/ receive_signal \/ killed
  PROVE  Owing'
<1>1. /\ UNCHANGED <<ctl, cmd, sig, active, lifted>>
      /\ proc = "zombie" => FALSE
  BY DEF execute, execute_int3, execute_fault, execute_abort, execute_plain, execute_exit,
         receive_signal, killed, Stops, stop, die, bpmVars, cmdVars
<1>2. owed' => \/ event' \in {"segv", "abrt"}
               \/ owed /\ event' = event
               \/ owed /\ event = "none"
  BY DEF execute, execute_int3, execute_fault, execute_abort, execute_plain, execute_exit,
         receive_signal, killed, Stops, stop, WaitedFor, traceeVars
<1> QED
  BY <1>1, <1>2 DEF Owing

\* A tracee stopped by SIGSEGV or SIGABRT is resumed with that signal: single
\* steps, their stops and a death in between do not lose it.
THEOREM FaultReachesTracee ==
  ASSUME ~SilentSignals
  PROVE  Spec => []FaultForwarded
<1>1. Init => Owing
  BY DEF Init, Owing
<1>2. EngineInv /\ WaitedFor /\ [Next]_vars => WaitedFor'
  BY NextWaitedFor
<1>3. EngineInv /\ WaitedFor /\ Owing /\ [Next]_vars => Owing'
  <2>1. ASSUME Owing, UNCHANGED vars PROVE Owing'
    BY <2>1 DEF vars, traceeVars, cmdVars, bpmVars, Owing
  <2> QED
    BY <2>1, UserOwing, DebuggerOwing, TraceeOwing DEF Next
<1>4. WaitedFor /\ Owing => FaultForwarded
  BY DEF WaitedFor, Owing, FaultForwarded, Waits
<1> QED
  BY <1>1, <1>2, <1>3, <1>4, InitEngine, NextEngine, InitWaitedFor, PTL DEF Spec

-----------------------------------------------------------------------------
(***************************************************************************)
(* No enabled breakpoint is run over.                                      *)
(***************************************************************************)

\* A tracee that was continued runs with every enabled breakpoint armed.
LEMMA RunningArmed ==
  ASSUME EngineInv, WaitedFor, SoleInv, MemoryIntact, proc = "running", mode = "cont",
         NEW b \in enable, location[b] # NULL
  PROVE  /\ location[b] \in patched
         /\ location[b] \in Mapped => mem[location[b]] = INT3
<1>1. lifted = NULL
  BY DEF WaitedFor, EngineInv, Conduct, Phase
<1>2. b \in bps
  BY DEF EngineInv, TableInv, Lists
<1>3. location[b] \in patched
  BY <1>1, <1>2 DEF SoleInv, ArmedIffEnabled
<1> QED
  BY <1>3 DEF MemoryIntact

\* The tracee never runs past an enabled breakpoint: with one breakpoint per
\* address, no silent signal and no write over a patch, only the single step
\* of a step command or of execute_step_over_loc executes an instruction with
\* an enabled breakpoint.
THEOREM BreakpointsStop ==
  ASSUME ~AllowSharing, ~SilentSignals, ~PokePatched
  PROVE  Spec => NoSkippedBreakpoint
<1> DEFINE Skips ==
      proc = "running" /\ mode = "cont" /\ pc' # pc /\ event' # "brk" =>
        \A b \in enable : location[b] # pc
<1>1. EngineInv /\ WaitedFor /\ SoleInv /\ MemoryIntact /\ [Next]_vars => [Skips]_vars
  <2> SUFFICES ASSUME EngineInv, WaitedFor, SoleInv, MemoryIntact, Next,
                      proc = "running", mode = "cont", pc' # pc, event' # "brk",
                      NEW b \in enable, location[b] = pc
               PROVE  FALSE
    OBVIOUS
  <2>1. ctl = "contwait" /\ proc = "running"
    BY DEF WaitedFor
  <2>2. ~user
    BY <2>1, UserCases, ManageMaps, KillMaps
    DEF cmd_reg, cmd_continue, cmd_stepi, cmd_step, TempCommand, temp_then_continue, GivesUp,
        ended, Prompt
  <2>3. ~debugger
    BY <2>1
    DEF debugger, spawn, resolve_pending_breakpoints, execute_step_over_loc,
        single_step_instruction, loc_enable_after_step, print_source_at_current_pc,
        step_in_loop, continue_execution, unset_temps, wait_no_child, wait_death, reap_tracee,
        wait_breakpoint, wait_trace, wait_fault, wait_silent, wait_other, Waited
  <2>4. execute_abort \/ execute_plain
    BY <2>2, <2>3
    DEF Next, execute, execute_int3, execute_fault, execute_exit, receive_signal, killed,
        Stops, traceeVars
  <2>5. pc \in Mapped /\ mem[pc] # INT3
    BY <2>4 DEF execute_abort, execute_plain
  <2>6. pc # NULL
    BY <2>5, ConstantsAssumption DEF Addrs
  <2> QED
    BY <2>5, <2>6, RunningArmed
<1>2. Init => SoleInv /\ MemoryIntact
  BY DEF Init, BPInit, SoleInv, DistinctAddrs, ArmedIffEnabled, LiftedEnabled, MemoryIntact
<1>3. EngineInv /\ EngineInv' /\ SoleInv /\ MemoryIntact /\ [Next]_vars =>
        SoleInv' /\ MemoryIntact'
  BY StepMaps, NextSole, NextMemory DEF EngineInv
<1>4. EngineInv /\ WaitedFor /\ [Next]_vars => WaitedFor'
  BY NextWaitedFor
<1> QED
  BY <1>1, <1>2, <1>3, <1>4, InitEngine, NextEngine, InitWaitedFor, PTL
  DEF Spec, NoSkippedBreakpoint

-----------------------------------------------------------------------------
(***************************************************************************)
(* finish and next stop where they want to.                                *)
(***************************************************************************)

\* Temporary locations are armed, but for the one being stepped over.
LEMMA NextTempArmed ==
  ASSUME TableInv, TempArmed, [BPNext]_bpmVars
  PROVE  TempArmed'
<1>1. CASE UNCHANGED bpmVars
  BY <1>1 DEF bpmVars, TempArmed
<1>2. CASE Quiet /\ manage
  <2>1. temp = {}
    BY <1>2 DEF Quiet
  <2>2. ASSUME NEW S \in SUBSET Addrs, set_temp_bp_location(S)
        PROVE  TempArmed'
    BY <2>2 DEF set_temp_bp_location, loc_enable, TempArmed
  <2>3. CASE temp' = {}
    BY <2>3 DEF TempArmed
  <2>4. ASSUME NEW i \in InstrAddrs, set_breakpoint(i)
        PROVE  temp' = temp
    BY <2>4 DEF set_breakpoint, attach, tableVars
  <2>5. ASSUME NEW b \in Ids, bp_enable(b) \/ bp_disable(b) \/ remove_breakpoint(b)
        PROVE  temp' = temp
    BY <2>5 DEF bp_enable, bp_disable, remove_breakpoint, tableVars
  <2>6. ASSUME \/ enable_all_breakpoints \/ disable_all_breakpoints
               \/ remove_all_breakpoints \/ kill_tracee
        PROVE  temp' = {}
    BY <2>1, <2>6
    DEF enable_all_breakpoints, disable_all_breakpoints, remove_all_breakpoints, loc_free,
        kill_tracee, cleanup_at_tracee_death, tableVars
  <2>7. ASSUME NEW a \in Mapped, NEW v \in Written, write_memory(a, v)
        PROVE  temp' = temp
    BY <2>7 DEF write_memory, tableVars
  <2> QED
    BY <1>2, <2>1, <2>2, <2>3, <2>4, <2>5, <2>6, <2>7 DEF manage
<1>3. CASE spawn_tracee \/ resume \/ stop \/ die
  BY <1>3 DEF spawn_tracee, resume, stop, die, tableVars, TempArmed
<1>4. CASE resolve_pending_breakpoint
  <2>1. temp' = temp /\ todo # {}
    BY <1>4 DEF resolve_pending_breakpoint, attach
  <2> QED
    BY <2>1 DEF TableInv, Lists, TempArmed
<1>5. CASE reap_tracee
  BY <1>5 DEF reap_tracee, cleanup_at_tracee_death, TempArmed
<1>6. CASE lifted = NULL /\ \E a \in Addrs : lift(a) \/ unset_temp_bp_location(a)
  <2>1. NULL \notin temp
    BY ConstantsAssumption DEF TableInv, BPTypeOK
  <2> QED
    BY <1>6, <2>1
    DEF lift, unset_temp_bp_location, loc_free, loc_disable, tableVars, TempArmed
<1>7. CASE lifted # NULL /\ replant
  BY <1>7 DEF replant, loc_enable, tableVars, TempArmed
<1> QED
  BY <1>1, <1>2, <1>3, <1>4, <1>5, <1>6, <1>7 DEF BPNext

\* While finish and next are under way their addresses keep their locations.
LEMMA NextAimed ==
  ASSUME EngineInv, Aimed, [Next]_vars
  PROVE  Aimed'
<1> USE DEF Underway
<1> SUFFICES ASSUME active', cmd' \in {"finish", "next"}, ctl' \in Underway
             PROVE  goal' \subseteq locs'
  BY DEF Aimed
<1>1. CASE UNCHANGED vars \/ ended
  BY <1>1 DEF vars, ended, bpmVars, cmdVars, Aimed
<1>2. CASE ManageCommand \/ GivesUp \/ cmd_run \/ cmd_exit \/ cmd_reg
  <2>1. ctl' \notin Underway
    BY <1>2, ManageEffect DEF GoTo, cmd_run, cmd_exit, cmd_reg, GivesUp, Prompt
  <2> QED
    BY <2>1
<1>3. CASE cmd_continue \/ cmd_stepi \/ cmd_step \/ spawn
  BY <1>3 DEF cmd_continue, cmd_stepi, cmd_step, spawn
<1>4. CASE TempCommand
  BY <1>4, TempMaps DEF temp_then_continue, set_temp_bp_location
<1>5. CASE resolve_pending_breakpoints
  <2>1. ctl = "resolve" /\ cmd' = cmd
    BY <1>5 DEF resolve_pending_breakpoints, GoTo, cmdVars
  <2> QED
    BY <2>1 DEF EngineInv, Conduct, Phase
<1>6. CASE execute_step_over_loc \/ loc_enable_after_step
  <2>1. ctl \in Underway /\ UNCHANGED <<cmdVars, active, locs>>
    BY <1>6
    DEF execute_step_over_loc, loc_enable_after_step, lift, replant, GoTo, bpmVars, tableVars
  <2> QED
    BY <2>1 DEF Aimed, cmdVars
<1>7. CASE single_step_instruction \/ continue_execution
  <2>1. ctl \in Underway /\ UNCHANGED <<cmd, goal, active, locs>>
    BY <1>7
    DEF single_step_instruction, continue_execution, ptrace_resume, resume, die, bpmVars,
        tableVars, cmdVars
  <2> QED
    BY <2>1 DEF Aimed
<1>8. CASE print_source_at_current_pc \/ step_in_loop
  <2>1. cmd' = cmd /\ ctl \in {"print", "loop"}
    BY <1>8, LoopPlace DEF print_source_at_current_pc, GoTo, cmdVars
  <2> QED
    BY <2>1 DEF EngineInv, Conduct, Phase
<1>9. CASE unset_temps
  BY <1>9 DEF unset_temps
<1>10. CASE wait_death
  BY <1>10 DEF wait_death, reap_tracee, cleanup_at_tracee_death
<1>11. CASE \/ wait_no_child \/ wait_breakpoint \/ wait_trace \/ wait_fault \/ wait_silent
            \/ wait_other
  <2>1. ctl \in Underway /\ UNCHANGED <<cmd, goal, active, locs>>
    BY <1>11
    DEF wait_no_child, wait_breakpoint, wait_trace, wait_fault, wait_silent, wait_other, Waited,
        Report, GoTo, resume, bpmVars, tableVars, cmdVars
  <2> QED
    BY <2>1 DEF Aimed
<1>12. CASE execute \/ receive_signal \/ killed
  <2>1. UNCHANGED <<ctl, cmd, goal, active, locs>>
    BY <1>12
    DEF execute, execute_int3, execute_fault, execute_abort, execute_plain, execute_exit,
        receive_signal, killed, Stops, stop, die, bpmVars, tableVars, cmdVars
  <2> QED
    BY <2>1 DEF Aimed
<1> QED
  BY <1>1, <1>2, <1>3, <1>4, <1>5, <1>6, <1>7, <1>8, <1>9, <1>10, <1>11, <1>12,
     UserCases
  DEF Next, debugger

\* While finish and next wait, every address they want to stop at is armed,
\* except where they found a location whose breakpoints are all disabled or
\* deleted, under the same assumptions.
THEOREM GoalsArmed ==
  ASSUME ~AllowSharing, ~SilentSignals, ~PokePatched
  PROVE  Spec => []GoalArmed
<1>1. EngineInv /\ WaitedFor /\ SoleInv /\ MemoryIntact /\ TempArmed /\ Aimed => GoalArmed
  <2> SUFFICES ASSUME EngineInv, WaitedFor, SoleInv, MemoryIntact, TempArmed, Aimed,
                      cmd \in {"finish", "next"}, proc = "running", mode = "cont",
                      NEW a \in goal \ patched
               PROVE  a \in locs \ temp /\ members[a] \cap enable = {}
    BY DEF GoalArmed
  <2>1. ctl = "contwait" /\ active /\ lifted = NULL
    BY DEF WaitedFor, EngineInv, Conduct, Phase, TableInv, Life
  <2>2. a \in locs /\ a \in Addrs /\ a # NULL
    BY <2>1, ConstantsAssumption DEF Aimed, Underway, EngineInv, TableInv, BPTypeOK
  <2>3. a \notin temp
    BY <2>1, <2>2 DEF TempArmed
  <2>4. \A b \in members[a] : location[b] = a
    BY <2>2 DEF EngineInv, TableInv, NoDangling
  <2>5. \A b \in members[a] : b \notin enable
    BY <2>2, <2>4, RunningArmed
  <2> QED
    BY <2>2, <2>3, <2>5
<1>2. Init => SoleInv /\ MemoryIntact /\ TempArmed /\ Aimed
  BY DEF Init, BPInit, SoleInv, DistinctAddrs, ArmedIffEnabled, LiftedEnabled, MemoryIntact,
         TempArmed, Aimed
<1>3. EngineInv /\ EngineInv' /\ SoleInv /\ MemoryIntact /\ TempArmed /\ [Next]_vars =>
        SoleInv' /\ MemoryIntact' /\ TempArmed'
  BY StepMaps, NextSole, NextMemory, NextTempArmed DEF EngineInv
<1>4. EngineInv /\ WaitedFor /\ Aimed /\ [Next]_vars => WaitedFor' /\ Aimed'
  BY NextWaitedFor, NextAimed
<1> QED
  BY <1>1, <1>2, <1>3, <1>4, InitEngine, NextEngine, InitWaitedFor, PTL DEF Spec

-----------------------------------------------------------------------------
(***************************************************************************)
(* No assertion of the engine fails.                                       *)
(***************************************************************************)

\* A program that stays in modules libdwfl knows and on lines it has, neither
\* faults nor ends, and has no int3 of its own, nor is given one by the user.
WellBehaved ==
  /\ Entry \in Reported
  /\ \A a \in Reported :
       /\ Flow[a] # {} /\ Flow[a] \subseteq Reported
       /\ Raise[a] = "none" /\ Line[a] # 0 /\ Text[a] # INT3
  /\ INT3 \notin Written

\* It lives as long as the engine works on it, it stands on a line libdwfl
\* knows, and an int3 it ran into is the engine's.
Steady ==
  /\ ctl \notin {"aborted", "undefined"}
  /\ ctl \notin {"prompt", "spawn", "exited"} => active
  /\ proc # "zombie" /\ sig = "none" /\ event \notin {"segv", "abrt"}
  /\ proc \in {"stopped", "running"} =>
       IF event = "brk" THEN pc - 1 \in Reported \cap patched ELSE pc \in Reported
  /\ \A a \in Reported : own[a] # INT3

\* What the table and the user do leaves no foreign int3 in the program.
LEMMA NextOwn ==
  ASSUME WellBehaved, TableInv, \A a \in Reported : own[a] # INT3, [BPNext]_bpmVars
  PROVE  \A a \in Reported : own'[a] # INT3
<1> USE DebuggerAssumption
<1>1. CASE own' = own \/ own' = Text
  BY <1>1 DEF WellBehaved
<1>2. ASSUME NEW a \in Mapped, NEW v \in Written, write_memory(a, v)
      PROVE  \A x \in Reported : own'[x] # INT3
  BY <1>2 DEF write_memory, WellBehaved
<1>3. ASSUME manage
      PROVE  \/ own' = own \/ own' = Text
             \/ \E a \in Mapped, v \in Written : write_memory(a, v)
  BY <1>3
  DEF manage, set_breakpoint, bp_enable, bp_disable, remove_breakpoint, enable_all_breakpoints,
      disable_all_breakpoints, remove_all_breakpoints, kill_tracee, cleanup_at_tracee_death,
      set_temp_bp_location
<1>4. \/ own' = own \/ own' = Text \/ manage
  BY DEF BPNext, spawn_tracee, resolve_pending_breakpoint, reap_tracee,
         cleanup_at_tracee_death, resume, lift, unset_temp_bp_location, replant, stop, die,
         bpmVars
<1> QED
  BY <1>1, <1>2, <1>3, <1>4

\* A breakpoint the tracee ran into has a location with an owner, and its
\* source is known.
LEMMA HitKnown ==
  ASSUME EngineInv, Steady, proc = "stopped", event = "brk"
  PROVE  print_bp_hit_message_at_loc(at_int3) /\ get_line_from_pc(at_int3) # NoModule
<1>1. at_int3 \in Reported \cap patched
  BY DEF Steady, at_int3
<1>2. print_bp_hit_message_at_loc(at_int3)
  BY <1>1 DEF print_bp_hit_message_at_loc, EngineInv, TableInv, PatchHasOwner
<1>3. Line[at_int3] \in Nat
  BY <1>1, DebuggerAssumption
<1> QED
  BY <1>1, <1>2, <1>3 DEF get_line_from_pc, NoModule

\* The line of the pc, at a stop that has been reported.
LEMMA LineKnown ==
  ASSUME WellBehaved, EngineInv, WaitedFor, Steady, ~SilentSignals,
         active, ctl \notin Waits, NEW p \in ReadPc
  PROVE  p = pc /\ proc = "stopped" /\ get_line_from_pc(p) \notin {0, NoModule}
<1>1. proc = "stopped" /\ event = "none"
  BY DEF Steady, WaitedFor, EngineInv, TableInv, BPTypeOK, Life, Conduct, Standstill
<1>2. p = pc /\ pc \in Reported
  BY <1>1 DEF ReadPc, Steady
<1>3. Line[pc] \in Nat /\ Line[pc] # 0
  BY <1>2, DebuggerAssumption DEF WellBehaved
<1> QED
  BY <1>1, <1>2, <1>3 DEF get_line_from_pc, NoModule

\* The user's commands keep the tracee steady.
LEMMA UserSteady ==
  ASSUME WellBehaved, ~SilentSignals, EngineInv, WaitedFor, Steady, user,
         \A a \in Reported : own'[a] # INT3
  PROVE  Steady'
<1> USE DEF Waits, traceeVars, cmdVars, bpmVars
<1>0. CASE ended
  BY <1>0 DEF ended, Steady, vars
<1> SUFFICES ASSUME ~ended PROVE Steady'
  BY <1>0
<1>1. ctl = "prompt" /\ event = "none"
  <2>1. ctl = "prompt"
    BY UserCases, ManageMaps, KillMaps
    DEF cmd_reg, cmd_continue, cmd_stepi, cmd_step, TempCommand, temp_then_continue, GivesUp,
        Prompt
  <2> QED
    BY <2>1 DEF WaitedFor
<1>2. CASE ManageCommand
  BY <1>1, <1>2, ManageEffect DEF Steady, GoTo
<1>3. CASE cmd_reg
  BY <1>1, <1>3 DEF cmd_reg, set_register_value, Steady
<1>4. CASE cmd_run \/ cmd_exit
  <2>1. ctl' \in {"spawn", "exited"} /\ event' = "none" /\ sig' = sig
    BY <1>1, <1>4 DEF cmd_run, cmd_exit, GoTo
  <2> QED
    BY <1>4, <2>1, KillEffect DEF Steady
<1>5. CASE cmd_continue
  BY <1>1, <1>5 DEF cmd_continue, Steady
<1>6. CASE cmd_stepi
  <2>1. active /\ ctl' \in {"over", "single"}
    BY <1>6 DEF cmd_stepi, with_breakpoint_check
  <2> QED
    BY <1>1, <1>6, <2>1 DEF cmd_stepi, Steady
<1>7. CASE cmd_step
  <2>1. active /\ ctl' = "loop"
    BY <1>1, <1>7, LineKnown DEF cmd_step
  <2> QED
    BY <1>1, <1>7, <2>1 DEF cmd_step, Steady
<1>8. CASE TempCommand
  <2>1. ctl' = "over" /\ active /\ UNCHANGED <<traceeVars, sig, proc, active>>
    BY <1>8, TempMaps DEF temp_then_continue, set_temp_bp_location
  <2> QED
    BY <1>1, <2>1 DEF Steady
<1>9. CASE GivesUp
  BY <1>9, LineKnown DEF GivesUp
<1> QED
  BY <1>2, <1>3, <1>4, <1>5, <1>6, <1>7, <1>8, <1>9, UserCases

\* So does the engine.
LEMMA DebuggerSteady ==
  ASSUME WellBehaved, ~SilentSignals, EngineInv, WaitedFor, Steady, debugger,
         \A a \in Reported : own'[a] # INT3
  PROVE  Steady'
<1> USE DEF Waits, traceeVars, cmdVars
<1>1. CASE spawn
  BY <1>1 DEF spawn, spawn_tracee, Steady, WellBehaved
<1>2. CASE \/ resolve_pending_breakpoints \/ execute_step_over_loc \/ loc_enable_after_step
           \/ unset_temps
  <2>1. /\ ctl \in {"resolve", "over", "replant", "unset"}
        /\ UNCHANGED <<traceeVars, sig, proc, active>>
    BY <1>2
    DEF resolve_pending_breakpoints, resolve_pending_breakpoint, execute_step_over_loc,
        loc_enable_after_step, unset_temps, unset_temp_bp_location, lift, replant, GoTo, bpmVars
  <2>2. active /\ event = "none"
    BY <2>1 DEF Steady, WaitedFor
  <2>3. ctl' \notin {"aborted", "undefined"}
    BY <1>2, <2>2, AfterStepPlace
    DEF resolve_pending_breakpoints, execute_step_over_loc, loc_enable_after_step, unset_temps,
        unset_temp_bp_location, GoTo, Steady
  <2> QED
    BY <2>1, <2>2, <2>3 DEF Steady
<1>3. CASE print_source_at_current_pc
  <2>1. ctl = "print" /\ active
    BY <1>3 DEF print_source_at_current_pc, Steady
  <2>2. ctl' = "prompt" /\ UNCHANGED <<traceeVars, cmdVars, bpmVars>>
    BY <1>3, <2>1, LineKnown DEF print_source_at_current_pc, GoTo
  <2> QED
    BY <2>1, <2>2 DEF Steady, bpmVars
<1>4. CASE step_in_loop
  <2>1. ctl = "loop" /\ active
    BY <1>4 DEF step_in_loop, Steady
  <2>2. PICK p \in ReadPc :
          GoTo(CASE get_line_from_pc(p) = line -> with_breakpoint_check(p)
                 [] get_line_from_pc(p) # line /\ get_line_from_pc(p) \in {0, NoModule} -> "aborted"
                 [] OTHER -> "prompt")
    BY <1>4 DEF step_in_loop
  <2>3. get_line_from_pc(p) \notin {0, NoModule}
    BY <2>1, LineKnown
  <2>4. ctl' \in {with_breakpoint_check(p), "prompt"}
    BY <2>2, <2>3 DEF GoTo
  <2>5. ctl' \in {"over", "single", "prompt"}
    BY <2>4 DEF with_breakpoint_check
  <2> QED
    BY <1>4, <2>1, <2>5, LoopPlace DEF Steady, bpmVars
<1>5. CASE single_step_instruction \/ continue_execution
  <2>1. /\ ctl \in {"single", "cont"} /\ event = "none" /\ event' = "none" /\ pc' = pc
        /\ ctl' \in Waits
    BY <1>5 DEF single_step_instruction, continue_execution, ptrace_resume, WaitedFor, Steady
  <2>2. active /\ proc = "stopped"
    BY <2>1
    DEF Steady, EngineInv, TableInv, BPTypeOK, Life, Conduct, Standstill
  <2>3. proc' = "running" /\ active' = active /\ sig' = "none"
    BY <1>5, <2>2
    DEF single_step_instruction, continue_execution, ptrace_resume, resume, Steady
  <2> QED
    BY <2>1, <2>2, <2>3 DEF Steady
<1>6. CASE wait_no_child \/ wait_death \/ wait_fault \/ wait_silent
  BY <1>6
  DEF wait_no_child, wait_death, reap_tracee, wait_fault, wait_silent, Waited, Steady,
      EngineInv, TableInv, Life, Conduct, Standstill
<1>7. CASE wait_breakpoint \/ wait_trace \/ wait_other
  <2>1. /\ ctl \in Waits /\ proc = "stopped" /\ event' = "none"
        /\ UNCHANGED <<bpmVars, sig>>
    BY <1>7 DEF wait_breakpoint, wait_trace, wait_other, Waited, Report
  <2>2. ctl' = Return
    BY <1>7, HitKnown DEF wait_breakpoint, wait_trace, wait_other, Waited, Report
  <2>3. pc' \in Reported
    BY <1>7 DEF wait_breakpoint, wait_trace, wait_other, Waited, at_int3, Steady
  <2>4. Return \in {"unset", "replant", "print", "loop", "cont"}
    BY <2>1, ReturnPlace, AfterStepPlace
  <2> QED
    BY <2>1, <2>2, <2>3, <2>4 DEF Steady, bpmVars
<1> QED
  BY <1>1, <1>2, <1>3, <1>4, <1>5, <1>6, <1>7 DEF debugger

\* So do the tracee and the kernel.
LEMMA TraceeSteady ==
  ASSUME WellBehaved, ~SilentSignals, ~Killable, EngineInv, WaitedFor, MemoryIntact, Steady,
         execute \/ receive_signal \/ killed,
         \A a \in Reported : own'[a] # INT3
  PROVE  Steady'
<1>0. /\ proc = "running" /\ event = "none" /\ pc \in Reported /\ pc \in Mapped
      /\ Raise[pc] = "none" /\ Flow[pc] # {} /\ Flow[pc] \subseteq Reported
  BY DebuggerAssumption
  DEF execute, execute_int3, execute_fault, execute_abort, execute_plain, execute_exit,
      receive_signal, killed, Stops, stop, WaitedFor, Steady, WellBehaved
<1>1. UNCHANGED <<ctl, sig, active, patched>> /\ proc' \in {"running", "stopped"}
  BY <1>0
  DEF execute, execute_int3, execute_fault, execute_abort, execute_plain, execute_exit,
      receive_signal, killed, Stops, stop, cmdVars, bpmVars
<1>2. CASE execute_int3
  <2>1. mem[pc] = INT3 /\ event' = "brk" /\ pc' = pc + 1
    BY <1>2 DEF execute_int3, Stops
  <2>2. pc \in patched
    BY <1>0, <2>1 DEF MemoryIntact, Steady
  <2>3. pc \in Nat
    BY DEF EngineInv, Conduct, EngineTypeOK
  <2>4. pc' - 1 \in Reported \cap patched'
    BY <1>0, <1>1, <2>1, <2>2, <2>3
  <2> QED
    BY <1>1, <2>1, <2>4 DEF Steady
<1>3. CASE execute_plain \/ receive_signal
  <2>1. event' \in {"none", "trace", "silent", "other"} /\ pc' \in Reported
    BY <1>0, <1>3 DEF execute_plain, receive_signal, Stops
  <2> QED
    BY <1>1, <2>1 DEF Steady
<1> QED
  BY <1>0, <1>2, <1>3 DEF execute, execute_fault, execute_abort, execute_exit, killed

\* Debugging a program that stays on known lines and neither faults nor ends,
\* with nobody else to kill it, no silent signal and no write over a patch, no
\* assertion of the engine fails and no freed location is used: every int3 the
\* tracee runs into is a location with an owner (print_bp_hit_message_at_loc),
\* the tracee is active when the temporary breakpoints go
\* (unset_temp_bp_location), libdwfl knows the module of every pc.
THEOREM NoAbort ==
  ASSUME WellBehaved, ~SilentSignals, ~PokePatched, ~Killable
  PROVE  Spec => []AbortFree
<1>1. Init => Steady /\ MemoryIntact
  BY DebuggerAssumption DEF Init, BPInit, Steady, MemoryIntact, WellBehaved
<1>2. EngineInv /\ WaitedFor /\ MemoryIntact /\ Steady /\ [Next]_vars =>
        MemoryIntact' /\ Steady'
  <2> SUFFICES ASSUME EngineInv, WaitedFor, MemoryIntact, Steady, [Next]_vars
               PROVE  MemoryIntact' /\ Steady'
    OBVIOUS
  <2>1. MemoryIntact'
    BY StepMaps, NextMemory DEF EngineInv
  <2>2. \A a \in Reported : own'[a] # INT3
    BY StepMaps, NextOwn DEF EngineInv, Steady
  <2>3. CASE UNCHANGED vars
    <3>1. UNCHANGED <<ctl, active, proc, sig, event, pc, patched>>
      BY <2>3 DEF vars, traceeVars, cmdVars, bpmVars
    <3> QED
      BY <2>1, <2>2, <3>1 DEF Steady
  <2> QED
    BY <2>1, <2>2, <2>3, UserSteady, DebuggerSteady, TraceeSteady DEF Next
<1>3. EngineInv /\ WaitedFor /\ [Next]_vars => WaitedFor'
  BY NextWaitedFor
<1>4. Steady => AbortFree
  BY DEF Steady, AbortFree
<1> QED
  BY <1>1, <1>2, <1>3, <1>4, InitEngine, NextEngine, InitWaitedFor, PTL DEF Spec

=============================================================================
