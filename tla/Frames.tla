-------------------------------- MODULE Frames --------------------------------
(***************************************************************************)
(* The commands of stepping.c that reason about stack frames and lines:    *)
(* next, finish, step and backtrace, on a tracee with a call stack.        *)
(*                                                                         *)
(* The tracee is a program of instructions with addresses, lengths and     *)
(* lines, as compiled with frame pointers: a call pushes the return        *)
(* address, the prologue pushes rbp and points it at the new frame, leave  *)
(* undoes that and ret returns.  Stack memory is the sequence of frames    *)
(* [ret, saved]; rbp is the index of the frame it points to, 0 below main. *)
(*                                                                         *)
(* A location is here only the address where the tracee stops: that the    *)
(* patches and the steps over them are otherwise invisible is the subject  *)
(* of Breakpoints and Debugger.  The user's breakpoints are set before the *)
(* run, enabled and stay.                                                  *)
(***************************************************************************)
EXTENDS Integers, Sequences

CONSTANTS
  Code,       \* Code[a]: the instruction at a, [op, len, line, to]
  Funcs,      \* the functions, [low, high): dwarf_lowpc, dwarf_highpc
  Main,       \* the one named "main"
  Libc,       \* main's return address, in a module libdwfl does not know
  BreakAt,    \* where the user may set a breakpoint
  CommandAt,  \* CommandAt[c]: where the user gives the command c
  MaxDepth    \* bound on the depth of the call stack

Ops == {"endbr", "push", "mov", "plain", "jump", "call", "leave", "ret"}
Instrs == DOMAIN Code
Commands == {"continue", "stepi", "step", "next", "finish", "backtrace"}

ASSUME FramesAssumption ==
  /\ Instrs \subseteq Nat
  /\ \A a \in Instrs : /\ Code[a].op \in Ops
                       /\ Code[a].len \in Nat \ {0} /\ Code[a].line \in Nat \ {0}
                       /\ Code[a].to \subseteq Instrs
  /\ \A f \in Funcs : f.low \in Instrs /\ f.high \in Nat
  /\ Main \in Funcs
  /\ Libc \in Nat \ Instrs
  /\ BreakAt \subseteq Instrs
  /\ CommandAt \in [Commands -> SUBSET Instrs]
  /\ MaxDepth \in Nat \ {0}

Unreadable == -1    \* what PTRACE_PEEKDATA returns for an address with no memory

VARIABLES
  pc, rbp, stack,   \* the tracee
  bps,              \* the user's locations
  temps,            \* the temporary locations, which are those in to_delete
  ctl,              \* "prompt", "running", "frames", "aborted" or "exited"
  cmd,              \* the command given last
  start,            \* [pc, depth] of the tracee when it was given
  trace, ra, fp     \* frames printed by backtrace; its return_address, frame_pointer

traceeVars == <<pc, rbp, stack>>
walkVars == <<trace, ra, fp>>
vars == <<pc, rbp, stack, bps, temps, ctl, cmd, start, trace, ra, fp>>

\* The tracee stands at main's entry.
Init ==
  /\ pc = Main.low /\ rbp = 0 /\ stack = <<[ret |-> Libc, saved |-> 0]>>
  /\ bps \in SUBSET BreakAt
  /\ temps = {}
  /\ ctl = "prompt" /\ cmd = "continue"
  /\ start = [pc |-> Main.low, depth |-> 1]
  /\ trace = <<>> /\ ra = Unreadable /\ fp = 0

-----------------------------------------------------------------------------
(***************************************************************************)
(* What the debugger reads.                                                *)
(***************************************************************************)

\* read_memory(frame + 8) and read_memory(frame).
return_address(frame) == IF frame \in DOMAIN stack THEN stack[frame].ret ELSE Unreadable
caller_frame(frame) == IF frame \in DOMAIN stack THEN stack[frame].saved ELSE Unreadable

\* get_func_die_from_pc: the functions that contain the address, none or one.
get_func_die_from_pc(p) == {f \in Funcs : f.low <= p /\ p < f.high}

\* The instruction in front of a.
before(a) == CHOOSE b \in Instrs : b < a /\ \A c \in Instrs : c < a => c <= b

\* Mutant: the scan does not end with the function.
lines_beyond(p) == {a \in Instrs : p < a /\ Code[a].line # Code[before(a)].line}

\* The loop of step_over, from the pc to the end of the function: every
\* address at which the line changes.
lines_from(p) ==
  UNION {{a \in Instrs : p < a /\ a < f.high /\ Code[a].line # Code[before(a)].line}
          : f \in get_func_die_from_pc(p)}

-----------------------------------------------------------------------------
(***************************************************************************)
(* The commands.                                                           *)
(***************************************************************************)

\* set_temp_bp_location at the addresses S, then the tracee is resumed.
go(c, S) ==
  /\ ctl = "prompt" /\ pc \in CommandAt[c]
  /\ ctl' = "running"
  /\ cmd' = c
  /\ start' = [pc |-> pc, depth |-> Len(stack)]
  /\ temps' = S \ bps
  /\ trace' = <<>>
  /\ UNCHANGED <<traceeVars, bps, ra, fp>>

continue_execution == go("continue", {})

stepi == go("stepi", {})

step_in == go("step", {})

\* Mutant: finish takes the caller's frame.
step_out_twice == go("finish", {return_address(caller_frame(rbp))})

step_out == go("finish", {return_address(rbp)})

\* Mutant: no breakpoint at the return address.
next_temps_no_return == lines_from(pc)

\* next leaves main's return address alone.
next_temps ==
  lines_from(pc) \cup IF get_func_die_from_pc(pc) = {Main} THEN {} ELSE {return_address(rbp)}

step_over == go("next", next_temps)

\* print_backtrace up to its loop.  At a function's entry the first
\* print_frame runs the tracee to pc + 4.
print_backtrace ==
  IF \E f \in Funcs : f.low = pc THEN go("backtrace", {pc + 4})
  ELSE /\ ctl = "prompt" /\ pc \in CommandAt["backtrace"]
       /\ cmd' = "backtrace"
       /\ start' = [pc |-> pc, depth |-> Len(stack)]
       /\ ctl' = "frames" /\ trace' = <<pc>> /\ fp' = rbp /\ ra' = return_address(rbp)
       /\ UNCHANGED <<traceeVars, bps, temps>>

\* Mutant: the return address is read before the frame pointer moves on.
print_frame_behind ==
  /\ ctl = "frames"
  /\ IF get_func_die_from_pc(trace[Len(trace)]) = {Main}
     THEN ctl' = "prompt" /\ UNCHANGED walkVars
     ELSE /\ trace' = Append(trace, ra)
          /\ fp' = caller_frame(fp)
          /\ ra' = return_address(fp)
          /\ UNCHANGED ctl
  /\ UNCHANGED <<traceeVars, bps, temps, cmd, start>>

\* One turn of the loop of print_backtrace: done at main, aborted where
\* libdwfl knows no module, else one more frame.
print_frame ==
  /\ ctl = "frames"
  /\ IF get_func_die_from_pc(trace[Len(trace)]) = {Main}
     THEN ctl' = "prompt" /\ UNCHANGED walkVars
     ELSE IF get_func_die_from_pc(ra) = {}
     THEN ctl' = "aborted" /\ UNCHANGED walkVars
     ELSE /\ trace' = Append(trace, ra)
          /\ fp' = caller_frame(fp)
          /\ ra' = return_address(fp')
          /\ UNCHANGED ctl
  /\ UNCHANGED <<traceeVars, bps, temps, cmd, start>>

-----------------------------------------------------------------------------
(***************************************************************************)
(* The tracee executes, and stops where the command wants it to.           *)
(***************************************************************************)
op == Code[pc].op

\* One instruction (external).
instruction ==
  /\ IF op = "ret" THEN pc' = stack[Len(stack)].ret
     ELSE IF op \in {"jump", "call"}
     THEN pc' \in {a \in Code[pc].to : Len(stack) = MaxDepth => Code[a].op # "call"}
     ELSE pc' = pc + Code[pc].len
  /\ stack' = CASE op = "call" -> Append(stack, [ret |-> pc + Code[pc].len, saved |-> 0])
                [] op = "push" -> [stack EXCEPT ![Len(stack)].saved = rbp]
                [] op = "ret" -> SubSeq(stack, 1, Len(stack) - 1)
                [] OTHER -> stack
  /\ rbp' = CASE op = "mov" -> Len(stack)
              [] op = "leave" -> stack[Len(stack)].saved
              [] OTHER -> rbp

\* Where a command that single-steps has arrived.
stepped ==
  cmd = "step" => pc' \notin {a \in Instrs : Code[a].line = Code[start.pc].line}

\* The tracee stops here, for the command or for the user's breakpoint.
arrived == IF cmd \in {"stepi", "step"} THEN stepped ELSE pc' \in bps \cup temps

\* handle_sigtrap finds a location, or the single steps are done; then the
\* temporary locations go.  In the C library the source line is asked of a
\* module that is not there.
stop ==
  /\ ctl = "running" /\ instruction
  /\ arrived
  /\ temps' = {}
  /\ IF pc' = Libc \/ (cmd = "backtrace" /\ pc' # start.pc + 4)
     THEN ctl' = "aborted" /\ UNCHANGED walkVars
     ELSE IF cmd # "backtrace" THEN ctl' = "prompt" /\ UNCHANGED walkVars
     ELSE ctl' = "frames" /\ trace' = <<pc'>> /\ fp' = rbp' /\ ra' = return_address(rbp)'
  /\ UNCHANGED <<bps, cmd, start>>

\* It runs on.
run_on ==
  /\ ctl = "running" /\ instruction
  /\ pc' # Libc
  /\ ~arrived
  /\ UNCHANGED <<bps, temps, ctl, cmd, start, walkVars>>

\* main returns and the process exits; unset_temp_bp_location asserts that
\* the tracee is active.
exit ==
  /\ ctl = "running" /\ instruction
  /\ pc' = Libc
  /\ cmd \notin {"stepi", "step"} /\ Libc \notin temps
  /\ ctl' = IF temps = {} THEN "exited" ELSE "aborted"
  /\ UNCHANGED <<bps, temps, cmd, start, walkVars>>

ended == ctl \in {"aborted", "exited"} /\ UNCHANGED vars

Next ==
  \/ continue_execution \/ stepi \/ step_in \/ step_out \/ step_over
  \/ print_backtrace \/ print_frame
  \/ stop \/ run_on \/ exit \/ ended

Spec == Init /\ [][Next]_vars

-----------------------------------------------------------------------------
(***************************************************************************)
(* Properties.  A user's breakpoint may end a command anywhere; they are   *)
(* about the stops the command itself made.                                *)
(***************************************************************************)
Done(c) == cmd = c /\ ctl = "running" /\ ctl' = "prompt" /\ pc' \notin bps

\* next steps over calls: it does not stop in a frame deeper than the one it
\* was given in.
NextNotDeeper == [][ Done("next") => Len(stack') <= start.depth ]_vars

\* next stops at the next line: the tracee does not run on in the frame once
\* it has reached another line, nor in the caller ("`next` sets temp
\* breakpoints on every line in the current function").
NextStops ==
  [][ cmd = "next" /\ run_on =>
        \/ Len(stack') > start.depth
        \/ Len(stack') = start.depth /\ Code[pc'].line = Code[start.pc].line ]_vars

\* finish stops in the caller ("`finish` sets a temp bp at the return
\* address").
FinishReturns == [][ Done("finish") => Len(stack') = start.depth - 1 ]_vars

\* backtrace prints the frames there are, the pc, then the return addresses up
\* to the one in main; and it comes back, wherever it was given ("move the pc
\* forward", the comment on the function's entry).
BacktraceTrue ==
  cmd = "backtrace" =>
    /\ ctl # "aborted"
    /\ ctl = "prompt" =>
         trace = [i \in 1 .. Len(stack) |-> IF i = 1 THEN pc ELSE stack[Len(stack) + 2 - i].ret]

=============================================================================
