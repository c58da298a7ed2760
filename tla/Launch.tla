-------------------------------- MODULE Launch --------------------------------
(***************************************************************************)
(* spawn_tracee step by step, with what can fail in it: fork, execv, a     *)
(* child that dies or gets a signal before its first stop.  Module         *)
(* Debugger takes a successful start as one step (`spawn').                *)
(*                                                                         *)
(* The child of a fork is a copy of vdbg until its execv succeeds.  When   *)
(* execv fails it returns from spawn_tracee to the prompt: a second        *)
(* debugger, itself traced by the first, which waits for it.  dbg[i] is    *)
(* the i-th debugger of that chain, kid[i] the child it has forked; the    *)
(* kid that is a debugger is dbg[i + 1].                                   *)
(***************************************************************************)
EXTENDS Arguments

CONSTANTS
  Pie,           \* header->e_type = ET_DYN
  Depth,         \* bound: debuggers in the chain; the last one's execv succeeds
  Failures,      \* which of "fork" and "exec" may fail
  Signals        \* the signals a child may get before the program runs

ASSUME LaunchAssumption ==
  /\ Pie \in BOOLEAN
  /\ Depth \in Nat \ {0}
  /\ Failures \subseteq {"fork", "exec"}
  /\ Signals \subseteq {"fatal", "silent", "other"}

VARIABLES
  dbg,   \* [at, active, load, planted, sig] of each debugger
  kid    \* [image, life, why] of its child

vars == <<argumentVars, dbg, kid>>

Debuggers == 1 .. Depth

\* at: where it stands; "none" when there is no such process.
\* load: whose memory map load_address was read from.
\* planted: whose memory the breakpoints were written into; "none" while
\* dbg->bp_locations is NULL, "lost" when ptrace could not write.
NoDebugger == [at |-> "none", active |-> FALSE, load |-> "none", planted |-> "none", sig |-> "none"]

\* image: a copy of vdbg or the program; why: what it stopped for.
NoKid == [image |-> "none", life |-> "none", why |-> "none"]
Forked == [image |-> "vdbg", life |-> "running", why |-> "none"]

Init ==
  /\ ArgumentsInit
  /\ dbg = [i \in Debuggers |-> IF i = 1 THEN [NoDebugger EXCEPT !.at = "prompt"] ELSE NoDebugger]
  /\ kid = [i \in Debuggers |-> NoKid]

\* Debugger i is at p and not itself stopped by its tracer.
Runs(i) == i > 1 => kid[i - 1].image = "vdbg" /\ kid[i - 1].life = "running"
At(i, p) == dbg[i].at = p /\ Runs(i)

GoTo(i, p) == dbg' = [dbg EXCEPT ![i].at = p]

-----------------------------------------------------------------------------
(***************************************************************************)
(* Commands.                                                               *)
(***************************************************************************)

\* Bound: only the first debugger is told arguments; the others have a copy.
cmd_arguments ==
  /\ At(1, "prompt")
  /\ \E n \in Given, s \in Strings : add_arguments_for_tracee(n, s)
  /\ UNCHANGED <<dbg, kid>>

\* kill_tracee if there is one, then fork.  The child goes on in its own copy
\* of the debugger; without one, pid is -1.
run(i) ==
  /\ At(i, "prompt")
  /\ \E child \in {Forked} \cup {NoKid : f \in Failures \cap {"fork"}} :
       /\ kid' = [j \in Debuggers |-> CASE j < i -> kid[j] [] j = i -> child [] OTHER -> NoKid]
       /\ dbg' = [j \in Debuggers |->
                    CASE j < i -> dbg[j]
                      [] j = i -> [NoDebugger EXCEPT !.at = "wait", !.sig = dbg[i].sig]
                      [] j = i + 1 /\ child = Forked ->
                                  [NoDebugger EXCEPT !.at = "execv", !.sig = dbg[i].sig]
                      [] OTHER -> NoDebugger]
  /\ UNCHANGED argumentVars

\* exit and EOF: dbg_kill_tracee, then dbg_free, which asserts that
\* dbg->bp_locations is NULL.
exit(i) ==
  /\ At(i, "prompt")
  /\ LET killed == dbg[i].active /\ kid[i].life # "none"
         freed == killed \/ dbg[i].planted = "none"
     IN  /\ GoTo(i, IF freed THEN "exited" ELSE "aborted")
         /\ kid' = [j \in Debuggers |->
                      CASE j = i /\ killed -> NoKid
                        [] j = i - 1       -> [kid[j] EXCEPT !.life = IF freed THEN "zombie" ELSE "stopped",
                                                             !.why = IF freed THEN "none" ELSE "abrt"]
                        [] OTHER           -> kid[j]]
  /\ UNCHANGED argumentVars

-----------------------------------------------------------------------------
(***************************************************************************)
(* The child: PTRACE_TRACEME, personality, execv.                          *)
(***************************************************************************)

\* execv has replaced the copy of vdbg, and stops.
execv(i) ==
  /\ kid[i] = Forked
  /\ i < Depth => dbg[i + 1].at = "execv"
  /\ execv_arguments
  /\ kid' = [kid EXCEPT ![i] = [image |-> "program", life |-> "stopped", why |-> "exec"]]
  /\ dbg' = [j \in Debuggers |-> IF j = i + 1 THEN NoDebugger ELSE dbg[j]]

\* execv returns: nothing ends the child, so it returns from run.
execv_fails(i) ==
  /\ "exec" \in Failures
  /\ i > 1 /\ At(i, "execv")
  /\ GoTo(i, "prompt")
  /\ UNCHANGED <<argumentVars, kid>>

\* A signal for the child before the program runs in it.  A fatal one takes
\* also a stopped child (bound: not one that is a debugger at its prompt); any
\* other, SIGWINCH or ^C for the foreground group, stops a running child.
child_gets_signal(i) ==
  /\ kid[i].image = "vdbg" \/ kid[i].why = "exec"
  /\ \/ /\ "fatal" \in Signals /\ kid[i].life \in {"running", "stopped"}
        /\ i < Depth /\ kid[i].image = "vdbg" => dbg[i + 1].at = "execv"
        /\ kid' = [kid EXCEPT ![i].life = "zombie"]
        /\ dbg' = [j \in Debuggers |-> IF j = i + 1 THEN NoDebugger ELSE dbg[j]]
     \/ /\ kid[i].life = "running"
        /\ \E w \in Signals \ {"fatal"} : kid' = [kid EXCEPT ![i].life = "stopped", ![i].why = w]
        /\ UNCHANGED dbg
  /\ UNCHANGED argumentVars

\* The program runs until it ends or stops, for a signal the debugger keeps
\* (SIGSEGV like SIGABRT) or another.
program_runs(i) ==
  /\ kid[i].life = "running" /\ kid[i].image = "program"
  /\ \/ kid' = [kid EXCEPT ![i].life = "zombie"]
     \/ \E w \in {"abrt", "other"} : kid' = [kid EXCEPT ![i].life = "stopped", ![i].why = w]
  /\ UNCHANGED <<argumentVars, dbg>>

-----------------------------------------------------------------------------
(***************************************************************************)
(* The parent: wait_for_signal and the rest of spawn_tracee.               *)
(***************************************************************************)
Waiting(i) == At(i, "wait") \/ At(i, "contwait")

\* Mutant: the debugger does not wait for its child.
waited_not(i) == TRUE

\* waitpid has something to report: a stop, a death, or ECHILD.
waited(i) == kid[i].life # "running"

after_wait(i) == IF dbg[i].at = "wait" THEN "load" ELSE "prompt"

\* Mutant: the table of locations is kept.
cleanup_keeps_table(i) == [dbg[i] EXCEPT !.at = after_wait(i), !.active = FALSE, !.load = "none"]

cleanup_at_tracee_death(i) == [NoDebugger EXCEPT !.at = after_wait(i), !.sig = dbg[i].sig]

\* wait_for_signal.  A death leads to cleanup_at_tracee_death; a silent signal
\* to PTRACE_CONT and no other waitpid; SIGABRT is kept for the child.
wait_for_signal(i) ==
  /\ Waiting(i) /\ waited(i)
  /\ CASE kid[i].life = "zombie" ->
            /\ kid' = [kid EXCEPT ![i] = NoKid]
            /\ dbg' = [j \in Debuggers |->
                         CASE j = i     -> cleanup_at_tracee_death(i)
                           [] j = i + 1 -> NoDebugger
                           [] OTHER     -> dbg[j]]
       [] kid[i].life = "stopped" ->
            /\ kid' = [kid EXCEPT ![i].life = IF kid[i].why = "silent" THEN "running" ELSE @,
                                  ![i].why = "none"]
            /\ dbg' = [dbg EXCEPT ![i].at = after_wait(i),
                                  ![i].sig = IF kid[i].why = "abrt" THEN "abrt" ELSE @]
       [] OTHER -> GoTo(i, after_wait(i)) /\ UNCHANGED kid
  /\ UNCHANGED argumentVars

\* abort(): a debugger that is traced stops for its tracer to see the SIGABRT.
abort(i) ==
  /\ GoTo(i, "aborted")
  /\ kid' = [j \in Debuggers |->
               IF j = i - 1 THEN [kid[j] EXCEPT !.life = "stopped", !.why = "abrt"] ELSE kid[j]]

\* Mutant: the missing /proc/<pid>/maps is not noticed.
load_unchecked(i) ==
  /\ At(i, "load")
  /\ dbg' = [dbg EXCEPT ![i].at = "resolve", ![i].active = TRUE]
  /\ UNCHANGED <<argumentVars, kid>>

\* initialize_load_address, and dbg->state = ACTIVE.  /proc/<pid>/maps does
\* not exist without a process, and is empty for a zombie.
initialize_load_address(i) ==
  /\ At(i, "load")
  /\ IF Pie /\ kid[i].life = "none" THEN abort(i)
     ELSE /\ dbg' = [dbg EXCEPT ![i].at = "resolve",
                                ![i].active = TRUE,
                                ![i].load = IF Pie /\ kid[i].life # "zombie" THEN kid[i].image ELSE "none"]
          /\ UNCHANGED kid
  /\ UNCHANGED argumentVars

\* resolve_pending_breakpoints; ptrace writes only into a stopped child.
resolve_pending_breakpoints(i) ==
  /\ At(i, "resolve")
  /\ IF dbg[i].planted # "none" THEN abort(i)
     ELSE /\ dbg' = [dbg EXCEPT ![i].at = "report",
                                ![i].planted = IF kid[i].life = "stopped" THEN kid[i].image ELSE "lost"]
          /\ UNCHANGED kid
  /\ UNCHANGED argumentVars

\* When dwfl_linux_proc_report fails, dwfl_report_end uses the handle that
\* dwfl_end has freed.
setup_dwfl(i) ==
  /\ At(i, "report")
  /\ GoTo(i, IF kid[i].life = "none" THEN "undefined" ELSE "continue")
  /\ UNCHANGED <<argumentVars, kid>>

\* PTRACE_CONT, with the pending signal, which kills a child that has just
\* been started; a child that runs already is left alone.
continue_execution(i) ==
  /\ At(i, "continue")
  /\ kid' = [kid EXCEPT ![i].life = IF @ # "stopped" THEN @
                                    ELSE IF dbg[i].sig = "abrt" THEN "zombie" ELSE "running"]
  /\ dbg' = [dbg EXCEPT ![i].at = "contwait", ![i].sig = "none"]
  /\ UNCHANGED argumentVars

-----------------------------------------------------------------------------
launch(i) ==
  \/ wait_for_signal(i) \/ initialize_load_address(i) \/ resolve_pending_breakpoints(i)
  \/ setup_dwfl(i) \/ continue_execution(i) \/ execv(i) \/ execv_fails(i)

Next ==
  \/ cmd_arguments
  \/ \E i \in Debuggers :
       launch(i) \/ run(i) \/ exit(i) \/ child_gets_signal(i) \/ program_runs(i)

\* A debugger that is not blocked goes on, and so does its child; nobody is
\* obliged to type.
Spec == Init /\ [][Next]_vars /\ \A i \in Debuggers : WF_vars(launch(i))

-----------------------------------------------------------------------------
(***************************************************************************)
(* Properties.                                                             *)
(***************************************************************************)

\* However often execv fails, one process at a time reads the terminal.
OneReader ==
  \A i, j \in Debuggers : dbg[i].at = "prompt" /\ dbg[j].at = "prompt" => i = j

\* Before the tracee is let go, the load address and the int3s are those of
\* the program: not of the copy of vdbg that fork made.  (A child that is sent
\* a pending signal, its own or the one the tracee before it stopped for, is
\* gone with the next step.)
Launched ==
  \A i \in Debuggers :
    dbg[i].at = "continue" /\ kid[i].life \in {"running", "stopped"} /\ dbg[i].sig = "none" =>
      /\ kid[i].image = "program"
      /\ dbg[i].planted = "program"
      /\ Pie => dbg[i].load = "program"

\* At the prompt the debugger is right about its tracee: it is ACTIVE exactly
\* while there is one, and keeps nothing of a start that failed.
PromptTrue ==
  \A i \in Debuggers : dbg[i].at = "prompt" =>
    /\ dbg[i].active <=> kid[i].life # "none"
    /\ ~dbg[i].active => dbg[i].planted = "none" /\ dbg[i].load = "none"

\* No freed libdwfl handle is used.
HandleValid == \A i \in Debuggers : dbg[i].at # "undefined"

\* A start ends: the program runs, or the debugger is back at the prompt or
\* gone, or a debugger further down the chain has the prompt or a program.
Starting == {"wait", "load", "resolve", "report", "continue"}

StartEnds ==
  \A i \in Debuggers :
    dbg[i].at \in Starting ~>
      \/ dbg[i].at \notin Starting
      \/ \E j \in i + 1 .. Depth : dbg[j].at \in {"prompt", "contwait"}
      \/ wild

=============================================================================
