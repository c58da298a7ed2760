------------------------------- MODULE Commands -------------------------------
(***************************************************************************)
(* The command line of vdbg: the loop of dbg_start, handle_command with    *)
(* its table, scripts (source, --script), and the commands that name       *)
(* breakpoints: break, delete, enable, disable.                            *)
(*                                                                         *)
(* An input line is [word, args].  An argument is an id, [type, num], a    *)
(* descriptor, [type, text]: an address, a function, a file and line, or a *)
(* script.  What matters of a text is which stored texts are a prefix of   *)
(* it (Covers) and at how many addresses it is found (Found).  A command   *)
(* that resumes the tracee waits for it: whether it comes back, and if the *)
(* tracee is alive then, is left open; module Debugger is about that.      *)
(* Module Session adds what is around the loop: the options in front of    *)
(* it, and completion.                                                     *)
(***************************************************************************)
EXTENDS Integers, Sequences

CONSTANTS
  HasDwarf,   \* has_dwarf_symbols
  Typed,      \* the lines the user may type
  Scripts,    \* Scripts[s]: the lines of the script s
  Descs,      \* descriptors
  Found,      \* Found[d]: at how many addresses break finds d
  Covers,     \* Covers[d]: the descriptors of d's type whose text begins d's
  MaxBps,     \* bound on the number of breakpoints
  MaxOpen,    \* how many scripts can be open: a process has so many descriptors
  None

Ids == 1 .. MaxBps
ById(b) == [type |-> "id", num |-> b]
Comment == [word |-> "#", args |-> <<>>]
Inputs == Typed \cup UNION {{Scripts[s][i] : i \in DOMAIN Scripts[s]} : s \in DOMAIN Scripts}

ASSUME CommandsAssumption ==
  /\ HasDwarf \in BOOLEAN /\ MaxBps \in Nat /\ MaxOpen \in Nat
  /\ Found \in [Descs -> Nat]
  /\ Covers \in [Descs -> SUBSET Descs]
  /\ \A d \in Descs : d \in Covers[d] /\ \A e \in Covers[d] : e.type = d.type
  /\ None \notin Inputs

VARIABLES
  active,   \* dbg->state = ACTIVE
  bps,      \* the pending list: the breakpoints that are set
  desc,     \* desc[b]: how b was set
  enabled,  \* those with bp->enable
  ctl,      \* "options", "prompt", "handle", "args", "script", "exited"; "waiting"
            \* for the tracee, "asked" whether to kill it
  input,    \* the line handle_command works on
  last,     \* last_input
  rest,     \* the arguments the command has still to handle
  files,    \* the lines the open scripts have still to give, innermost last
  old       \* [bps, enabled] when the command was given

bpVars == <<bps, desc, enabled>>
commandVars == <<active, bps, desc, enabled, ctl, input, last, rest, files, old>>

\* commands[], and the entries that require a tracee or debug information.
commands == <<
  "arguments", "break", "backtrace", "continue", "clear", "context", "delete",
  "disable", "disassemble", "exit", "enable", "finish", "files", "functions",
  "help", "header", "list", "ls", "memory", "next", "plt", "run", "restart",
  "register", "step", "stepi", "source", "sections", "symbols", "vmmap" >>

requires_running_pid == {"backtrace", "continue", "context", "finish", "memory", "next",
                         "restart", "register", "step", "stepi", "vmmap"}
requires_dwarf_symbols == {"context", "finish", "next", "step"}

\* At the entry of a function backtrace resumes the tracee, too.
Resuming == {"run", "restart", "continue", "stepi", "step", "next", "finish", "backtrace"}
Choosing == {"break", "delete", "enable", "disable"}

CommandsInit ==
  /\ active = FALSE
  /\ bps = {} /\ desc = [b \in Ids |-> None] /\ enabled = {}
  /\ input = None /\ last = None /\ rest = <<>>
  /\ old = [bps |-> {}, enabled |-> {}]
  /\ files = <<>> /\ ctl = "options"

-----------------------------------------------------------------------------
(***************************************************************************)
(* Reading a line.                                                         *)
(***************************************************************************)
handle(i) ==
  /\ ctl' = "handle"
  /\ input' = i
  /\ old' = [bps |-> bps, enabled |-> enabled]

type_line ==
  /\ ctl = "prompt"
  /\ \E i \in Typed : handle(i) /\ last' = i
  /\ UNCHANGED <<active, bpVars, rest, files>>

empty_line ==
  /\ ctl = "prompt" /\ last # None
  /\ handle(last)
  /\ UNCHANGED <<active, bpVars, last, rest, files>>

\* The command is over: the next line comes from a script or from the user.
return == ctl' = IF files = <<>> THEN "prompt" ELSE "script"

\* With a tracee alive the user is asked, and may say no.
dbg_kill_tracee == ctl' = IF active THEN "asked" ELSE "exited"

answer ==
  /\ ctl = "asked"
  /\ active' \in BOOLEAN
  /\ IF active' THEN return ELSE ctl' = "exited"
  /\ UNCHANGED <<bpVars, input, last, rest, files, old>>

end_of_file ==
  /\ ctl = "prompt"
  /\ dbg_kill_tracee
  /\ UNCHANGED <<active, bpVars, input, last, rest, files, old>>

\* The loop of cmd_source; at the end of the file back to the caller.
script_line ==
  /\ ctl = "script"
  /\ LET s == files[Len(files)]
         outer == SubSeq(files, 1, Len(files) - 1)
     IN  IF s = <<>>
         THEN /\ files' = outer
              /\ ctl' = IF outer = <<>> THEN "prompt" ELSE "script"
              /\ UNCHANGED <<input, old>>
         ELSE /\ files' = Append(outer, Tail(s))
              /\ IF Head(s) = Comment THEN UNCHANGED <<ctl, input, old>> ELSE handle(Head(s))
  /\ UNCHANGED <<active, bpVars, last, rest>>

-----------------------------------------------------------------------------
(***************************************************************************)
(* handle_command.                                                         *)
(***************************************************************************)
is_prefix(w, name) == Len(w) <= Len(name) /\ SubSeq(name, 1, Len(w)) = w

First(S) == CHOOSE i \in S : \A j \in S : i <= j

\* The command a word means: the exact one, else the first it is a prefix of.
entry(w) ==
  LET prefix == {i \in DOMAIN commands : is_prefix(w, commands[i])}
  IN  IF \E i \in DOMAIN commands : commands[i] = w THEN {w}
      ELSE IF prefix # {} THEN {commands[First(prefix)]}
      ELSE {}

allowed(c) ==
  /\ c \in requires_running_pid => active
  /\ c \in requires_dwarf_symbols => HasDwarf

\* No such command, or a message that it needs a tracee or debug information.
refuse ==
  /\ ctl = "handle"
  /\ \A c \in entry(input.word) : ~allowed(c)
  /\ return
  /\ UNCHANGED <<active, bpVars, input, last, rest, files, old>>

\* The handler of the command c starts.
called(c) == ctl = "handle" /\ c \in entry(input.word) /\ allowed(c)

\* run, restart and the commands that resume the tracee wait for it to stop
\* (run with a tracee alive: for the user's answer).
cmd_execute ==
  /\ \E c \in Resuming : called(c)
  /\ ctl' = "waiting"
  /\ UNCHANGED <<active, bpVars, input, last, rest, files, old>>

\* They return, if they do, with a tracee or without.
execute_returns ==
  /\ ctl = "waiting"
  /\ active' \in BOOLEAN
  /\ return
  /\ UNCHANGED <<bpVars, input, last, rest, files, old>>

cmd_exit ==
  /\ called("exit")
  /\ dbg_kill_tracee
  /\ UNCHANGED <<active, bpVars, input, last, rest, files, old>>

\* A script that cannot be opened is reported.
cmd_source ==
  /\ called("source")
  /\ IF /\ input.args # <<>> /\ input.args[1].text \in DOMAIN Scripts
        /\ Len(files) < MaxOpen
     THEN files' = Append(files, Scripts[input.args[1].text]) /\ ctl' = "script"
     ELSE return /\ UNCHANGED files
  /\ UNCHANGED <<active, bpVars, input, last, rest, old>>

\* list, help and the others that change nothing here: they print, or write to
\* the tracee or its arguments.
cmd_other ==
  /\ \E i \in DOMAIN commands :
       /\ commands[i] \notin Resuming \cup Choosing \cup {"exit", "source"}
       /\ called(commands[i])
  /\ return
  /\ UNCHANGED <<active, bpVars, input, last, rest, files, old>>

\* break, delete, enable, disable with arguments: the loop over args + 1.
cmd_arguments ==
  /\ \E c \in Choosing : called(c)
  /\ input.args # <<>>
  /\ ctl' = "args" /\ rest' = input.args
  /\ UNCHANGED <<active, bpVars, input, last, files, old>>

\* Without arguments: all of them; break prints its usage.
cmd_all ==
  /\ input # None /\ input.args = <<>>
  /\ \/ called("break") /\ UNCHANGED bpVars
     \/ called("delete") /\ bps' = {} /\ enabled' = {} /\ UNCHANGED desc
     \/ called("enable") /\ enabled' = bps /\ UNCHANGED <<bps, desc>>
     \/ called("disable") /\ enabled' = {} /\ UNCHANGED <<bps, desc>>
  /\ return
  /\ UNCHANGED <<active, input, last, rest, files, old>>

-----------------------------------------------------------------------------
(***************************************************************************)
(* Breakpoint arguments.                                                   *)
(***************************************************************************)

\* The command whose arguments are being handled.
running(c) == ctl = "args" /\ rest # <<>> /\ c \in entry(input.word)

arg == Head(rest)

\* Mutant: the type and the text of the breakpoint do not matter.
matches_any_type(b, d) == TRUE

\* find_breakpoint_from_pending compares as many characters as the stored text
\* has: it matches every text that begins with it.
matches(b, d) == desc[b] \in Covers[d]

\* parse_arg_bp: an id, or the first match in the pending list.
parse_arg_bp(a) ==
  LET found == IF a.type = "id" THEN {a.num} \cap bps ELSE {b \in bps : matches(b, a)}
  IN  IF found = {} THEN {} ELSE {First(found)}

\* Mutant: an argument without a breakpoint ends the command.
return_if_unknown == IF parse_arg_bp(arg) = {} THEN <<>> ELSE Tail(rest)

\* Mutant: the loop goes on before it has stepped to the next argument.
stay_if_unknown == IF parse_arg_bp(arg) = {} THEN rest ELSE Tail(rest)

after_argument == Tail(rest)

\* break: a breakpoint for every address, none for a line without debug info.
\* The bound MaxBps cuts off what would not fit.
break_argument ==
  /\ running("break")
  /\ IF arg.type = "lineno" /\ ~HasDwarf
     THEN rest' = <<>> /\ UNCHANGED bpVars
     ELSE LET free == {b \in Ids : \A c \in Ids : desc[c] # None => c < b}
              new == {b \in free : \A c \in free : c <= b => b < c + Found[arg]}
          IN  /\ bps' = bps \cup new
              /\ desc' = [b \in Ids |-> IF b \in new THEN arg ELSE desc[b]]
              /\ enabled' = enabled \cup new
              /\ rest' = Tail(rest)
  /\ UNCHANGED <<active, ctl, input, last, files, old>>

\* delete: remove_breakpoint.
delete_argument ==
  /\ running("delete")
  /\ bps' = bps \ parse_arg_bp(arg)
  /\ enabled' = enabled \ parse_arg_bp(arg)
  /\ rest' = after_argument
  /\ UNCHANGED <<active, desc, ctl, input, last, files, old>>

enable_argument ==
  /\ running("enable") \/ running("disable")
  /\ enabled' = IF running("enable") THEN enabled \cup parse_arg_bp(arg)
                                     ELSE enabled \ parse_arg_bp(arg)
  /\ rest' = after_argument
  /\ UNCHANGED <<active, bps, desc, ctl, input, last, files, old>>

arguments_done ==
  /\ ctl = "args" /\ rest = <<>>
  /\ return
  /\ UNCHANGED <<active, bpVars, input, last, rest, files, old>>

ended == ctl = "exited" /\ UNCHANGED commandVars

-----------------------------------------------------------------------------
\* What goes on without the user and the tracee.
command ==
  \/ script_line \/ refuse \/ cmd_execute \/ cmd_exit \/ cmd_source \/ cmd_other
  \/ cmd_arguments \/ cmd_all
  \/ break_argument \/ delete_argument \/ enable_argument \/ arguments_done

-----------------------------------------------------------------------------
Names(a, b) == a \in {ById(b), desc[b]}
Selecting == ctl = "args" /\ "break" \notin entry(input.word)

\* delete, enable and disable touch no breakpoint but those their arguments
\* name, by id or as they were set.  This needs descriptors none of which
\* begins another (Covers): else the code finds the wrong one.
OthersSpared ==
  Selecting => \A b \in old.bps :
    \/ \E i \in DOMAIN input.args : Names(input.args[i], b)
    \/ b \in bps /\ (b \in enabled <=> b \in old.enabled)

\* Every argument counts: when delete is through them, each that named a
\* breakpoint has had one removed, also after arguments that named none.
EachDeleted ==
  Selecting /\ rest = <<>> /\ "delete" \in entry(input.word) =>
    \A i \in DOMAIN input.args :
      (\E b \in old.bps : Names(input.args[i], b)) =>
        \E b \in old.bps \ bps : Names(input.args[i], b)

\* If the tracee always stops again and the user answers, every command comes
\* back to the prompt or exits: each loop over arguments ends, and so does each
\* script, also one that sources others or itself with lines still to read; so
\* does the start, whatever the options.  (Whether a command that resumes the
\* tracee ends is not assumed here but checked of module Debugger.)
CommandEnds ==
  []<>(ctl \notin {"waiting", "asked"}) =>
    (ctl \notin {"prompt", "exited"} ~> ctl \in {"prompt", "exited"})

=============================================================================
