------------------------------- MODULE Session -------------------------------
(***************************************************************************)
(* What surrounds the command loop of module Commands: main with           *)
(* parse_arguments, which decides what is executed before the first        *)
(* prompt, and the completion of a line at the prompt.                     *)
(*                                                                         *)
(* The strings of argv are abstract except for what parse_arguments looks  *)
(* at: the option words, and whether a string begins with a dash.          *)
(***************************************************************************)
EXTENDS Commands, FiniteSets, TLC

CONSTANTS
  Argvs,     \* the argument vectors vdbg may be started with, without argv[0]
  LineOf,    \* LineOf[s]: the line that the string s is, as a command
  Words,     \* command words on the line that is completed
  Texts,     \* what is in front of the cursor
  Sources    \* the source files' names

VARIABLES
  argv,      \* the arguments; empty once they are parsed
  opt,       \* the locals of parse_arguments
  offered    \* what the last completion offered, [word, text, all]

sessionVars == <<argv, opt, offered>>
vars == <<commandVars, sessionVars>>

\* i: the next argument; list, script, path: what they gave so far.
NoOptions == [i |-> 1, end |-> "no", list |-> <<>>, script |-> None, path |-> None]
NoOffer == [word |-> None, text |-> "", all |-> {}]

Init ==
  /\ CommandsInit
  /\ argv \in Argvs /\ opt = NoOptions /\ offered = NoOffer

-----------------------------------------------------------------------------
(***************************************************************************)
(* main.                                                                   *)
(***************************************************************************)
dash(s) == is_prefix("-", s)
Execute == {"-ex", "--execute"}
Help == {"-h", "--help"}

\* The option has an argument, and it does not look like an option.
followed(o) == o.i < Len(argv) /\ ~dash(argv[o.i + 1])

\* Mutant: a script after -ex goes unnoticed.
script_refused_not(o) == o.script # None

\* --script excludes -ex and another --script.
script_refused(o) == o.script # None \/ o.list # <<>>

\* One turn of the loop of parse_arguments.
parsed(o) ==
  LET a == argv[o.i]
      error == [o EXCEPT !.end = "error"]
  IN  CASE a \in Execute ->
             IF o.script # None \/ ~followed(o) THEN error
             ELSE [o EXCEPT !.list = Append(@, argv[o.i + 1]), !.i = @ + 2]
        [] a = "--script" ->
             IF script_refused(o) \/ ~followed(o) THEN error
             ELSE [o EXCEPT !.script = argv[o.i + 1], !.i = @ + 2]
        [] a \in Help -> [o EXCEPT !.end = "help"]
        [] dash(a) /\ a \notin Execute \cup Help \cup {"--script"} -> error
        [] ~dash(a) ->
             IF o.path # None THEN error ELSE [o EXCEPT !.path = a, !.i = @ + 1]

parsing == ctl = "options" /\ opt.end = "no" /\ opt.i <= Len(argv)

parse_arguments ==
  /\ parsing
  /\ opt' = parsed(opt)
  /\ UNCHANGED <<commandVars, argv, offered>>

\* Without an executable main returns; so it does when dbg_init fails.
no_start ==
  /\ ctl = "options" /\ ~parsing
  /\ ctl' = "exited"
  /\ argv' = <<>> /\ opt' = NoOptions
  /\ UNCHANGED <<active, bpVars, input, last, rest, files, old, offered>>

\* The script or the commands, then dbg_start.
start ==
  /\ ctl = "options" /\ ~parsing
  /\ opt.end = "no" /\ opt.path # None
  /\ files' = IF opt.script # None
              THEN IF opt.script \in DOMAIN Scripts THEN << Scripts[opt.script] >> ELSE <<>>
              ELSE IF opt.list = <<>> THEN <<>>
              ELSE << [k \in DOMAIN opt.list |-> LineOf[opt.list[k]]] >>
  /\ ctl' = IF files' = <<>> THEN "prompt" ELSE "script"
  /\ argv' = <<>> /\ opt' = NoOptions
  /\ UNCHANGED <<active, bpVars, input, last, rest, old, offered>>

-----------------------------------------------------------------------------
(***************************************************************************)
(* Completion.                                                             *)
(***************************************************************************)

\* How a candidate is written.
Text(c) == IF c.type = "id" THEN ToString(c.num) ELSE c.text

matching(t, C) == {c \in C : is_prefix(t, Text(c))}

\* Mutant: the candidates of deleted breakpoints are not thrown away.
bp_candidates_stale == UNION {{ById(b), desc[b]} : b \in {c \in Ids : desc[c] # None}}

\* bp_generator collects them anew from the pending list: the id, and the
\* symbol, the file and line, or the address.
bp_candidates == UNION {{ById(b), desc[b]} : b \in bps}

\* The functions are those that break finds: both ask get_valid_func_symbols.
Symbol(d) == d.type = "symbol"
function_generator(t) == matching(t, {d \in Descs : Symbol(d) /\ Found[d] > 0})

\* Files, with a colon, only when no function matches.
break_target_generator(t) ==
  IF function_generator(t) # {} THEN function_generator(t)
  ELSE matching(t, {[type |-> "file", text |-> s \o ":"] : s \in Sources})

command_generator(t) == {commands[i] : i \in {j \in DOMAIN commands : is_prefix(t, commands[j])}}

\* The completer of the command c, for the word behind it.  (Fixed words, file
\* names and commands without a completer: nothing here.)
completer(c, t) ==
  CASE c \in {"delete", "enable", "disable"} -> matching(t, bp_candidates)
    [] c = "break" -> break_target_generator(t)
    [] c = "disassemble" -> function_generator(t)
    [] OTHER -> {}

\* dbg_completion: the command's name, or an argument of the command that
\* handle_command would choose.
dbg_completion ==
  /\ ctl = "prompt"
  /\ \E t \in Texts :
       \/ offered' = [word |-> None, text |-> t, all |-> command_generator(t)]
       \/ \E w \in Words :
            offered' = [word |-> w, text |-> t,
                        all |-> UNION {completer(c, t) : c \in entry(w)}]
  /\ UNCHANGED <<commandVars, argv, opt>>

-----------------------------------------------------------------------------
loop(A) == A /\ offered' = NoOffer /\ UNCHANGED <<argv, opt>>

Next ==
  \/ parse_arguments \/ no_start \/ start \/ dbg_completion
  \/ loop(type_line) \/ loop(empty_line) \/ loop(end_of_file) \/ loop(ended)
  \/ loop(script_line) \/ loop(refuse) \/ loop(cmd_execute) \/ loop(execute_returns)
  \/ loop(cmd_exit) \/ loop(answer)
  \/ loop(cmd_source) \/ loop(cmd_other) \/ loop(cmd_arguments) \/ loop(cmd_all)
  \/ loop(break_argument) \/ loop(delete_argument) \/ loop(enable_argument)
  \/ loop(arguments_done)

\* The user need not type or answer, and the tracee need not stop; a command
\* that was given is carried out, and so is the way to the first prompt.
Spec ==
  /\ Init /\ [][Next]_vars
  /\ WF_vars(parse_arguments \/ no_start \/ start)
  /\ WF_vars(loop(command))

-----------------------------------------------------------------------------
(***************************************************************************)
(* Properties.                                                             *)
(***************************************************************************)

\* A command line as the usage message has it: every option is known and has
\* its argument, one executable, and commands or one script.
Options(S) == {i \in DOMAIN argv : argv[i] \in S}
Operands == {i \in DOMAIN argv : ~dash(argv[i]) /\ (i = 1 \/ ~dash(argv[i - 1]))}

WellFormed ==
  /\ Options({a \in {argv[i] : i \in DOMAIN argv} : dash(a)}) = Options(Execute \cup {"--script"})
  /\ \A i \in DOMAIN argv : dash(argv[i]) => i < Len(argv) /\ ~dash(argv[i + 1])
  /\ Cardinality(Operands) = 1
  /\ Cardinality(Options({"--script"})) <= IF Options(Execute) = {} THEN 1 ELSE 0

\* Such a command line is accepted and no other, and vdbg executes what it
\* says before the first prompt: each -ex in its order, or the script.
OptionsObeyed ==
  [][ /\ no_start /\ WellFormed => opt.end = "no" /\ opt.path # None
      /\ start =>
        /\ WellFormed
        /\ \A i \in Options({"--script"}) :
             argv[i + 1] \in DOMAIN Scripts => files' = << Scripts[argv[i + 1]] >>
        /\ \A i \in Options(Execute) :
             files'[1][Cardinality({j \in Options(Execute) : j <= i})] = LineOf[argv[i + 1]] ]_vars

\* What completion offers is right at that moment.  An argument of delete,
\* enable or disable is found, and is a breakpoint that is so described; each
\* breakpoint is offered; a function is one that break finds; and the command
\* that a word stands for is offered for it.
OffersMeant ==
  /\ offered # NoOffer /\ offered.word = None => entry(offered.text) \subseteq offered.all
  /\ offered.word # None => \A c \in entry(offered.word) :
       /\ c \in {"delete", "enable", "disable"} =>
            /\ \A a \in offered.all :
                 parse_arg_bp(a) # {} /\ \A b \in parse_arg_bp(a) : Names(a, b)
            /\ offered.text = "" => \A b \in bps : ById(b) \in offered.all
       /\ c = "break" => \A a \in offered.all : Symbol(a) => Found[a] > 0

=============================================================================
