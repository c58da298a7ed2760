---------------------------- MODULE CommandsProofs ----------------------------
(***************************************************************************)
(* Proofs about the arguments of delete, enable and disable, for any       *)
(* breakpoints, whatever is typed, given with -ex or read from scripts.    *)
(***************************************************************************)
EXTENDS Session, SequenceTheorems, FiniteSetTheorems, WellFoundedInduction, TLAPS

\* The strings of argv, those that may be commands, and all lines.
Said == UNION {{v[i] : i \in DOMAIN v} : v \in Argvs}
Spoken == {s \in Said : ~dash(s)}
Lines == Inputs \cup {LineOf[s] : s \in Spoken}

Args == Descs \cup {ById(n) : n \in Nat}

\* Command lines and scripts are sequences, an argument of delete, enable or
\* disable is an id or a descriptor, one of break a descriptor, and no
\* descriptor begins with another of its type: find_breakpoint_from_pending
\* finds what was meant.
Meant ==
  /\ Argvs \subseteq Seq(Said)
  /\ \A s \in DOMAIN Scripts : Scripts[s] \in Seq(Inputs)
  /\ \A l \in Lines :
       /\ entry(l.word) \cap {"delete", "enable", "disable"} # {} => l.args \in Seq(Args)
       /\ "break" \in entry(l.word) => l.args \in Seq(Descs)
  /\ \A d \in Descs : d.type # "id" /\ Covers[d] = {d}

Option ==
  [i : Nat \ {0}, end : {"no", "error", "help"}, list : Seq(Spoken),
   script : Said \cup {None}, path : Said \cup {None}]

\* Only lines are read, and a script that is read is open.
ReadInv ==
  /\ argv \in Seq(Said) /\ opt \in Option
  /\ last \in Lines \cup {None}
  /\ files \in Seq(Seq(Lines)) /\ (ctl = "script" => files # <<>>)
  /\ ctl \in {"handle", "args"} => input \in Lines

Done == Len(input.args) - Len(rest)

\* The breakpoints that are set were described by what break was given.
BpsTyped ==
  /\ bps \subseteq Ids /\ \A b \in bps : desc[b] \in Descs
  /\ desc \in [Ids -> Descs \cup {None}]

\* What is left to handle are the last of the arguments.
ArgsLeft ==
  /\ input.args \in Seq(Args) /\ rest \in Seq(Args) /\ Len(rest) <= Len(input.args)
  /\ \A i \in 1 .. Len(rest) : rest[i] = input.args[Done + i]

\* Each argument handled, if it named a breakpoint, has had one removed.
Removed ==
  \A i \in 1 .. Done :
    (\E b \in old.bps : Names(input.args[i], b)) =>
      \E b \in old.bps \ bps : Names(input.args[i], b)

\* While delete, enable or disable goes through its arguments: it has handled
\* the first `Done' of them, and what they named is all it has touched.
ArgsInv ==
  /\ BpsTyped
  /\ ctl = "args" /\ "break" \in entry(input.word) => rest \in Seq(Descs)
  /\ ctl = "handle" => old = [bps |-> bps, enabled |-> enabled]
  /\ Selecting => ArgsLeft /\ bps \subseteq old.bps
  /\ OthersSpared
  /\ Selecting /\ "delete" \in entry(input.word) => Removed

-----------------------------------------------------------------------------
(***************************************************************************)
(* Reading.                                                                *)
(***************************************************************************)

\* A word means one command at most.
LEMMA EntryOne ==
  ASSUME NEW w, NEW c \in entry(w), NEW d \in entry(w)
  PROVE  c = d
BY DEF entry

\* A turn of parse_arguments keeps the commands of -ex a list of strings.
LEMMA ParsedType ==
  ASSUME argv \in Seq(Said), opt \in Option, parsing
  PROVE  parsed(opt) \in Option
<1> DEFINE a == argv[opt.i]
<1>1. /\ opt.i \in Nat \ {0} /\ opt.i <= Len(argv) /\ a \in Said
      /\ opt.list \in Seq(Spoken)
  BY DEF parsing, Option
<1>2. [opt EXCEPT !.end = "error"] \in Option /\ [opt EXCEPT !.end = "help"] \in Option
  BY DEF Option
<1>3. ASSUME followed(opt)
      PROVE  /\ [opt EXCEPT !.list = Append(@, argv[opt.i + 1]), !.i = @ + 2] \in Option
             /\ [opt EXCEPT !.script = argv[opt.i + 1], !.i = @ + 2] \in Option
  <2>1. argv[opt.i + 1] \in Said /\ argv[opt.i + 1] \in Spoken /\ opt.i + 2 \in Nat \ {0}
    BY <1>1, <1>3 DEF followed, Spoken
  <2>2. Append(opt.list, argv[opt.i + 1]) \in Seq(Spoken)
    BY <1>1, <2>1
  <2> QED
    BY <2>1, <2>2 DEF Option
<1>4. [opt EXCEPT !.path = a, !.i = @ + 1] \in Option
  <2>1. opt.i + 1 \in Nat \ {0}
    BY <1>1
  <2> QED
    BY <1>1, <2>1 DEF Option
<1>5. \/ parsed(opt) \in {[opt EXCEPT !.end = "error"], [opt EXCEPT !.end = "help"],
                          [opt EXCEPT !.path = a, !.i = @ + 1]}
      \/ /\ followed(opt)
         /\ parsed(opt) \in {[opt EXCEPT !.list = Append(@, argv[opt.i + 1]), !.i = @ + 2],
                             [opt EXCEPT !.script = argv[opt.i + 1], !.i = @ + 2]}
  BY DEF parsed
<1> QED
  BY <1>2, <1>3, <1>4, <1>5

\* A script that is opened is on the stack of scripts.
LEMMA Opened ==
  ASSUME NEW S, NEW f \in Seq(S), NEW t \in S
  PROVE  Append(f, t) \in Seq(S) /\ Append(f, t) # <<>>
<1>1. Append(f, t) \in Seq(S) /\ Len(Append(f, t)) = Len(f) + 1 /\ Len(f) \in Nat
  OBVIOUS
<1> QED
  BY <1>1

\* Nothing but lines is read.
LEMMA ReadKept ==
  ASSUME Meant, ReadInv, [Next]_vars
  PROVE  ReadInv'
<1> USE DEF ReadInv
<1>1. CASE parse_arguments
  BY <1>1, ParsedType DEF parse_arguments, commandVars, bpVars
<1>2. CASE start
  <2>1. /\ argv' = <<>> /\ opt' = NoOptions /\ UNCHANGED <<last, input>>
        /\ ctl' = IF files' = <<>> THEN "prompt" ELSE "script"
    BY <1>2 DEF start
  <2>2. NoOptions \in Option /\ <<>> \in Seq(Said)
    BY DEF NoOptions, Option
  <2>3. files' \in Seq(Seq(Lines))
    <3>1. [k \in DOMAIN opt.list |-> LineOf[opt.list[k]]] \in Seq(Lines)
      <4>1. opt.list \in Seq(Spoken)
        BY DEF Option
      <4> QED
        BY <4>1 DEF Lines
    <3>2. \A s \in DOMAIN Scripts : Scripts[s] \in Seq(Lines)
      BY DEF Meant, Lines
    <3>3. \A s \in Seq(Lines) : << s >> \in Seq(Seq(Lines))
      OBVIOUS
    <3>4. <<>> \in Seq(Seq(Lines))
      OBVIOUS
    <3>5. \/ files' = <<>>
          \/ opt.script \in DOMAIN Scripts /\ files' = << Scripts[opt.script] >>
          \/ files' = << [k \in DOMAIN opt.list |-> LineOf[opt.list[k]]] >>
      BY <1>2 DEF start
    <3> QED
      BY <3>1, <3>2, <3>3, <3>4, <3>5
  <2> QED
    BY <2>1, <2>2, <2>3
<1>3. CASE no_start
  <2>1. NoOptions \in Option /\ <<>> \in Seq(Said)
    BY DEF NoOptions, Option
  <2> QED
    BY <1>3, <2>1 DEF no_start
<1>4. CASE loop(script_line)
  <2> DEFINE s == files[Len(files)]
             outer == SubSeq(files, 1, Len(files) - 1)
  <2>1. /\ ctl = "script" /\ files # <<>> /\ Len(files) \in Nat \ {0}
        /\ s \in Seq(Lines) /\ outer \in Seq(Seq(Lines))
        /\ UNCHANGED <<argv, opt, last>>
    BY <1>4 DEF loop, script_line
  <2>2. CASE s = <<>>
    <3>1. files' = outer /\ ctl' = IF outer = <<>> THEN "prompt" ELSE "script"
      BY <1>4, <2>2 DEF loop, script_line
    <3> QED
      BY <2>1, <3>1
  <2>3. CASE s # <<>>
    <3>1. Tail(s) \in Seq(Lines) /\ Head(s) \in Lines
      BY <2>1, <2>3
    <3>2. files' = Append(outer, Tail(s))
      BY <1>4, <2>3 DEF loop, script_line
    <3>3. files' \in Seq(Seq(Lines)) /\ files' # <<>>
      BY <2>1, <3>1, <3>2, Opened
    <3>4. ctl' = ctl \/ (ctl' = "handle" /\ input' = Head(s))
      BY <1>4, <2>3 DEF loop, script_line, handle
    <3> QED
      BY <2>1, <3>1, <3>3, <3>4
  <2> QED
    BY <2>2, <2>3
<1>5. CASE loop(type_line) \/ loop(empty_line)
  BY <1>5 DEF loop, type_line, empty_line, handle, Lines, Inputs
<1>6. CASE loop(cmd_source)
  <2>0. \A s \in DOMAIN Scripts : Scripts[s] \in Seq(Lines)
    BY DEF Meant, Lines
  <2>1. \/ /\ ctl' = "script" /\ files' \in Seq(Seq(Lines)) /\ files' # <<>>
        \/ ctl' = (IF files = <<>> THEN "prompt" ELSE "script") /\ files' = files
    <3> DEFINE opens == /\ input.args # <<>> /\ input.args[1].text \in DOMAIN Scripts
                        /\ Len(files) < MaxOpen
    <3>1. CASE opens
      <4>1. ctl' = "script" /\ files' = Append(files, Scripts[input.args[1].text])
        BY <1>6, <3>1 DEF loop, cmd_source
      <4> QED
        BY <2>0, <3>1, <4>1, Opened
    <3>2. CASE ~opens
      BY <1>6, <3>2 DEF loop, cmd_source, return
    <3> QED
      BY <3>1, <3>2
  <2>2. UNCHANGED <<argv, opt, input, last>> /\ ctl' \in {"prompt", "script"}
    BY <1>6, <2>1 DEF loop, cmd_source
  <2> QED
    BY <2>1, <2>2
<1>7. CASE /\ UNCHANGED <<argv, opt, input, last, files>>
           /\ \/ ctl' \in {"prompt", "exited", "waiting", "asked"}
              \/ ctl' = "script" /\ files # <<>>
              \/ ctl' = ctl
              \/ ctl' = "args" /\ ctl = "handle"
  BY <1>7
<1>8. CASE \/ loop(end_of_file) \/ loop(ended) \/ loop(refuse) \/ loop(cmd_execute) \/ loop(cmd_exit)
           \/ loop(execute_returns) \/ loop(answer)
           \/ loop(cmd_other) \/ loop(cmd_arguments) \/ loop(cmd_all) \/ loop(break_argument)
           \/ loop(delete_argument) \/ loop(enable_argument) \/ loop(arguments_done)
           \/ dbg_completion \/ UNCHANGED vars
  BY <1>7, <1>8
     DEF loop, end_of_file, ended, refuse, cmd_execute, execute_returns, answer, cmd_exit, cmd_other,
         cmd_arguments, cmd_all,
         break_argument, delete_argument, enable_argument, arguments_done, dbg_completion,
         dbg_kill_tracee, return, called, commandVars, sessionVars, vars
<1> QED
  BY <1>1, <1>2, <1>3, <1>4, <1>5, <1>6, <1>8 DEF Next

-----------------------------------------------------------------------------
(***************************************************************************)
(* Arguments.                                                              *)
(***************************************************************************)

\* First is the least element.
LEMMA FirstLeast ==
  ASSUME NEW S \in SUBSET Nat, S # {}
  PROVE  First(S) \in S /\ \A j \in S : First(S) <= j
<1> DEFINE R == OpToRel(<, Nat)
<1>1. IsWellFoundedOn(R, Nat) /\ \A x, y \in Nat : <<y, x>> \in R <=> y < x
  BY NatLessThanWellFounded DEF OpToRel
<1> HIDE DEF R
<1>2. PICK i \in S : \A j \in S : ~ (<<j, i>> \in R)
  BY <1>1, WFMin
<1>3. ASSUME NEW j \in S PROVE i <= j
  <2>1. i \in Nat /\ j \in Nat /\ ~ (j < i)
    BY <1>1, <1>2
  <2> QED
    BY <2>1
<1> QED
  BY <1>3 DEF First

\* parse_arg_bp finds a breakpoint that the argument names, if there is one.
LEMMA ArgFound ==
  ASSUME Meant, ArgsInv, NEW a \in Args
  PROVE  /\ parse_arg_bp(a) \subseteq bps
         /\ \A b \in parse_arg_bp(a) : Names(a, b)
         /\ (\E b \in bps : Names(a, b)) => parse_arg_bp(a) # {}
<1> DEFINE found == IF a.type = "id" THEN {a.num} \cap bps ELSE {b \in bps : matches(b, a)}
<1>1. parse_arg_bp(a) = IF found = {} THEN {} ELSE {First(found)}
  BY DEF parse_arg_bp
<1>2. found \in SUBSET Nat /\ found \subseteq bps
  <2>1. bps \subseteq Ids /\ Ids \subseteq Nat
    BY CommandsAssumption DEF ArgsInv, BpsTyped, Ids
  <2> QED
    BY <2>1
<1>3. ASSUME NEW b \in bps PROVE b \in found <=> Names(a, b)
  <2>1. desc[b] \in Descs
    BY DEF ArgsInv, BpsTyped
  <2>2. CASE a \in Descs
    <3>1. a.type # "id" /\ Covers[a] = {a}
      BY <2>2 DEF Meant
    <3>2. a # ById(b)
      BY <3>1 DEF ById
    <3> QED
      BY <3>1, <3>2 DEF matches, Names
  <2>3. CASE a \notin Descs
    <3>1. PICK n \in Nat : a = ById(n)
      BY <2>3 DEF Args
    <3>2. a.type = "id" /\ a.num = n /\ (a = ById(b) => n = b)
      BY <3>1 DEF ById
    <3>3. a # desc[b]
      BY <2>1, <2>3
    <3> QED
      BY <3>1, <3>2, <3>3 DEF Names
  <2> QED
    BY <2>2, <2>3
<1> HIDE DEF found
<1>4. CASE found = {}
  BY <1>1, <1>3, <1>4
<1>5. CASE found # {}
  <2>1. First(found) \in found
    BY <1>2, <1>5, FirstLeast
  <2> QED
    BY <1>1, <1>2, <1>3, <1>5, <2>1
<1> QED
  BY <1>4, <1>5

\* The next argument of delete, enable or disable is the one behind those it
\* has handled.
LEMMA NextArg ==
  ASSUME ArgsInv, Selecting, rest # <<>>
  PROVE  /\ arg \in Args /\ Done \in Nat
         /\ Done + 1 \in DOMAIN input.args /\ arg = input.args[Done + 1]
         /\ Tail(rest) \in Seq(Args) /\ Len(Tail(rest)) = Len(rest) - 1
         /\ Len(input.args) - Len(Tail(rest)) = Done + 1
         /\ \A i \in 1 .. Len(Tail(rest)) : Tail(rest)[i] = input.args[Done + 1 + i]
<1>1. /\ input.args \in Seq(Args) /\ rest \in Seq(Args) /\ Len(rest) <= Len(input.args)
      /\ \A i \in 1 .. Len(rest) : rest[i] = input.args[Done + i]
  BY DEF ArgsInv, ArgsLeft
<1>2. /\ Len(rest) \in Nat \ {0} /\ arg = rest[1] /\ arg \in Args
      /\ Tail(rest) \in Seq(Args) /\ Len(Tail(rest)) = Len(rest) - 1
      /\ \A i \in 1 .. Len(rest) - 1 : Tail(rest)[i] = rest[i + 1]
  BY <1>1 DEF arg
<1> QED
  BY <1>1, <1>2 DEF Done

\* delete has one breakpoint removed by its next argument, if that names one.
LEMMA DeleteKept ==
  ASSUME Meant, ReadInv, ArgsInv, loop(delete_argument)
  PROVE  ArgsInv'
<1> DEFINE found == parse_arg_bp(arg)
<1>1. /\ ctl = "args" /\ rest # <<>> /\ "delete" \in entry(input.word)
      /\ bps' = bps \ found /\ rest' = Tail(rest)
      /\ enabled' = enabled \ found
      /\ UNCHANGED <<desc, ctl, input, old>>
  BY DEF loop, delete_argument, running, after_argument
<1>2. Selecting /\ Selecting' /\ "break" \notin entry(input.word)
  BY <1>1, EntryOne DEF Selecting
<1>3. /\ arg \in Args /\ Done \in Nat
      /\ Done + 1 \in DOMAIN input.args /\ arg = input.args[Done + 1]
      /\ Tail(rest) \in Seq(Args) /\ Len(Tail(rest)) = Len(rest) - 1
      /\ Len(input.args) - Len(Tail(rest)) = Done + 1
      /\ \A i \in 1 .. Len(Tail(rest)) : Tail(rest)[i] = input.args[Done + 1 + i]
  BY <1>1, <1>2, NextArg
<1>4. Done' = Done + 1
  BY <1>1, <1>3 DEF Done
<1>5. /\ found \subseteq bps /\ \A b \in found : Names(arg, b)
      /\ (\E b \in bps : Names(arg, b)) => found # {}
  BY <1>3, ArgFound
<1> HIDE DEF found
<1>6. \A a, b : Names(a, b)' = Names(a, b)
  BY <1>1 DEF Names
<1>7. /\ bps \subseteq Ids /\ bps \subseteq old.bps /\ \A b \in bps : desc[b] \in Descs
      /\ desc \in [Ids -> Descs \cup {None}] /\ input.args \in Seq(Args)
      /\ Len(rest) <= Len(input.args) /\ rest \in Seq(Args)
  BY <1>2 DEF ArgsInv, BpsTyped, ArgsLeft
<1>8. OthersSpared'
  <2> SUFFICES ASSUME NEW b \in old.bps
               PROVE  \/ \E i \in DOMAIN input.args : Names(input.args[i], b)
                      \/ b \in bps' /\ (b \in enabled' <=> b \in old.enabled)
    BY <1>1, <1>6 DEF OthersSpared
  <2>1. CASE b \in found
    BY <1>3, <1>5, <2>1
  <2>2. CASE b \notin found
    <3>1. \/ \E i \in DOMAIN input.args : Names(input.args[i], b)
          \/ b \in bps /\ (b \in enabled <=> b \in old.enabled)
      BY <1>2 DEF ArgsInv, OthersSpared
    <3> QED
      BY <1>1, <2>2, <3>1
  <2> QED
    BY <2>1, <2>2
<1>9. ASSUME NEW i \in 1 .. Done + 1, NEW b \in old.bps, Names(input.args[i], b)
      PROVE  \E c \in old.bps \ bps' : Names(input.args[i], c)
  <2>1. CASE i = Done + 1
    <3>1. CASE b \in bps
      <4>1. PICK c \in found : Names(arg, c)
        BY <1>3, <1>5, <1>9, <2>1, <3>1
      <4>2. c \in old.bps /\ c \notin bps'
        BY <1>1, <1>5, <1>7, <4>1
      <4> QED
        BY <1>3, <2>1, <4>1, <4>2
    <3>2. CASE b \notin bps
      BY <1>1, <1>9, <3>2
    <3> QED
      BY <3>1, <3>2
  <2>2. CASE i # Done + 1
    <3>1. i \in 1 .. Done
      BY <1>3, <2>2
    <3>2. PICK c \in old.bps \ bps : Names(input.args[i], c)
      BY <1>1, <1>2, <1>9, <3>1 DEF ArgsInv, Removed
    <3> QED
      BY <1>1, <3>2
  <2> QED
    BY <2>1, <2>2
<1>10. BpsTyped' /\ bps' \subseteq old'.bps
  BY <1>1, <1>7 DEF BpsTyped
<1>11. ArgsLeft'
  <2>1. Len(rest') = Len(rest) - 1 /\ Len(rest) \in Nat /\ Len(input.args) \in Nat
    BY <1>1, <1>3, <1>7
  <2> QED
    BY <1>1, <1>3, <1>4, <1>7, <2>1 DEF ArgsLeft
<1>12. Removed'
  <2> SUFFICES ASSUME NEW i \in 1 .. Done', NEW b \in old.bps, Names(input.args[i], b)
               PROVE  \E c \in old.bps \ bps' : Names(input.args[i], c)
    BY <1>1, <1>6 DEF Removed
  <2> QED
    BY <1>4, <1>9
<1> QED
  BY <1>1, <1>2, <1>8, <1>10, <1>11, <1>12 DEF ArgsInv

\* enable and disable remove none, and touch only what they are told.
LEMMA EnableKept ==
  ASSUME Meant, ReadInv, ArgsInv, loop(enable_argument)
  PROVE  ArgsInv'
<1> DEFINE found == parse_arg_bp(arg)
<1>1. /\ ctl = "args" /\ rest # <<>>
      /\ "enable" \in entry(input.word) \/ "disable" \in entry(input.word)
      /\ enabled' \in {enabled \cup found, enabled \ found} /\ rest' = Tail(rest)
      /\ UNCHANGED <<bps, desc, ctl, input, old>>
  BY DEF loop, enable_argument, running, after_argument
<1>2. /\ Selecting /\ Selecting'
      /\ "break" \notin entry(input.word) /\ "delete" \notin entry(input.word)
  BY <1>1, EntryOne DEF Selecting
<1>3. /\ arg \in Args /\ Done \in Nat
      /\ Done + 1 \in DOMAIN input.args /\ arg = input.args[Done + 1]
      /\ Tail(rest) \in Seq(Args) /\ Len(Tail(rest)) = Len(rest) - 1
      /\ Len(input.args) - Len(Tail(rest)) = Done + 1
      /\ \A i \in 1 .. Len(Tail(rest)) : Tail(rest)[i] = input.args[Done + 1 + i]
  BY <1>1, <1>2, NextArg
<1>4. Done' = Done + 1
  BY <1>1, <1>3 DEF Done
<1>5. \A b \in found : Names(arg, b)
  BY <1>3, ArgFound
<1> HIDE DEF found
<1>6. \A a, b : Names(a, b)' = Names(a, b)
  BY <1>1 DEF Names
<1>7. /\ bps \subseteq Ids /\ bps \subseteq old.bps /\ \A b \in bps : desc[b] \in Descs
      /\ desc \in [Ids -> Descs \cup {None}] /\ input.args \in Seq(Args)
      /\ Len(rest) <= Len(input.args) /\ rest \in Seq(Args)
  BY <1>2 DEF ArgsInv, BpsTyped, ArgsLeft
<1>8. OthersSpared'
  <2> SUFFICES ASSUME NEW b \in old.bps
               PROVE  \/ \E i \in DOMAIN input.args : Names(input.args[i], b)
                      \/ b \in bps' /\ (b \in enabled' <=> b \in old.enabled)
    BY <1>1, <1>6 DEF OthersSpared
  <2>1. CASE b \in found
    BY <1>3, <1>5, <2>1
  <2>2. CASE b \notin found
    <3>1. \/ \E i \in DOMAIN input.args : Names(input.args[i], b)
          \/ b \in bps /\ (b \in enabled <=> b \in old.enabled)
      BY <1>2 DEF ArgsInv, OthersSpared
    <3> QED
      BY <1>1, <2>2, <3>1
  <2> QED
    BY <2>1, <2>2
<1>9. ArgsLeft'
  <2>1. Len(rest') = Len(rest) - 1 /\ Len(rest) \in Nat /\ Len(input.args) \in Nat
    BY <1>1, <1>3, <1>7
  <2> QED
    BY <1>1, <1>3, <1>4, <1>7, <2>1 DEF ArgsLeft
<1>10. BpsTyped' /\ bps' \subseteq old'.bps
  BY <1>1, <1>7 DEF BpsTyped
<1> QED
  BY <1>1, <1>2, <1>8, <1>9, <1>10 DEF ArgsInv

\* break adds breakpoints that are described by what it was given.
LEMMA BreakKept ==
  ASSUME Meant, ReadInv, ArgsInv, loop(break_argument)
  PROVE  ArgsInv'
<1>1. /\ ctl = "args" /\ rest # <<>> /\ "break" \in entry(input.word)
      /\ UNCHANGED <<ctl, input, old>>
  BY DEF loop, break_argument, running
<1>2. ~Selecting'
  BY <1>1 DEF Selecting
<1>3. rest \in Seq(Descs) /\ arg \in Descs /\ Tail(rest) \in Seq(Descs)
  BY <1>1 DEF ArgsInv, arg
<1>4. rest' \in Seq(Descs)
  <2>1. rest' = Tail(rest) \/ rest' = <<>>
    BY DEF loop, break_argument
  <2>2. <<>> \in Seq(Descs)
    OBVIOUS
  <2> QED
    BY <1>3, <2>1, <2>2
<1> DEFINE described(S) == [b \in Ids |-> IF b \in S THEN arg ELSE desc[b]]
<1>5. \E S \in SUBSET Ids : bps' = bps \cup S /\ desc' = described(S)
  <2>1. CASE arg.type = "lineno" /\ ~HasDwarf
    <3>1. bps' = bps \cup {} /\ desc' = desc
      BY <2>1 DEF loop, break_argument, bpVars
    <3>2. desc' = described({})
      BY <3>1 DEF ArgsInv, BpsTyped
    <3> HIDE DEF described
    <3> QED
      BY <3>1, <3>2
  <2>2. CASE ~(arg.type = "lineno" /\ ~HasDwarf)
    <3> DEFINE free == {b \in Ids : \A c \in Ids : desc[c] # None => c < b}
               added == {b \in free : \A c \in free : c <= b => b < c + Found[arg]}
    <3>1. bps' = bps \cup added /\ desc' = described(added)
      BY <2>2 DEF loop, break_argument
    <3>2. added \in SUBSET Ids
      OBVIOUS
    <3> HIDE DEF added, described
    <3> QED
      BY <3>1, <3>2
  <2> QED
    BY <2>1, <2>2
<1>6. BpsTyped'
  <2>1. PICK S \in SUBSET Ids : bps' = bps \cup S /\ desc' = described(S)
    BY <1>5
  <2> QED
    BY <1>3, <2>1 DEF ArgsInv, BpsTyped
<1>7. OthersSpared'
  BY <1>2 DEF OthersSpared
<1> QED
  BY <1>1, <1>2, <1>4, <1>6, <1>7 DEF ArgsInv

\* The command begins with all of its arguments, and has touched nothing.
LEMMA BeginKept ==
  ASSUME Meant, ReadInv, ArgsInv, loop(cmd_arguments)
  PROVE  ArgsInv'
<1>1. /\ ctl = "handle" /\ ctl' = "args" /\ rest' = input.args
      /\ entry(input.word) \cap {"break", "delete", "enable", "disable"} # {}
      /\ UNCHANGED <<bps, desc, enabled, input, old>>
  BY DEF loop, cmd_arguments, called, Choosing, bpVars
<1>2. input \in Lines /\ old = [bps |-> bps, enabled |-> enabled]
  BY <1>1 DEF ReadInv, ArgsInv
<1>3. "break" \in entry(input.word) => rest' \in Seq(Descs)
  BY <1>1, <1>2 DEF Meant
<1>4. "break" \notin entry(input.word) => rest' \in Seq(Args)
  BY <1>1, <1>2 DEF Meant
<1>5. old.bps = bps /\ old.enabled = enabled
  BY <1>2
<1>6. OthersSpared'
  BY <1>1, <1>5 DEF OthersSpared
<1>7. ASSUME "break" \notin entry(input.word)
      PROVE  ArgsLeft' /\ Done' = 0
  BY <1>1, <1>4, <1>7 DEF Done, ArgsLeft
<1>8. BpsTyped'
  BY <1>1 DEF ArgsInv, BpsTyped
<1>9. "break" \notin entry(input.word) => Removed'
  BY <1>7 DEF Removed
<1> QED
  BY <1>1, <1>3, <1>5, <1>6, <1>7, <1>8, <1>9 DEF ArgsInv, Selecting

\* Nothing else touches a breakpoint while arguments are handled.
LEMMA ArgsKept ==
  ASSUME Meant, ReadInv, ArgsInv, [Next]_vars
  PROVE  ArgsInv'
<1>1. ASSUME ctl' # "args", ctl' = "handle" => old' = [bps |-> bps', enabled |-> enabled'],
             bps' \in {bps, {}}, desc' = desc
      PROVE  ArgsInv'
  BY <1>1 DEF ArgsInv, Selecting, OthersSpared, BpsTyped
<1>2. ASSUME UNCHANGED <<bps, desc, enabled, ctl, input, rest, old>>
      PROVE  ArgsInv'
  BY <1>2 DEF ArgsInv, Selecting, OthersSpared, Done, Names, BpsTyped, ArgsLeft, Removed
<1>3. CASE loop(type_line) \/ loop(empty_line) \/ loop(script_line)
  <2>1. \/ ctl' = "handle" /\ old' = [bps |-> bps, enabled |-> enabled]
        \/ ctl' \in {"prompt", "script"}
    BY <1>3 DEF loop, type_line, empty_line, script_line, handle
  <2>2. UNCHANGED <<bps, desc, enabled>>
    BY <1>3 DEF loop, type_line, empty_line, script_line, bpVars
  <2> QED
    BY <1>1, <2>1, <2>2
<1>4. CASE loop(cmd_all)
  <2>1. ctl' \in {"prompt", "script"} /\ bps' \in {bps, {}} /\ desc' = desc
    BY <1>4 DEF loop, cmd_all, return, bpVars
  <2> QED
    BY <1>1, <2>1
<1>5. CASE \/ no_start \/ start \/ loop(end_of_file) \/ loop(refuse) \/ loop(cmd_execute)
           \/ loop(cmd_exit) \/ loop(cmd_source) \/ loop(cmd_other) \/ loop(arguments_done)
           \/ loop(execute_returns) \/ loop(answer)
  <2>1. ctl' \in {"prompt", "script", "exited", "waiting", "asked"} /\ UNCHANGED <<bps, desc, enabled>>
    BY <1>5 DEF no_start, start, loop, end_of_file, refuse, cmd_execute, cmd_exit, cmd_source,
                execute_returns, answer, cmd_other, arguments_done, dbg_kill_tracee, return, bpVars
  <2> QED
    BY <1>1, <2>1
<1>6. CASE parse_arguments \/ dbg_completion \/ loop(ended) \/ UNCHANGED vars
  BY <1>2, <1>6 DEF parse_arguments, dbg_completion, loop, ended, commandVars, bpVars, vars
<1> QED
  BY <1>3, <1>4, <1>5, <1>6, DeleteKept, EnableKept, BreakKept, BeginKept DEF Next

\* What is read and what arguments do, throughout.
LEMMA CommandsInv ==
  ASSUME Meant
  PROVE  Spec => [](ReadInv /\ ArgsInv)
<1>1. Init => ReadInv /\ ArgsInv
  <2> SUFFICES ASSUME Init PROVE ReadInv /\ ArgsInv
    OBVIOUS
  <2>1. ReadInv
    <3>1. NoOptions \in Option
      BY DEF NoOptions, Option
    <3>2. argv \in Seq(Said)
      BY DEF Init, Meant
    <3> QED
      BY <3>1, <3>2 DEF Init, CommandsInit, ReadInv
  <2>2. ArgsInv
    BY DEF Init, CommandsInit, ArgsInv, Selecting, OthersSpared, BpsTyped
  <2> QED
    BY <2>1, <2>2
<1>2. ReadInv /\ ArgsInv /\ [Next]_vars => ReadInv' /\ ArgsInv'
  BY ReadKept, ArgsKept
<1> QED
  BY <1>1, <1>2, PTL DEF Spec

\* Whatever is typed, given with -ex or read from scripts that call scripts:
\* delete, enable and disable touch no breakpoint that their arguments do not
\* name.
THEOREM OthersUntouched ==
  ASSUME Meant
  PROVE  Spec => []OthersSpared
<1>1. ArgsInv => OthersSpared
  BY DEF ArgsInv
<1> QED
  BY <1>1, CommandsInv, PTL

\* And delete removes a breakpoint for each argument that names one, also
\* behind arguments that name none.
THEOREM ArgumentsCount ==
  ASSUME Meant
  PROVE  Spec => []EachDeleted
<1>1. ArgsInv => EachDeleted
  <2> SUFFICES ASSUME ArgsInv, Selecting, rest = <<>>, "delete" \in entry(input.word)
               PROVE  Done = Len(input.args) /\ DOMAIN input.args = 1 .. Done
    BY DEF ArgsInv, EachDeleted, Removed
  <2>1. input.args \in Seq(Args) /\ Len(rest) = 0
    BY DEF ArgsInv, ArgsLeft
  <2> QED
    BY <2>1 DEF Done
<1> QED
  BY <1>1, CommandsInv, PTL

-----------------------------------------------------------------------------
(***************************************************************************)
(* The options.                                                            *)
(***************************************************************************)

\* argv is strings, and the option words begin with a dash.
Spelled ==
  /\ Argvs \subseteq Seq(Said) /\ None \notin Said
  /\ \A a \in Execute \cup Help \cup {"--script"} : dash(a)

Commanded == Options(Execute)
Scripted == Options({"--script"})

\* Of a set of positions, those behind which parse_arguments is.
Behind(S) == {j \in S : j < opt.i}
Rank(j) == Cardinality({k \in Commanded : k <= j})

\* Each option so far is known and had its argument.
OptionsBehind ==
  /\ opt.i = 1 \/ ~dash(argv[opt.i - 1])
  /\ \A j \in Behind(DOMAIN argv) : dash(argv[j]) =>
       argv[j] \in Execute \cup {"--script"} /\ j + 1 < opt.i /\ ~dash(argv[j + 1])

PathBehind ==
  \/ opt.path = None /\ Behind(Operands) = {}
  \/ opt.path # None /\ \E j \in Operands : Behind(Operands) = {j}

ScriptBehind ==
  \/ opt.script = None /\ Behind(Scripted) = {}
  \/ \E j \in Scripted : /\ Behind(Scripted) = {j} /\ opt.script = argv[j + 1]
                          /\ opt.script # None /\ Behind(Commanded) = {}

ListBehind ==
  /\ Len(opt.list) = Cardinality(Behind(Commanded))
  /\ \A j \in Behind(Commanded) : opt.list[Rank(j)] = argv[j + 1]

\* What parse_arguments has gathered is what it has passed; an error means
\* that no ending could make the command line well-formed.
OptionsInv ==
  ctl = "options" =>
    /\ argv \in Seq(Said) /\ opt \in Option /\ opt.i <= Len(argv) + 1
    /\ opt.end = "no" => OptionsBehind /\ PathBehind /\ ScriptBehind /\ ListBehind
    /\ opt.end # "no" => ~WellFormed

LEMMA TwoCounted ==
  ASSUME NEW S, IsFiniteSet(S), NEW x \in S, NEW y \in S, x # y
  PROVE  Cardinality(S) \in Nat /\ Cardinality(S) >= 2
<1>1. IsFiniteSet({x}) /\ Cardinality({x}) = 1
  BY FS_Singleton
<1>2. Cardinality({x} \cup {y}) = 2
  BY <1>1, FS_AddElement
<1>3. {x} \cup {y} \in SUBSET S
  OBVIOUS
<1> QED
  BY <1>2, <1>3, FS_Subset, FS_CardinalityType

\* Positions in argv are finitely many.
LEMMA FinitePositions ==
  ASSUME argv \in Seq(Said), NEW T \in SUBSET DOMAIN argv
  PROVE  /\ IsFiniteSet(T) /\ Cardinality(T) \in Nat
         /\ (Cardinality(T) = 0 <=> T = {})
<1>1. DOMAIN argv = 1 .. Len(argv) /\ Len(argv) \in Nat
  OBVIOUS
<1>2. IsFiniteSet(T)
  <2>1. IsFiniteSet(1 .. Len(argv))
    BY <1>1, FS_Interval
  <2> QED
    BY <1>1, <2>1, FS_Subset
<1> QED
  BY <1>2, FS_CardinalityType, FS_EmptySet

\* Positions are those of options, of their arguments, or of operands.
LEMMA Positions ==
  ASSUME Spelled, argv \in Seq(Said)
  PROVE  /\ Commanded \subseteq DOMAIN argv /\ Scripted \subseteq DOMAIN argv
         /\ Operands \subseteq DOMAIN argv
         /\ \A j \in Commanded \cup Scripted : dash(argv[j])
         /\ Commanded \cap Scripted = {}
BY DEF Spelled, Commanded, Scripted, Options, Operands, Execute

\* The kinds of words that parse_arguments tells apart.
LEMMA ParsedWord ==
  ASSUME Spelled
  PROVE  LET a == argv[opt.i]
             error == [opt EXCEPT !.end = "error"]
         IN  /\ a \in Execute => parsed(opt) =
                  IF opt.script # None \/ ~followed(opt) THEN error
                  ELSE [opt EXCEPT !.list = Append(@, argv[opt.i + 1]), !.i = @ + 2]
             /\ a = "--script" => parsed(opt) =
                  IF script_refused(opt) \/ ~followed(opt) THEN error
                  ELSE [opt EXCEPT !.script = argv[opt.i + 1], !.i = @ + 2]
             /\ ~dash(a) => parsed(opt) =
                  IF opt.path # None THEN error ELSE [opt EXCEPT !.path = a, !.i = @ + 1]
             /\ dash(a) /\ a \notin Execute \cup {"--script"} =>
                  parsed(opt) \in {error, [opt EXCEPT !.end = "help"]}
<1> DEFINE a == argv[opt.i]
<1>1. CASE a \in Execute
  <2>1. dash(a) /\ a # "--script" /\ a \notin Help
    BY <1>1 DEF Spelled, Execute, Help
  <2> QED
    BY <1>1, <2>1 DEF parsed
<1>2. CASE a = "--script"
  <2>1. dash(a) /\ a \notin Execute /\ a \notin Help
    BY <1>2 DEF Spelled, Execute, Help
  <2> QED
    BY <1>2, <2>1 DEF parsed
<1>3. CASE ~dash(a)
  <2>1. a # "--script" /\ a \notin Execute /\ a \notin Help
    BY <1>3 DEF Spelled
  <2> QED
    BY <1>3, <2>1 DEF parsed
<1>4. CASE dash(a) /\ a \notin Execute \cup {"--script"}
  BY <1>4 DEF parsed
<1> QED
  BY <1>1, <1>2, <1>3, <1>4

\* Where parse_arguments gives up, the command line is not well-formed.
LEMMA ErrorRight ==
  ASSUME Spelled, OptionsInv, parsing, parsed(opt).end # "no"
  PROVE  ~WellFormed
<1> SUFFICES ASSUME WellFormed PROVE FALSE
  OBVIOUS
<1> DEFINE p == opt.i
           a == argv[p]
<1>1. /\ argv \in Seq(Said) /\ opt \in Option /\ p \in 1 .. Len(argv) /\ p \in DOMAIN argv
      /\ OptionsBehind /\ PathBehind /\ ScriptBehind /\ ListBehind /\ opt.end = "no"
  BY DEF OptionsInv, parsing, Option
<1>2. dash(a) => a \in Execute \cup {"--script"} /\ followed(opt)
  <2>1. ASSUME dash(a) PROVE a \in Execute \cup {"--script"}
    <3>1. p \in Options({argv[i] : i \in DOMAIN argv} \cap {b \in {argv[i] : i \in DOMAIN argv} : dash(b)})
      BY <1>1, <2>1 DEF Options
    <3>2. p \in Options(Execute \cup {"--script"})
      BY <1>1, <2>1 DEF WellFormed, Options
    <3> QED
      BY <3>2 DEF Options
  <2> QED
    BY <1>1, <2>1 DEF WellFormed, followed
<1>3. IsFiniteSet(Operands) /\ IsFiniteSet(Scripted) /\ IsFiniteSet(Commanded)
      /\ Cardinality(Scripted) \in Nat /\ (Commanded # {} => Scripted = {})
      /\ Cardinality(Scripted) <= 1 /\ Cardinality(Operands) = 1
  <2>1. /\ Cardinality(Operands) = 1
        /\ Cardinality(Scripted) <= IF Commanded = {} THEN 1 ELSE 0
    BY DEF WellFormed, Commanded, Scripted
  <2> QED
    BY <1>1, <2>1, Positions, FinitePositions
<1>4. CASE a \in Execute
  <2>1. p \in Commanded
    BY <1>1, <1>4 DEF Commanded, Options
  <2>2. opt.script # None
    <3>1. followed(opt)
      BY <1>2, <1>4 DEF Spelled
    <3> QED
      BY <1>1, <1>4, <3>1, ParsedWord DEF Option
  <2> QED
    BY <1>1, <1>3, <2>1, <2>2 DEF ScriptBehind
<1>5. CASE a = "--script"
  <2>1. p \in Scripted
    BY <1>1, <1>5 DEF Scripted, Options
  <2>2. script_refused(opt)
    <3>1. followed(opt)
      BY <1>2, <1>5 DEF Spelled
    <3> QED
      BY <1>1, <1>5, <3>1, ParsedWord DEF Option
  <2>3. CASE opt.script # None
    <3>1. PICK j \in Scripted : Behind(Scripted) = {j}
      BY <1>1, <2>3 DEF ScriptBehind
    <3>2. j # p
      BY <1>1, <3>1 DEF Behind
    <3> QED
      BY <1>3, <2>1, <3>1, <3>2, TwoCounted
  <2>4. CASE opt.list # <<>>
    <3>1. Len(opt.list) # 0
      BY <1>1, <2>4 DEF Option
    <3>2. Behind(Commanded) # {}
      BY <1>1, <3>1, FS_EmptySet DEF ListBehind
    <3> QED
      BY <1>3, <2>1, <3>2 DEF Behind
  <2> QED
    BY <2>2, <2>3, <2>4 DEF script_refused
<1>6. CASE ~dash(a)
  <2>1. p \in Operands
    BY <1>1, <1>6 DEF Operands, OptionsBehind
  <2>2. opt.path # None
    BY <1>1, <1>6, ParsedWord DEF Option
  <2>3. PICK j \in Operands : Behind(Operands) = {j}
    BY <1>1, <2>2 DEF PathBehind
  <2>4. j # p
    BY <1>1, <2>3 DEF Behind
  <2> QED
    BY <1>3, <2>1, <2>3, <2>4, TwoCounted
<1> QED
  BY <1>2, <1>4, <1>5, <1>6

\* An option with its argument: behind them parse_arguments is behind one
\* position more of the options, and behind no operand more.
LEMMA OptionPassed ==
  ASSUME Spelled, OptionsInv, parsing, dash(argv[opt.i]), followed(opt),
         UNCHANGED argv, opt'.i = opt.i + 2
  PROVE  /\ Behind(Operands)' = Behind(Operands)
         /\ Behind(Commanded)' = Behind(Commanded)
                                   \cup (IF argv[opt.i] \in Execute THEN {opt.i} ELSE {})
         /\ Behind(Scripted)' = Behind(Scripted)
                                  \cup (IF argv[opt.i] = "--script" THEN {opt.i} ELSE {})
         /\ argv[opt.i] \in Execute \cup {"--script"} => OptionsBehind'
<1> DEFINE p == opt.i
<1>1. /\ argv \in Seq(Said) /\ p \in Nat \ {0} /\ p + 1 <= Len(argv)
      /\ p \in DOMAIN argv /\ p + 1 \in DOMAIN argv /\ DOMAIN argv \subseteq Nat \ {0}
      /\ OptionsBehind /\ ~dash(argv[p + 1])
  BY DEF OptionsInv, parsing, Option, followed
<1>2. UNCHANGED <<Operands, Commanded, Scripted>>
  BY DEF Operands, Commanded, Scripted, Options
<1>3. p + 1 \notin Operands \cup Commanded \cup Scripted /\ p \notin Operands
  <2>1. p + 1 # 1 /\ (p + 1) - 1 = p
    BY <1>1
  <2>2. p + 1 \notin Operands /\ p \notin Operands
    BY <1>1, <2>1 DEF Operands
  <2> QED
    BY <1>1, <2>2, Positions
<1>4. \A S \in SUBSET DOMAIN argv :
        {j \in S : j < p + 2} = {j \in S : j < p} \cup (S \cap {p, p + 1})
  BY <1>1
<1>5. /\ Operands \in SUBSET DOMAIN argv /\ Commanded \in SUBSET DOMAIN argv
      /\ Scripted \in SUBSET DOMAIN argv
  BY <1>1, Positions
<1>6. \A S \in {Operands, Commanded, Scripted} :
        {j \in S : j < p + 2} = {j \in S : j < p} \cup (S \cap {p})
  BY <1>3, <1>4, <1>5
<1>7. Behind(Operands)' = Behind(Operands)
  BY <1>2, <1>3, <1>6 DEF Behind
<1>8. Behind(Commanded)' = Behind(Commanded) \cup (Commanded \cap {p})
  BY <1>2, <1>6 DEF Behind
<1>9. Behind(Scripted)' = Behind(Scripted) \cup (Scripted \cap {p})
  BY <1>2, <1>6 DEF Behind
<1>10. /\ Commanded \cap {p} = IF argv[p] \in Execute THEN {p} ELSE {}
       /\ Scripted \cap {p} = IF argv[p] = "--script" THEN {p} ELSE {}
  BY <1>1 DEF Commanded, Scripted, Options
<1>11. ASSUME argv[p] \in Execute \cup {"--script"} PROVE OptionsBehind'
  <2>1. (p + 2) - 1 = p + 1 /\ p + 2 # 1
    BY <1>1
  <2>2. ASSUME NEW j \in DOMAIN argv, j < p + 2, dash(argv[j])
        PROVE  argv[j] \in Execute \cup {"--script"} /\ j + 1 < p + 2 /\ ~dash(argv[j + 1])
    <3>1. j # p + 1 /\ j \in Nat
      BY <1>1, <2>2
    <3>2. CASE j = p
      BY <1>1, <1>11, <3>2
    <3>3. CASE j < p
      BY <1>1, <2>2, <3>1, <3>3 DEF OptionsBehind, Behind
    <3> QED
      BY <1>1, <2>2, <3>1, <3>2, <3>3
  <2> QED
    BY <1>1, <2>1, <2>2 DEF OptionsBehind, Behind
<1> QED
  BY <1>7, <1>8, <1>9, <1>10, <1>11

\* The operand makes no difference to the options.
LEMMA OperandPassed ==
  ASSUME Spelled, OptionsInv, parsing, ~dash(argv[opt.i]),
         UNCHANGED argv, opt'.i = opt.i + 1
  PROVE  /\ Behind(Operands)' = Behind(Operands) \cup {opt.i} /\ opt.i \in Operands
         /\ Behind(Commanded)' = Behind(Commanded) /\ Behind(Scripted)' = Behind(Scripted)
         /\ OptionsBehind'
<1> DEFINE p == opt.i
<1>1. /\ argv \in Seq(Said) /\ p \in Nat \ {0} /\ p <= Len(argv)
      /\ p \in DOMAIN argv /\ DOMAIN argv \subseteq Nat \ {0} /\ OptionsBehind
  BY DEF OptionsInv, parsing, Option
<1>2. UNCHANGED <<Operands, Commanded, Scripted>>
  BY DEF Operands, Commanded, Scripted, Options
<1>3. p \in Operands /\ p \notin Commanded \cup Scripted
  <2>1. p \in Operands
    BY <1>1 DEF Operands, OptionsBehind
  <2> QED
    BY <1>1, <2>1, Positions
<1>4. \A S \in SUBSET DOMAIN argv :
        {j \in S : j < p + 1} = {j \in S : j < p} \cup (S \cap {p})
  BY <1>1
<1>5. /\ Operands \in SUBSET DOMAIN argv /\ Commanded \in SUBSET DOMAIN argv
      /\ Scripted \in SUBSET DOMAIN argv
  BY <1>1, Positions
<1>6. /\ Behind(Operands)' = Behind(Operands) \cup {p}
      /\ Behind(Commanded)' = Behind(Commanded) /\ Behind(Scripted)' = Behind(Scripted)
  BY <1>2, <1>3, <1>4, <1>5 DEF Behind
<1>7. OptionsBehind'
  <2>1. (p + 1) - 1 = p
    BY <1>1
  <2>2. ASSUME NEW j \in DOMAIN argv, j < p + 1, dash(argv[j])
        PROVE  argv[j] \in Execute \cup {"--script"} /\ j + 1 < p + 1 /\ ~dash(argv[j + 1])
    <3>1. j \in Nat /\ j < p
      BY <1>1, <2>2
    <3> QED
      BY <1>1, <2>2, <3>1 DEF OptionsBehind, Behind
  <2> QED
    BY <1>1, <2>1, <2>2 DEF OptionsBehind, Behind
<1> QED
  BY <1>3, <1>6, <1>7

\* The next command of -ex is one more, at the end of the list.
LEMMA Listed ==
  ASSUME Spelled, OptionsInv, parsing, argv[opt.i] \in Execute, followed(opt), UNCHANGED argv,
         Behind(Commanded)' = Behind(Commanded) \cup {opt.i},
         opt'.list = Append(opt.list, argv[opt.i + 1])
  PROVE  ListBehind'
<1> DEFINE p == opt.i
           n == Len(opt.list)
<1>1. /\ argv \in Seq(Said) /\ p \in Nat \ {0} /\ p \in DOMAIN argv /\ DOMAIN argv \subseteq Nat
      /\ opt.list \in Seq(Spoken) /\ ListBehind
  BY DEF OptionsInv, parsing, Option
<1>2. Commanded \in SUBSET DOMAIN argv /\ p \in Commanded
  BY <1>1, Positions DEF Commanded, Options
<1>3. IsFiniteSet(Behind(Commanded)) /\ Cardinality(Behind(Commanded)) = n /\ n \in Nat
  <2>1. Behind(Commanded) \in SUBSET DOMAIN argv
    BY <1>2 DEF Behind
  <2> QED
    BY <1>1, <2>1, FinitePositions DEF ListBehind
<1>4. p \notin Behind(Commanded)
  BY <1>1 DEF Behind
<1>5. Cardinality(Behind(Commanded)') = n + 1
  BY <1>3, <1>4, FS_AddElement
<1>6. UNCHANGED Commanded /\ \A j : UNCHANGED Rank(j)
  BY DEF Commanded, Options, Rank
<1>7. Rank(p) = n + 1
  <2>1. {k \in Commanded : k <= p} = Behind(Commanded) \cup {p}
    BY <1>1, <1>2 DEF Behind
  <2> QED
    BY <1>3, <1>4, <2>1, FS_AddElement DEF Rank
<1>8. \A j \in Behind(Commanded) : Rank(j) \in 1 .. n
  <2> SUFFICES ASSUME NEW j \in Behind(Commanded) PROVE Rank(j) \in 1 .. n
    OBVIOUS
  <2>1. j \in Nat /\ j < p /\ j \in Commanded
    BY <1>1, <1>2 DEF Behind
  <2>2. {k \in Commanded : k <= j} \in SUBSET Behind(Commanded) /\ j \in {k \in Commanded : k <= j}
    BY <1>1, <1>2, <2>1 DEF Behind
  <2>3. Rank(j) <= n /\ IsFiniteSet({k \in Commanded : k <= j})
    BY <1>3, <2>2, FS_Subset DEF Rank
  <2>4. Rank(j) \in Nat /\ Rank(j) # 0
    BY <2>2, <2>3, FS_EmptySet, FS_CardinalityType DEF Rank
  <2> QED
    BY <1>3, <2>3, <2>4
<1>9. ASSUME NEW j \in Behind(Commanded)'
      PROVE  opt'.list[Rank(j)] = argv[j + 1]
  <2>1. CASE j = p
    <3>1. Append(opt.list, argv[p + 1])[n + 1] = argv[p + 1]
      BY <1>1, <1>3
    <3> QED
      BY <1>7, <2>1, <3>1
  <2>2. CASE j \in Behind(Commanded)
    <3>1. Rank(j) \in 1 .. n
      BY <1>8, <2>2
    <3>2. Append(opt.list, argv[p + 1])[Rank(j)] = opt.list[Rank(j)]
      BY <1>1, <3>1
    <3> QED
      BY <1>1, <2>2, <3>2 DEF ListBehind
  <2> QED
    BY <1>9, <2>1, <2>2
<1>10. Len(opt'.list) = n + 1
  BY <1>1, <1>3
<1> QED
  BY <1>5, <1>6, <1>9, <1>10 DEF ListBehind

\* parse_arguments keeps what it has gathered equal to what it has passed.
LEMMA OptionsKept ==
  ASSUME Spelled, OptionsInv, [Next]_vars
  PROVE  OptionsInv'
<1>1. CASE parse_arguments
  <2>1. /\ argv \in Seq(Said) /\ opt \in Option /\ opt.i \in Nat \ {0} /\ opt.i <= Len(argv)
        /\ opt.i \in DOMAIN argv /\ Len(argv) \in Nat /\ opt.end = "no" /\ ctl = "options"
        /\ OptionsBehind /\ PathBehind /\ ScriptBehind /\ ListBehind
        /\ opt' = parsed(opt) /\ argv' = argv /\ parsing
    BY <1>1 DEF OptionsInv, parse_arguments, parsing, Option
  <2>2. opt' \in Option
    BY <2>1, ParsedType
  <2>3. UNCHANGED <<Operands, Commanded, Scripted, WellFormed>> /\ \A j : UNCHANGED Rank(j)
    BY <2>1 DEF Operands, Commanded, Scripted, WellFormed, Options, Rank
  <2>4. CASE opt'.end # "no"
    <3>1. ~WellFormed
      BY <2>1, <2>4, ErrorRight
    <3>2. opt' \in {[opt EXCEPT !.end = "error"], [opt EXCEPT !.end = "help"]}
      BY <2>1, <2>4, ParsedWord DEF Option
    <3>3. opt'.i = opt.i
      BY <2>1, <3>2 DEF Option
    <3> QED
      BY <2>1, <2>2, <2>3, <2>4, <3>1, <3>3 DEF OptionsInv
  <2>5. CASE opt'.end = "no"
    <3>1. CASE argv[opt.i] \in Execute
      <4>1. opt.script = None /\ followed(opt) /\ dash(argv[opt.i])
            /\ opt' = [opt EXCEPT !.list = Append(@, argv[opt.i + 1]), !.i = @ + 2]
        BY <2>1, <2>5, <3>1, ParsedWord DEF Option, Spelled
      <4>2. /\ opt'.i = opt.i + 2 /\ opt'.list = Append(opt.list, argv[opt.i + 1])
            /\ opt'.script = None /\ opt'.path = opt.path
        BY <2>1, <4>1 DEF Option
      <4>3. argv[opt.i] # "--script"
        BY <3>1 DEF Execute
      <4>4. /\ Behind(Operands)' = Behind(Operands) /\ Behind(Scripted)' = Behind(Scripted)
            /\ Behind(Commanded)' = Behind(Commanded) \cup {opt.i} /\ OptionsBehind'
        BY <2>1, <3>1, <4>1, <4>2, <4>3, OptionPassed
      <4>5. ListBehind'
        BY <2>1, <3>1, <4>1, <4>2, <4>4, Listed
      <4>6. PathBehind'
        BY <2>1, <2>3, <4>2, <4>4 DEF PathBehind
      <4>7. ScriptBehind'
        BY <2>1, <4>1, <4>2, <4>4 DEF ScriptBehind
      <4>8. opt'.i <= Len(argv) + 1
        BY <2>1, <4>1, <4>2 DEF followed
      <4> QED
        BY <2>1, <2>2, <2>5, <4>4, <4>5, <4>6, <4>7, <4>8 DEF OptionsInv
    <3>2. CASE argv[opt.i] = "--script"
      <4>1. ~script_refused(opt) /\ followed(opt) /\ dash(argv[opt.i])
            /\ opt' = [opt EXCEPT !.script = argv[opt.i + 1], !.i = @ + 2]
        BY <2>1, <2>5, <3>2, ParsedWord DEF Option, Spelled
      <4>2. /\ opt'.i = opt.i + 2 /\ opt'.script = argv[opt.i + 1]
            /\ opt'.list = opt.list /\ opt'.path = opt.path
            /\ opt.script = None /\ opt.list = <<>>
        BY <2>1, <4>1 DEF Option, script_refused
      <4>3. argv[opt.i] \notin Execute
        BY <3>2 DEF Execute
      <4>4. /\ Behind(Operands)' = Behind(Operands) /\ Behind(Commanded)' = Behind(Commanded)
            /\ Behind(Scripted)' = Behind(Scripted) \cup {opt.i} /\ OptionsBehind'
        BY <2>1, <3>2, <4>1, <4>2, <4>3, OptionPassed
      <4>5. Behind(Commanded) = {}
        <5>1. Behind(Commanded) \in SUBSET DOMAIN argv
          BY <2>1, Positions DEF Behind
        <5>2. Cardinality(Behind(Commanded)) = 0
          BY <2>1, <4>2 DEF ListBehind
        <5> QED
          BY <2>1, <5>1, <5>2, FinitePositions
      <4>6. ListBehind'
        BY <2>1, <2>3, <4>2, <4>4, <4>5 DEF ListBehind
      <4>7. PathBehind'
        BY <2>1, <2>3, <4>2, <4>4 DEF PathBehind
      <4>8. ScriptBehind'
        <5>1. opt.i \in Scripted /\ Behind(Scripted) = {}
          BY <2>1, <3>2, <4>2 DEF Scripted, Options, ScriptBehind
        <5>2. opt'.script # None
          <6>1. argv[opt.i + 1] \in Said
            BY <2>1, <4>1 DEF followed
          <6> QED
            BY <4>2, <6>1 DEF Spelled
        <5> QED
          BY <2>1, <2>3, <4>2, <4>4, <4>5, <5>1, <5>2 DEF ScriptBehind
      <4>9. opt'.i <= Len(argv) + 1
        BY <2>1, <4>1, <4>2 DEF followed
      <4> QED
        BY <2>1, <2>2, <2>5, <4>4, <4>6, <4>7, <4>8, <4>9 DEF OptionsInv
    <3>3. CASE ~dash(argv[opt.i])
      <4>1. opt.path = None /\ opt' = [opt EXCEPT !.path = argv[opt.i], !.i = @ + 1]
        BY <2>1, <2>5, <3>3, ParsedWord DEF Option
      <4>2. /\ opt'.i = opt.i + 1 /\ opt'.path = argv[opt.i]
            /\ opt'.list = opt.list /\ opt'.script = opt.script
        BY <2>1, <4>1 DEF Option
      <4>3. /\ Behind(Operands)' = Behind(Operands) \cup {opt.i} /\ opt.i \in Operands
            /\ Behind(Commanded)' = Behind(Commanded) /\ Behind(Scripted)' = Behind(Scripted)
            /\ OptionsBehind'
        BY <2>1, <3>3, <4>2, OperandPassed
      <4>4. ListBehind'
        BY <2>1, <2>3, <4>2, <4>3 DEF ListBehind
      <4>5. PathBehind'
        <5>1. opt'.path # None /\ Behind(Operands) = {}
          BY <2>1, <4>1, <4>2 DEF PathBehind, Spelled
        <5> QED
          BY <2>3, <4>3, <5>1 DEF PathBehind
      <4>6. ScriptBehind'
        BY <2>1, <2>3, <4>2, <4>3 DEF ScriptBehind
      <4>7. opt'.i <= Len(argv) + 1
        BY <2>1, <4>2
      <4> QED
        BY <2>1, <2>2, <2>5, <4>3, <4>4, <4>5, <4>6, <4>7 DEF OptionsInv
    <3>4. CASE dash(argv[opt.i]) /\ argv[opt.i] \notin Execute \cup {"--script"}
      BY <2>1, <2>5, <3>4, ParsedWord DEF Option
    <3> QED
      BY <3>1, <3>2, <3>3, <3>4
  <2> QED
    BY <2>4, <2>5
<1>2. CASE ctl' # "options"
  BY <1>2 DEF OptionsInv
<1>3. CASE ctl' = "options" /\ ~parse_arguments
  <2>1. UNCHANGED <<ctl, argv, opt>>
    BY <1>3 DEF Next, no_start, start, dbg_completion, loop, type_line, empty_line, end_of_file,
                ended, script_line, refuse, cmd_execute, execute_returns, answer, cmd_exit,
                cmd_source, cmd_other,
                cmd_arguments, cmd_all, break_argument, delete_argument, enable_argument,
                arguments_done, handle, return, dbg_kill_tracee, commandVars, vars, sessionVars
  <2>2. UNCHANGED <<Operands, Commanded, Scripted, WellFormed>> /\ \A j : UNCHANGED Rank(j)
    BY <2>1 DEF Operands, Commanded, Scripted, WellFormed, Options, Rank
  <2>3. UNCHANGED <<Behind(Operands), Behind(Commanded), Behind(Scripted), Behind(DOMAIN argv)>>
    BY <2>1, <2>2 DEF Behind
  <2> QED
    BY <2>1, <2>2, <2>3 DEF OptionsInv, OptionsBehind, PathBehind, ScriptBehind, ListBehind
<1> QED
  BY <1>1, <1>2, <1>3

\* The first prompt is reached as the command line says.
LEMMA StartRight ==
  ASSUME Spelled, OptionsInv
  PROVE  /\ no_start /\ WellFormed => opt.end = "no" /\ opt.path # None
         /\ start =>
           /\ WellFormed
           /\ \A i \in Options({"--script"}) :
                argv[i + 1] \in DOMAIN Scripts => files' = << Scripts[argv[i + 1]] >>
           /\ \A i \in Options(Execute) :
                files'[1][Cardinality({j \in Options(Execute) : j <= i})] = LineOf[argv[i + 1]]
<1> SUFFICES ASSUME ctl = "options", ~parsing, opt.end = "no"
             PROVE  /\ WellFormed => opt.path # None
                    /\ start =>
                      /\ WellFormed
                      /\ \A i \in Scripted :
                           argv[i + 1] \in DOMAIN Scripts => files' = << Scripts[argv[i + 1]] >>
                      /\ \A i \in Commanded : files'[1][Rank(i)] = LineOf[argv[i + 1]]
  BY DEF OptionsInv, no_start, start, Commanded, Scripted, Rank
<1>1. /\ argv \in Seq(Said) /\ opt \in Option /\ opt.i = Len(argv) + 1
      /\ DOMAIN argv = 1 .. Len(argv) /\ Len(argv) \in Nat /\ opt.list \in Seq(Spoken)
      /\ OptionsBehind /\ PathBehind /\ ScriptBehind /\ ListBehind
  BY DEF OptionsInv, parsing, Option
<1>2. \A S \in SUBSET DOMAIN argv : Behind(S) = S
  BY <1>1 DEF Behind
<1>3. Behind(Operands) = Operands /\ Behind(Commanded) = Commanded /\ Behind(Scripted) = Scripted
      /\ Behind(DOMAIN argv) = DOMAIN argv
  BY <1>1, <1>2, Positions
<1>4. ASSUME WellFormed PROVE opt.path # None
  <2>1. Operands # {}
    <3>1. Cardinality({}) = 0
      BY FS_EmptySet
    <3>2. Cardinality(Operands) = 1
      BY <1>4 DEF WellFormed
    <3>3. ASSUME Operands = {} PROVE FALSE
      <4>1. Cardinality(Operands) = 0
        BY <3>1, <3>3
      <4> QED
        BY <3>2, <4>1
    <3> QED
      BY <3>3
  <2> QED
    BY <1>1, <1>3, <2>1 DEF PathBehind
<1>5. ASSUME start PROVE WellFormed
  <2>1. \E j : Operands = {j}
    BY <1>1, <1>3, <1>5 DEF start, PathBehind
  <2>2. Cardinality(Operands) = 1
    BY <2>1, FS_Singleton
  <2>3. Cardinality(Scripted) <= IF Commanded = {} THEN 1 ELSE 0
    <3>1. CASE Scripted = {}
      BY <3>1, FS_EmptySet
    <3>2. ASSUME NEW j, Scripted = {j}, Commanded = {}
          PROVE  Cardinality(Scripted) <= IF Commanded = {} THEN 1 ELSE 0
      <4>1. Cardinality({j}) = 1
        BY FS_Singleton
      <4> QED
        BY <3>2, <4>1
    <3> QED
      BY <1>1, <1>3, <3>1, <3>2 DEF ScriptBehind
  <2>4. \A j \in DOMAIN argv : dash(argv[j]) =>
          argv[j] \in Execute \cup {"--script"} /\ j < Len(argv) /\ ~dash(argv[j + 1])
    BY <1>1, <1>3 DEF OptionsBehind
  <2>5. Options({a \in {argv[i] : i \in DOMAIN argv} : dash(a)}) = Options(Execute \cup {"--script"})
    BY <2>4 DEF Options, Spelled
  <2> QED
    BY <2>2, <2>3, <2>4, <2>5 DEF WellFormed, Commanded, Scripted
<1>6. ASSUME start, NEW i \in Scripted, argv[i + 1] \in DOMAIN Scripts
      PROVE  files' = << Scripts[argv[i + 1]] >>
  <2>1. opt.script = argv[i + 1] /\ opt.script # None
    BY <1>1, <1>3, <1>6 DEF ScriptBehind
  <2> QED
    BY <1>6, <2>1 DEF start
<1>7. ASSUME start, NEW i \in Commanded
      PROVE  files'[1][Rank(i)] = LineOf[argv[i + 1]]
  <2>1. opt.script = None /\ opt.list[Rank(i)] = argv[i + 1]
    BY <1>1, <1>3, <1>7 DEF ScriptBehind, ListBehind
  <2>2. Rank(i) \in 1 .. Len(opt.list)
    <3>1. Commanded \in SUBSET DOMAIN argv
      BY <1>1, Positions
    <3>2. {k \in Commanded : k <= i} \in SUBSET Commanded /\ i \in {k \in Commanded : k <= i}
      BY <1>1, <1>7, <3>1
    <3>3. IsFiniteSet(Commanded) /\ IsFiniteSet({k \in Commanded : k <= i})
      BY <1>1, <3>1, <3>2, FinitePositions
    <3>4. Rank(i) <= Cardinality(Commanded)
      BY <3>2, <3>3, FS_Subset DEF Rank
    <3>5. Rank(i) \in Nat /\ Rank(i) # 0 /\ Cardinality(Commanded) \in Nat
      BY <3>2, <3>3, FS_EmptySet, FS_CardinalityType DEF Rank
    <3> QED
      BY <1>1, <1>3, <3>4, <3>5 DEF ListBehind
  <2>3. opt.list # <<>> /\ DOMAIN opt.list = 1 .. Len(opt.list)
    BY <1>1, <2>2
  <2>4. files' = << [k \in DOMAIN opt.list |-> LineOf[opt.list[k]]] >>
    BY <1>7, <2>1, <2>3 DEF start
  <2>5. files'[1] = [k \in DOMAIN opt.list |-> LineOf[opt.list[k]]]
    BY <2>4
  <2> QED
    BY <2>1, <2>2, <2>3, <2>5
<1> QED
  BY <1>4, <1>5, <1>6, <1>7

\* For every command line, of any length: exactly those that the usage message
\* describes are accepted, and before the first prompt vdbg executes what they
\* say, each -ex in its order or the lines of the script.
THEOREM OptionsRight ==
  ASSUME Spelled
  PROVE  Spec => OptionsObeyed
<1>1. Init => OptionsInv
  <2> SUFFICES ASSUME Init PROVE OptionsInv
    OBVIOUS
  <2>1. argv \in Seq(Said) /\ opt = NoOptions /\ NoOptions \in Option
    BY DEF Init, Spelled, NoOptions, Option
  <2>2. Len(argv) \in Nat /\ DOMAIN argv = 1 .. Len(argv)
    BY <2>1
  <2>3. \A S \in SUBSET DOMAIN argv : Behind(S) = {}
    BY <2>1, <2>2 DEF Behind, NoOptions
  <2>4. Behind(Operands) = {} /\ Behind(Commanded) = {} /\ Behind(Scripted) = {}
        /\ Behind(DOMAIN argv) = {}
    BY <2>1, <2>3, Positions
  <2>5. OptionsBehind /\ PathBehind /\ ScriptBehind
    BY <2>1, <2>4 DEF OptionsBehind, PathBehind, ScriptBehind, NoOptions
  <2>6. ListBehind
    BY <2>1, <2>4, FS_EmptySet DEF ListBehind, NoOptions
  <2> QED
    BY <2>1, <2>2, <2>5, <2>6 DEF OptionsInv, NoOptions
<1>2. OptionsInv /\ [Next]_vars => OptionsInv'
  BY OptionsKept
<1>3. OptionsInv /\ [Next]_vars =>
        [ /\ no_start /\ WellFormed => opt.end = "no" /\ opt.path # None
          /\ start =>
            /\ WellFormed
            /\ \A i \in Options({"--script"}) :
                 argv[i + 1] \in DOMAIN Scripts => files' = << Scripts[argv[i + 1]] >>
            /\ \A i \in Options(Execute) :
                 files'[1][Cardinality({j \in Options(Execute) : j <= i})] = LineOf[argv[i + 1]] ]_vars
  BY StartRight
<1> QED
  BY <1>1, <1>2, <1>3, PTL DEF Spec, OptionsObeyed

-----------------------------------------------------------------------------
(***************************************************************************)
(* Completion.                                                             *)
(***************************************************************************)

\* What is completed is a string: it begins with itself, and the number of a
\* breakpoint with nothing.
Legible ==
  /\ None \notin Words
  /\ \A t \in Texts : is_prefix(t, t)
  /\ \A n \in Ids : is_prefix("", Text(ById(n)))

\* The command that a word stands for is among those it may be completed to.
LEMMA CommandOffered ==
  ASSUME Legible, NEW t \in Texts
  PROVE  entry(t) \subseteq command_generator(t)
<1> DEFINE prefix == {i \in DOMAIN commands : is_prefix(t, commands[i])}
<1>1. DOMAIN commands \subseteq Nat
  BY DEF commands
<1>2. CASE \E i \in DOMAIN commands : commands[i] = t
  BY <1>2 DEF entry, command_generator, Legible
<1>3. CASE ~(\E i \in DOMAIN commands : commands[i] = t) /\ prefix # {}
  <2>1. prefix \in SUBSET Nat
    BY <1>1
  <2>2. First(prefix) \in prefix
    BY <1>3, <2>1, FirstLeast
  <2>3. entry(t) = {commands[First(prefix)]}
    BY <1>3 DEF entry
  <2> QED
    BY <2>2, <2>3 DEF command_generator
<1>4. CASE ~(\E i \in DOMAIN commands : commands[i] = t) /\ prefix = {}
  BY <1>4 DEF entry
<1> QED
  BY <1>2, <1>3, <1>4

\* What bp_generator collects are arguments that find their breakpoint.
LEMMA CandidatesFound ==
  ASSUME Meant, ArgsInv, NEW a \in bp_candidates
  PROVE  parse_arg_bp(a) # {} /\ \A b \in parse_arg_bp(a) : Names(a, b)
<1>1. PICK b \in bps : a \in {ById(b), desc[b]}
  BY DEF bp_candidates
<1>2. b \in Nat /\ desc[b] \in Descs
  BY <1>1, CommandsAssumption DEF ArgsInv, BpsTyped, Ids
<1>3. a \in Args /\ Names(a, b)
  BY <1>1, <1>2 DEF Args, Names
<1> QED
  BY <1>1, <1>3, ArgFound

\* What completion has just offered is meant.
LEMMA OfferRight ==
  ASSUME Meant, Legible, ArgsInv, dbg_completion
  PROVE  OffersMeant'
<1>1. PICK t \in Texts :
        \/ offered' = [word |-> None, text |-> t, all |-> command_generator(t)]
        \/ \E w \in Words :
             offered' = [word |-> w, text |-> t, all |-> UNION {completer(c, t) : c \in entry(w)}]
  BY DEF dbg_completion
<1>2. /\ UNCHANGED <<bps, desc>>
      /\ \A a : UNCHANGED parse_arg_bp(a)
      /\ \A a, b : UNCHANGED Names(a, b)
  BY DEF dbg_completion, commandVars, bpVars, parse_arg_bp, matches, Names
<1>3. CASE offered' = [word |-> None, text |-> t, all |-> command_generator(t)]
  BY <1>3, CommandOffered DEF OffersMeant
<1>4. ASSUME NEW w \in Words,
             offered' = [word |-> w, text |-> t, all |-> UNION {completer(c, t) : c \in entry(w)}]
      PROVE  OffersMeant'
  <2>1. w # None /\ offered'.word = w /\ offered'.text = t
    BY <1>4 DEF Legible
  <2>2. \A c \in entry(w) : offered'.all = completer(c, t)
    <3> SUFFICES ASSUME NEW c \in entry(w) PROVE offered'.all = completer(c, t)
      OBVIOUS
    <3>1. entry(w) = {c}
      BY EntryOne
    <3> QED
      BY <1>4, <3>1
  <2>3. ASSUME NEW c \in entry(w), c \in {"delete", "enable", "disable"}
        PROVE  /\ \A a \in offered'.all :
                    parse_arg_bp(a) # {} /\ \A b \in parse_arg_bp(a) : Names(a, b)
               /\ t = "" => \A b \in bps : ById(b) \in offered'.all
    <3>1. offered'.all = matching(t, bp_candidates)
      BY <2>2, <2>3 DEF completer
    <3>2. \A a \in offered'.all : a \in bp_candidates
      BY <3>1 DEF matching
    <3>3. t = "" => \A b \in bps : ById(b) \in offered'.all
      <4> SUFFICES ASSUME t = "", NEW b \in bps PROVE ById(b) \in matching("", bp_candidates)
        BY <3>1
      <4>1. ById(b) \in bp_candidates
        BY ById(b) \in {ById(b), desc[b]}, Zenon DEF bp_candidates
      <4>2. is_prefix("", Text(ById(b)))
        BY DEF Legible, ArgsInv, BpsTyped
      <4> QED
        BY <4>1, <4>2 DEF matching
    <3> QED
      BY <3>2, <3>3, CandidatesFound
  <2>4. ASSUME NEW c \in entry(w), c = "break", NEW a \in offered'.all, Symbol(a)
        PROVE  Found[a] > 0
    <3>1. a \in break_target_generator(t)
      BY <2>2, <2>4 DEF completer
    <3>2. a \in function_generator(t)
      BY <2>4, <3>1 DEF break_target_generator, matching, Symbol
    <3> QED
      BY <3>2 DEF function_generator, matching
  <2> QED
    BY <1>2, <2>1, <2>3, <2>4 DEF OffersMeant
<1> QED
  BY <1>1, <1>3, <1>4

\* At each completion, after any commands: what is offered for delete, enable
\* and disable finds a breakpoint so described, each breakpoint is offered, a
\* function that is offered for break is found, and a word is completed to
\* the command it stands for.
THEOREM CompletionRight ==
  ASSUME Meant, Legible
  PROVE  Spec => []OffersMeant
<1>1. Init => OffersMeant
  <2> SUFFICES ASSUME offered = NoOffer PROVE OffersMeant
    BY DEF Init
  <2>1. offered.word = None
    BY DEF NoOffer
  <2> QED
    BY <2>1 DEF OffersMeant
<1>2. ReadInv /\ ArgsInv /\ OffersMeant /\ [Next]_vars => OffersMeant'
  <2> SUFFICES ASSUME ReadInv, ArgsInv, OffersMeant, [Next]_vars PROVE OffersMeant'
    OBVIOUS
  <2>1. CASE dbg_completion
    BY <2>1, OfferRight
  <2>2. CASE offered' = NoOffer
    BY <2>2 DEF OffersMeant, NoOffer
  <2>3. CASE UNCHANGED <<bps, desc, offered>>
    BY <2>3 DEF OffersMeant, parse_arg_bp, matches, Names
  <2>4. dbg_completion \/ offered' = NoOffer \/ UNCHANGED <<bps, desc, offered>>
    BY DEF Next, loop, parse_arguments, no_start, start, commandVars, bpVars, vars, sessionVars
  <2> QED
    BY <2>1, <2>2, <2>3, <2>4
<1> QED
  BY <1>1, <1>2, CommandsInv, PTL DEF Spec

=============================================================================
