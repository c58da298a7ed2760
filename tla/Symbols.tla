-------------------------------- MODULE Symbols --------------------------------
(***************************************************************************)
(* Symbols and what is computed from them: functions, break by function,   *)
(* line or address, disassemble and context.                               *)
(*                                                                         *)
(* An executable is a record:                                              *)
(*   type    "DYN" (PIE) or "EXEC", e_type of the ELF header               *)
(*   symtab  the symbols of .symtab in order, [name, kind, value, size]    *)
(*   plt     the names .rela.plt has, in order; pltAt the address of .plt  *)
(*   stubs   where the linker put the stub of each (external)              *)
(*   code    code[a]: 0, or the distance to the function the instruction   *)
(*           at a calls; an instruction is one unit long                   *)
(*   shift   the address of the code less its offset in the file           *)
(*   cus     the compilation units, [name, rows, dies]: rows maps the      *)
(*           unit's addresses to lines, a die is [name, low, high], and    *)
(*           low > high for a subprogram without code                      *)
(* Addresses are those of the file; the tracee's are Base higher for DYN.  *)
(***************************************************************************)
EXTENDS Integers, Sequences, FiniteSets, FiniteSetsExt

CONSTANTS
  Executables,   \* what the file may be, when vdbg starts or after a rebuild
  Base,          \* where a PIE is loaded
  Contexts,      \* the arguments of context
  Asked,         \* the lines the user asks for
  Bits,          \* the width of unsigned, scaled down
  SourceLen,     \* the number of lines of every source file
  None

\* What libelf and libdwfl give.
SymbolRecord == [name : STRING, kind : STRING, value : Nat, size : Nat]
DieRecord == [name : STRING, low : Nat, high : Nat]

SymbolsTyped(e) ==
  /\ e.symtab \in Seq(SymbolRecord)
  /\ e.plt \in Seq(STRING) /\ \A i \in DOMAIN e.plt : e.plt[i] \o "@plt" \in STRING
  /\ e.pltAt \in Nat
  /\ e.stubs \in Seq(Nat) /\ Len(e.stubs) = Len(e.plt)

CodeTyped(e) ==
  /\ e.type \in {"DYN", "EXEC"} /\ e.shift \in Nat
  /\ DOMAIN e.code \subseteq Nat /\ e.code \in [DOMAIN e.code -> Int]

UnitTyped(u, addrs) ==
  /\ u.name \in STRING /\ u.dies \in Seq(DieRecord)
  /\ DOMAIN u.rows \subseteq addrs /\ u.rows \in [DOMAIN u.rows -> 1 .. SourceLen]

ASSUME SymbolsAssumption ==
  /\ Base \in Nat /\ Bits \in Nat /\ SourceLen \in Nat /\ SourceLen < 2 ^ Bits
  /\ Contexts \subseteq Int /\ Asked \subseteq Nat
  /\ None \notin STRING \cup Int \cup Executables
  /\ \A e \in Executables :
       /\ SymbolsTyped(e) /\ CodeTyped(e)
       /\ e.cus \in Seq({e.cus[i] : i \in DOMAIN e.cus})
       /\ \A i \in DOMAIN e.cus : UnitTyped(e.cus[i], DOMAIN e.code)

VARIABLES
  syms,    \* the executable vdbg has loaded
  file,    \* the one that is on disk
  image,   \* the one the tracee runs; None without a tracee
  pc,      \* the tracee's, as an address of the file
  load_address,  \* dbg->load_address
  newer,   \* the source files modified after the executable vdbg has loaded
  shown,   \* [addr, func, idle] `functions' printed last: without a tracee?
  out      \* what the last command did

vars == <<syms, file, image, pc, load_address, newer, shown, out>>

Nothing == [cmd |-> "none"]

Init ==
  /\ syms \in Executables /\ file = syms
  /\ image = None /\ pc = 0 /\ load_address = 0 /\ newer = {}
  /\ shown = None /\ out = Nothing

active == image # None

\* The prompt: the output of the last command has been read.
Prompt == out = Nothing
prompt ==
  /\ ~Prompt
  /\ out' = Nothing
  /\ UNCHANGED <<syms, file, image, pc, load_address, newer, shown>>

-----------------------------------------------------------------------------
(***************************************************************************)
(* The functions.                                                          *)
(***************************************************************************)

\* Mutant: no room for the slot every entry jumps to.
plt_addr_no_header(e, i) == e.pltAt + 16 * (i - 1)

\* Every entry of .plt is 16 bytes, behind one that all of them jump to.
plt_addr(e, i) == e.pltAt + 16 * i

get_plt_entries(e) ==
  [i \in DOMAIN e.plt |-> [name |-> e.plt[i] \o "@plt", addr |-> plt_addr(e, i), size |-> 1]]

is_func(s) == s.kind = "FUNC" /\ s.value # 0

\* cache_all_functions_and_filenames; nothing when there is no .symtab.  A
\* symbol that is no function leaves a gap in the positions.
funcs_list(e) ==
  LET stubs == Len(e.plt)
      defined == {i \in DOMAIN e.symtab : is_func(e.symtab[i])}
      of(s) == [name |-> s.name, addr |-> s.value, size |-> s.size]
  IN  IF e.symtab = <<>> THEN <<>>
      ELSE [p \in (1 .. stubs) \cup {stubs + i : i \in defined} |->
              IF p <= stubs THEN get_plt_entries(e)[p] ELSE of(e.symtab[p - stubs])]

\* The addresses of the functions of that name.
addrs_of(e, name) ==
  {funcs_list(e)[i].addr : i \in {j \in DOMAIN funcs_list(e) : funcs_list(e)[j].name = name}}

\* The addresses `functions' prints have the load address added.
cmd_functions ==
  /\ Prompt
  /\ \E i \in DOMAIN funcs_list(syms) :
       shown' = [addr |-> funcs_list(syms)[i].addr + load_address,
                 func |-> funcs_list(syms)[i].addr, idle |-> ~active]
  /\ UNCHANGED <<syms, file, image, pc, load_address, newer, out>>

-----------------------------------------------------------------------------
(***************************************************************************)
(* Lines.                                                                  *)
(***************************************************************************)

\* The unit that contains the address: dwfl_module_addrdie.
get_cudie_from_pc(e, a) == {i \in DOMAIN e.cus : a \in DOMAIN e.cus[i].rows}

get_line_from_pc(e, a) ==
  {[file |-> e.cus[i].name, line |-> e.cus[i].rows[a]] : i \in get_cudie_from_pc(e, a)}

\* dwfl_module_getsrc_file: in every unit of that name, the addresses of the
\* line, or of the next one that has code; units in order (external).
getsrc_file(e, name, line) ==
  LET named == {i \in DOMAIN e.cus : e.cus[i].name = name}
      rows == {r \in named \X DOMAIN e.code : r[2] \in DOMAIN e.cus[r[1]].rows}
      lineAt(r) == e.cus[r[1]].rows[r[2]]
      later == {lineAt(r) : r \in rows} \ (0 .. line - 1)
  IN  {r \in rows : later # {} /\ lineAt(r) = Min(later)}

\* Mutant: the last address of the line.
first_row_last(R) == Max({r[2] : r \in R})

\* srcsp[0]: the first address in the first unit.
first_row(R) == Min({r[2] : r \in {q \in R : \A s \in R : q[1] <= s[1]}})

\* get_addr_from_lineno: no unit of that name, or no such line, gives none.
get_addr_from_lineno(e, name, line) ==
  LET R == getsrc_file(e, name, line) IN IF R = {} THEN {} ELSE {first_row(R)}

\* The file `break <line>' means: the tracee's, or the first unit's.
current_file ==
  IF active THEN {image.cus[i].name : i \in get_cudie_from_pc(image, pc)}
  ELSE IF syms.cus = <<>> THEN {} ELSE {syms.cus[1].name}

-----------------------------------------------------------------------------
(***************************************************************************)
(* break.                                                                  *)
(***************************************************************************)

\* set_breakpoint_at_lineno.
break_line ==
  /\ Prompt
  /\ \E line \in Asked :
       LET typed == {syms.cus[i].name : i \in DOMAIN syms.cus} \X {TRUE}
           implied == current_file \X {FALSE}
       IN  \E f \in typed \cup implied :
             out' = [cmd |-> "break line", file |-> f[1], given |-> f[2], line |-> line,
                     addrs |-> get_addr_from_lineno(syms, f[1], line)]
  /\ UNCHANGED <<syms, file, image, pc, load_address, newer, shown>>

\* set_breakpoint_at_func_symbol: all functions of that name.
break_func ==
  /\ Prompt
  /\ \E i \in DOMAIN funcs_list(syms) :
       out' = [cmd |-> "break func", addrs |-> addrs_of(syms, funcs_list(syms)[i].name)]
  /\ UNCHANGED <<syms, file, image, pc, load_address, newer, shown>>

\* set_breakpoint_at_addr: instr_addr is the address as it was typed.
instr_addr(a) == a

\* The user types an address that `functions' has printed.
break_addr ==
  /\ Prompt /\ shown # None
  /\ out' = [cmd |-> "break addr", addrs |-> {instr_addr(shown.addr)}]
  /\ UNCHANGED <<syms, file, image, pc, load_address, newer, shown>>

-----------------------------------------------------------------------------
(***************************************************************************)
(* disassemble.                                                            *)
(***************************************************************************)

\* The bytes that stand at this offset of the file on disk.
Garbage == -1
read_code(offset) ==
  IF offset + file.shift \in DOMAIN file.code THEN file.code[offset + file.shift] ELSE Garbage

\* print_instruction_disas.  The first call of a target prints the last name
\* the functions list has for it and stores the first one, which the later
\* calls print.
call_name(fs, targets, i) ==
  LET names == {j \in DOMAIN fs : targets[i] # None /\ fs[j].addr = targets[i]}
      again == \E k \in 1 .. i - 1 : targets[k] = targets[i]
  IN  IF names = {} THEN None ELSE fs[IF again THEN Min(names) ELSE Max(names)].name

curr_addr(a) == a + load_address

\* One listing: [addr, arrow, code, target, name] of its instructions.
disassemble(f, running_pc) ==
  LET code == [i \in 1 .. f.size |-> read_code(f.addr + i - 1)]
      target == [i \in 1 .. f.size |->
                   IF code[i] \in {0, Garbage} THEN None ELSE f.addr + i - 1 + code[i]]
  IN  [i \in 1 .. f.size |->
         [addr |-> f.addr + i - 1,
          arrow |-> curr_addr(f.addr + i - 1) = running_pc,
          code |-> code[i],
          target |-> target[i],
          name |-> call_name(funcs_list(syms), target, i)]]

\* The listings of every function of that name.
listings(name, running_pc) ==
  LET fs == funcs_list(syms)
  IN  {disassemble(fs[i], running_pc) : i \in {j \in DOMAIN fs : fs[j].name = name}}

disassemble_function ==
  /\ Prompt
  /\ \E i \in DOMAIN funcs_list(syms) :
       out' = [cmd |-> "disassemble", lists |-> listings(funcs_list(syms)[i].name, 0)]
  /\ UNCHANGED <<syms, file, image, pc, load_address, newer, shown>>

\* Mutant: the end of a function counts as part of it.
contains_closed(d, a) == d.low <= a /\ a <= d.high

contains(d, a) == d.low <= a /\ a < d.high

\* function_die_callback on the subprograms of the unit, in order, up to the
\* first that contains the pc.  dwarf_lowpc leaves func_start as it was for a
\* subprogram without code: whether that one matches is anybody's guess.
get_func_die_from_pc(e, a) ==
  LET cu == get_cudie_from_pc(e, a)
      d == IF cu = {} THEN <<>> ELSE e.cus[Min(cu)].dies
      sure == {j \in DOMAIN d : contains(d[j], a)}
      maybe == {j \in DOMAIN d : d[j].low > d[j].high}
  IN  {d[j].name : j \in {k \in sure \cup maybe : \A l \in sure : k <= l}}
        \cup IF sure = {} THEN {None} ELSE {}

\* Without an argument: the function of the pc.
disassemble_current ==
  /\ Prompt /\ active
  /\ \E name \in get_func_die_from_pc(image, pc) :
       out' = [cmd |-> "disassemble pc",
               lists |-> IF name = None THEN {} ELSE listings(name, pc + load_address)]
  /\ UNCHANGED <<syms, file, image, pc, load_address, newer, shown>>

-----------------------------------------------------------------------------
(***************************************************************************)
(* context.                                                                *)
(***************************************************************************)
unsigned(n) == n % 2 ^ Bits

\* Mutant: one line too many in front.
start_line_before(line, c) == IF line <= c THEN 1 ELSE unsigned(line - c)

start_line(line, c) == IF line <= c THEN 1 ELSE unsigned(line - c + 1)

end_line(line, c) == unsigned(line + c + IF line < c THEN c - line ELSE 0)

\* The file times, as far as seconds tell and stat does not fail.
is_old(name) == name \in newer

\* cmd_context: atoi, a cast to unsigned, and print_source, which asserts that
\* it is not 0.  The line itself is the tracee's; without debug information
\* the command is refused.
cmd_context ==
  /\ Prompt /\ active /\ syms.cus # <<>>
  /\ \E c \in Contexts, at \in get_line_from_pc(image, pc) :
       out' = IF unsigned(c) = 0 THEN [cmd |-> "aborted"]
              ELSE [cmd |-> "context", line |-> at.line, context |-> unsigned(c),
                    warned |-> is_old(at.file),
                    lines |-> (start_line(at.line, unsigned(c)) .. end_line(at.line, unsigned(c)) - 1)
                                \cap 1 .. SourceLen]
  /\ UNCHANGED <<syms, file, image, pc, load_address, newer, shown>>

-----------------------------------------------------------------------------
(***************************************************************************)
(* The tracee, and the user's editor and compiler (external).              *)
(***************************************************************************)
\* initialize_load_address: where /proc/<pid>/maps has the program, if the file
\* that vdbg has loaded is a PIE.
initialize_load_address == IF syms.type = "DYN" THEN Base ELSE 0

run ==
  /\ Prompt
  /\ image' = file
  /\ load_address' = initialize_load_address
  /\ pc' \in DOMAIN file.code
  /\ UNCHANGED <<syms, file, newer, shown, out>>

tracee_stops ==
  /\ Prompt /\ active
  /\ pc' \in DOMAIN image.code
  /\ UNCHANGED <<syms, file, image, load_address, newer, shown, out>>

\* Mutant: the load address of the last tracee stays.
cleanup_but_load_address == image' = None /\ pc' = 0 /\ UNCHANGED load_address

cleanup_at_tracee_death == image' = None /\ pc' = 0 /\ load_address' = 0

tracee_dies ==
  /\ Prompt /\ active
  /\ cleanup_at_tracee_death
  /\ UNCHANGED <<syms, file, newer, shown, out>>

edit_source ==
  /\ Prompt
  /\ \E i \in DOMAIN syms.cus : newer' = newer \cup {syms.cus[i].name}
  /\ UNCHANGED <<syms, file, image, pc, load_address, shown, out>>

\* make: the units of the files that were edited may change, and -g or strip
\* may be used.
rebuild ==
  /\ Prompt
  /\ \E e \in Executables \ {file} :
       /\ \A i \in DOMAIN e.cus \cap DOMAIN syms.cus : e.cus[i] = syms.cus[i] \/ e.cus[i].name \in newer
       /\ file' = e
  /\ UNCHANGED <<syms, image, pc, load_address, newer, shown, out>>

Next ==
  \/ prompt \/ cmd_functions \/ break_line \/ break_func \/ break_addr
  \/ disassemble_function \/ disassemble_current \/ cmd_context
  \/ run \/ tracee_stops \/ tracee_dies \/ edit_source \/ rebuild

Spec == Init /\ [][Next]_vars

-----------------------------------------------------------------------------
(***************************************************************************)
(* Properties.                                                             *)
(***************************************************************************)

\* The functions the program has: those of .symtab and the linker's stubs.
Entries(e) ==
  ({e.symtab[i].value : i \in {j \in DOMAIN e.symtab : e.symtab[j].kind = "FUNC"}} \ {0})
    \cup {e.stubs[i] : i \in DOMAIN e.stubs}

Listed == IF out.cmd \in {"disassemble", "disassemble pc"} THEN out.lists ELSE {}

\* The executable has not been rebuilt since vdbg loaded it.
Current == file = syms /\ image \in {None, syms}

\* A listing shows the function's own instructions, and a call of a function
\* or of a stub has its name: the one that break takes for that function, and
\* the same at every call in the listing.
CallNamed ==
  Current => \A l \in Listed : \A i \in DOMAIN l :
    LET t == l[i].addr + l[i].code
    IN  /\ l[i].addr \in DOMAIN file.code => l[i].code = file.code[l[i].addr]
        /\ l[i].code \notin {0, Garbage} /\ t \in Entries(syms) => l[i].name # None
        /\ l[i].name # None => t \in addrs_of(syms, l[i].name)
        /\ \A k \in DOMAIN l : l[k].target = l[i].target => l[k].name = l[i].name

\* disassemble without an argument shows the instruction the tracee is at, and
\* only that one, with an arrow, also when two functions have the name.  (The
\* function is found by its debug information, so there has to be some.)
ArrowShown ==
  Current /\ out.cmd = "disassemble pc" /\ get_cudie_from_pc(syms, pc) # {} =>
    \A a \in DOMAIN syms.code :
      a = pc <=> \E l \in out.lists : \E i \in DOMAIN l : l[i].addr = a /\ l[i].arrow

\* An address that `functions' has printed is where break puts the
\* breakpoint: printed without a tracee, also after one has died, and typed at
\* any later time ...
AddressBreaks ==
  out.cmd = "break addr" /\ shown.idle => out.addrs = {shown.func}

\* ... and printed while one runs ("PIE/ASLR: reads /proc/<pid>/maps and handles offsets
\* automatically").
AddressAlwaysBreaks ==
  out.cmd = "break addr" => out.addrs = {shown.func}

\* A breakpoint at a line is the first instruction, in the file that was
\* meant, of the first line from there on that has code.
LineBreaks ==
  Current /\ out.cmd = "break line" =>
    LET meant == {i \in DOMAIN syms.cus :
                    IF active /\ ~out.given THEN i \in get_cudie_from_pc(syms, pc)
                                            ELSE syms.cus[i].name = out.file}
        lines == UNION {{syms.cus[i].rows[a] : a \in DOMAIN syms.cus[i].rows} : i \in meant}
    IN  /\ out.addrs = {} => \A l \in lines : l < out.line
        /\ \A a \in out.addrs : \E i \in meant :
             LET rows == syms.cus[i].rows
             IN  /\ a \in DOMAIN rows /\ rows[a] >= out.line
                 /\ \A l \in lines : l < out.line \/ l >= rows[a]
                 /\ \A b \in DOMAIN rows : b < a => rows[b] # rows[a]

\* context shows the line the tracee is at with the lines that are nearer than
\* was asked for, and as many in all also at the top of the file; it warns when
\* the tracee's lines there are not those of the executable vdbg has loaded.
ContextTrue ==
  out.cmd = "context" =>
    /\ \A l \in 1 .. SourceLen :
         out.line - out.context < l /\ l < out.line + out.context => l \in out.lines
    /\ Cardinality(out.lines) <= 2 * out.context - 1
    /\ Cardinality(out.lines) < 2 * out.context - 1 => SourceLen \in out.lines
    /\ \A i \in get_cudie_from_pc(image, pc) :
         image.cus[i] \in {syms.cus[j] : j \in DOMAIN syms.cus} \/ out.warned

\* No argument of context ends the debugger.
ContextReturns == out.cmd # "aborted"

=============================================================================
