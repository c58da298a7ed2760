---------------------------- MODULE SymbolsProofs ----------------------------
(***************************************************************************)
(* Proofs about break, disassemble and context: for which executables what *)
(* they compute from the symbols and the lines is what the user means.     *)
(***************************************************************************)
EXTENDS Symbols, FiniteSetTheorems, WellFoundedInduction, TLAPS

\* What the debugger has loaded, what is on disk and what runs, and where it
\* is loaded: nowhere once it is dead.
TypeInv ==
  /\ syms \in Executables /\ file \in Executables
  /\ active => image \in Executables
  /\ pc \in Nat
  /\ load_address = IF active /\ syms.type = "DYN" THEN Base ELSE 0

\* What is known of an executable.
LEMMA Typed ==
  ASSUME NEW e \in Executables
  PROVE  /\ SymbolsTyped(e) /\ CodeTyped(e)
         /\ e.cus \in Seq({e.cus[i] : i \in DOMAIN e.cus})
         /\ \A i \in DOMAIN e.cus : UnitTyped(e.cus[i], DOMAIN e.code)
BY SymbolsAssumption

\* Which command an output is from.
LEMMA Speaker ==
  ASSUME [Next]_vars
  PROVE  /\ out'.cmd = "break line" => break_line \/ UNCHANGED vars
         /\ out'.cmd = "break addr" => break_addr \/ UNCHANGED vars
         /\ out'.cmd = "disassemble" => disassemble_function \/ UNCHANGED vars
         /\ out'.cmd = "disassemble pc" => disassemble_current \/ UNCHANGED vars
         /\ out'.cmd = "context" => cmd_context \/ UNCHANGED vars
<1>1. CASE break_line
  <2> DEFINE From(n) == n \in {syms.cus[i].name : i \in DOMAIN syms.cus} \X {TRUE}
                          \/ n \in current_file \X {FALSE}
  <2>1. PICK line \in Asked :
          \E f : From(f) /\
                out' = [cmd |-> "break line", file |-> f[1], given |-> f[2], line |-> line,
                        addrs |-> get_addr_from_lineno(syms, f[1], line)]
    BY <1>1 DEF break_line
  <2> HIDE DEF From
  <2>2. PICK f : out' = [cmd |-> "break line", file |-> f[1], given |-> f[2], line |-> line,
                         addrs |-> get_addr_from_lineno(syms, f[1], line)]
    BY <2>1
  <2>3. out'.cmd = "break line"
    BY <2>2
  <2> QED
    BY <1>1, <2>3
<1>2. CASE break_addr
  <2>1. out'.cmd = "break addr"
    BY <1>2 DEF break_addr
  <2> QED
    BY <1>2, <2>1
<1>3. CASE disassemble_function
  <2>1. out'.cmd = "disassemble"
    BY <1>3 DEF disassemble_function
  <2> QED
    BY <1>3, <2>1
<1>4. CASE disassemble_current
  <2>1. PICK name \in get_func_die_from_pc(image, pc) :
          out' = [cmd |-> "disassemble pc",
                  lists |-> IF name = None THEN {} ELSE listings(name, pc + load_address)]
    BY <1>4 DEF disassemble_current
  <2>2. out'.cmd = "disassemble pc"
    BY <2>1
  <2> QED
    BY <1>4, <2>2
<1>5. CASE cmd_context
  <2>1. out'.cmd \in {"aborted", "context"}
    BY <1>5 DEF cmd_context
  <2> QED
    BY <1>5, <2>1
<1>6. CASE break_func
  <2>1. PICK i \in DOMAIN funcs_list(syms) :
          out' = [cmd |-> "break func", addrs |-> addrs_of(syms, funcs_list(syms)[i].name)]
    BY <1>6 DEF break_func
  <2>2. out'.cmd = "break func"
    BY <2>1
  <2> QED
    BY <2>2
<1>7. CASE prompt \/ cmd_functions \/ run \/ tracee_stops \/ tracee_dies \/ edit_source \/ rebuild
  <2>1. out'.cmd = "none"
    BY <1>7 DEF prompt, cmd_functions, run, tracee_stops, tracee_dies, edit_source, rebuild,
                Prompt, Nothing
  <2> QED
    BY <2>1
<1>8. CASE UNCHANGED vars
  BY <1>8
<1> QED
  BY <1>1, <1>2, <1>3, <1>4, <1>5, <1>6, <1>7, <1>8 DEF Next

\* The files and the tracee are what they are thought to be.
LEMMA InitType == Init => TypeInv
BY DEF Init, TypeInv, active

\* Every step keeps them so.
LEMMA NextType ==
  ASSUME TypeInv, [Next]_vars
  PROVE  TypeInv'
<1>1. CASE \/ prompt \/ cmd_functions \/ break_line \/ break_func \/ break_addr
           \/ disassemble_function \/ disassemble_current \/ cmd_context \/ edit_source
           \/ UNCHANGED vars
  <2>1. UNCHANGED <<syms, file, image, pc, load_address>>
    BY <1>1 DEF prompt, cmd_functions, break_line, break_func, break_addr, disassemble_function,
                disassemble_current, cmd_context, edit_source, vars
  <2> QED
    BY <2>1 DEF TypeInv, active
<1>2. CASE run
  BY <1>2, Typed, SymbolsAssumption DEF run, TypeInv, active, CodeTyped, initialize_load_address
<1>3. CASE tracee_stops
  BY <1>3, Typed DEF tracee_stops, TypeInv, active, CodeTyped
<1>4. CASE tracee_dies
  BY <1>4 DEF tracee_dies, cleanup_at_tracee_death, TypeInv, active
<1>5. CASE rebuild
  BY <1>5 DEF rebuild, TypeInv, active
<1> QED
  BY <1>1, <1>2, <1>3, <1>4, <1>5 DEF Next

\* The list of functions has the stubs of the PLT and the functions of .symtab.
LEMMA FunctionListed ==
  ASSUME NEW e \in Executables, NEW p \in DOMAIN funcs_list(e)
  PROVE  \/ /\ p \in DOMAIN e.plt
            /\ funcs_list(e)[p] = [name |-> e.plt[p] \o "@plt", addr |-> plt_addr(e, p), size |-> 1]
         \/ \E i \in DOMAIN e.symtab :
              /\ is_func(e.symtab[i])
              /\ funcs_list(e)[p] = [name |-> e.symtab[i].name, addr |-> e.symtab[i].value,
                                     size |-> e.symtab[i].size]
<1> DEFINE n == Len(e.plt)
<1>1. /\ e.plt \in Seq(STRING) /\ n \in Nat /\ DOMAIN e.plt = 1 .. n
      /\ e.symtab \in Seq(SymbolRecord) /\ DOMAIN e.symtab \subseteq Nat
  <2>1. SymbolsTyped(e)
    BY Typed
  <2> QED
    BY <2>1 DEF SymbolsTyped
<1>2. e.symtab # <<>>
  BY DEF funcs_list
<1>3. PICK defined \in SUBSET DOMAIN e.symtab : defined = {i \in DOMAIN e.symtab : is_func(e.symtab[i])}
  OBVIOUS
<1>4. /\ p \in (1 .. n) \cup {n + i : i \in defined}
      /\ funcs_list(e)[p] = IF p <= n THEN get_plt_entries(e)[p]
                            ELSE [name |-> e.symtab[p - n].name, addr |-> e.symtab[p - n].value,
                                  size |-> e.symtab[p - n].size]
  BY <1>2, <1>3 DEF funcs_list
<1> HIDE DEF n
<1>5. CASE p \in 1 .. n
  <2>1. p <= n
    BY <1>1, <1>5
  <2> QED
    BY <1>1, <1>4, <1>5, <2>1 DEF get_plt_entries
<1>6. CASE p \notin 1 .. n
  <2>1. PICK i \in defined : p = n + i
    BY <1>4, <1>6
  <2>2. i \in Nat /\ ~(p <= n) /\ p - n = i
    BY <1>1, <1>3, <1>6, <2>1
  <2> QED
    BY <1>3, <1>4, <2>1, <2>2
<1> QED
  BY <1>5, <1>6

\* Its addresses and sizes are numbers.
LEMMA FunctionTyped ==
  ASSUME NEW e \in Executables, NEW p \in DOMAIN funcs_list(e)
  PROVE  /\ funcs_list(e)[p].addr \in Nat /\ funcs_list(e)[p].size \in Nat
<1>1. CASE /\ p \in DOMAIN e.plt
           /\ funcs_list(e)[p] = [name |-> e.plt[p] \o "@plt", addr |-> plt_addr(e, p), size |-> 1]
  <2>1. p \in Nat /\ e.pltAt \in Nat
    <3>1. SymbolsTyped(e)
      BY Typed
    <3> QED
      BY <1>1, <3>1 DEF SymbolsTyped
  <2> QED
    BY <1>1, <2>1 DEF plt_addr
<1>2. ASSUME NEW i \in DOMAIN e.symtab,
             funcs_list(e)[p] = [name |-> e.symtab[i].name, addr |-> e.symtab[i].value,
                                 size |-> e.symtab[i].size]
      PROVE  funcs_list(e)[p].addr \in Nat /\ funcs_list(e)[p].size \in Nat
  <2>1. e.symtab[i] \in SymbolRecord
    <3>1. SymbolsTyped(e)
      BY Typed
    <3> QED
      BY <1>2, <3>1 DEF SymbolsTyped
  <2> QED
    BY <1>2, <2>1 DEF SymbolRecord
<1> QED
  BY <1>1, <1>2, FunctionListed

-----------------------------------------------------------------------------
(***************************************************************************)
(* break by address.                                                       *)
(***************************************************************************)

\* Without a tracee `functions' prints addresses of the file.
ShownInv == shown # None /\ shown.idle => shown.addr = shown.func

\* An address printed before the tracee runs is where break goes.
THEOREM AddressRight == Spec => []AddressBreaks
<1> DEFINE Inv == TypeInv /\ ShownInv /\ AddressBreaks
<1>1. Init => Inv
  BY InitType DEF Init, ShownInv, AddressBreaks, Nothing
<1>2. ASSUME Inv, [Next]_vars PROVE Inv'
  <2>1. TypeInv'
    BY <1>2, NextType
  <2>2. ShownInv'
    <3>1. CASE cmd_functions
      <4>1. PICK i \in DOMAIN funcs_list(syms) :
              shown' = [addr |-> funcs_list(syms)[i].addr + load_address,
                        func |-> funcs_list(syms)[i].addr, idle |-> ~active]
        BY <3>1 DEF cmd_functions
      <4>2. funcs_list(syms)[i].addr \in Nat
        BY <1>2, FunctionTyped DEF TypeInv
      <4>3. ~active => load_address = 0
        BY <1>2 DEF TypeInv
      <4> DEFINE a == funcs_list(syms)[i].addr
      <4>4. shown'.addr = a + load_address /\ shown'.func = a /\ shown'.idle = ~active
        BY <4>1
      <4>5. shown'.idle => shown'.addr = shown'.func
        <5> HIDE DEF a
        <5> SUFFICES ASSUME shown'.idle PROVE shown'.addr = shown'.func
          OBVIOUS
        <5>1. load_address = 0
          BY <4>3, <4>4
        <5> QED
          BY <4>2, <4>4, <5>1 DEF a
      <4> QED
        BY <4>5 DEF ShownInv
    <3>2. CASE ~cmd_functions
      <4>1. shown' = shown
        BY <1>2, <3>2 DEF Next, prompt, break_line, break_func, break_addr, disassemble_function,
             disassemble_current, cmd_context, run, tracee_stops, tracee_dies, edit_source, rebuild, vars
      <4> QED
        BY <1>2, <4>1 DEF ShownInv
    <3> QED
      BY <3>1, <3>2
  <2>3. AddressBreaks'
    <3> SUFFICES ASSUME out'.cmd = "break addr", shown'.idle PROVE out'.addrs = {shown'.func}
      BY DEF AddressBreaks
    <3>1. CASE break_addr
      BY <1>2, <3>1 DEF break_addr, instr_addr, ShownInv
    <3>2. CASE UNCHANGED vars
      BY <1>2, <3>2 DEF vars, AddressBreaks
    <3> QED
      BY <1>2, <3>1, <3>2, Speaker
  <2> QED
    BY <2>1, <2>2, <2>3
<1> QED
  BY <1>1, <1>2, PTL DEF Spec

-----------------------------------------------------------------------------
(***************************************************************************)
(* break by line.                                                          *)
(***************************************************************************)

\* No two source files have one name, ...
NamesApart ==
  \A e \in Executables : \A i, j \in DOMAIN e.cus : e.cus[i].name = e.cus[j].name => i = j

\* ... and no two units an address.
UnitsApart ==
  \A e \in Executables : \A i, j \in DOMAIN e.cus :
    \A a \in DOMAIN e.cus[i].rows \cap DOMAIN e.cus[j].rows : i = j

\* Min is the least element.
LEMMA MinLeast ==
  ASSUME NEW S \in SUBSET Nat, S # {}
  PROVE  Min(S) \in S /\ \A y \in S : Min(S) <= y
<1> DEFINE R == OpToRel(<, Nat)
<1>1. IsWellFoundedOn(R, Nat) /\ \A x, y \in Nat : <<y, x>> \in R <=> y < x
  BY NatLessThanWellFounded DEF OpToRel
<1> HIDE DEF R
<1>2. PICK x \in S : \A y \in S : ~ (<<y, x>> \in R)
  BY <1>1, WFMin
<1>3. ASSUME NEW y \in S PROVE x <= y
  <2>1. x \in Nat /\ y \in Nat /\ ~ (y < x)
    BY <1>1, <1>2
  <2> QED
    BY <2>1
<1> QED
  BY <1>3 DEF Min

\* The rows of a unit are numbers.
LEMMA RowTyped ==
  ASSUME NEW e \in Executables, NEW i \in DOMAIN e.cus, NEW a \in DOMAIN e.cus[i].rows
  PROVE  a \in Nat /\ a \in DOMAIN e.code /\ e.cus[i].rows[a] \in 1 .. SourceLen
<1>1. UnitTyped(e.cus[i], DOMAIN e.code) /\ CodeTyped(e)
  BY Typed
<1> DEFINE rows == e.cus[i].rows
<1>2. DOMAIN rows \subseteq DOMAIN e.code /\ rows \in [DOMAIN rows -> 1 .. SourceLen]
  BY <1>1 DEF UnitTyped
<1>3. DOMAIN e.code \subseteq Nat
  BY <1>1 DEF CodeTyped
<1> QED
  BY <1>2, <1>3

\* What libdwfl finds in the unit of that name: the rows of the nearest line.
LEMMA RowsFound ==
  ASSUME NamesApart, NEW e \in Executables, NEW i \in DOMAIN e.cus, NEW line \in Nat
  PROVE  LET rows == e.cus[i].rows
             R == getsrc_file(e, e.cus[i].name, line)
         IN  /\ R = {} => \A a \in DOMAIN rows : rows[a] < line
             /\ \A r \in R : /\ r = <<i, r[2]>> /\ r[2] \in DOMAIN rows /\ rows[r[2]] >= line
                             /\ \A b \in DOMAIN rows : rows[b] < line \/ rows[b] >= rows[r[2]]
             /\ \A r \in R : \A b \in DOMAIN rows : rows[b] = rows[r[2]] => <<i, b>> \in R
<1> DEFINE rows == e.cus[i].rows
           R == getsrc_file(e, e.cus[i].name, line)
           later == {rows[a] : a \in DOMAIN rows} \ (0 .. line - 1)
<1>1. {j \in DOMAIN e.cus : e.cus[j].name = e.cus[i].name} = {i}
  BY DEF NamesApart
<1>2. \A a \in DOMAIN rows : a \in DOMAIN e.code /\ rows[a] \in Nat
  BY RowTyped, SymbolsAssumption
<1>3. {r \in {i} \X DOMAIN e.code : r[2] \in DOMAIN e.cus[r[1]].rows} = {<<i, a>> : a \in DOMAIN rows}
  BY <1>2
<1>4. {e.cus[r[1]].rows[r[2]] : r \in {<<i, a>> : a \in DOMAIN rows}} = {rows[a] : a \in DOMAIN rows}
  <2> DEFINE V(r) == e.cus[r[1]].rows[r[2]]
  <2>1. \A a \in DOMAIN rows : V(<<i, a>>) = rows[a]
    OBVIOUS
  <2>2. {V(r) : r \in {<<i, a>> : a \in DOMAIN rows}} = {rows[a] : a \in DOMAIN rows}
    <3> HIDE DEF V, rows
    <3> QED
      BY <2>1
  <2> QED
    BY <2>2
<1>5. R = {r \in {<<i, a>> : a \in DOMAIN rows} : later # {} /\ rows[r[2]] = Min(later)}
  <2>1. R = {r \in {<<i, a>> : a \in DOMAIN rows} :
               later # {} /\ e.cus[r[1]].rows[r[2]] = Min(later)}
    BY <1>1, <1>3, <1>4 DEF getsrc_file
  <2> QED
    BY <2>1
<1> HIDE DEF R, rows
<1>6. later \in SUBSET Nat /\ \A b \in DOMAIN rows : rows[b] < line \/ rows[b] \in later
  BY <1>2
<1>7. \A n \in later : n \in Nat /\ n >= line /\ \E a \in DOMAIN rows : n = rows[a]
  BY <1>2
<1> HIDE DEF later
<1>8. later # {} => Min(later) \in later /\ \A y \in later : Min(later) <= y
  BY <1>6, MinLeast
<1>9. R = {} => \A a \in DOMAIN rows : rows[a] < line
  <2>1. CASE later = {}
    BY <1>6, <2>1
  <2>2. CASE later # {}
    <3>1. PICK a \in DOMAIN rows : rows[a] = Min(later)
      BY <1>7, <1>8, <2>2
    <3>2. <<i, a>> \in R
      BY <1>5, <2>2, <3>1
    <3> QED
      BY <3>2
  <2> QED
    BY <2>1, <2>2
<1>10. \A r \in R : /\ r = <<i, r[2]>> /\ r[2] \in DOMAIN rows /\ rows[r[2]] >= line
                    /\ \A b \in DOMAIN rows : rows[b] < line \/ rows[b] >= rows[r[2]]
  <2> SUFFICES ASSUME NEW r \in R
               PROVE  /\ r = <<i, r[2]>> /\ r[2] \in DOMAIN rows /\ rows[r[2]] >= line
                      /\ \A b \in DOMAIN rows : rows[b] < line \/ rows[b] >= rows[r[2]]
    OBVIOUS
  <2>1. PICK a \in DOMAIN rows : r = <<i, a>>
    BY <1>5
  <2>2. r[2] = a /\ later # {} /\ rows[a] = Min(later)
    BY <1>5, <2>1
  <2>3. rows[a] \in Nat /\ rows[a] >= line /\ \A y \in later : rows[a] <= y
    BY <1>7, <1>8, <2>2
  <2>4. \A b \in DOMAIN rows : rows[b] < line \/ rows[b] >= rows[a]
    BY <1>2, <1>6, <2>3
  <2> QED
    BY <2>1, <2>2, <2>3, <2>4
<1>11. \A r \in R : \A b \in DOMAIN rows : rows[b] = rows[r[2]] => <<i, b>> \in R
  BY <1>5
<1> QED
  BY <1>9, <1>10, <1>11 DEF R, rows

\* The address of a line is the first one that the nearest line has.
LEMMA LineFound ==
  ASSUME NamesApart, NEW e \in Executables, NEW i \in DOMAIN e.cus, NEW line \in Nat
  PROVE  LET rows == e.cus[i].rows
             A == get_addr_from_lineno(e, e.cus[i].name, line)
         IN  /\ A = {} => \A a \in DOMAIN rows : rows[a] < line
             /\ \A a \in A : /\ a \in DOMAIN rows /\ rows[a] >= line
                             /\ \A b \in DOMAIN rows : rows[b] < line \/ rows[b] >= rows[a]
                             /\ \A b \in DOMAIN rows : b < a => rows[b] # rows[a]
<1> DEFINE rows == e.cus[i].rows
           A == get_addr_from_lineno(e, e.cus[i].name, line)
           R == getsrc_file(e, e.cus[i].name, line)
           S == {r[2] : r \in R}
<1>1. A = IF R = {} THEN {} ELSE {first_row(R)}
  BY DEF get_addr_from_lineno
<1>2. /\ R = {} => \A a \in DOMAIN rows : rows[a] < line
      /\ \A r \in R : /\ r = <<i, r[2]>> /\ r[2] \in DOMAIN rows /\ rows[r[2]] >= line
                      /\ \A b \in DOMAIN rows : rows[b] < line \/ rows[b] >= rows[r[2]]
      /\ \A r \in R : \A b \in DOMAIN rows : rows[b] = rows[r[2]] => <<i, b>> \in R
  BY RowsFound
<1>3. \A a \in DOMAIN rows : a \in Nat
  BY RowTyped
<1>4. i \in Nat
  <2>1. PICK T : e.cus \in Seq(T)
    BY Typed
  <2> QED
    BY <2>1
<1> HIDE DEF A, R, rows
<1>5. {q \in R : \A s \in R : q[1] <= s[1]} = R
  <2>1. \A r \in R : r[1] = i
    BY <1>2
  <2> QED
    BY <1>4, <2>1
<1>6. first_row(R) = Min(S)
  BY <1>5 DEF first_row
<1>7. S \in SUBSET Nat
  BY <1>2, <1>3
<1>8. ASSUME NEW a \in A
      PROVE  /\ a \in DOMAIN rows /\ rows[a] >= line
             /\ \A b \in DOMAIN rows : rows[b] < line \/ rows[b] >= rows[a]
             /\ \A b \in DOMAIN rows : b < a => rows[b] # rows[a]
  <2>1. R # {} /\ a = Min(S)
    BY <1>1, <1>6, <1>8
  <2>2. S # {}
    BY <2>1
  <2>3. a \in S /\ \A y \in S : a <= y
    BY <1>7, <2>1, <2>2, MinLeast
  <2>4. PICK r \in R : a = r[2]
    BY <2>3
  <2>5. \A b \in DOMAIN rows : b < a => rows[b] # rows[a]
    <3> SUFFICES ASSUME NEW b \in DOMAIN rows, b < a, rows[b] = rows[a] PROVE FALSE
      OBVIOUS
    <3>1. <<i, b>> \in R
      BY <1>2, <2>4
    <3>2. b \in S
      BY <3>1
    <3> QED
      BY <1>3, <1>7, <2>3, <3>2
  <2> QED
    BY <1>2, <2>4, <2>5
<1>9. A = {} => \A a \in DOMAIN rows : rows[a] < line
  BY <1>1, <1>2
<1> QED
  BY <1>8, <1>9 DEF A, rows

\* The property's parts, as operators: the units an output o of break is about,
\* with im running at the address at, and what is asked of its addresses.
MeantFor(o, e, im, at) ==
  {i \in DOMAIN e.cus : IF im # None /\ ~o.given THEN i \in get_cudie_from_pc(e, at)
                                                 ELSE e.cus[i].name = o.file}

LineAmong(o, e, meant) ==
  LET lines == UNION {{e.cus[i].rows[a] : a \in DOMAIN e.cus[i].rows} : i \in meant}
  IN  /\ o.addrs = {} => \A l \in lines : l < o.line
      /\ \A a \in o.addrs : \E i \in meant :
           LET rows == e.cus[i].rows
           IN  /\ a \in DOMAIN rows /\ rows[a] >= o.line
               /\ \A l \in lines : l < o.line \/ l >= rows[a]
               /\ \A b \in DOMAIN rows : b < a => rows[b] # rows[a]

LineBreaksFor(o, e, onDisk, im, at) ==
  onDisk = e /\ im \in {None, e} /\ o.cmd = "break line" =>
    LineAmong(o, e, MeantFor(o, e, im, at))

\* A breakpoint at a line is where that line, or the next one with code, begins.
THEOREM LineRight ==
  ASSUME NamesApart, UnitsApart
  PROVE  Spec => []LineBreaks
<1> DEFINE Inv == TypeInv /\ LineBreaks
<1>0. /\ LineBreaks <=> LineBreaksFor(out, syms, file, image, pc)
      /\ LineBreaks' <=> LineBreaksFor(out', syms', file', image', pc')
  BY DEF LineBreaks, LineBreaksFor, LineAmong, MeantFor, Current, active
<1>1. Init => Inv
  BY InitType DEF Init, LineBreaks, Nothing
<1>2. ASSUME Inv, [Next]_vars PROVE Inv'
  <2>1. TypeInv'
    BY <1>2, NextType
  <2>2. LineBreaks'
    <3>1. CASE break_line
      <4>1. UNCHANGED <<syms, file, image, pc>>
        BY <3>1 DEF break_line
      <4> SUFFICES ASSUME Current PROVE LineAmong(out', syms, MeantFor(out', syms, image, pc))
        BY <1>0, <4>1 DEF LineBreaksFor, Current
      <4> DEFINE From(f) == \/ f \in {syms.cus[i].name : i \in DOMAIN syms.cus} \X {TRUE}
                            \/ f \in current_file \X {FALSE}
      <4>2. PICK line \in Asked :
              \E f : From(f) /\
                    out' = [cmd |-> "break line", file |-> f[1], given |-> f[2], line |-> line,
                            addrs |-> get_addr_from_lineno(syms, f[1], line)]
        BY <3>1 DEF break_line
      <4> HIDE DEF From
      <4>3. PICK f : From(f) /\
                    out' = [cmd |-> "break line", file |-> f[1], given |-> f[2], line |-> line,
                            addrs |-> get_addr_from_lineno(syms, f[1], line)]
        BY <4>2
      <4>4. /\ out'.file = f[1] /\ out'.given = f[2] /\ out'.line = line
            /\ out'.addrs = get_addr_from_lineno(syms, f[1], line)
        BY <4>3
      <4> DEFINE meant == {i \in DOMAIN syms.cus :
                             IF active /\ ~f[2] THEN i \in get_cudie_from_pc(syms, pc)
                                                ELSE syms.cus[i].name = f[1]}
      <4>5. PICK i \in DOMAIN syms.cus : f[1] = syms.cus[i].name /\ meant = {i}
        <5>1. syms \in Executables /\ syms.cus \in Seq({syms.cus[k] : k \in DOMAIN syms.cus})
          BY <1>2, Typed DEF TypeInv
        <5>2. ASSUME NEW i \in DOMAIN syms.cus, f[1] = syms.cus[i].name, ~(active /\ ~f[2])
              PROVE  meant = {i}
          BY <5>1, <5>2 DEF NamesApart
        <5>3. CASE f \in {syms.cus[i].name : i \in DOMAIN syms.cus} \X {TRUE}
          <6>1. f[2] = TRUE /\ \E i \in DOMAIN syms.cus : f[1] = syms.cus[i].name
            BY <5>3
          <6> QED
            BY <5>2, <6>1
        <5>4. CASE f \in current_file \X {FALSE} /\ ~active
          <6>1. f[1] \in current_file /\ 1 \in DOMAIN syms.cus
            BY <5>1, <5>4 DEF current_file
          <6>2. f[1] = syms.cus[1].name
            BY <5>4, <6>1 DEF current_file
          <6> QED
            BY <5>2, <5>4, <6>1, <6>2
        <5>5. CASE f \in current_file \X {FALSE} /\ active
          <6>1. image = syms
            BY <5>5 DEF Current, active
          <6>2. f[2] = FALSE /\ f[1] \in current_file
            BY <5>5
          <6>3. PICK i \in get_cudie_from_pc(syms, pc) : f[1] = syms.cus[i].name
            BY <5>5, <6>1, <6>2 DEF current_file
          <6>4. \A k \in get_cudie_from_pc(syms, pc) : k = i
            BY <5>1 DEF get_cudie_from_pc, UnitsApart
          <6>5. i \in DOMAIN syms.cus
            BY DEF get_cudie_from_pc
          <6> QED
            BY <5>5, <6>2, <6>3, <6>4, <6>5
        <5> QED
          BY <4>3, <5>3, <5>4, <5>5 DEF From
      <4> DEFINE rows == syms.cus[i].rows
                 A == get_addr_from_lineno(syms, f[1], line)
                 lines == UNION {{syms.cus[k].rows[a] : a \in DOMAIN syms.cus[k].rows} : k \in meant}
      <4>6. /\ A = {} => \A a \in DOMAIN rows : rows[a] < line
            /\ \A a \in A : /\ a \in DOMAIN rows /\ rows[a] >= line
                            /\ \A b \in DOMAIN rows : rows[b] < line \/ rows[b] >= rows[a]
                            /\ \A b \in DOMAIN rows : b < a => rows[b] # rows[a]
        <5>1. syms \in Executables /\ line \in Nat
          BY <1>2, SymbolsAssumption DEF TypeInv
        <5> QED
          BY <4>5, <5>1, LineFound
      <4>7. lines = {rows[a] : a \in DOMAIN rows}
        BY <4>5
      <4> HIDE DEF meant, A, rows, lines
      <4>8. /\ A = {} => \A l \in lines : l < line
            /\ \A a \in A : \E k \in meant :
                 /\ a \in DOMAIN syms.cus[k].rows /\ syms.cus[k].rows[a] >= line
                 /\ \A l \in lines : l < line \/ l >= syms.cus[k].rows[a]
                 /\ \A b \in DOMAIN syms.cus[k].rows :
                      b < a => syms.cus[k].rows[b] # syms.cus[k].rows[a]
        BY <4>5, <4>6, <4>7 DEF rows
      <4>9. MeantFor(out', syms, image, pc) = meant
        BY <4>4 DEF MeantFor, meant, active
      <4>10. LineAmong(out', syms, meant)
        BY <4>4, <4>8 DEF LineAmong, lines, A
      <4> QED
        BY <4>9, <4>10
    <3>2. CASE UNCHANGED vars
      BY <1>0, <1>2, <3>2 DEF vars
    <3>3. CASE out'.cmd # "break line"
      BY <3>3 DEF LineBreaks
    <3> QED
      BY <1>2, <3>1, <3>2, <3>3, Speaker
  <2> QED
    BY <2>1, <2>2
<1> QED
  BY <1>1, <1>2, PTL DEF Spec

-----------------------------------------------------------------------------
(***************************************************************************)
(* context.                                                                *)
(***************************************************************************)

\* No window's last line wraps around, or it wraps behind the end of the file.
WindowsFit ==
  \A c \in Contexts : LET u == unsigned(c)
                      IN  2 * u + SourceLen < 2 ^ Bits \/ 2 * u > 2 ^ Bits + SourceLen

\* A rebuild adds no source file and removes none.
SameUnits ==
  \A e, f \in Executables : e.cus = <<>> \/ f.cus = <<>> \/ Len(e.cus) = Len(f.cus)

\* What fits is not changed by a conversion to unsigned.
LEMMA UnsignedSame ==
  ASSUME NEW n \in Int, 0 <= n, n < 2 ^ Bits
  PROVE  unsigned(n) = n
<1> DEFINE m == 2 ^ Bits
<1>1. m \in Int
  BY SymbolsAssumption
<1> HIDE DEF m
<1>2. n % m = n
  BY <1>1 DEF m
<1> QED
  BY <1>2 DEF unsigned, m

\* What is up to twice too large is reduced once.
LEMMA UnsignedOnce ==
  ASSUME NEW n \in Int, 2 ^ Bits <= n, n < 2 * 2 ^ Bits
  PROVE  unsigned(n) = n - 2 ^ Bits
<1> DEFINE m == 2 ^ Bits
<1>1. m \in Int /\ m > 0 /\ m <= n /\ n < 2 * m
  BY SymbolsAssumption
<1> HIDE DEF m
<1>2. n % m = n - m
  BY <1>1
<1> QED
  BY <1>2 DEF unsigned, m

\* Unsigned numbers.
LEMMA UnsignedRange ==
  ASSUME NEW n \in Int
  PROVE  unsigned(n) \in Nat /\ unsigned(n) < 2 ^ Bits
<1> DEFINE m == 2 ^ Bits
<1>1. m \in Int /\ m > 0
  BY SymbolsAssumption
<1> HIDE DEF m
<1>2. n % m \in 0 .. m - 1
  BY <1>1
<1> QED
  BY <1>1, <1>2 DEF unsigned, m

\* How large a window cut off at the end of the file is.
LEMMA Cut ==
  ASSUME NEW s \in Nat, NEW t \in Nat, NEW S \in Nat, 1 <= s, s <= S, s <= t
  PROVE  /\ Cardinality((s .. t) \cap (1 .. S)) <= t - s + 1
         /\ Cardinality((s .. t) \cap (1 .. S)) < t - s + 1 => S \in (s .. t) \cap (1 .. S)
<1> DEFINE I == (s .. t) \cap (1 .. S)
<1>1. CASE t <= S
  <2>1. I = s .. t
    BY <1>1
  <2>2. Cardinality(s .. t) = t - s + 1
    BY FS_Interval
  <2>3. Cardinality(I) = t - s + 1
    BY <2>1, <2>2
  <2> HIDE DEF I
  <2>4. Cardinality(I) <= t - s + 1 /\ ~(Cardinality(I) < t - s + 1)
    BY <2>3
  <2> QED
    BY <2>4 DEF I
<1>2. CASE t > S
  <2>1. I = s .. S /\ S \in I
    BY <1>2
  <2>2. Cardinality(s .. S) = S - s + 1
    BY FS_Interval
  <2>3. Cardinality(I) = S - s + 1
    BY <2>1, <2>2
  <2> HIDE DEF I
  <2>4. Cardinality(I) <= t - s + 1
    BY <1>2, <2>3
  <2> QED
    BY <2>1, <2>4 DEF I
<1> QED
  BY <1>1, <1>2

\* The window print_source shows around a line.
window(line, u) == (start_line(line, u) .. end_line(line, u) - 1) \cap 1 .. SourceLen

\* It has the lines nearer than was asked for, and as many in all at the top.
LEMMA Windowed ==
  ASSUME NEW line \in 1 .. SourceLen, NEW u \in Nat, u # 0, u < 2 ^ Bits,
         2 * u + SourceLen < 2 ^ Bits \/ 2 * u > 2 ^ Bits + SourceLen
  PROVE  /\ \A l \in 1 .. SourceLen : line - u < l /\ l < line + u => l \in window(line, u)
         /\ Cardinality(window(line, u)) <= 2 * u - 1
         /\ Cardinality(window(line, u)) < 2 * u - 1 => SourceLen \in window(line, u)
<1> DEFINE m == 2 ^ Bits
           s == start_line(line, u)
           t == end_line(line, u) - 1
<1>1. /\ m \in Int /\ SourceLen \in Nat /\ SourceLen < m /\ line \in Nat /\ 1 <= line
      /\ line <= SourceLen
  BY SymbolsAssumption
<1>2. s = IF line <= u THEN 1 ELSE line - u + 1
  <2>1. line > u => 0 <= line - u + 1 /\ line - u + 1 < m
    BY <1>1
  <2>2. line > u => unsigned(line - u + 1) = line - u + 1
    BY <1>1, <2>1, UnsignedSame
  <2> QED
    BY <1>1, <2>2 DEF start_line
<1> DEFINE w == line + u + IF line < u THEN u - line ELSE 0
<1>3. w \in Nat /\ w = IF line < u THEN 2 * u ELSE line + u
  BY <1>1
<1>4. t = unsigned(w) - 1
  BY DEF end_line
<1> HIDE DEF s, t, w
<1>5. CASE 2 * u + SourceLen < m
  <2>1. w < m
    BY <1>1, <1>3, <1>5
  <2>2. t = IF line < u THEN 2 * u - 1 ELSE line + u - 1
    BY <1>3, <1>4, <2>1, UnsignedSame
  <2> HIDE DEF m
  <2>3. s \in Nat /\ t \in Nat /\ 1 <= s /\ s <= SourceLen /\ s <= t /\ t - s + 1 = 2 * u - 1
    BY <1>1, <1>2, <2>2
  <2>4. /\ Cardinality((s .. t) \cap (1 .. SourceLen)) <= t - s + 1
        /\ Cardinality((s .. t) \cap (1 .. SourceLen)) < t - s + 1 =>
             SourceLen \in (s .. t) \cap (1 .. SourceLen)
    BY <1>1, <2>3, Cut
  <2>5. \A l \in 1 .. SourceLen : line - u < l /\ l < line + u => s <= l /\ l <= t
    BY <1>1, <1>2, <2>2
  <2> QED
    BY <1>1, <2>3, <2>4, <2>5 DEF window, s, t
<1>6. CASE 2 * u > m + SourceLen
  <2>1. line < u /\ w = 2 * u /\ m <= 2 * u /\ 2 * u < 2 * m
    BY <1>1, <1>3, <1>6
  <2>2. unsigned(w) = 2 * u - m
    BY <1>1, <2>1, UnsignedOnce
  <2> HIDE DEF m
  <2>3. t = 2 * u - m - 1 /\ s = 1
    BY <1>1, <1>2, <1>4, <2>1, <2>2
  <2>4. t \in Nat /\ SourceLen <= t
    BY <1>1, <1>6, <2>3
  <2>5. (s .. t) \cap (1 .. SourceLen) = 1 .. SourceLen
    BY <1>1, <2>3, <2>4
  <2>6. Cardinality(1 .. SourceLen) = SourceLen
    BY <1>1, FS_Interval
  <2>7. SourceLen <= 2 * u - 1
    BY <1>1, <1>6
  <2> DEFINE I == window(line, u)
  <2>8. I = 1 .. SourceLen
    BY <2>5 DEF window, s, t
  <2>9. Cardinality(I) = SourceLen
    BY <2>6, <2>8
  <2>10. SourceLen \in I /\ \A l \in 1 .. SourceLen : l \in I
    BY <1>1, <2>8
  <2> HIDE DEF I
  <2>11. Cardinality(I) <= 2 * u - 1
    BY <2>7, <2>9
  <2> QED
    BY <2>10, <2>11 DEF I
<1> QED
  BY <1>5, <1>6 DEF m

\* The lines of the file on disk, and of the tracee, are those vdbg has loaded,
\* or their source is newer.
SameOrNewer(x, e, news) ==
  e.cus # <<>> => \A i \in DOMAIN x.cus : x.cus[i] \in {e.cus[j] : j \in DOMAIN e.cus}
                                         \/ x.cus[i].name \in news

NewerInv == SameOrNewer(file, syms, newer) /\ (active => SameOrNewer(image, syms, newer))

\* They stay so.
LEMMA NextNewer ==
  ASSUME SameUnits, TypeInv, NewerInv, [Next]_vars
  PROVE  NewerInv'
<1>1. CASE rebuild
  <2>1. PICK e \in Executables :
          /\ \A i \in DOMAIN e.cus \cap DOMAIN syms.cus :
               e.cus[i] = syms.cus[i] \/ e.cus[i].name \in newer
          /\ file' = e
          /\ UNCHANGED <<syms, image, newer>>
    BY <1>1 DEF rebuild
  <2>2. syms.cus # <<>> => DOMAIN e.cus \subseteq DOMAIN syms.cus
    <3>1. syms \in Executables
      BY DEF TypeInv
    <3>2. PICK S : e.cus \in Seq(S)
      BY Typed
    <3>3. PICK T : syms.cus \in Seq(T)
      BY <3>1, Typed
    <3>4. e.cus = <<>> => DOMAIN e.cus = {}
      OBVIOUS
    <3> QED
      BY <3>1, <3>2, <3>3, <3>4 DEF SameUnits
  <2>3. SameOrNewer(e, syms, newer)
    BY <2>1, <2>2 DEF SameOrNewer
  <2> QED
    BY <2>1, <2>3 DEF NewerInv, active
<1>2. CASE run
  BY <1>2 DEF run, NewerInv, active
<1>3. CASE tracee_dies
  BY <1>3 DEF tracee_dies, cleanup_at_tracee_death, NewerInv, active
<1>4. CASE edit_source
  <2>1. newer \subseteq newer' /\ UNCHANGED <<syms, file, image>>
    BY <1>4 DEF edit_source
  <2>2. \A x : SameOrNewer(x, syms, newer) => SameOrNewer(x, syms, newer')
    BY <2>1 DEF SameOrNewer
  <2> QED
    BY <2>1, <2>2 DEF NewerInv, active
<1>5. CASE \/ prompt \/ cmd_functions \/ break_line \/ break_func \/ break_addr
           \/ disassemble_function \/ disassemble_current \/ cmd_context \/ tracee_stops
           \/ UNCHANGED vars
  <2>1. UNCHANGED <<syms, file, image, newer>>
    BY <1>5 DEF prompt, cmd_functions, break_line, break_func, break_addr, disassemble_function,
                disassemble_current, cmd_context, tracee_stops, vars
  <2> QED
    BY <2>1 DEF NewerInv, active
<1> QED
  BY <1>1, <1>2, <1>3, <1>4, <1>5 DEF Next

\* The property's parts, as operators: the window of an output o, and its
\* warning, with e loaded and im running at the address at.
WindowTrue(o) ==
  /\ \A l \in 1 .. SourceLen :
       o.line - o.context < l /\ l < o.line + o.context => l \in o.lines
  /\ Cardinality(o.lines) <= 2 * o.context - 1
  /\ Cardinality(o.lines) < 2 * o.context - 1 => SourceLen \in o.lines

WarningTrue(o, e, im, at) ==
  \A i \in get_cudie_from_pc(im, at) :
    im.cus[i] \in {e.cus[j] : j \in DOMAIN e.cus} \/ o.warned

\* context shows the lines around the pc, and warns about stale ones.
THEOREM ContextRight ==
  ASSUME UnitsApart, SameUnits, WindowsFit
  PROVE  Spec => []ContextTrue
<1> DEFINE Inv == TypeInv /\ NewerInv /\ ContextTrue
<1>0. /\ ContextTrue <=> (out.cmd = "context" => WindowTrue(out) /\ WarningTrue(out, syms, image, pc))
      /\ ContextTrue' <=>
           (out'.cmd = "context" => WindowTrue(out') /\ WarningTrue(out', syms', image', pc'))
  BY DEF ContextTrue, WindowTrue, WarningTrue
<1>1. Init => Inv
  <2>1. Init => NewerInv
    BY DEF Init, NewerInv, SameOrNewer, active
  <2>2. Init => ContextTrue
    BY DEF Init, ContextTrue, Nothing
  <2> QED
    BY <2>1, <2>2, InitType
<1>2. ASSUME Inv, [Next]_vars PROVE Inv'
  <2>1. TypeInv' /\ NewerInv'
    BY <1>2, NextType, NextNewer
  <2>2. ContextTrue'
    <3>1. CASE cmd_context /\ out'.cmd = "context"
      <4>1. /\ UNCHANGED <<syms, file, image, pc>>
            /\ active /\ syms.cus # <<>>
        BY <3>1 DEF cmd_context
      <4>2. PICK c \in Contexts, at \in get_line_from_pc(image, pc) :
              out' = IF unsigned(c) = 0 THEN [cmd |-> "aborted"]
                     ELSE [cmd |-> "context", line |-> at.line, context |-> unsigned(c),
                           warned |-> is_old(at.file), lines |-> window(at.line, unsigned(c))]
        BY <3>1 DEF cmd_context, window
      <4>3. /\ unsigned(c) # 0 /\ out'.line = at.line /\ out'.context = unsigned(c)
            /\ out'.warned = is_old(at.file) /\ out'.lines = window(at.line, unsigned(c))
        <5>1. unsigned(c) # 0
          <6> SUFFICES ASSUME unsigned(c) = 0 PROVE FALSE
            OBVIOUS
          <6>1. out' = [cmd |-> "aborted"]
            BY <4>2
          <6> QED
            BY <3>1, <6>1
        <5>2. out' = [cmd |-> "context", line |-> at.line, context |-> unsigned(c),
                      warned |-> is_old(at.file), lines |-> window(at.line, unsigned(c))]
          BY <4>2, <5>1
        <5> QED
          BY <5>1, <5>2
      <4>4. image \in Executables
        BY <1>2, <4>1 DEF TypeInv
      <4>5. PICK k \in get_cudie_from_pc(image, pc) :
              at = [file |-> image.cus[k].name, line |-> image.cus[k].rows[pc]]
        BY DEF get_line_from_pc
      <4>6. k \in DOMAIN image.cus /\ pc \in DOMAIN image.cus[k].rows
        BY DEF get_cudie_from_pc
      <4>7. at.line \in 1 .. SourceLen /\ at.file = image.cus[k].name
        <5>1. image.cus[k].rows[pc] \in 1 .. SourceLen
          BY <4>4, <4>6, RowTyped
        <5> QED
          BY <4>5, <5>1
      <4>8. WindowTrue(out')
        <5> DEFINE u == unsigned(c)
        <5>1. u \in Nat /\ u < 2 ^ Bits /\ u # 0
          BY <4>3, UnsignedRange, SymbolsAssumption
        <5>2. 2 * u + SourceLen < 2 ^ Bits \/ 2 * u > 2 ^ Bits + SourceLen
          BY DEF WindowsFit
        <5> HIDE DEF u
        <5>3. /\ \A l \in 1 .. SourceLen :
                   at.line - u < l /\ l < at.line + u => l \in window(at.line, u)
              /\ Cardinality(window(at.line, u)) <= 2 * u - 1
              /\ Cardinality(window(at.line, u)) < 2 * u - 1 => SourceLen \in window(at.line, u)
          BY <4>7, <5>1, <5>2, Windowed
        <5>4. out'.line = at.line /\ out'.context = u /\ out'.lines = window(at.line, u)
          BY <4>3 DEF u
        <5> QED
          BY <5>3, <5>4 DEF WindowTrue
      <4>9. WarningTrue(out', syms, image, pc)
        <5> SUFFICES ASSUME NEW i \in get_cudie_from_pc(image, pc)
                     PROVE  image.cus[i] \in {syms.cus[j] : j \in DOMAIN syms.cus} \/ out'.warned
          BY DEF WarningTrue
        <5>1. i = k
          BY <4>4, <4>6 DEF get_cudie_from_pc, UnitsApart
        <5>2. image.cus[k] \in {syms.cus[j] : j \in DOMAIN syms.cus} \/ image.cus[k].name \in newer
          BY <1>2, <4>1, <4>6 DEF NewerInv, SameOrNewer
        <5>3. out'.warned = (image.cus[k].name \in newer)
          BY <4>3, <4>7 DEF is_old
        <5> QED
          BY <5>1, <5>2, <5>3
      <4> QED
        BY <1>0, <4>1, <4>8, <4>9
    <3>2. CASE UNCHANGED vars
      BY <1>0, <1>2, <3>2 DEF vars
    <3>3. CASE out'.cmd # "context"
      BY <3>3 DEF ContextTrue
    <3> QED
      BY <1>2, <3>1, <3>2, <3>3, Speaker
  <2> QED
    BY <2>1, <2>2
<1> QED
  BY <1>1, <1>2, PTL DEF Spec

-----------------------------------------------------------------------------
(***************************************************************************)
(* disassemble.                                                            *)
(***************************************************************************)

\* The debug information and .symtab describe the same functions, and there is
\* no subprogram without code.
Described ==
  \A e \in Executables : \A u \in DOMAIN e.cus :
    LET d == e.cus[u].dies
    IN  /\ \A a \in DOMAIN e.cus[u].rows : \E j \in DOMAIN d : contains(d[j], a)
        /\ \A j \in DOMAIN d :
             /\ d[j].low <= d[j].high
             /\ \E k \in DOMAIN e.symtab :
                  LET s == e.symtab[k]
                  IN  is_func(s) /\ s.name = d[j].name /\ s.value = d[j].low
                      /\ s.value + s.size = d[j].high

\* No two functions have one address, ...
Unaliased ==
  \A e \in Executables : \A p, q \in DOMAIN funcs_list(e) :
    funcs_list(e)[p].addr = funcs_list(e)[q].addr => p = q

\* ... the stubs are in .plt, in order, ...
StubsInPlt == \A e \in Executables : \A i \in DOMAIN e.stubs : e.stubs[i] = plt_addr(e, i)

\* ... and the code is in the file where its address says.
AtItsOffset == \A e \in Executables : e.shift = 0

\* A function of .symtab is in the list, behind the stubs.
LEMMA DefinedListed ==
  ASSUME NEW e \in Executables, NEW k \in DOMAIN e.symtab, is_func(e.symtab[k])
  PROVE  /\ Len(e.plt) + k \in DOMAIN funcs_list(e)
         /\ funcs_list(e)[Len(e.plt) + k] =
              [name |-> e.symtab[k].name, addr |-> e.symtab[k].value, size |-> e.symtab[k].size]
<1> DEFINE n == Len(e.plt)
<1>1. SymbolsTyped(e)
  BY Typed
<1>2. e.plt \in Seq(STRING) /\ n \in Nat /\ e.symtab \in Seq(SymbolRecord)
  BY <1>1 DEF SymbolsTyped
<1>3. k \in Nat /\ k >= 1 /\ e.symtab # <<>>
  BY <1>2
<1> HIDE DEF n
<1>4. ~(n + k <= n) /\ n + k - n = k
  BY <1>2, <1>3
<1> QED
  BY <1>3, <1>4 DEF funcs_list, n

\* So is each stub, if there is a .symtab.
LEMMA StubListed ==
  ASSUME NEW e \in Executables, NEW i \in DOMAIN e.plt, e.symtab # <<>>
  PROVE  i \in DOMAIN funcs_list(e) /\ funcs_list(e)[i].addr = plt_addr(e, i)
<1> DEFINE n == Len(e.plt)
<1>1. SymbolsTyped(e)
  BY Typed
<1>2. n \in Nat /\ i \in 1 .. n
  BY <1>1 DEF SymbolsTyped
<1> HIDE DEF n
<1>3. i <= n
  BY <1>2
<1>4. funcs_list(e)[i] = get_plt_entries(e)[i] /\ i \in DOMAIN funcs_list(e)
  BY <1>2, <1>3 DEF funcs_list, n
<1> QED
  BY <1>4 DEF get_plt_entries

\* Every function of the program is in the list.
LEMMA EntryListed ==
  ASSUME StubsInPlt, NEW e \in Executables, NEW t \in Entries(e), e.symtab # <<>>
  PROVE  \E p \in DOMAIN funcs_list(e) : funcs_list(e)[p].addr = t
<1>1. CASE \E k \in DOMAIN e.symtab : is_func(e.symtab[k]) /\ t = e.symtab[k].value
  <2>1. PICK k \in DOMAIN e.symtab : is_func(e.symtab[k]) /\ t = e.symtab[k].value
    BY <1>1
  <2> DEFINE p == Len(e.plt) + k
  <2>2. /\ p \in DOMAIN funcs_list(e)
        /\ funcs_list(e)[p] =
             [name |-> e.symtab[k].name, addr |-> e.symtab[k].value, size |-> e.symtab[k].size]
    BY <2>1, DefinedListed
  <2>3. funcs_list(e)[p].addr = t
    BY <2>1, <2>2
  <2> QED
    BY <2>2, <2>3
<1>2. CASE \E i \in DOMAIN e.stubs : t = e.stubs[i]
  <2>1. PICK i \in DOMAIN e.stubs : t = e.stubs[i]
    BY <1>2
  <2>2. SymbolsTyped(e)
    BY Typed
  <2>3. i \in DOMAIN e.plt
    BY <2>2 DEF SymbolsTyped
  <2>4. t = plt_addr(e, i)
    BY <2>1 DEF StubsInPlt
  <2> QED
    BY <2>3, <2>4, StubListed
<1>3. \/ \E k \in DOMAIN e.symtab : is_func(e.symtab[k]) /\ t = e.symtab[k].value
      \/ \E i \in DOMAIN e.stubs : t = e.stubs[i]
  BY DEF Entries, is_func
<1> QED
  BY <1>1, <1>2, <1>3

\* Its names are strings.
LEMMA FunctionNamed ==
  ASSUME NEW e \in Executables, NEW p \in DOMAIN funcs_list(e)
  PROVE  funcs_list(e)[p].name # None
<1>1. SymbolsTyped(e) /\ None \notin STRING
  BY Typed, SymbolsAssumption
<1>2. CASE /\ p \in DOMAIN e.plt
           /\ funcs_list(e)[p] = [name |-> e.plt[p] \o "@plt", addr |-> plt_addr(e, p), size |-> 1]
  <2>1. e.plt[p] \o "@plt" \in STRING
    BY <1>1, <1>2 DEF SymbolsTyped
  <2>2. funcs_list(e)[p].name = e.plt[p] \o "@plt"
    BY <1>2
  <2> QED
    BY <1>1, <2>1, <2>2
<1>3. ASSUME NEW i \in DOMAIN e.symtab,
             funcs_list(e)[p] = [name |-> e.symtab[i].name, addr |-> e.symtab[i].value,
                                 size |-> e.symtab[i].size]
      PROVE  funcs_list(e)[p].name # None
  <2>1. e.symtab[i] \in SymbolRecord
    BY <1>1, <1>3 DEF SymbolsTyped
  <2>2. e.symtab[i].name \in STRING
    BY <2>1 DEF SymbolRecord
  <2> QED
    BY <1>1, <1>3, <2>2
<1> QED
  BY <1>2, <1>3, FunctionListed

\* The function that is found for an address has it.
LEMMA FunctionAround ==
  ASSUME Described, NEW e \in Executables, NEW a \in Nat, get_cudie_from_pc(e, a) # {},
         NEW name \in get_func_die_from_pc(e, a)
  PROVE  \E p \in DOMAIN funcs_list(e) :
           LET f == funcs_list(e)[p] IN f.name = name /\ f.addr <= a /\ a < f.addr + f.size
<1> DEFINE cu == get_cudie_from_pc(e, a)
           u == Min(cu)
           d == e.cus[u].dies
           sure == {j \in DOMAIN d : contains(d[j], a)}
           maybe == {j \in DOMAIN d : d[j].low > d[j].high}
<1>1. u \in DOMAIN e.cus /\ a \in DOMAIN e.cus[u].rows
  <2>1. PICK S : e.cus \in Seq(S)
    BY Typed
  <2>2. cu \in SUBSET Nat
    BY <2>1 DEF get_cudie_from_pc
  <2>3. u \in cu
    BY <2>2, MinLeast
  <2> QED
    BY <2>3 DEF get_cudie_from_pc
<1>2. name \in {d[j].name : j \in {k \in sure \cup maybe : \A l \in sure : k <= l}}
               \cup IF sure = {} THEN {None} ELSE {}
  BY DEF get_func_die_from_pc
<1> HIDE DEF cu, u
<1>3. sure # {}
  BY <1>1 DEF Described
<1>4. \A j \in DOMAIN d : d[j].low <= d[j].high /\ d[j].low \in Nat /\ d[j].high \in Nat
  <2>1. UnitTyped(e.cus[u], DOMAIN e.code)
    BY <1>1, Typed
  <2>2. d \in Seq(DieRecord)
    BY <2>1 DEF UnitTyped
  <2>3. \A j \in DOMAIN d : d[j] \in DieRecord
    BY <2>2
  <2>4. \A j \in DOMAIN d : d[j].low \in Nat /\ d[j].high \in Nat
    BY <2>3 DEF DieRecord
  <2> QED
    BY <1>1, <2>4 DEF Described
<1>5. maybe = {}
  BY <1>4
<1>6. PICK j \in sure : name = d[j].name
  BY <1>2, <1>3, <1>5
<1>7. j \in DOMAIN d /\ d[j].low <= a /\ a < d[j].high
  BY <1>6 DEF contains
<1>8. PICK k \in DOMAIN e.symtab :
        /\ is_func(e.symtab[k]) /\ e.symtab[k].name = d[j].name
        /\ e.symtab[k].value = d[j].low /\ e.symtab[k].value + e.symtab[k].size = d[j].high
  BY <1>1, <1>7 DEF Described
<1> DEFINE p == Len(e.plt) + k
<1>9. /\ p \in DOMAIN funcs_list(e)
      /\ funcs_list(e)[p] =
           [name |-> e.symtab[k].name, addr |-> e.symtab[k].value, size |-> e.symtab[k].size]
  BY <1>8, DefinedListed
<1>10. /\ funcs_list(e)[p].name = name /\ funcs_list(e)[p].addr <= a
       /\ a < funcs_list(e)[p].addr + funcs_list(e)[p].size
  BY <1>6, <1>7, <1>8, <1>9
<1> QED
  BY <1>9, <1>10

\* The property's part, as an operator: the arrows of an output o.
ArrowTrue(o, e, at) ==
  \A a \in DOMAIN e.code :
    a = at <=> \E l \in o.lists : \E i \in DOMAIN l : l[i].addr = a /\ l[i].arrow

\* The arrow is at the pc.
THEOREM ArrowRight ==
  ASSUME Described
  PROVE  Spec => []ArrowShown
<1> DEFINE Inv == TypeInv /\ ArrowShown
<1>0. /\ ArrowShown <=>
           (Current /\ out.cmd = "disassemble pc" /\ get_cudie_from_pc(syms, pc) # {} =>
              ArrowTrue(out, syms, pc))
      /\ ArrowShown' <=>
           (Current' /\ out'.cmd = "disassemble pc" /\ get_cudie_from_pc(syms', pc') # {} =>
              ArrowTrue(out', syms', pc'))
  BY DEF ArrowShown, ArrowTrue
<1>1. Init => Inv
  BY InitType DEF Init, ArrowShown, Nothing
<1>2. ASSUME Inv, [Next]_vars PROVE Inv'
  <2>1. TypeInv'
    BY <1>2, NextType
  <2>2. ArrowShown'
    <3>1. CASE disassemble_current
      <4>1. UNCHANGED <<syms, file, image, pc>> /\ active
        BY <3>1 DEF disassemble_current
      <4> SUFFICES ASSUME Current, get_cudie_from_pc(syms, pc) # {}
                   PROVE  ArrowTrue(out', syms, pc)
        BY <1>0, <4>1 DEF Current
      <4>2. image = syms /\ syms \in Executables /\ pc \in Nat
        BY <1>2, <4>1 DEF Current, TypeInv, active
      <4>3. PICK name \in get_func_die_from_pc(image, pc) :
              out' = [cmd |-> "disassemble pc",
                      lists |-> IF name = None THEN {} ELSE listings(name, pc + load_address)]
        BY <3>1 DEF disassemble_current
      <4> DEFINE fs == funcs_list(syms)
                 at == pc + load_address
                 load == load_address
      <4>4. load \in Nat
        BY <1>2, SymbolsAssumption DEF TypeInv
      <4>5. PICK p \in DOMAIN fs :
              fs[p].name = name /\ fs[p].addr <= pc /\ pc < fs[p].addr + fs[p].size
        BY <4>2, <4>3, FunctionAround
      <4>6. fs[p].addr \in Nat /\ fs[p].size \in Nat /\ name # None
        BY <4>2, <4>5, FunctionTyped, FunctionNamed
      <4>7. out'.lists = {disassemble(fs[q], at) : q \in {j \in DOMAIN fs : fs[j].name = name}}
        BY <4>3, <4>6 DEF listings
      <4>8. \A f, i : i \in DOMAIN disassemble(f, at) =>
                        /\ disassemble(f, at)[i].addr = f.addr + i - 1
                        /\ disassemble(f, at)[i].arrow = (f.addr + i - 1 + load = pc + load)
        BY DEF disassemble, curr_addr
      <4>9. \A f : DOMAIN disassemble(f, at) = 1 .. f.size
        BY DEF disassemble
      <4> HIDE DEF fs, at, load
      <4>10. \E l \in out'.lists : \E i \in DOMAIN l : l[i].addr = pc /\ l[i].arrow
        <5> DEFINE l == disassemble(fs[p], at)
                   i == pc - fs[p].addr + 1
        <5>1. l \in out'.lists
          BY <4>5, <4>7
        <5>2. i \in 1 .. fs[p].size /\ fs[p].addr + i - 1 = pc
          BY <4>2, <4>5, <4>6
        <5>3. i \in DOMAIN l
          BY <4>9, <5>2
        <5> HIDE DEF i
        <5>4. l[i].addr = pc /\ l[i].arrow
          BY <4>8, <5>2, <5>3
        <5> QED
          BY <5>1, <5>3, <5>4
      <4>11. ASSUME NEW l \in out'.lists, NEW i \in DOMAIN l, l[i].arrow
             PROVE  l[i].addr = pc
        <5>1. PICK q \in DOMAIN fs : l = disassemble(fs[q], at)
          BY <4>7
        <5>2. fs[q].addr \in Nat /\ i \in Nat
          BY <4>2, <4>9, <5>1, FunctionTyped DEF fs
        <5>3. l[i].addr = fs[q].addr + i - 1 /\ fs[q].addr + i - 1 + load = pc + load
          BY <4>8, <4>11, <5>1
        <5> QED
          BY <4>2, <4>4, <5>2, <5>3
      <4> QED
        BY <4>10, <4>11 DEF ArrowTrue
    <3>2. CASE UNCHANGED vars
      BY <1>0, <1>2, <3>2 DEF vars, Current
    <3>3. CASE out'.cmd # "disassemble pc"
      BY <3>3 DEF ArrowShown
    <3> QED
      BY <1>2, <3>1, <3>2, <3>3, Speaker
  <2> QED
    BY <2>1, <2>2
<1> QED
  BY <1>1, <1>2, PTL DEF Spec

\* The only element of a set is its least and its greatest.
LEMMA OneElement ==
  ASSUME NEW S, NEW j \in Int, S = {j}
  PROVE  Min(S) = j /\ Max(S) = j
BY DEF Min, Max

\* The property's part, as an operator: what a listing l of e says of its
\* calls, with onDisk in the file.
CallTrue(l, e, onDisk) ==
  \A i \in DOMAIN l :
    LET t == l[i].addr + l[i].code
    IN  /\ l[i].addr \in DOMAIN onDisk.code => l[i].code = onDisk.code[l[i].addr]
        /\ l[i].code \notin {0, Garbage} /\ t \in Entries(e) => l[i].name # None
        /\ l[i].name # None => t \in addrs_of(e, l[i].name)
        /\ \A k \in DOMAIN l : l[k].target = l[i].target => l[k].name = l[i].name

\* A call has the name of the function at its target, and of no other.
LEMMA NameAt ==
  ASSUME Unaliased, NEW e \in Executables, NEW targets, NEW i
  PROVE  LET fs == funcs_list(e)
             named == call_name(fs, targets, i)
         IN  /\ \A p \in DOMAIN fs : targets[i] # None /\ fs[p].addr = targets[i] =>
                                       named = fs[p].name
             /\ (\A p \in DOMAIN fs : targets[i] = None \/ fs[p].addr # targets[i]) => named = None
<1> DEFINE fs == funcs_list(e)
           names == {j \in DOMAIN fs : targets[i] # None /\ fs[j].addr = targets[i]}
           again == \E k \in 1 .. i - 1 : targets[k] = targets[i]
           named == call_name(fs, targets, i)
<1>1. named = IF names = {} THEN None ELSE fs[IF again THEN Min(names) ELSE Max(names)].name
  BY DEF call_name
<1>2. \A p \in DOMAIN fs : p \in Int
  <2>1. SymbolsTyped(e)
    BY Typed
  <2>2. Len(e.plt) \in Nat /\ DOMAIN e.symtab \subseteq Nat
    BY <2>1 DEF SymbolsTyped
  <2>3. DOMAIN <<>> = {}
    OBVIOUS
  <2> QED
    BY <2>2, <2>3 DEF funcs_list
<1> HIDE DEF again
<1>3. ASSUME NEW p \in DOMAIN fs, targets[i] # None, fs[p].addr = targets[i]
      PROVE  named = fs[p].name
  <2>1. names = {p}
    BY <1>3 DEF Unaliased
  <2> HIDE DEF names, named, fs
  <2>2. Min(names) = p /\ Max(names) = p
    BY <1>2, <1>3, <2>1, OneElement
  <2> QED
    BY <1>1, <2>1, <2>2
<1>4. ASSUME \A p \in DOMAIN fs : targets[i] = None \/ fs[p].addr # targets[i]
      PROVE  named = None
  <2>1. names = {}
    BY <1>4
  <2> QED
    BY <1>1, <2>1
<1> QED
  BY <1>3, <1>4

\* What a listing of one function says is true.
LEMMA ListingTrue ==
  ASSUME Unaliased, StubsInPlt, AtItsOffset, TypeInv, file = syms,
         NEW p \in DOMAIN funcs_list(syms), NEW at
  PROVE  CallTrue(disassemble(funcs_list(syms)[p], at), syms, file)
<1> DEFINE fs == funcs_list(syms)
           f == fs[p]
           l == disassemble(f, at)
           A(i) == f.addr + i - 1
           C == [i \in 1 .. f.size |-> read_code(A(i))]
           T == [i \in 1 .. f.size |-> IF C[i] \in {0, Garbage} THEN None ELSE A(i) + C[i]]
<1>1. syms \in Executables /\ syms.symtab # <<>>
  BY DEF TypeInv, funcs_list
<1>2. f.addr \in Nat /\ f.size \in Nat
  BY <1>1, FunctionTyped
<1>3. /\ l = [i \in 1 .. f.size |->
                [addr |-> A(i), arrow |-> curr_addr(A(i)) = at, code |-> C[i],
                 target |-> T[i], name |-> call_name(fs, T, i)]]
  BY DEF disassemble
<1> HIDE DEF l, fs
<1>4. DOMAIN l = 1 .. f.size
  BY <1>3
<1>5. \A i \in 1 .. f.size : /\ l[i].addr = A(i) /\ l[i].code = C[i] /\ l[i].target = T[i]
                             /\ l[i].name = call_name(fs, T, i)
  BY <1>3
<1>6. \A i \in 1 .. f.size :
        /\ A(i) \in Int /\ C[i] \in Int
        /\ A(i) \in DOMAIN file.code => C[i] = file.code[A(i)]
  <2>1. file.code \in [DOMAIN file.code -> Int] /\ file.shift = 0
    <3>1. CodeTyped(file)
      BY <1>1, Typed
    <3> QED
      BY <1>1, <3>1 DEF CodeTyped, AtItsOffset
  <2> SUFFICES ASSUME NEW i \in 1 .. f.size
               PROVE  /\ A(i) \in Int /\ C[i] \in Int
                      /\ A(i) \in DOMAIN file.code => C[i] = file.code[A(i)]
    OBVIOUS
  <2>2. A(i) \in Int /\ C[i] = read_code(A(i))
    BY <1>2
  <2> HIDE DEF A, C
  <2>3. A(i) + file.shift = A(i)
    BY <2>1, <2>2
  <2> QED
    BY <2>1, <2>2, <2>3 DEF read_code, Garbage
<1>7. \A i \in 1 .. f.size : T[i] = IF C[i] \in {0, Garbage} THEN None ELSE A(i) + C[i]
  OBVIOUS
<1> HIDE DEF A, C, T, f
<1>8. \A i \in 1 .. f.size :
        /\ \A q \in DOMAIN fs : T[i] # None /\ fs[q].addr = T[i] => l[i].name = fs[q].name
        /\ (\A q \in DOMAIN fs : T[i] = None \/ fs[q].addr # T[i]) => l[i].name = None
  BY <1>1, <1>5, NameAt DEF fs
<1>9. ASSUME NEW i \in DOMAIN l
      PROVE  LET t == l[i].addr + l[i].code
             IN  /\ l[i].addr \in DOMAIN file.code => l[i].code = file.code[l[i].addr]
                 /\ l[i].code \notin {0, Garbage} /\ t \in Entries(syms) => l[i].name # None
                 /\ l[i].name # None => t \in addrs_of(syms, l[i].name)
                 /\ \A k \in DOMAIN l : l[k].target = l[i].target => l[k].name = l[i].name
  <2> DEFINE t == A(i) + C[i]
  <2>1. i \in 1 .. f.size
    BY <1>4, <1>9
  <2>2. l[i].addr = A(i) /\ l[i].code = C[i] /\ l[i].target = T[i] /\ t \in Int
    BY <1>5, <1>6, <2>1
  <2>3. C[i] \notin {0, Garbage} => T[i] = t /\ t # None
    BY <1>7, <2>1, <2>2, SymbolsAssumption
  <2> HIDE DEF t
  <2>4. ASSUME C[i] \notin {0, Garbage}, t \in Entries(syms) PROVE l[i].name # None
    <3>1. PICK q \in DOMAIN fs : fs[q].addr = t
      BY <1>1, <2>4, EntryListed DEF fs
    <3>2. l[i].name = fs[q].name
      BY <1>8, <2>1, <2>3, <2>4, <3>1
    <3> QED
      BY <1>1, <3>2, FunctionNamed DEF fs
  <2>5. ASSUME l[i].name # None PROVE t \in addrs_of(syms, l[i].name)
    <3>1. PICK q \in DOMAIN fs : T[i] # None /\ fs[q].addr = T[i]
      BY <1>8, <2>1, <2>5
    <3>2. l[i].name = fs[q].name /\ T[i] = t
      BY <1>7, <1>8, <2>1, <2>3, <3>1
    <3> QED
      BY <3>1, <3>2 DEF addrs_of, fs
  <2>6. ASSUME NEW k \in DOMAIN l, l[k].target = l[i].target PROVE l[k].name = l[i].name
    <3>1. k \in 1 .. f.size /\ T[k] = T[i]
      BY <1>4, <1>5, <2>1, <2>6
    <3>2. CASE \E q \in DOMAIN fs : T[i] # None /\ fs[q].addr = T[i]
      BY <1>8, <2>1, <3>1, <3>2
    <3>3. CASE \A q \in DOMAIN fs : T[i] = None \/ fs[q].addr # T[i]
      BY <1>8, <2>1, <3>1, <3>3
    <3> QED
      BY <3>2, <3>3
  <2>7. l[i].addr \in DOMAIN file.code => l[i].code = file.code[l[i].addr]
    BY <1>6, <2>1, <2>2
  <2> QED
    BY <2>2, <2>4, <2>5, <2>6, <2>7 DEF t
<1> QED
  BY <1>9 DEF CallTrue, l, fs, f

\* Calls are named after the function that break finds by that name.
THEOREM CallRight ==
  ASSUME Unaliased, StubsInPlt, AtItsOffset
  PROVE  Spec => []CallNamed
<1> DEFINE Inv == TypeInv /\ CallNamed
           Lists(o) == IF o.cmd \in {"disassemble", "disassemble pc"} THEN o.lists ELSE {}
<1>0. /\ CallNamed <=> (Current => \A l \in Lists(out) : CallTrue(l, syms, file))
      /\ CallNamed' <=> (Current' => \A l \in Lists(out') : CallTrue(l, syms', file'))
  BY DEF CallNamed, CallTrue, Listed
<1>1. Init => Inv
  <2>1. Init => Lists(out) = {}
    BY DEF Init, Nothing
  <2> HIDE DEF Lists
  <2> QED
    BY <1>0, <2>1, InitType
<1>2. ASSUME Inv, [Next]_vars PROVE Inv'
  <2>1. TypeInv'
    BY <1>2, NextType
  <2>2. CallNamed'
    <3>1. CASE disassemble_function
      <4>1. UNCHANGED <<syms, file, image>>
        BY <3>1 DEF disassemble_function
      <4>2. PICK i \in DOMAIN funcs_list(syms) :
              out' = [cmd |-> "disassemble", lists |-> listings(funcs_list(syms)[i].name, 0)]
        BY <3>1 DEF disassemble_function
      <4>3. Lists(out') = listings(funcs_list(syms)[i].name, 0)
        BY <4>2
      <4>4. ASSUME Current, NEW l \in Lists(out') PROVE CallTrue(l, syms, file)
        <5>1. PICK p \in DOMAIN funcs_list(syms) : l = disassemble(funcs_list(syms)[p], 0)
          BY <4>3, <4>4 DEF listings
        <5> QED
          BY <1>2, <4>4, <5>1, ListingTrue DEF Current
      <4> HIDE DEF Lists
      <4> QED
        BY <1>0, <4>1, <4>4 DEF Current
    <3>2. CASE disassemble_current
      <4>1. UNCHANGED <<syms, file, image>>
        BY <3>2 DEF disassemble_current
      <4>2. PICK name \in get_func_die_from_pc(image, pc) :
              out' = [cmd |-> "disassemble pc",
                      lists |-> IF name = None THEN {} ELSE listings(name, pc + load_address)]
        BY <3>2 DEF disassemble_current
      <4>3. Lists(out') = IF name = None THEN {} ELSE listings(name, pc + load_address)
        BY <4>2
      <4>4. ASSUME Current, NEW l \in Lists(out') PROVE CallTrue(l, syms, file)
        <5>1. PICK p \in DOMAIN funcs_list(syms) :
                l = disassemble(funcs_list(syms)[p], pc + load_address)
          BY <4>3, <4>4 DEF listings
        <5> QED
          BY <1>2, <4>4, <5>1, ListingTrue DEF Current
      <4> HIDE DEF Lists
      <4> QED
        BY <1>0, <4>1, <4>4 DEF Current
    <3>3. CASE UNCHANGED vars
      <4> HIDE DEF Lists
      <4> QED
        BY <1>0, <1>2, <3>3 DEF vars, Current
    <3>4. CASE out'.cmd \notin {"disassemble", "disassemble pc"}
      <4>1. Lists(out') = {}
        BY <3>4
      <4> HIDE DEF Lists
      <4> QED
        BY <1>0, <4>1
    <3> QED
      BY <1>2, <3>1, <3>2, <3>3, <3>4, Speaker
  <2> QED
    BY <2>1, <2>2
<1> QED
  BY <1>1, <1>2, PTL DEF Spec

=============================================================================
