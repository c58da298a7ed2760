# A TLA+ model of vdbg

vdbg is a debugger for x86-64 Linux: one thread that reads commands, drives one
traced process through `ptrace`, and patches `0xcc` into it where the user wants
it to stop. This directory models it in TLA+, checks the models with TLC on
small instances, and proves its central properties with TLAPS.

## The system

| part | state | operations | where |
|---|---|---|---|
| breakpoint table | `breakpoints`, `pending_breakpoints`, `bp_locations`; per breakpoint `enable`, `location`; per location `bp_list`, `patched`, `saved_data`, `is_temp` | set, enable, disable, delete (one, all), resolve at start, temporary locations, free at death | `breakpoint.c`, `debugger.c` |
| engine | `state`, `pid`, `load_address`, `pending_signal` | run, restart, continue, kill, `wait_for_signal`, `handle_sigtrap` | `debugger.c` |
| stepping | none of its own; works on table and tracee | stepi, step, next, finish, backtrace, step over a breakpoint | `stepping.c` |
| hash map | buckets with chains, size, shift | init, insert, lookup, delete, free | `hashmap.c` |
| command line | last line, open scripts | dispatch by exact name or prefix, scripts, argument loops | `commands.c`, `debugger.c`, `main.c` |
| tracee arguments | `args.list`, its capacity | `split`, `add_arguments_for_tracee`, `execv` | `util.c`, `debugger.c` |
| startup options | none that lasts | `parse_arguments`, `main` | `main.c` |
| symbols | libelf and libdwfl handles, the list of functions, the time of the executable | functions, lines and addresses from each other; the load address; printing | `symbols.c` |
| disassembler | a map of called functions per listing | listings of functions | `disassemble.c` |
| registers and memory | none | reads and writes by the user and by the engine | `registers.c` |
| completion | the candidates of the last completion | generators for readline | `completion.c` |
| output | none | source windows, colours, directory listing | `util.c` |

The command line calls the engine and the table; the engine owns the tracee and
tells the table when it was born and when it died; stepping plants temporary
locations in the table and resumes through the engine; table and engine look
addresses and ids up in hash maps.

### What is hard

* The tracee is concurrent with the debugger between a `ptrace` request and the
  `waitpid` that follows; it can stop for many reasons, exit, or be killed in
  the middle of a command that will touch the table afterwards.
* Breakpoints outlive the tracee, locations do not. The two layers point at each
  other, and three different paths free them.
* Several breakpoints may share a location, and then the location's patch and
  the breakpoints' flags no longer correspond one to one.
* A byte saved when a location is armed is written back long after.
* A signal is remembered from one command to the next.
* A child that cannot execute the program is a second debugger on the same
  terminal, and the parent takes any first stop for the one of `execv`.
* The executable may be rebuilt while vdbg holds the symbols of the old one, and
  addresses are sometimes those of the file and sometimes the tracee's.
* next and finish think in source lines and frames, and have addresses only.

`PROJECT.json` lists these as hazards, each with its line and its properties.

## The modules

**`Breakpoints`** is the table. A breakpoint is an id, a location its running
address; lists are sets, because they are always in the order of the ids, which
`LinkedLists` makes a theorem. `loc_enable`, `loc_disable`, `attach`, `loc_free` model the
functions they are named after or, for `attach`, `loc_init` and
`loc_append_breakpoint_to_list`. There is one action per operation of the table
and three of the kernel's (`resume`, `stop`, `die`). `BPNext` adds the contract
the callers have to keep: commands come when the last one is over (`Quiet`) and
while the tracee stands still (`Attended`, which silent signals break). ptrace's
failures are part of the model: at an unmapped address or a running tracee a
peek gives -1 and a poke does nothing, and the code does not look. `write_memory`
is the user's write of eight bytes; `own` is what the tracee's memory would be
without breakpoints, and `PokePatched` says whether the user also writes over a
patched byte. So `BPSpec` is at once the model of `breakpoint.c` and the specification `Debugger` has to
implement.

**`LinkedLists`** is the same table with its lists as they are in memory. A node
is the id of the breakpoint it lies in, or a head; `pendingNodes` and
`locationNodes` hold `next` and `prev` of all of them, with `Garbage` in what
malloc has just returned and in what was freed. `list_init`, `list_add`,
`list_add_back` and `list_delete` are those of `list.h`. Most operations are
steps of `Breakpoints` that also change the lists; the two loops that change
what they walk over, in `resolve_pending_breakpoints` and
`remove_all_breakpoints`, take one step a turn, with `pos` and `n` in `walk`.

**`Debugger`** extends the table with the engine, the tracee and the kernel. `ctl` says
where the single thread stands; an action is the code between two points where
the tracee can act or where another function sees the table. `execute_*` are
instructions of the tracee, which read the memory the debugger has patched.
`wait_*` are the cases of `wait_for_signal` and `handle_sigtrap`. Undefined
behaviour is modelled by what can come of it: `ReadPc` is any address when
`PTRACE_GETREGS` fails; the use of a freed location and a failing assertion end
the behaviour in `undefined` and `aborted`. A delivered SIGSEGV or SIGABRT kills
the tracee, or takes it to one of its `Handlers`. next and `break <line>` look up
the line of the pc first, and end at the prompt or in an abort where there is
none (`give_up`). `BPSpec` is checked as a property of
`Spec`: the engine implements the table's contract, at each step. With the
theorems below, what is proved of `BPSpec` then holds of the engine.

**`Frames`** models next, finish, step and backtrace on a tracee with a call
stack, `rbp`, prologues and source lines. There a location is only an address
where the tracee stops: that the patches are otherwise invisible is what the two
modules above are about. A command is given where `CommandAt` allows it, which
lets a run ask about commands at function entries separately.

**`HashMap`** models `hashmap.c` on words of `WordSize` bits, and **`Map`** is
the abstract map its users rely on. `MapSpec` in `HashMap` is the refinement.

**`Commands`** models the command loop, `handle_command`, scripts and the
argument loops. Texts are model values with two facts: which stored texts are a
prefix of a given one, because that is how `find_breakpoint_from_pending`
compares, and at how many addresses a text is found. A command that resumes the
tracee leaves `ctl` at "waiting", exit and the end of the input with a tracee at
"asked"; what comes of it is the tracee's and the user's (`execute_returns`,
`answer`). Scripts nest until no more files can be opened (`MaxOpen`).

**`Session`** extends `Commands` with what surrounds the loop: `parse_arguments`
and `main`, one action per turn of the loop over argv, and the completion of a
line at the prompt, which asks the same table of commands and the same list of
breakpoints.

**`Arguments`** models the two arrays through which the tracee's arguments go, and
**`Launch`** composes it with `spawn_tracee`, one action per call in it. The
child of a fork is a copy of vdbg until `execv` succeeds, so `dbg` is a chain of
debuggers, each of which may have forked the next; `kid` is what each has for a
child. `Debugger` takes a start that succeeds as one step; what can fail in it
is here.

**`Symbols`** models the list of functions with its PLT entries, the lookups of
lines, functions and addresses, and the commands that use them: `functions`,
`break`, `disassemble`, `context`. An executable is a record of what libelf and
libdwfl find in it. There are three of them at a time: the one vdbg has loaded
(`syms`), the one on disk (`file`) and the one the tracee runs (`image`), for
the user may edit and rebuild. `load_address` is a variable as in the code: read
at the start of a tracee, reset at its death. An uninitialised bound of a subprogram without
code is a choice (`get_func_die_from_pc`).

The theorems are in **`BreakpointsProofs`** (the table), **`ListsProofs`** (its
lists), **`DebuggerProofs`** (the engine), **`FramesProofs`** (next, finish and backtrace), **`LaunchProofs`** (the
start of a tracee and its arguments), **`HashMapProofs`**, **`CommandsProofs`** and
**`SymbolsProofs`**. The `MC*` modules give the constants values; the operators marked "Mutant" in the
modules are faulty variants that show the properties can fail.

## The runs

Passing runs:

| run | instance | shows |
|---|---|---|
| `BreakpointsShared` | 3 breakpoints, 3 addresses, one unmapped, sharing, memory writes | memory intact, no dangling pointer, lists linked, patches change only with a reason |
| `DebuggerLoop` | 2 breakpoints, not shared, a program that loops, all commands | clean prompt, no abort, no enabled breakpoint passed, no disabled one hit, stepping moves |
| `DebuggerFault` | a program that may fault, abort or exit, or handle the signal; shared locations; no stepping | the fault is forwarded, commands return, continue moves |
| `DebuggerUnattended` | 1 breakpoint; break, run, step and next; the tracee may be killed, or get silent and unknown signals, at any time | contract kept, unless vdbg aborts |
| `HashMap` | 4 keys, 3 objects, sizes 1, 5, 12 | a map, in bounds, objects cleaned up once |
| `FramesLines` | main, f, g without loop or recursion | next, finish and backtrace are right |
| `CommandLine` | every command line of up to 5 of 6 strings; 3 breakpoints, no text of which begins another, all commands, scripts that source others and themselves, completion | options obeyed, arguments hit what they name, completion offers what is accepted, loops and scripts end |
| `Launch` | fork and execv may fail, a chain of 3 debuggers, children killed early or sent a stale SIGABRT; up to 48 arguments | one reader of the terminal, the prompt is right about the tracee, breakpoints and arguments reach the program, starts end |
| `Symbols` | two files with a static function of one name each, PIE, rebuilt, without debug information, stripped | calls are named, the arrow is at the pc, lines and addresses are the ones meant, context warns about stale lines |

Runs that find a disagreement between the code and what it says of itself; each
is an entry of "findings" in `PROJECT.json`:

| run | what happens |
|---|---|
| `SharedEnabledStops` | an enabled breakpoint shares a location with a disabled one and is not armed |
| `SilentPrompt` | after a silent signal the prompt appears while the tracee runs |
| `NextLoop` | next does not see a backward jump |

Some properties name an exception, and some hold only in the instance of their
run. These configurations show why; each ends in a counterexample:

| configuration | module | property | what happens |
|---|---|---|---|
| `WriteOverPatch` | `MCBreakpoints` | `WritesKept` | a write over a patched byte is lost when the breakpoint goes, or takes the breakpoint's 0xcc away (`write_memory`) |
| `SharedDisabledSilent` | `MCBreakpoints` | `DisabledSilent` | a disabled breakpoint stays armed after its enabled twin is deleted (`bp_free`) |
| `SilentMemory` | `MCDebugger` | `MemoryIntact` | patches of a running tracee fail, and the table does not know (`loc_enable`, `loc_disable`) |
| `StaleSignal` | `MCDebugger` | `SignalIsOwn` | a restarted tracee gets the old one's SIGSEGV (`pending_signal`) |
| `FinishExit` | `MCDebugger` | `UnsetWhileActive` | the tracee exits during finish or next: the assertion in `unset_temp_bp_location` fails |
| `DebuggerUnattended` with `INVARIANT LocationOutlives` | `MCDebugger` | `LocationOutlives` | the tracee is killed while a breakpoint is stepped over: the location that is armed again was freed (`execute_step_over_loc`) |
| `DebuggerFault` with `Used <- LineAtAbort` | `MCDebugger` | `CommandReturns` | `break <line>` while the tracee stands in a library, after a SIGABRT: the check of `get_cudie_from_pc` aborts |
| `StepForever` | `MCDebugger` | `StepAlwaysReturns` | step on a disabled breakpoint never ends: `step_over_breakpoint` does nothing where nothing is patched |
| `NextRecursion` | `MCFrames` | `NextNotDeeper` | next over a recursive call stops in the callee |
| `NextRecursion` with `MaxDepth = 4` | `MCFrames` | `FinishReturns` | finish in a recursive function stops inside the recursion |
| `FinishEntry` | `MCFrames` | `FinishReturns` | finish at a function's entry: `rbp` is the caller's |
| `BacktraceEndbr` | `MCFrames` | `BacktraceTrue` | backtrace at an `endbr64`: `pc + 4` is in front of `push rbp` |
| `DeletePrefix` | `MCSession` | `OthersSpared` | `delete foobar` deletes the breakpoint on `foo` (`find_breakpoint_from_pending`) |
| `LaunchSignal` | `MCLaunch` | `Launched` | a signal stops the child before `execv`: breakpoints go into the copy of vdbg |
| `LaunchExec` | `MCLaunch` | `HandleValid` | a program at a fixed address whose child is dead: `setup_dwfl` uses the handle it has freed |
| `ArgumentsSplit` | `MCLaunch` | `InBounds` | a line of 32 words overflows the array of `split` |
| `ArgumentsSplit` with `Given <- ListFull` | `MCLaunch` | `Delivered` | 49 arguments leave no room for the NULL |
| `NameAliased` | `MCSymbols` | `CallNamed` | a function with two names: the first call of it in a listing has one, the later calls the other (`print_instruction_disas`) |
| `NamePltSec` | `MCSymbols` | `CallNamed` | stubs in `.plt.sec` have no name, and `break puts@plt` misses them (`get_plt_entries`) |
| `ListingFixed` | `MCSymbols` | `CallNamed` | a program linked at a fixed address: the listing reads the file at the wrong offset (`disassemble`) |
| `ArrowDeclared` | `MCSymbols` | `ArrowShown` | a declaration in front of a function may be taken for it (`function_die_callback`) |
| `AddressRunning` | `MCSymbols` | `AddressAlwaysBreaks` | `functions` prints running addresses, and `break` adds the load address again |
| `LineTwinFiles` | `MCSymbols` | `LineBreaks` | two files of one name: the line is found in the first |
| `ContextZero` | `MCSymbols` | `ContextReturns` | `context 0` fails the assertion of `print_source` |
| `ContextZero` with `Contexts = {32768}` | `MCSymbols` | `ContextTrue` | half of the largest number: the last line of the window wraps around |

The exceptions in `GoalArmed` and `StepiMoves` are of this kind too: where finish
finds the location of a disabled breakpoint it arms nothing, and stepi on one
executes nothing.

### Bounds

`MaxBps` bounds the breakpoints ever set. Two make every sharing conflict
possible, three make a location with one breakpoint next to a shared one, and a
list with a middle. `MaxOpen` is 3 where a process has a thousand descriptors: of
three nested scripts one is the first, one in the middle and one the last. `DebuggerUnattended` needs only one: what the kernel may do
at each step makes its state space, and the table's part of the argument is
proved. Three addresses give a patched, an unpatched and an unmapped
one. Programs are four instructions (`Debugger`): two source lines, an
instruction that branches back, one in a module libdwfl does not know;
instructions are two bytes long so that the byte behind an int3 is not one.
`Frames` uses the instruction lengths of x86-64, since `pc + 4` depends on them,
and a stack of `MaxDepth` 3 or 4: a call stops being followed there. The hash map
has six-bit words, so that keys collide in tables of each kind of size.
`Arguments` uses the real capacities, and argument counts up to the boundaries
(and, in the two configurations above, at them). A chain of three debuggers has
one that is both a child and a parent. Five strings are enough for two options
with their arguments and an executable, or for each way to get that wrong. In
`Symbols` an instruction is one unit and a file has ten lines, so that windows
meet its top and its bottom; `unsigned` has 16 bits. `Used` is the set of commands a run gives; the runs that leave some out
say which.

### Fairness

`Debugger`: weak fairness of the debugger's thread (it runs unless it blocks in
`readline` or `waitpid`) and of the tracee's instructions (a resumed process is
scheduled). Nothing obliges the user, a signal or a killer. `Session`: weak
fairness of a command that was given and of the way to the first prompt, and none
of the tracee's next stop or the user's answer to a question: `CommandEnds` has
them as its premise, for nothing promises them (`StepForever`). What a command that
resumes the tracee does until then is `Debugger`'s, where `CommandReturns`,
`StepReturns`, `StepiMoves` and `ContinueMoves` are about it.
`Launch`: weak fairness of each debugger that is not blocked in `readline` or
`waitpid` or stopped by its tracer; a debugger that waits for another one which
waits for its user need not go on, and `StartEnds` says so. The other
specifications have only safety
properties and state no fairness.

## The proofs

All theorems hold for every value of the constants that the named assumptions of
the modules allow (`ConstantsAssumption`, `DebuggerAssumption`,
`FramesAssumption`, `LaunchAssumption`, `ArgumentsAssumption`,
`HashMapAssumption`, `CommandsAssumption`, `SymbolsAssumption`); what a theorem assumes besides is in its ASSUME, with a
configuration above that fails without it. Each inductive invariant was an
invariant of a TLC run before it was proved.

### The table (`BreakpointsProofs`)

For every set of addresses, every load address, every program text and any number
of breakpoints:

* **`TableCorrect`**: `BPSpec => [](BPTypeOK /\ NoDangling /\ Resolved /\
  PatchHasOwner)`, with shared locations, silent signals and kills allowed.
* **`PatchesJustified`**: `BPSpec => PatchStepsJustified`, as general: the action
  property follows from `TableCorrect`'s invariant and the operations, one by one.
* **`MemoryCorrect`**: `BPSpec => []MemoryIntact`, assuming `~SilentSignals` and
  `~PokePatched`. `SilentMemory` and `WriteOverPatch` show that the assumptions
  are needed.
* **`FlagsObeyed`**: `BPSpec => [](EnabledStops /\ DisabledSilent)`, assuming
  `~AllowSharing`, `~SilentSignals` and `~PokePatched`: with one breakpoint per address, at the
  prompt 0xcc is where the enabled breakpoints are and no disabled one is armed.
  `SharedEnabledStops` and `SharedDisabledSilent` show that the first assumption
  is needed: the code fails both when breakpoints share a location.

0 not being an address, in `ConstantsAssumption`, is the assertion in
`loc_init`. The inductive invariant is `TableInv`. `NoDangling`, `Resolved` and
`PatchHasOwner` are not inductive alone: `Life` says that without a tracee
nothing of the table is left, so the next run starts from an empty one; `Lists`
that ids are fresh, that breakpoints still to be resolved have no location, and
that no temporary location and no step-over is around while the list is walked;
`LiftedOwned` that the location being stepped over survives until it is planted
again. `NoDangling` is what makes `remove_all_breakpoints` right: it frees the
locations at the breakpoints' running addresses, and the invariant says that
these are all there are with a breakpoint. `MemoryIntact` is inductive relative
to `TableInv` when commands find the tracee still and the user's writes miss the
patched bytes: then a write changes `mem` and `own` alike, and no saved byte. There is a lemma per
operation, and lemmas on what `loc_enable` and `loc_disable` do.

`FlagsObeyed` adds `SoleInv` to `TableInv`: addresses are distinct
(`DistinctAddrs`), a location is patched exactly when its breakpoint is enabled
(`ArmedIffEnabled`), and a location lifted for a single step belongs to an
enabled breakpoint (`LiftedEnabled`), so that planting it again is right. The
two promises speak of the prompt only; the invariant must also hold while the
pending list is being resolved and while a location is stepped over.

### The lists (`ListsProofs`)

As general as `TableCorrect`, without assumptions:

* **`ListsRight`**: `LSpec => []ListsLinked`. A walk along the pending list or the
  list of a location meets what `Breakpoints` has in the set, in the order of the
  ids and in both directions, and no pointer in them leads to garbage, also
  between the turns of the two loops.
* **`ListsImplement`**: `LSpec => BPSpec`, under the identity mapping: the table of
  `Breakpoints` is an abstraction of the code's, and the order in which it resolves
  is that of the list.

`Linked` says of a ring that `next` and `prev` lead to the neighbours among the ids
(`adjacent`). That this stays so is a lemma on each function of `list.h`
(`InitLinked`, `AddLinked`, `DeleteLinked`): one adds an id greater than all, the
other makes the neighbours of a deleted node neighbours of each other, and other
rings have none of the nodes that change (`LinkedSame`). `Walk` is what
`ListsLinked` needs besides: `todo` is what lies at `pos` and behind, so that the
least id left is the next one; and commands wait while breakpoints are deleted.
In the middle of `remove_all_breakpoints` a location is freed with the first of its
breakpoints and the others still linked to it. `ListsLinked` promises nothing of
such a list, and `DeleteTurnLists` shows that it is not missed: the location is the
one at their running address (`AtRunningAddr`), so `loc_free` has reset their
`location` and no later turn looks at it.

`BreakpointsShared` runs `LSpec`; `Walk` was an invariant of it with two breakpoints.

### The engine (`DebuggerProofs`)

* **`KeepsContract`**: `Spec => BPSpec`, without assumptions. Every action of the
  engine, the kernel and the tracee is a step of the table's specification or
  changes nothing of it (`StepMaps`). What has to be shown is that the engine
  calls the table only when its contract allows: `Conduct` says which part of
  the table each place of the engine has in hand (`Phase`: a location is lifted
  only between the single step and the replanting, breakpoints are left to
  resolve only in `spawn_tracee`), that the temporary locations of a live tracee
  are exactly what the command will delete (`Temps`), and that the table is
  touched only while the tracee stands still, or a silent signal was forwarded
  (`Standstill`). `EngineInv == TableInv /\ Conduct` is inductive.
* **`EngineTyped`**, and **`EngineFlagsObeyed`**: what is proved of the table, for
  the engine, by `KeepsContract` and the theorems above.
* **`PromptCorrect`**: `Spec => []PromptQuiet`, without assumptions. It needs
  `WaitedFor`: without silent signals each resumption is waited for by the call
  it belongs to, and the tracee stops on an instruction or right behind an int3.
* **`FaultReachesTracee`** (`~SilentSignals`): the signal a stopped tracee is owed
  is in `pending_signal`, or just being reported, or the tracee is dead (`Owing`).
* **`BreakpointsStop`** and **`GoalsArmed`** (the assumptions of `FlagsObeyed`):
  the tracee runs past no enabled breakpoint, because at each continue the
  location under the pc was stepped over and every other one is armed; and what
  finish and next wait for is armed (`TempArmed`, `Aimed`), where a location is
  lifted for the first step too.
* **`NoAbort`**: `Spec => []AbortFree` for a program that is `WellBehaved` (known
  lines, no fault, no end, no int3 of its own), with `~Killable`,
  `~SilentSignals` and `~PokePatched`; breakpoints may share locations. `Steady`
  says that such a program lives as long as a command works on it and that each
  int3 it stops at is the engine's. Each condition is one that the assertions of
  the code make: `FinishExit`, for one, is an end during finish.

### Stepping (`FramesProofs`)

These are theorems about programs: next, finish and backtrace are not right in
every one, and each assumption names a condition under which the code is.

| assumption | says | without it |
|---|---|---|
| `Compiled` | functions begin with `push rbp; mov rbp, rsp`, `leave` is in front of each `ret`, control leaves a function only by calls and `ret`, and nothing calls main | `BacktraceEndbr` |
| `FramedOnly` | finish and next are given where `rbp` points to the function's frame | `FinishEntry` |
| `Walkable` | backtrace is given there or at an entry, and no breakpoint is between `push` and `mov` | |
| `Layered(level)` | calls lead from a higher level to a lower one: there is no recursion | `NextRecursion` |
| `Forward` | jumps go forward, and a line is reached at its first instruction | `NextLoop` |

The depth of calls, the code and the user's breakpoints are arbitrary.

* **`BacktraceRight`** (`Compiled`, `Walkable`): `Spec => []BacktraceTrue`, with
  recursion too. `Chain` says of the stack what the code relies on: the saved
  `rbp` of each frame is the frame below, main is at the bottom, `rbp` itself is
  the top frame, or the one below it from a function's entry to the `mov` and at
  its `ret`. `Walk` ties the two locals of `print_backtrace` to the frame that is
  to be printed next, and `Prologue` follows the two instructions that the first
  `print_frame` lets the tracee execute at an entry.
* **`FinishRight`** (`Compiled`, `FramedOnly`, `Layered`): `Spec => FinishReturns`.
  `Sorted`: the levels of the frames increase towards main, so no function is on
  the stack twice and the return address finish waits for is reached in the
  caller only. `FrameSteps` is the lemma behind it and behind next: an
  instruction leaves a frame where it is, moves on in it, or returns from it.
* **`NextShallow`** (the same): `Spec => NextNotDeeper`. `NextInv`: the temporary
  locations are in the function of the frame next was given in, or its return
  address.
* **`NextInTime`** (`Forward` besides): `Spec => NextStops`. `LineInv`: the frame is on
  its line still, or waits for a call that returns to a place where the tracee
  will stop; and all lines ahead of it have a location.

### The start of a tracee (`LaunchProofs`)

* **`PromptHonest`**: `Spec => [](PromptTrue /\ (Pie => HandleValid))`, for any
  signals and any length of the chain of debuggers, from what each believes about
  its child (`Belief`). For a program at a fixed address `HandleValid` is false
  (`LaunchExec`).
* **`ReadersApart`** and **`ProgramLaunched`** assume that no signal but a fatal one
  comes before `execv` (`LaunchSignal` shows why). `Chain`: a debugger that can
  act has all those before it in `waitpid` for the next one. `Course`: at each
  step of `spawn_tracee` the child is dead, or stopped as the program, or about
  to get the SIGABRT it raised.
* **`ArraysBounded`** (`Spec => []InBounds`) and **`ArgumentsArrive`**
  (`Spec => Delivered`) for argument lists that are `Modest`, below the capacities
  (at them both fail: `ArgumentsSplit`, with either list). `ListInv`: the list is
  what was given last, and NULL behind it. `first_free` and `doubled` are the
  lemmas.

### The hash map (`HashMapProofs`)

* **`HashInRange`**: the shift from `ctz` of the size keeps the index below the
  size, for every word size and every size of a table. This is arithmetic on
  powers of two (`pow2`), by induction, which is stated for sets of numbers
  (`NatSet`): the provers cannot instantiate the library's.
* **`TableIsMap`**: `Spec => MapSpec`, the refinement, for any keys. `TableInv`: the
  keys of a chain are distinct and each is in the chain of its index; the lemmas
  say what a walk along a chain finds before and after an entry is put in front
  or taken from the middle.
* **`ObjectsOwned`**: `Spec => []Owned`; `OwnInv` adds that no two keys have one object.

### The command line (`CommandsProofs`)

* **`OthersUntouched`** (`OthersSpared`) and **`ArgumentsCount`** (`EachDeleted`),
  for whatever is typed, given with `-ex` or read from scripts. Both assume
  `Meant`: lines have arguments of their commands' types, and no stored text
  begins another (`DeletePrefix` is what happens if one does). `ReadInv` says that
  only lines are ever read, through options, scripts and repetitions; `ArgsInv`
  that the arguments handled so far are a prefix of those given, and that what
  they named is all that was touched.
* **`OptionsRight`**: `Spec => OptionsObeyed`, for command lines of any length. What
  `Accepted` says of the whole line is compared with what the loop over argv did
  one word at a time: `OptionsInv` says, at each turn, that what is behind the
  loop is options with their arguments (`OptionsBehind`), and that `path`, `script`
  and `list` are what they ask for (`PathBehind`, `ScriptBehind`, `ListBehind`).
* **`CompletionRight`**: `Spec => []OffersMeant`, with `Meant` besides. The
  generators take the first entry that begins with the word, then go on behind it
  (`CandidatesFound`); that what they offer is accepted is then a matter of the
  table of commands and of the list of breakpoints, which both sides share.

The provers do not look into the characters of a string. What the two last
theorems need of them are hypotheses, each a fact about strings that TLC
evaluates to TRUE on an instance: `Spelled` (options begin with a dash, and what
stands for "no word" is not a word) and `Legible` (a text begins with itself, and
with nothing).

### Symbols and lines (`SymbolsProofs`)

The executables are arbitrary but for the types of what libelf and libdwfl give
(`SymbolsAssumption`); rebuilds, edits and any sequence of commands are allowed. The
state needs little: `TypeInv`, for `functions` that an address shown without a
tracee is one of the file (`ShownInv`), and for context that a unit on disk or in
the tracee is the one loaded or has a newer source (`NewerInv`). The work is in the
lemmas about the lookups: what `getsrc_file`, `get_addr_from_lineno`,
`get_func_die_from_pc`, `call_name` and the unsigned window return. What each
theorem assumes of the executables is what one configuration breaks:

| theorem | property | assumes | without it |
|---|---|---|---|
| `AddressRight` | `AddressBreaks` | | |
| `LineRight` | `LineBreaks` | `NamesApart`: no two source files have one name | `LineTwinFiles` |
| | | `UnitsApart`: no two units have one address | |
| `ContextRight` | `ContextTrue` | `WindowsFit`: a window's last line does not wrap around, or wraps to one behind the file | `ContextZero` with `Contexts = {32768}` |
| | | `SameUnits`: a rebuild keeps the source files; `UnitsApart` | |
| `ArrowRight` | `ArrowShown` | `Described`: each subprogram has code and is a function of `.symtab` | `ArrowDeclared` |
| `CallRight` | `CallNamed` | `Unaliased`: no two functions have one address | `NameAliased` |
| | | `StubsInPlt`: the stubs are in `.plt` | `NamePltSec` |
| | | `AtItsOffset`: the code is in the file at the offset its address says | `ListingFixed` |

### Only model-checked

* Liveness (`StepReturns`, `StepiMoves`, `CommandReturns`, `ContinueMoves`,
  `StartEnds`, `CommandEnds`): out of the prover's reach.
* next at a function's entry, which `FramesLines` has and `FramedOnly` excludes:
  there the frame is the caller's, and only the function's own lines stop it.
* The type of the table and `Resolved` and `PatchHasOwner` are not checked by a
  run again: they are parts of `TableCorrect`.

## Not modelled

* Parsing of ELF and DWARF by libelf and libdwfl, capstone's decoding, and
  everything that only prints (headers, sections, symbols, colours, the directory
  listing). libdwfl is taken to describe the executable the tracee runs.
* That commands get the arguments they need: `memory` and `register` read
  `args[2]` without looking, and an unknown register name is used as an offset.
* The words of a line that is completed, the fixed words of `register` and
  `memory`, and file names: string handling and readline's.
* `PTRACE_KILL` is SIGKILL, as in current kernels. malloc does not fail.
* Executables without debug information, in `Debugger` (the commands that need
  it are refused: `Commands`).
* What happens after the use of a freed location, or of a freed libdwfl handle: the
  model ends there in `undefined`.
* File times: whether a source is newer than the executable is known exactly, while
  `is_old` compares seconds and does not look whether `stat` has failed.
* In `Launch`, the commands that resume a tracee after its start: they are `Debugger`'s.
* A tracee with several threads or children, or with its own int3: vdbg traces
  one process and asserts that each int3 is its own.

## Plan

Done: every module above, and the theorems on each. Next, in this order:

1. backtrace at a function's entry in `Debugger`, where it resumes the tracee (`Frames`
   has it).
2. next at a function's entry, for functions of more than one line
   (`FramesProofs` without `FramedOnly`).

To check a run: `tlc -config <run>.cfg <module>`, with the module `PROJECT.json`
names for it; to check the proofs: `tlapm <module>` for each module of "The
proofs".
