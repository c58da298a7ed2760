----------------------------- MODULE Breakpoints -----------------------------
(***************************************************************************)
(* The two-layer breakpoint table of vdbg: breakpoint.c and the part of    *)
(* debugger.c that drives it.                                              *)
(*                                                                         *)
(* A breakpoint_t is what the user set (an id, a file address, a flag      *)
(* `enable'); a bp_location_t is a running address where a 0xcc byte is or *)
(* is not patched into the tracee.  Several breakpoints may share one      *)
(* location.  Breakpoints outlive the tracee, locations die with it and    *)
(* are built again at the next run.                                        *)
(*                                                                         *)
(* Lists.  pending_breakpoints and bp_list only ever grow at the back, by  *)
(* breakpoints whose ids come from one increasing counter, and are walked  *)
(* from the front: they are always in the order of the ids.  A list is     *)
(* therefore the set of its ids, its first element the least one; module   *)
(* LinkedLists has the lists themselves.                                   *)
(*                                                                         *)
(* Client contract.  An operation is guarded by what its own code checks;  *)
(* what its callers must see to is in BPNext.  The debugger is one thread: *)
(* a command is read only when the previous one is over (Quiet), and the   *)
(* table is touched while the tracee stands still (Attended), unless a     *)
(* silent signal made wait_for_signal resume the tracee and return.        *)
(* Module Debugger models the callers; Spec => BPSpec there says that they *)
(* keep the contract.                                                      *)
(***************************************************************************)
EXTENDS Integers

CONSTANTS
  InstrAddrs,    \* file addresses a breakpoint may be set at
  LoadBase,      \* where a PIE executable is mapped; 0 for ET_EXEC
  Mapped,        \* running addresses of the tracee ptrace can peek and poke
  Text,          \* Text[a] is the program's own byte at a
  MaxBps,        \* bound on the number of breakpoints ever set
  AllowSharing,  \* may two breakpoints be set at the same address?
  SilentSignals, \* may the tracee get SIGWINCH, SIGCHLD, SIGURG or SIGALRM?
  Written,       \* the bytes the user writes into the tracee's memory
  PokePatched    \* may the user write over a patched byte?

INT3 == 204                   \* 0xcc
PeekError == 255              \* the low byte of the -1 a failing PEEKDATA returns
Byte == 0 .. 255
NULL == 0
Ids == 1 .. MaxBps
Addrs == Mapped \cup {i + LoadBase : i \in InstrAddrs}

ASSUME ConstantsAssumption ==
  /\ InstrAddrs \subseteq Nat
  /\ LoadBase \in Nat
  /\ Mapped \subseteq Nat
  /\ NULL \notin Addrs        \* assert(pid && running_addr) in loc_init
  /\ Text \in [Mapped -> Byte]
  /\ MaxBps \in Nat
  /\ AllowSharing \in BOOLEAN
  /\ SilentSignals \in BOOLEAN
  /\ Written \subseteq Byte
  /\ PokePatched \in BOOLEAN

VARIABLES
  proc,       \* the process dbg->pid: "none", "stopped", "running", "zombie"
  mem,        \* its memory
  own,        \* what exec mapped there and the user wrote (history variable)
  active,     \* dbg->state = ACTIVE
  load,       \* dbg->load_address
  nextId,     \* global_id_counter
  bps,        \* dbg->pending_breakpoints, and the keys of dbg->breakpoints
  instr,      \* bp->instr_addr
  enable,     \* the breakpoints with bp->enable
  location,   \* bp->location, NULL or the running address of the location
  todo,       \* breakpoints resolve_pending_breakpoints has still to visit
  locs,       \* keys of dbg->bp_locations
  temp,       \* locations with is_temp
  members,    \* loc->bp_list
  patched,    \* locations with loc->patched
  saved,      \* loc->saved_data
  lifted      \* the location execute_step_over_loc has disabled, or NULL

bpVars == <<nextId, bps, instr, enable>>
tableVars == <<location, locs, temp, members>>
patchVars == <<patched, saved, mem>>
bpmVars == <<proc, mem, own, active, load, nextId, bps, instr, enable,
             location, todo, locs, temp, members, patched, saved, lifted>>

BPTypeOK ==
  /\ proc \in {"none", "stopped", "running", "zombie"}
  /\ mem \in [Mapped -> Byte]
  /\ own \in [Mapped -> Byte]
  /\ active \in BOOLEAN
  /\ load \in {0, LoadBase}
  /\ nextId \in 1 .. MaxBps + 1
  /\ bps \subseteq Ids
  /\ instr \in [Ids -> InstrAddrs \cup {NULL}]
  /\ enable \subseteq Ids
  /\ location \in [Ids -> Addrs \cup {NULL}]
  /\ todo \subseteq Ids
  /\ locs \subseteq Addrs
  /\ temp \subseteq Addrs
  /\ members \in [Addrs -> SUBSET Ids]
  /\ patched \subseteq Addrs
  /\ saved \in [Addrs -> Byte]
  /\ lifted \in Addrs \cup {NULL}

\* dbg_init; the tracee does not exist yet.
BPInit ==
  /\ proc = "none"
  /\ mem = Text /\ own = Text
  /\ active = FALSE
  /\ load = 0
  /\ nextId = 1
  /\ bps = {}
  /\ instr = [b \in Ids |-> NULL]
  /\ enable = {}
  /\ location = [b \in Ids |-> NULL]
  /\ todo = {}
  /\ locs = {}
  /\ temp = {}
  /\ members = [a \in Addrs |-> {}]
  /\ patched = {}
  /\ saved = [a \in Addrs |-> 0]
  /\ lifted = NULL

-----------------------------------------------------------------------------
(***************************************************************************)
(* Patching.  ptrace reads and writes only a stopped tracee, at a mapped   *)
(* address; elsewhere PEEKDATA returns -1 and POKEDATA does nothing, and   *)
(* loc_enable and loc_disable go on all the same.  Each operator acts on a *)
(* set of locations: one, or all those a loop of the code visits.          *)
(***************************************************************************)
Reach(a) == proc = "stopped" /\ a \in Mapped

PTRACE_PEEKDATA(a) == IF Reach(a) THEN mem[a] ELSE PeekError

\* Mutant: no early return for a location that is already patched.
loc_enable_twice(S) ==
  /\ saved' = [a \in Addrs |-> IF a \in S THEN PTRACE_PEEKDATA(a) ELSE saved[a]]
  /\ mem' = [a \in Mapped |-> IF a \in S /\ Reach(a) THEN INT3 ELSE mem[a]]
  /\ patched' = patched \cup S

loc_enable(S) ==
  LET new == S \ patched
  IN  /\ saved' = [a \in Addrs |-> IF a \in new THEN PTRACE_PEEKDATA(a) ELSE saved[a]]
      /\ mem' = [a \in Mapped |-> IF a \in new /\ Reach(a) THEN INT3 ELSE mem[a]]
      /\ patched' = patched \cup S

loc_disable(S) ==
  LET old == S \cap patched
  IN  /\ mem' = [a \in Mapped |-> IF a \in old /\ Reach(a) THEN saved[a] ELSE mem[a]]
      /\ patched' = patched \ S
      /\ UNCHANGED saved

-----------------------------------------------------------------------------
(***************************************************************************)
(* Breakpoints and their locations.                                        *)
(***************************************************************************)

\* The lookup in bp_locations, then loc_init or loc_append_breakpoint_to_list.
\* Appending makes the location follow the flag of the newest breakpoint.
attach(b, a, enabled) ==
  /\ location' = [location EXCEPT ![b] = a]
  /\ locs' = locs \cup {a}
  /\ members' = [members EXCEPT ![a] = IF a \in locs THEN @ \cup {b} ELSE {b}]
  /\ IF a \in locs /\ b \in members[a] THEN UNCHANGED patchVars
     ELSE IF enabled THEN loc_enable({a})
     ELSE IF a \in locs THEN loc_disable({a})
     ELSE UNCHANGED patchVars
  /\ UNCHANGED temp

\* break: set_breakpoint_at_addr, _at_func_symbol (once per matching symbol)
\* and _at_lineno differ in how they find instr_addr, not in what they do.
set_breakpoint(i) ==
  /\ nextId <= MaxBps
  /\ AllowSharing \/ \A b \in bps : instr[b] # i
  /\ nextId' = nextId + 1
  /\ bps' = bps \cup {nextId}
  /\ instr' = [instr EXCEPT ![nextId] = i]
  /\ enable' = enable \cup {nextId}
  /\ IF active THEN attach(nextId, i + load, TRUE)
     ELSE UNCHANGED <<tableVars, patchVars>>
  /\ UNCHANGED <<proc, own, active, load, todo, lifted>>

\* What the loops over loc->bp_list in bp_enable, bp_disable and bp_free find,
\* each with the mutants that look at the list in another way.
never_patch(b) == FALSE
to_patch(b) == members[location[b]] \subseteq enable'

never_unpatch(b) == FALSE
to_remove_patch(b) == members[location[b]] \cap enable' = {}

always_empty(b) == TRUE
list_empty(b) == members[location[b]] = {b}

\* enable <bp>: the location is patched when all its breakpoints are enabled.
bp_enable(b) ==
  /\ b \in bps
  /\ enable' = enable \cup {b}
  /\ IF location[b] # NULL /\ to_patch(b)
     THEN loc_enable({location[b]})
     ELSE UNCHANGED patchVars
  /\ UNCHANGED <<proc, own, active, load, nextId, bps, instr, tableVars, todo, lifted>>

\* disable <bp>: the patch is removed when no breakpoint there is enabled.
bp_disable(b) ==
  /\ b \in bps
  /\ enable' = enable \ {b}
  /\ IF location[b] # NULL /\ to_remove_patch(b)
     THEN loc_disable({location[b]})
     ELSE UNCHANGED patchVars
  /\ UNCHANGED <<proc, own, active, load, nextId, bps, instr, tableVars, todo, lifted>>

\* enable, disable without arguments: bp_enable, bp_disable on each breakpoint
\* in turn; the last visit to a location sees all its flags set alike.
enable_all_breakpoints ==
  /\ enable' = bps
  /\ loc_enable({a \in locs : members[a] # {}})
  /\ UNCHANGED <<proc, own, active, load, nextId, bps, instr, tableVars, todo, lifted>>

disable_all_breakpoints ==
  /\ enable' = {}
  /\ loc_disable({a \in locs : members[a] # {}})
  /\ UNCHANGED <<proc, own, active, load, nextId, bps, instr, tableVars, todo, lifted>>

\* delete <bp>: off the pending list, then map_delete calls bp_free, which
\* takes it off its location's list and disables a location left empty.  The
\* empty location stays in bp_locations.
remove_breakpoint(b) ==
  /\ b \in bps
  /\ bps' = bps \ {b}
  /\ enable' = enable \ {b}
  /\ instr' = [instr EXCEPT ![b] = NULL]
  /\ location' = [location EXCEPT ![b] = NULL]
  /\ IF location[b] = NULL THEN UNCHANGED <<members, patchVars>>
     ELSE /\ members' = [members EXCEPT ![location[b]] = @ \ {b}]
          /\ IF list_empty(b)
             THEN loc_disable({location[b]})
             ELSE UNCHANGED patchVars
  /\ UNCHANGED <<proc, own, active, load, nextId, todo, locs, temp, lifted>>

\* bp->location = NULL in the loop of loc_free, for each location of S.
\* Mutant: the loop is missing.
forget_nothing(S) == location
forget(S) ==
  [b \in Ids |-> IF \E a \in S \ temp : b \in members[a] THEN NULL ELSE location[b]]

\* loc_free on each location of S: its breakpoints forget it, it is disabled.
loc_free(S) ==
  /\ location' = forget(S)
  /\ members' = [a \in Addrs |-> IF a \in S THEN {} ELSE members[a]]
  /\ locs' = locs \ S
  /\ temp' = temp \ S
  /\ loc_disable(S)

\* delete without arguments: each breakpoint goes with the location at its
\* running address.  Locations emptied by earlier deletes stay.
remove_all_breakpoints ==
  /\ loc_free({a \in locs : \E b \in bps : a = instr[b] + load})
  /\ bps' = {}
  /\ enable' = {}
  /\ instr' = [b \in Ids |-> NULL]
  /\ UNCHANGED <<proc, own, active, load, nextId, todo, lifted>>

-----------------------------------------------------------------------------
(***************************************************************************)
(* The tracee's life: spawn_tracee, resolve_pending_breakpoints and        *)
(* cleanup_at_tracee_death.                                                *)
(***************************************************************************)

\* spawn_tracee up to resolve_pending_breakpoints: exec has mapped a fresh
\* image and stopped.
spawn_tracee ==
  /\ proc' = "stopped"
  /\ mem' = Text /\ own' = Text
  /\ load' = LoadBase
  /\ active' = TRUE
  /\ todo' = bps
  /\ UNCHANGED <<bpVars, tableVars, patched, saved, lifted>>

\* One turn of the loop of resolve_pending_breakpoints.
resolve_pending_breakpoint ==
  /\ \E b \in todo :
       /\ \A c \in todo : b <= c
       /\ todo' = todo \ {b}
       /\ attach(b, instr[b] + load, b \in enable)
  /\ UNCHANGED <<proc, own, active, load, bpVars, lifted>>

\* map_free on bp_locations after waitpid has reaped the tracee: kill(pid, 0)
\* fails, so loc_disable clears the flag and touches no memory.
cleanup_at_tracee_death ==
  /\ location' = forget(locs)
  /\ members' = [a \in Addrs |-> {}]
  /\ locs' = {}
  /\ temp' = {}
  /\ patched' = {}
  /\ active' = FALSE
  /\ load' = 0
  /\ proc' = "none"
  /\ mem' = Text /\ own' = Text    \* no process, no memory
  /\ UNCHANGED <<bpVars, saved>>

\* PTRACE_KILL, which is SIGKILL, and waitpid, then cleanup.
kill_tracee ==
  /\ active
  /\ cleanup_at_tracee_death
  /\ UNCHANGED <<todo, lifted>>

\* wait_for_signal learns of the death, maybe in the middle of a command.
reap_tracee ==
  /\ proc = "zombie"
  /\ cleanup_at_tracee_death
  /\ lifted' = NULL
  /\ UNCHANGED todo

-----------------------------------------------------------------------------
(***************************************************************************)
(* What the stepping commands ask of the table.                            *)
(***************************************************************************)

\* Mutant: the temporary location is not armed.
set_temp_unarmed(S) ==
  /\ active
  /\ locs' = locs \cup S
  /\ temp' = S \ locs
  /\ UNCHANGED <<patchVars, proc, own, active, load, bpVars, todo, location, members, lifted>>

\* set_temp_bp_location for each address of S: where map_insert finds a
\* location, the new one is freed again; its loc_enable and loc_disable cancel
\* out and the location found stays as it is.
set_temp_bp_location(S) ==
  /\ active
  /\ locs' = locs \cup S
  /\ temp' = S \ locs
  /\ loc_enable(S \ locs)
  /\ UNCHANGED <<proc, own, active, load, bpVars, todo, location, members, lifted>>

unset_temp_bp_location(a) ==
  /\ active
  /\ a \in locs
  /\ loc_free({a})
  /\ UNCHANGED <<proc, own, active, load, bpVars, todo, lifted>>

\* execute_step_over_loc, before the single step and after it.
lift(a) ==
  /\ a \in patched
  /\ loc_disable({a})
  /\ lifted' = a
  /\ UNCHANGED <<proc, own, active, load, bpVars, todo, tableVars>>

replant ==
  /\ loc_enable({lifted})
  /\ lifted' = NULL
  /\ UNCHANGED <<proc, own, active, load, bpVars, todo, tableVars>>

\* memory write <addr> <value>: PTRACE_POKEDATA writes a word, over whatever
\* lies in it.  A location's saved_data is not told.
WordBytes == 8
Word(a) == {x \in Mapped : a <= x /\ x < a + WordBytes}

write_memory(a, v) ==
  /\ active
  /\ PokePatched \/ Word(a) \cap patched = {}
  /\ IF Reach(a)
     THEN /\ mem' = [x \in Mapped |-> IF x \in Word(a) THEN v ELSE mem[x]]
          /\ own' = [x \in Mapped |-> IF x \in Word(a) THEN v ELSE own[x]]
     ELSE UNCHANGED <<mem, own>>
  /\ UNCHANGED <<proc, active, load, bpVars, todo, tableVars, patched, saved, lifted>>

-----------------------------------------------------------------------------
(***************************************************************************)
(* The kernel (external): the tracee is resumed, stops, is killed.         *)
(***************************************************************************)
resume ==
  /\ proc = "stopped"
  /\ proc' = "running"
  /\ UNCHANGED <<mem, own, active, load, bpVars, todo, tableVars, patched, saved, lifted>>

stop ==
  /\ proc = "running"
  /\ proc' = "stopped"
  /\ UNCHANGED <<mem, own, active, load, bpVars, todo, tableVars, patched, saved, lifted>>

die ==
  /\ proc \in {"stopped", "running"}
  /\ proc' = "zombie"
  /\ UNCHANGED <<mem, own, active, load, bpVars, todo, tableVars, patched, saved, lifted>>

-----------------------------------------------------------------------------
(***************************************************************************)
(* The operations under the contract.                                      *)
(***************************************************************************)
Quiet == todo = {} /\ temp = {} /\ lifted = NULL

\* wait_for_signal returns with the tracee stopped or dead, except that it
\* forwards a silent signal with PTRACE_CONT and does not wait again.
Attended == proc = "running" => SilentSignals

manage ==
  \/ \E i \in InstrAddrs : set_breakpoint(i)
  \/ \E b \in Ids : bp_enable(b) \/ bp_disable(b) \/ remove_breakpoint(b)
  \/ enable_all_breakpoints
  \/ disable_all_breakpoints
  \/ remove_all_breakpoints
  \/ kill_tracee
  \/ \E S \in SUBSET Addrs : set_temp_bp_location(S)
  \/ \E a \in Mapped, v \in Written : write_memory(a, v)

BPNext ==
  \/ Quiet /\ Attended /\ manage
  \/ Quiet /\ proc = "none" /\ spawn_tracee
  \/ resolve_pending_breakpoint
  \/ todo = {} /\ (reap_tracee \/ resume)
  \/ todo = {} /\ lifted = NULL /\ Attended /\
        \E a \in Addrs : lift(a) \/ (a \in temp /\ unset_temp_bp_location(a))
  \/ lifted # NULL /\ Attended /\ replant
  \/ stop
  \/ die

BPSpec == BPInit /\ [][BPNext]_bpmVars

-----------------------------------------------------------------------------
(***************************************************************************)
(* Properties.                                                             *)
(***************************************************************************)

\* The patches are invisible: while the tracee lives, every byte of its
\* memory is its own - the executable's, or the last the user wrote there -
\* except 0xcc exactly at the patched locations, and what loc_enable saved
\* there is the program's byte, so loc_disable restores it.
MemoryIntact ==
  proc \in {"stopped", "running"} =>
    \A a \in Mapped :
      /\ mem[a] = IF a \in patched THEN INT3 ELSE own[a]
      /\ a \in patched => saved[a] = own[a]

\* What the user wrote stays written (README: "read/write CPU registers and raw
\* memory"): a byte that is not patched is the program's own.
WritesKept ==
  proc \in {"stopped", "running"} => \A a \in Mapped \ patched : mem[a] = own[a]

\* bp->location and loc->bp_list agree, so neither bp_free nor loc_free ever
\* follows a pointer to a location or a breakpoint that is gone.
NoDangling ==
  /\ \A b \in Ids : location[b] # NULL =>
       /\ b \in bps
       /\ location[b] \in locs \ temp
       /\ b \in members[location[b]]
  /\ \A a \in Addrs : \A b \in members[a] : a \in locs \ temp /\ location[b] = a

\* Once resolve_pending_breakpoints is done every breakpoint, whenever it was
\* set, sits at its own running address; without a tracee none is located.
Resolved ==
  \A b \in bps \ todo : location[b] = IF active THEN instr[b] + load ELSE NULL

\* A patched location that is not temporary has a breakpoint: the "how is it
\* possible that a bp_location doesn't have a bp" of
\* print_bp_hit_message_at_loc is not possible.
PatchHasOwner == \A a \in patched : a \in locs /\ (a \in temp \/ members[a] # {})

\* A location is armed only for an enabled breakpoint, and disarmed while it
\* exists only when a breakpoint there is disabled or none is left, except for
\* the single step that execute_step_over_loc needs.
PatchStepsJustified ==
  [][ \A a \in locs' \ temp' :
        /\ a \in patched' \ patched =>
             members'[a] \cap enable' # {} \/ a = lifted
        /\ a \in patched \ patched' =>
             members'[a] \ enable' # {} \/ members'[a] = {} \/ a = lifted'
    ]_bpmVars

\* What the user relies on: at the prompt of a live tracee, an enabled
\* breakpoint stops it (README: "Enable/disable/delete individually").  It
\* holds with one breakpoint per address.
EnabledStops ==
  Quiet /\ proc = "stopped" =>
    \A b \in bps \cap enable : instr[b] + load \in Mapped => mem[instr[b] + load] = INT3

\* ... and a location whose breakpoints are all disabled does not.
DisabledSilent ==
  Quiet /\ proc = "stopped" =>
    \A a \in locs : (\A b \in members[a] : b \notin enable) => a \notin patched

=============================================================================
