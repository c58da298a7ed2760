-------------------------- MODULE BreakpointsProofs --------------------------
(***************************************************************************)
(* Proofs about the breakpoint table, for every executable, every load     *)
(* address and any number of breakpoints.                                  *)
(***************************************************************************)
EXTENDS Breakpoints, TLAPS

\* What the debugger believes about the tracee: there is a process exactly
\* while the state is ACTIVE, and without one nothing of the table is left.
Life ==
  /\ active <=> proc # "none"
  /\ active => load = LoadBase
  /\ ~active => load = 0 /\ locs = {} /\ patched = {} /\ todo = {} /\ lifted = NULL

\* The pending list and the walk of resolve_pending_breakpoints over it.
Lists ==
  /\ \A b \in bps : b < nextId /\ instr[b] \in InstrAddrs
  /\ enable \subseteq bps
  /\ todo \subseteq bps
  /\ \A b \in todo : location[b] = NULL
  /\ todo # {} => temp = {} /\ lifted = NULL /\ proc # "running"
  /\ temp \subseteq locs

\* The location execute_step_over_loc has disabled still exists, still has
\* its owner and is not patched.
LiftedOwned ==
  lifted # NULL =>
    /\ lifted \in locs \ patched
    /\ lifted \in temp \/ members[lifted] # {}

TableInv ==
  BPTypeOK /\ Life /\ Lists /\ NoDangling /\ Resolved /\ PatchHasOwner /\ LiftedOwned

-----------------------------------------------------------------------------
\* The effect of loc_enable on the variables it changes.
LEMMA EnableEffect ==
  ASSUME BPTypeOK, NEW S \in SUBSET Addrs, loc_enable(S)
  PROVE  /\ saved' \in [Addrs -> Byte]
         /\ mem' \in [Mapped -> Byte]
         /\ patched' = patched \cup S
BY DEF BPTypeOK, loc_enable, Reach, PTRACE_PEEKDATA, PeekError, INT3, Byte

\* The effect of loc_disable on the variables it changes.
LEMMA DisableEffect ==
  ASSUME BPTypeOK, NEW S \in SUBSET Addrs, loc_disable(S)
  PROVE  /\ saved' \in [Addrs -> Byte]
         /\ mem' \in [Mapped -> Byte]
         /\ patched' = patched \ S
<1>1. \A a \in S : saved[a] \in Byte
  BY DEF BPTypeOK
<1>2. mem' \in [Mapped -> Byte]
  BY <1>1 DEF BPTypeOK, loc_disable
<1>3. saved' = saved /\ patched' = patched \ S
  BY DEF loc_disable
<1> QED
  BY <1>2, <1>3 DEF BPTypeOK

\* dbg_init establishes the invariant.
LEMMA InitTable == BPInit => TableInv
<1> SUFFICES ASSUME BPInit PROVE TableInv
  OBVIOUS
<1> USE ConstantsAssumption DEF NULL
<1>1. BPTypeOK
  <2>1. mem \in [Mapped -> Byte] /\ saved \in [Addrs -> Byte]
    BY DEF BPInit, Byte
  <2>2. nextId \in 1 .. MaxBps + 1
    BY DEF BPInit
  <2>3. /\ instr \in [Ids -> InstrAddrs \cup {NULL}]
        /\ location \in [Ids -> Addrs \cup {NULL}]
        /\ members \in [Addrs -> SUBSET Ids]
    BY DEF BPInit
  <2> QED
    BY <2>1, <2>2, <2>3 DEF BPInit, BPTypeOK
<1>2. Life /\ Lists /\ LiftedOwned
  BY DEF BPInit, Life, Lists, LiftedOwned
<1>3. NoDangling /\ Resolved /\ PatchHasOwner
  BY DEF BPInit, NoDangling, Resolved, PatchHasOwner
<1> QED
  BY <1>1, <1>2, <1>3 DEF TableInv

\* A running address is an address a location can have.
LEMMA RunningAddr ==
  ASSUME TableInv, active, NEW i \in InstrAddrs
  PROVE  i + load \in Addrs
BY DEF TableInv, Life, Addrs

\* set_breakpoint_at_addr, _at_func_symbol and _at_lineno keep the invariant.
LEMMA SetTable ==
  ASSUME TableInv, Quiet, NEW i \in InstrAddrs, set_breakpoint(i)
  PROVE  TableInv'
<1> USE ConstantsAssumption DEF NULL
<1> DEFINE b == nextId
<1>0. b \in Ids /\ b \notin bps /\ location[b] = NULL
  BY DEF TableInv, Lists, BPTypeOK, Ids, set_breakpoint, NoDangling
<1>1. CASE ~active
  <2>1. UNCHANGED <<tableVars, patchVars, proc, own, active, load, todo, lifted>>
    BY <1>1 DEF set_breakpoint
  <2> QED
    BY <1>0, <1>1, <2>1
    DEF set_breakpoint, TableInv, BPTypeOK, Life, Lists, NoDangling, Resolved,
        PatchHasOwner, LiftedOwned, Ids, tableVars, patchVars, Quiet
<1>2. CASE active
  <2> DEFINE a == i + load
  <2>1. a \in Addrs /\ a # NULL
    BY <1>2, RunningAddr
  <2>2. attach(b, a, TRUE)
    BY <1>2 DEF set_breakpoint
  <2>3. /\ saved' \in [Addrs -> Byte]
        /\ mem' \in [Mapped -> Byte]
        /\ patched' = patched \cup {a}
    <3>1. b \notin members[a]
      BY <1>0, <2>1 DEF TableInv, NoDangling
    <3>2. loc_enable({a})
      BY <2>2, <3>1 DEF attach
    <3> QED
      BY <2>1, <3>2, EnableEffect DEF TableInv
  <2>4. a \notin temp
    BY DEF Quiet
  <2>5. a \notin locs => members[a] = {}
    BY <2>1 DEF TableInv, NoDangling, BPTypeOK
  <2>6. /\ location' = [location EXCEPT ![b] = a]
        /\ locs' = locs \cup {a}
        /\ members' = [members EXCEPT ![a] = members[a] \cup {b}]
        /\ temp' = temp
    BY <2>1, <2>2, <2>5 DEF attach, TableInv, BPTypeOK
  <2>7. BPTypeOK'
    BY <1>0, <2>1, <2>3, <2>6 DEF set_breakpoint, TableInv, BPTypeOK, Ids
  <2>8. Life' /\ Lists'
    BY <1>0, <1>2, <2>6 DEF set_breakpoint, TableInv, BPTypeOK, Ids, Life, Lists, Quiet
  <2>9. NoDangling'
    BY <1>0, <2>1, <2>4, <2>6 DEF set_breakpoint, TableInv, BPTypeOK, NoDangling
  <2>10. Resolved'
    BY <1>0, <1>2, <2>6 DEF set_breakpoint, TableInv, BPTypeOK, Resolved, Lists
  <2>11. PatchHasOwner' /\ LiftedOwned'
    BY <2>1, <2>3, <2>6 DEF set_breakpoint, TableInv, BPTypeOK, PatchHasOwner, LiftedOwned, Quiet
  <2> QED
    BY <2>7, <2>8, <2>9, <2>10, <2>11 DEF TableInv
<1> QED
  BY <1>1, <1>2

\* Arming and disarming locations that have a breakpoint keeps the invariant.
LEMMA RepatchTable ==
  ASSUME TableInv, Quiet,
         UNCHANGED <<proc, own, active, load, nextId, bps, instr, tableVars, todo, lifted>>,
         enable' \subseteq bps,
         saved' \in [Addrs -> Byte], mem' \in [Mapped -> Byte],
         \A a \in patched' : a \in patched \/ (a \in locs /\ members[a] # {})
  PROVE  TableInv'
<1> USE ConstantsAssumption DEF NULL, tableVars
<1>1. patched' \subseteq Addrs /\ enable' \subseteq Ids
  BY DEF TableInv, BPTypeOK
<1>2. BPTypeOK'
  BY <1>1 DEF TableInv, BPTypeOK
<1>3. Life' /\ Lists'
  BY DEF TableInv, Life, Lists
<1>4. NoDangling' /\ Resolved'
  BY DEF TableInv, NoDangling, Resolved
<1>5. PatchHasOwner' /\ LiftedOwned'
  BY DEF TableInv, PatchHasOwner, LiftedOwned, Quiet
<1> QED
  BY <1>2, <1>3, <1>4, <1>5 DEF TableInv

\* enable and disable, of one breakpoint or of all, keep the invariant.
LEMMA ToggleTable ==
  ASSUME TableInv, Quiet,
         \/ \E b \in Ids : bp_enable(b) \/ bp_disable(b)
         \/ enable_all_breakpoints
         \/ disable_all_breakpoints
  PROVE  TableInv'
<1> USE ConstantsAssumption DEF NULL
<1>t. BPTypeOK
  BY DEF TableInv
<1>1. ASSUME NEW b \in Ids, bp_enable(b) PROVE TableInv'
  <2>1. enable' \subseteq bps
    BY <1>1 DEF bp_enable, TableInv, Lists
  <2>2. CASE UNCHANGED patchVars
    BY <1>1, <1>t, <2>1, <2>2, RepatchTable DEF bp_enable, BPTypeOK, patchVars
  <2>3. CASE location[b] # NULL /\ loc_enable({location[b]})
    <3>1. location[b] \in locs /\ members[location[b]] # {} /\ location[b] \in Addrs
      BY <2>3 DEF TableInv, NoDangling, BPTypeOK
    <3>2. /\ saved' \in [Addrs -> Byte]
          /\ mem' \in [Mapped -> Byte]
          /\ patched' = patched \cup {location[b]}
      BY <1>t, <2>3, <3>1, EnableEffect
    <3> QED
      BY <1>1, <2>1, <3>1, <3>2, RepatchTable DEF bp_enable
  <2> QED
    BY <1>1, <2>2, <2>3 DEF bp_enable
<1>2. ASSUME NEW b \in Ids, bp_disable(b) PROVE TableInv'
  <2>1. enable' \subseteq bps
    BY <1>2 DEF bp_disable, TableInv, Lists
  <2>2. CASE UNCHANGED patchVars
    BY <1>2, <1>t, <2>1, <2>2, RepatchTable DEF bp_disable, BPTypeOK, patchVars
  <2>3. CASE location[b] # NULL /\ loc_disable({location[b]})
    <3>1. location[b] \in Addrs
      BY <2>3, <1>t DEF BPTypeOK
    <3>2. /\ saved' \in [Addrs -> Byte]
          /\ mem' \in [Mapped -> Byte]
          /\ patched' = patched \ {location[b]}
      BY <1>t, <2>3, <3>1, DisableEffect
    <3> QED
      BY <1>2, <2>1, <3>2, RepatchTable DEF bp_disable
  <2> QED
    BY <1>2, <2>2, <2>3 DEF bp_disable
<1>3. CASE enable_all_breakpoints
  <2> DEFINE S == {a \in locs : members[a] # {}}
  <2>1. S \in SUBSET Addrs
    BY <1>t DEF BPTypeOK
  <2>2. /\ saved' \in [Addrs -> Byte]
        /\ mem' \in [Mapped -> Byte]
        /\ patched' = patched \cup S
    BY <1>t, <1>3, <2>1, EnableEffect DEF enable_all_breakpoints
  <2> QED
    BY <1>3, <2>2, RepatchTable DEF enable_all_breakpoints
<1>4. CASE disable_all_breakpoints
  <2> DEFINE S == {a \in locs : members[a] # {}}
  <2>1. S \in SUBSET Addrs
    BY <1>t DEF BPTypeOK
  <2>2. /\ saved' \in [Addrs -> Byte]
        /\ mem' \in [Mapped -> Byte]
        /\ patched' = patched \ S
    BY <1>t, <1>4, <2>1, DisableEffect DEF disable_all_breakpoints
  <2> QED
    BY <1>4, <2>2, RepatchTable DEF disable_all_breakpoints
<1> QED
  BY <1>1, <1>2, <1>3, <1>4

\* delete of one breakpoint keeps the invariant: its location stays, disabled
\* when it was the last one there.
LEMMA RemoveTable ==
  ASSUME TableInv, Quiet, NEW b \in Ids, remove_breakpoint(b)
  PROVE  TableInv'
<1> USE ConstantsAssumption DEF NULL
<1>t. BPTypeOK
  BY DEF TableInv
<1>1. /\ saved' \in [Addrs -> Byte]
      /\ mem' \in [Mapped -> Byte]
      /\ patched' \subseteq patched
      /\ location[b] # NULL /\ members[location[b]] = {b} => location[b] \notin patched'
  <2>1. CASE UNCHANGED patchVars /\ ~(location[b] # NULL /\ members[location[b]] = {b})
    BY <1>t, <2>1 DEF BPTypeOK, patchVars
  <2>2. CASE location[b] # NULL /\ loc_disable({location[b]})
    <3>1. location[b] \in Addrs
      BY <2>2, <1>t DEF BPTypeOK
    <3> QED
      BY <1>t, <2>2, <3>1, DisableEffect
  <2> QED
    BY <2>1, <2>2 DEF remove_breakpoint, list_empty
<1>2. \A a \in Addrs : members'[a] = members[a] \ {b}
  <2>1. CASE location[b] = NULL
    BY <2>1 DEF remove_breakpoint, TableInv, NoDangling, BPTypeOK
  <2>2. CASE location[b] # NULL
    BY <2>2 DEF remove_breakpoint, TableInv, NoDangling, BPTypeOK
  <2> QED
    BY <2>1, <2>2
<1>3. members' \in [Addrs -> SUBSET Ids]
  BY <1>t DEF remove_breakpoint, BPTypeOK
<1>4. BPTypeOK'
  BY <1>1, <1>3 DEF remove_breakpoint, TableInv, BPTypeOK
<1>5. Life' /\ Lists'
  BY <1>1 DEF remove_breakpoint, TableInv, BPTypeOK, Life, Lists, Quiet
<1>6. NoDangling' /\ Resolved'
  BY <1>2 DEF remove_breakpoint, TableInv, BPTypeOK, NoDangling, Resolved
<1>7. PatchHasOwner' /\ LiftedOwned'
  BY <1>1, <1>2 DEF remove_breakpoint, TableInv, BPTypeOK, NoDangling, PatchHasOwner,
                    LiftedOwned, Quiet
<1> QED
  BY <1>4, <1>5, <1>6, <1>7 DEF TableInv

\* delete of all breakpoints keeps the invariant: every location a breakpoint
\* points to is the one at its running address, so all of them are freed.
LEMMA RemoveAllTable ==
  ASSUME TableInv, Quiet, remove_all_breakpoints
  PROVE  TableInv'
<1> USE ConstantsAssumption DEF NULL
<1> DEFINE S == {a \in locs : \E b \in bps : a = instr[b] + load}
<1>t. BPTypeOK /\ S \in SUBSET Addrs
  BY DEF TableInv, BPTypeOK
<1>1. /\ loc_free(S) /\ loc_disable(S)
      /\ bps' = {} /\ enable' = {} /\ instr' = [b \in Ids |-> NULL]
      /\ UNCHANGED <<proc, own, active, load, nextId, todo, lifted>>
  BY DEF remove_all_breakpoints, loc_free
<1>2. /\ saved' \in [Addrs -> Byte]
      /\ mem' \in [Mapped -> Byte]
      /\ patched' = patched \ S
  BY <1>t, <1>1, DisableEffect
<1>3. \A b \in Ids : location'[b] = NULL
  <2> SUFFICES ASSUME NEW b \in Ids, location[b] # NULL
               PROVE  \E a \in S \ temp : b \in members[a]
    BY <1>1 DEF loc_free, forget
  <2>1. /\ b \in bps /\ location[b] \in locs \ temp /\ b \in members[location[b]]
    BY DEF TableInv, NoDangling
  <2>2. location[b] = instr[b] + load
    BY <2>1 DEF TableInv, Resolved, Quiet
  <2> QED
    BY <2>1, <2>2
<1>4. \A a \in Addrs : members'[a] = {}
  <2> SUFFICES ASSUME NEW a \in Addrs, a \notin S PROVE members[a] = {}
    BY <1>1 DEF loc_free
  <2> SUFFICES ASSUME NEW b \in members[a] PROVE FALSE
    OBVIOUS
  <2>1. b \in Ids /\ location[b] = a /\ a \in locs /\ a # NULL
    BY <1>t DEF TableInv, NoDangling, BPTypeOK
  <2>2. b \in bps /\ location[b] = instr[b] + load
    BY <2>1 DEF TableInv, NoDangling, Resolved, Quiet
  <2> QED
    BY <2>1, <2>2
<1>5. /\ locs' = locs \ S /\ temp' = {}
      /\ location' \in [Ids -> {NULL}]
      /\ members' \in [Addrs -> SUBSET Ids]
  BY <1>t, <1>1, <1>3 DEF loc_free, forget, Quiet, BPTypeOK
<1>6. BPTypeOK'
  BY <1>t, <1>1, <1>2, <1>5 DEF BPTypeOK
<1>7. Life' /\ Lists'
  BY <1>1, <1>2, <1>5 DEF TableInv, Life, Lists, Quiet
<1>8. NoDangling' /\ Resolved'
  BY <1>1, <1>3, <1>4 DEF NoDangling, Resolved
<1>9. PatchHasOwner' /\ LiftedOwned'
  <2>1. ASSUME NEW a \in patched' PROVE FALSE
    <3>1. a \in locs /\ a \notin S /\ members[a] # {} /\ a \in Addrs /\ a # NULL
      BY <1>t, <1>2, <2>1 DEF TableInv, PatchHasOwner, Quiet, BPTypeOK
    <3>2. PICK b \in members[a] : TRUE
      BY <3>1
    <3>3. b \in Ids /\ location[b] = a
      BY <3>1, <1>t DEF TableInv, NoDangling, BPTypeOK
    <3>4. b \in bps /\ location[b] = instr[b] + load
      BY <3>1, <3>3 DEF TableInv, NoDangling, Resolved, Quiet
    <3> QED
      BY <3>1, <3>3, <3>4
  <2> QED
    BY <1>1, <2>1 DEF PatchHasOwner, LiftedOwned, Quiet
<1> QED
  BY <1>6, <1>7, <1>8, <1>9 DEF TableInv

\* cleanup_at_tracee_death leaves an empty table.
LEMMA CleanupTable ==
  ASSUME TableInv, todo = {}, cleanup_at_tracee_death, todo' = {}, lifted' = NULL
  PROVE  TableInv'
<1> USE ConstantsAssumption DEF NULL
<1>t. BPTypeOK
  BY DEF TableInv
<1>1. \A b \in Ids : location'[b] = NULL
  BY DEF cleanup_at_tracee_death, forget, TableInv, NoDangling
<1>2. location' \in [Ids -> {NULL}] /\ members' \in [Addrs -> SUBSET Ids]
  BY <1>1 DEF cleanup_at_tracee_death, forget
<1>3. BPTypeOK'
  BY <1>t, <1>2 DEF cleanup_at_tracee_death, BPTypeOK, bpVars
<1>4. Life' /\ Lists'
  BY DEF cleanup_at_tracee_death, TableInv, Life, Lists, bpVars
<1>5. NoDangling'
  BY <1>1 DEF cleanup_at_tracee_death, NoDangling
<1>6. Resolved'
  BY <1>1, <1>t DEF cleanup_at_tracee_death, Resolved, bpVars, BPTypeOK
<1>7. PatchHasOwner' /\ LiftedOwned'
  BY DEF cleanup_at_tracee_death, PatchHasOwner, LiftedOwned
<1> QED
  BY <1>3, <1>4, <1>5, <1>6, <1>7 DEF TableInv

\* spawn_tracee up to the resolution of the breakpoints keeps the invariant.
LEMMA SpawnTable ==
  ASSUME TableInv, Quiet, proc = "none", spawn_tracee
  PROVE  TableInv'
<1> USE ConstantsAssumption DEF NULL, bpVars, tableVars
<1>1. BPTypeOK'
  BY DEF spawn_tracee, TableInv, BPTypeOK
<1>2. ~active /\ locs = {} /\ patched = {}
  BY DEF TableInv, Life
<1>3. \A b \in bps : location[b] = NULL
  BY <1>2 DEF TableInv, Resolved, Quiet
<1>4. Life'
  BY <1>2 DEF spawn_tracee, TableInv, Life, Quiet
<1>5. Lists'
  BY <1>3 DEF spawn_tracee, TableInv, Lists, Quiet
<1>6. NoDangling' /\ Resolved'
  BY DEF spawn_tracee, TableInv, NoDangling, Resolved
<1>7. PatchHasOwner' /\ LiftedOwned'
  BY <1>2 DEF spawn_tracee, PatchHasOwner, LiftedOwned, Quiet
<1> QED
  BY <1>1, <1>4, <1>5, <1>6, <1>7 DEF TableInv

\* A turn of the loop of resolve_pending_breakpoints keeps the invariant.
LEMMA ResolveTable ==
  ASSUME TableInv, resolve_pending_breakpoint
  PROVE  TableInv'
<1> USE ConstantsAssumption DEF NULL, bpVars
<1>t. BPTypeOK
  BY DEF TableInv
<1>1. PICK b \in todo : /\ todo' = todo \ {b}
                        /\ attach(b, instr[b] + load, b \in enable)
  BY DEF resolve_pending_breakpoint
<1> DEFINE a == instr[b] + load
<1>2. UNCHANGED <<proc, own, active, load, bpVars, lifted>>
  BY DEF resolve_pending_breakpoint
<1>3. /\ b \in bps /\ b \in Ids /\ location[b] = NULL /\ active
      /\ temp = {} /\ lifted = NULL /\ proc # "running"
  BY DEF TableInv, Lists, Life, BPTypeOK
<1>4. a \in Addrs /\ a # NULL
  BY <1>3, RunningAddr DEF TableInv, Lists
<1>5. b \notin members[a] /\ (a \notin locs => members[a] = {})
  BY <1>3, <1>4 DEF TableInv, NoDangling, BPTypeOK
<1>6. /\ location' = [location EXCEPT ![b] = a]
      /\ locs' = locs \cup {a}
      /\ members' = [members EXCEPT ![a] = members[a] \cup {b}]
      /\ temp' = {}
  BY <1>1, <1>3, <1>4, <1>5 DEF attach, BPTypeOK, TableInv
<1>7. /\ saved' \in [Addrs -> Byte]
      /\ mem' \in [Mapped -> Byte]
      /\ patched' \subseteq patched \cup {a}
  <2>1. CASE loc_enable({a})
    BY <1>t, <1>4, <2>1, EnableEffect
  <2>2. CASE loc_disable({a})
    BY <1>t, <1>4, <2>2, DisableEffect
  <2>3. CASE UNCHANGED patchVars
    BY <1>t, <2>3 DEF BPTypeOK, patchVars
  <2> QED
    BY <1>1, <2>1, <2>2, <2>3 DEF attach
<1>8. BPTypeOK'
  BY <1>t, <1>1, <1>2, <1>3, <1>4, <1>6, <1>7 DEF BPTypeOK
<1>9. Life' /\ Lists'
  BY <1>t, <1>1, <1>2, <1>3, <1>6 DEF TableInv, BPTypeOK, Life, Lists
<1>10. NoDangling'
  BY <1>t, <1>2, <1>3, <1>4, <1>6 DEF TableInv, BPTypeOK, NoDangling
<1>11. Resolved'
  BY <1>t, <1>1, <1>2, <1>3, <1>6 DEF TableInv, BPTypeOK, Resolved
<1>12. PatchHasOwner' /\ LiftedOwned'
  BY <1>t, <1>2, <1>3, <1>4, <1>6, <1>7
  DEF TableInv, BPTypeOK, PatchHasOwner, LiftedOwned
<1> QED
  BY <1>8, <1>9, <1>10, <1>11, <1>12 DEF TableInv

\* The temporary locations of finish and next keep the invariant.
LEMMA TempTable ==
  ASSUME TableInv, Quiet, NEW S \in SUBSET Addrs, set_temp_bp_location(S)
  PROVE  TableInv'
<1> USE ConstantsAssumption DEF NULL, bpVars
<1>t. BPTypeOK /\ S \ locs \in SUBSET Addrs
  BY DEF TableInv
<1>1. /\ active /\ loc_enable(S \ locs)
      /\ locs' = locs \cup S /\ temp' = S \ locs
      /\ UNCHANGED <<proc, own, active, load, bpVars, todo, location, members, lifted>>
  BY DEF set_temp_bp_location
<1>2. /\ saved' \in [Addrs -> Byte]
      /\ mem' \in [Mapped -> Byte]
      /\ patched' = patched \cup (S \ locs)
  BY <1>t, <1>1, EnableEffect
<1>3. BPTypeOK'
  BY <1>t, <1>1, <1>2 DEF BPTypeOK
<1>4. Life' /\ Lists'
  BY <1>1 DEF TableInv, Life, Lists, Quiet
<1>5. NoDangling' /\ Resolved'
  BY <1>1 DEF TableInv, NoDangling, Resolved
<1>6. PatchHasOwner' /\ LiftedOwned'
  BY <1>1, <1>2 DEF TableInv, PatchHasOwner, LiftedOwned, Quiet
<1> QED
  BY <1>3, <1>4, <1>5, <1>6 DEF TableInv

\* unset_temp_bp_location keeps the invariant.
LEMMA UnsetTable ==
  ASSUME TableInv, lifted = NULL, todo = {}, NEW a \in temp, unset_temp_bp_location(a)
  PROVE  TableInv'
<1> USE ConstantsAssumption DEF NULL, bpVars
<1>t. BPTypeOK /\ a \in Addrs
  BY DEF TableInv, BPTypeOK
<1>1. /\ active /\ loc_free({a}) /\ loc_disable({a})
      /\ UNCHANGED <<proc, own, active, load, bpVars, todo, lifted>>
  BY DEF unset_temp_bp_location, loc_free
<1>2. /\ saved' \in [Addrs -> Byte]
      /\ mem' \in [Mapped -> Byte]
      /\ patched' = patched \ {a}
  BY <1>t, <1>1, DisableEffect
<1>3. members[a] = {}
  BY <1>t DEF TableInv, NoDangling, BPTypeOK
<1>4. location' = location /\ members' = members
  BY <1>t, <1>1, <1>3 DEF loc_free, forget, BPTypeOK
<1>5. locs' = locs \ {a} /\ temp' = temp \ {a}
  BY <1>1 DEF loc_free
<1>6. BPTypeOK'
  BY <1>t, <1>1, <1>2, <1>4, <1>5 DEF BPTypeOK
<1>7. Life' /\ Lists'
  BY <1>1, <1>4, <1>5 DEF TableInv, Life, Lists
<1>8. NoDangling' /\ Resolved'
  BY <1>1, <1>4, <1>5 DEF TableInv, NoDangling, Resolved
<1>9. PatchHasOwner' /\ LiftedOwned'
  BY <1>1, <1>2, <1>4, <1>5 DEF TableInv, PatchHasOwner, LiftedOwned
<1> QED
  BY <1>6, <1>7, <1>8, <1>9 DEF TableInv

\* The two halves of execute_step_over_loc keep the invariant.
LEMMA LiftTable ==
  ASSUME TableInv, lifted = NULL, todo = {}, NEW a \in Addrs, lift(a)
  PROVE  TableInv'
<1> USE ConstantsAssumption DEF NULL, bpVars, tableVars
<1>t. BPTypeOK
  BY DEF TableInv
<1>1. /\ saved' \in [Addrs -> Byte]
      /\ mem' \in [Mapped -> Byte]
      /\ patched' = patched \ {a}
  BY <1>t, DisableEffect DEF lift
<1>2. a \in patched /\ a \in locs /\ (a \in temp \/ members[a] # {}) /\ active
  BY DEF lift, TableInv, PatchHasOwner, Life
<1>3. BPTypeOK'
  BY <1>t, <1>1 DEF lift, BPTypeOK
<1>4. Life' /\ Lists'
  BY <1>2 DEF lift, TableInv, Life, Lists
<1>5. NoDangling' /\ Resolved'
  BY DEF lift, TableInv, NoDangling, Resolved
<1>6. PatchHasOwner' /\ LiftedOwned'
  BY <1>1, <1>2 DEF lift, TableInv, PatchHasOwner, LiftedOwned
<1> QED
  BY <1>3, <1>4, <1>5, <1>6 DEF TableInv

\* Planting the lifted int3 again after the step over it keeps the table.
LEMMA ReplantTable ==
  ASSUME TableInv, lifted # NULL, replant
  PROVE  TableInv'
<1> USE ConstantsAssumption DEF NULL, bpVars, tableVars
<1>t. BPTypeOK /\ lifted \in Addrs
  BY DEF TableInv, BPTypeOK
<1>1. /\ saved' \in [Addrs -> Byte]
      /\ mem' \in [Mapped -> Byte]
      /\ patched' = patched \cup {lifted}
  BY <1>t, EnableEffect DEF replant
<1>2. lifted \in locs /\ (lifted \in temp \/ members[lifted] # {}) /\ active
  BY DEF TableInv, LiftedOwned, Life
<1>3. BPTypeOK'
  BY <1>t, <1>1 DEF replant, BPTypeOK
<1>4. Life' /\ Lists'
  BY <1>2 DEF replant, TableInv, Life, Lists
<1>5. NoDangling' /\ Resolved'
  BY DEF replant, TableInv, NoDangling, Resolved
<1>6. PatchHasOwner' /\ LiftedOwned'
  BY <1>1, <1>2 DEF replant, TableInv, PatchHasOwner, LiftedOwned
<1> QED
  BY <1>3, <1>4, <1>5, <1>6 DEF TableInv

\* memory write touches the table nowhere.
LEMMA WriteTable ==
  ASSUME TableInv, NEW a \in Mapped, NEW v \in Written, write_memory(a, v)
  PROVE  TableInv'
<1> USE ConstantsAssumption DEF NULL, bpVars, tableVars
<1>1. mem' \in [Mapped -> Byte] /\ own' \in [Mapped -> Byte]
  BY DEF write_memory, TableInv, BPTypeOK
<1>2. UNCHANGED <<proc, active, load, bpVars, todo, tableVars, patched, saved, lifted>>
  BY DEF write_memory
<1>3. BPTypeOK'
  BY <1>1, <1>2 DEF TableInv, BPTypeOK
<1>4. Life' /\ Lists'
  BY <1>2 DEF TableInv, Life, Lists
<1>5. NoDangling' /\ Resolved' /\ PatchHasOwner' /\ LiftedOwned'
  BY <1>2 DEF TableInv, NoDangling, Resolved, PatchHasOwner, LiftedOwned
<1> QED
  BY <1>3, <1>4, <1>5 DEF TableInv

\* What the kernel does to the process keeps the invariant.
LEMMA KernelTable ==
  ASSUME TableInv, (todo = {} /\ resume) \/ stop \/ die
  PROVE  TableInv'
<1> USE ConstantsAssumption DEF NULL, bpVars, tableVars, resume, stop, die
<1>0. /\ proc # "none" /\ proc' \in {"stopped", "running", "zombie"}
      /\ proc' = "running" => todo = {}
      /\ UNCHANGED <<mem, own, active, load, bpVars, todo, tableVars, patched, saved, lifted>>
  OBVIOUS
<1> HIDE DEF resume, stop, die
<1>1. BPTypeOK'
  BY <1>0 DEF TableInv, BPTypeOK
<1>2. Life' /\ Lists'
  BY <1>0 DEF TableInv, Life, Lists
<1>3. NoDangling' /\ Resolved'
  BY <1>0 DEF TableInv, NoDangling, Resolved
<1>4. PatchHasOwner' /\ LiftedOwned'
  BY <1>0 DEF TableInv, PatchHasOwner, LiftedOwned
<1> QED
  BY <1>1, <1>2, <1>3, <1>4 DEF TableInv

\* The invariant is inductive.
LEMMA NextTable == TableInv /\ [BPNext]_bpmVars => TableInv'
<1> SUFFICES ASSUME TableInv, [BPNext]_bpmVars PROVE TableInv'
  OBVIOUS
<1>1. CASE Quiet /\ manage
  <2>1. ASSUME NEW i \in InstrAddrs, set_breakpoint(i) PROVE TableInv'
    BY <1>1, <2>1, SetTable
  <2>2. ASSUME NEW b \in Ids, bp_enable(b) \/ bp_disable(b) PROVE TableInv'
    BY <1>1, <2>2, ToggleTable
  <2>3. ASSUME NEW b \in Ids, remove_breakpoint(b) PROVE TableInv'
    BY <1>1, <2>3, RemoveTable
  <2>4. CASE enable_all_breakpoints \/ disable_all_breakpoints
    BY <1>1, <2>4, ToggleTable
  <2>5. CASE remove_all_breakpoints
    BY <1>1, <2>5, RemoveAllTable
  <2>6. CASE kill_tracee
    BY <1>1, <2>6, CleanupTable DEF kill_tracee, Quiet
  <2>7. ASSUME NEW S \in SUBSET Addrs, set_temp_bp_location(S) PROVE TableInv'
    BY <1>1, <2>7, TempTable
  <2>8. ASSUME NEW a \in Mapped, NEW v \in Written, write_memory(a, v) PROVE TableInv'
    BY <2>8, WriteTable
  <2> QED
    BY <1>1, <2>1, <2>2, <2>3, <2>4, <2>5, <2>6, <2>7, <2>8 DEF manage
<1>2. CASE Quiet /\ proc = "none" /\ spawn_tracee
  BY <1>2, SpawnTable
<1>3. CASE resolve_pending_breakpoint
  BY <1>3, ResolveTable
<1>4. CASE todo = {} /\ reap_tracee
  BY <1>4, CleanupTable DEF reap_tracee
<1>5. CASE (todo = {} /\ resume) \/ stop \/ die
  BY <1>5, KernelTable
<1>6. ASSUME todo = {}, lifted = NULL, NEW a \in Addrs, lift(a) PROVE TableInv'
  BY <1>6, LiftTable
<1>7. ASSUME todo = {}, lifted = NULL, NEW a \in temp, unset_temp_bp_location(a)
      PROVE  TableInv'
  BY <1>7, UnsetTable
<1>8. CASE lifted # NULL /\ replant
  BY <1>8, ReplantTable
<1>9. CASE UNCHANGED bpmVars
  BY <1>9 DEF bpmVars, TableInv, BPTypeOK, Life, Lists, NoDangling, Resolved,
              PatchHasOwner, LiftedOwned
<1> QED
  BY <1>1, <1>2, <1>3, <1>4, <1>5, <1>6, <1>7, <1>8, <1>9 DEF BPNext

\* The table is well-formed in every reachable state, silent signals or not:
\* pointers between breakpoints and locations agree, every breakpoint sits at
\* its running address, and every patch has an owner.
THEOREM TableCorrect ==
  BPSpec => [](BPTypeOK /\ NoDangling /\ Resolved /\ PatchHasOwner)
<1>1. TableInv => BPTypeOK /\ NoDangling /\ Resolved /\ PatchHasOwner
  BY DEF TableInv
<1> QED
  BY <1>1, InitTable, NextTable, PTL DEF BPSpec

-----------------------------------------------------------------------------
(***************************************************************************)
(* The tracee's memory.  This needs the tracee to stand still while the    *)
(* table is changed (no silent signals) and the user not to write over a   *)
(* patched byte.                                                           *)
(***************************************************************************)

\* loc_enable keeps the memory intact while the tracee stands still.
LEMMA EnableMemory ==
  ASSUME BPTypeOK, MemoryIntact, proc # "running", proc' = proc, own' = own,
         NEW S \in SUBSET Addrs, loc_enable(S)
  PROVE  MemoryIntact'
BY DEF BPTypeOK, MemoryIntact, loc_enable, Reach, PTRACE_PEEKDATA, Addrs

\* loc_disable keeps the memory intact while the tracee stands still.
LEMMA DisableMemory ==
  ASSUME BPTypeOK, MemoryIntact, proc # "running", proc' = proc, own' = own,
         NEW S \in SUBSET Addrs, loc_disable(S)
  PROVE  MemoryIntact'
BY DEF BPTypeOK, MemoryIntact, loc_disable, Reach, Addrs

\* So does attaching a breakpoint to a location.
LEMMA AttachMemory ==
  ASSUME BPTypeOK, MemoryIntact, proc # "running", proc' = proc, own' = own,
         NEW b \in Ids, NEW a \in Addrs, NEW f, attach(b, a, f)
  PROVE  MemoryIntact'
<1>1. loc_enable({a}) \/ loc_disable({a}) \/ UNCHANGED patchVars
  BY DEF attach
<1>2. CASE UNCHANGED patchVars
  BY <1>2 DEF patchVars, MemoryIntact
<1> QED
  BY <1>1, <1>2, EnableMemory, DisableMemory

\* So does a write that meets no patch: memory and history change alike.
LEMMA WriteMemory ==
  ASSUME ~PokePatched, BPTypeOK, MemoryIntact,
         NEW a \in Mapped, NEW v \in Written, write_memory(a, v)
  PROVE  MemoryIntact'
<1>1. CASE Reach(a)
  <2>1. \A x \in Mapped \cap patched : mem'[x] = mem[x] /\ own'[x] = own[x]
    BY <1>1 DEF write_memory
  <2>2. \A x \in Mapped \ patched : mem[x] = own[x] => mem'[x] = own'[x]
    BY <1>1 DEF write_memory
  <2>3. UNCHANGED <<proc, patched, saved>>
    BY DEF write_memory
  <2> QED
    BY <2>1, <2>2, <2>3 DEF MemoryIntact
<1>2. CASE ~Reach(a)
  BY <1>2 DEF write_memory, MemoryIntact
<1> QED
  BY <1>1, <1>2

\* A command at the prompt keeps the memory intact.
LEMMA ManageMemory ==
  ASSUME ~PokePatched, TableInv, MemoryIntact, Quiet, proc # "running", manage
  PROVE  MemoryIntact'
<1> USE ConstantsAssumption DEF NULL
<1>t. BPTypeOK
  BY DEF TableInv
<1>u. ASSUME UNCHANGED patchVars, proc' = proc, own' = own PROVE MemoryIntact'
  BY <1>u DEF patchVars, MemoryIntact
<1>1. ASSUME NEW i \in InstrAddrs, set_breakpoint(i) PROVE MemoryIntact'
  <2>1. CASE ~active
    BY <1>1, <1>u, <2>1 DEF set_breakpoint
  <2>2. CASE active
    <3>1. i + load \in Addrs /\ nextId \in Ids
      BY <1>1, <1>t, <2>2, RunningAddr DEF set_breakpoint, BPTypeOK, Ids
    <3> QED
      BY <1>1, <1>t, <2>2, <3>1, AttachMemory DEF set_breakpoint
  <2> QED
    BY <2>1, <2>2
<1>2. ASSUME NEW b \in Ids, bp_enable(b) \/ bp_disable(b) \/ remove_breakpoint(b)
      PROVE  MemoryIntact'
  <2>1. location[b] # NULL => {location[b]} \in SUBSET Addrs
    BY <1>t DEF BPTypeOK
  <2>2. /\ proc' = proc /\ own' = own
        /\ \/ UNCHANGED patchVars
           \/ location[b] # NULL /\ loc_enable({location[b]})
           \/ location[b] # NULL /\ loc_disable({location[b]})
    BY <1>2 DEF bp_enable, bp_disable, remove_breakpoint
  <2> QED
    BY <1>t, <1>u, <2>1, <2>2, EnableMemory, DisableMemory
<1>3. CASE enable_all_breakpoints \/ disable_all_breakpoints
  <2>1. {a \in locs : members[a] # {}} \in SUBSET Addrs
    BY <1>t DEF BPTypeOK
  <2> QED
    BY <1>3, <1>t, <2>1, EnableMemory, DisableMemory
    DEF enable_all_breakpoints, disable_all_breakpoints
<1>4. CASE remove_all_breakpoints
  <2>1. {a \in locs : \E b \in bps : a = instr[b] + load} \in SUBSET Addrs
    BY <1>t DEF BPTypeOK
  <2> QED
    BY <1>4, <1>t, <2>1, DisableMemory DEF remove_all_breakpoints, loc_free
<1>5. CASE kill_tracee
  BY <1>5 DEF kill_tracee, cleanup_at_tracee_death, MemoryIntact
<1>6. ASSUME NEW S \in SUBSET Addrs, set_temp_bp_location(S) PROVE MemoryIntact'
  <2>1. S \ locs \in SUBSET Addrs
    OBVIOUS
  <2> QED
    BY <1>6, <1>t, <2>1, EnableMemory DEF set_temp_bp_location
<1>7. ASSUME NEW a \in Mapped, NEW v \in Written, write_memory(a, v) PROVE MemoryIntact'
  BY <1>7, <1>t, WriteMemory
<1> QED
  BY <1>1, <1>2, <1>3, <1>4, <1>5, <1>6, <1>7 DEF manage

\* Every step keeps the memory intact.
LEMMA NextMemory ==
  ASSUME ~SilentSignals, ~PokePatched, TableInv, MemoryIntact, [BPNext]_bpmVars
  PROVE  MemoryIntact'
<1> USE ConstantsAssumption DEF NULL
<1>t. BPTypeOK
  BY DEF TableInv
<1>a. Attended => proc # "running"
  BY DEF Attended
<1>1. CASE Quiet /\ Attended /\ manage
  BY <1>a, <1>1, ManageMemory
<1>2. CASE Quiet /\ proc = "none" /\ spawn_tracee
  BY <1>2 DEF spawn_tracee, TableInv, Life, MemoryIntact
<1>3. CASE resolve_pending_breakpoint
  <2>1. PICK b \in todo : attach(b, instr[b] + load, b \in enable)
    BY <1>3 DEF resolve_pending_breakpoint
  <2>2. active /\ b \in Ids /\ instr[b] \in InstrAddrs /\ proc # "running"
    BY DEF TableInv, Lists, Life, BPTypeOK
  <2>3. instr[b] + load \in Addrs
    BY <2>2, RunningAddr
  <2> QED
    BY <1>3, <1>t, <2>1, <2>2, <2>3, AttachMemory DEF resolve_pending_breakpoint
<1>4. CASE reap_tracee
  BY <1>4 DEF reap_tracee, cleanup_at_tracee_death, MemoryIntact
<1>5. CASE resume \/ stop \/ die
  BY <1>5 DEF resume, stop, die, MemoryIntact
<1>6. ASSUME Attended, NEW a \in Addrs, lift(a) PROVE MemoryIntact'
  BY <1>a, <1>t, <1>6, DisableMemory DEF lift
<1>7. ASSUME Attended, NEW a \in Addrs, unset_temp_bp_location(a) PROVE MemoryIntact'
  BY <1>a, <1>t, <1>7, DisableMemory DEF unset_temp_bp_location, loc_free
<1>8. CASE lifted # NULL /\ Attended /\ replant
  <2>1. {lifted} \in SUBSET Addrs
    BY <1>8, <1>t DEF BPTypeOK
  <2> QED
    BY <1>a, <1>t, <1>8, <2>1, EnableMemory DEF replant
<1>9. CASE UNCHANGED bpmVars
  BY <1>9 DEF bpmVars, MemoryIntact
<1> QED
  BY <1>1, <1>2, <1>3, <1>4, <1>5, <1>6, <1>7, <1>8, <1>9 DEF BPNext

\* Without silent signals and writes over a patch the patches are invisible:
\* 0xcc is exactly at the patched locations and loc_disable has the right
\* byte to restore.
THEOREM MemoryCorrect ==
  ASSUME ~SilentSignals, ~PokePatched
  PROVE  BPSpec => []MemoryIntact
<1>1. BPInit => MemoryIntact
  BY DEF BPInit, MemoryIntact
<1>2. TableInv /\ MemoryIntact /\ [BPNext]_bpmVars => MemoryIntact'
  BY NextMemory
<1> QED
  BY <1>1, <1>2, InitTable, NextTable, PTL DEF BPSpec

-----------------------------------------------------------------------------
(***************************************************************************)
(* Why patches come and go.                                                *)
(***************************************************************************)

\* What PatchStepsJustified says of one step.
Justified ==
  \A a \in locs' \ temp' :
    /\ a \in patched' \ patched =>
         members'[a] \cap enable' # {} \/ a = lifted
    /\ a \in patched \ patched' =>
         members'[a] \ enable' # {} \/ members'[a] = {} \/ a = lifted'

\* A breakpoint that gets its location arms it when it is enabled and disarms
\* it when it is not.
LEMMA AttachJustified ==
  ASSUME TableInv, NEW b \in Ids, NEW a \in Addrs, NEW flag \in BOOLEAN, attach(b, a, flag),
         flag <=> b \in enable'
  PROVE  Justified
<1>1. /\ a \in locs => members'[a] = members[a] \cup {b}
      /\ a \notin locs => members'[a] = {b}
  BY DEF attach, TableInv, BPTypeOK
<1>2. b \in members'[a]
  BY <1>1
<1>3. \/ patched' = patched
      \/ flag /\ patched' = patched \cup {a}
      \/ ~flag /\ patched' = patched \ {a}
  BY DEF attach, loc_enable, loc_disable, patchVars
<1> QED
  BY <1>2, <1>3 DEF Justified

\* The user's operations on the table.
LEMMA ManageJustified ==
  ASSUME TableInv, Quiet, manage
  PROVE  Justified
<1> USE ConstantsAssumption DEF NULL
<1>1. ASSUME NEW i \in InstrAddrs, set_breakpoint(i) PROVE Justified
  <2>1. CASE ~active
    BY <1>1, <2>1 DEF set_breakpoint, patchVars, Justified
  <2>2. CASE active
    <3>1. i + load \in Addrs /\ nextId \in Ids /\ nextId \in enable'
      BY <1>1, <2>2, RunningAddr DEF set_breakpoint, TableInv, BPTypeOK, Ids
    <3> QED
      BY <1>1, <2>2, <3>1, AttachJustified DEF set_breakpoint
  <2> QED
    BY <2>1, <2>2
<1>2. ASSUME NEW b \in Ids, bp_enable(b) PROVE Justified
  <2>1. members' = members /\ b \in enable'
    BY <1>2 DEF bp_enable, tableVars
  <2>2. \/ patched' = patched
        \/ location[b] # NULL /\ patched' = patched \cup {location[b]}
    BY <1>2 DEF bp_enable, loc_enable, patchVars
  <2>3. location[b] # NULL => b \in members[location[b]]
    BY DEF TableInv, NoDangling
  <2> QED
    BY <2>1, <2>2, <2>3 DEF Justified
<1>3. ASSUME NEW b \in Ids, bp_disable(b) PROVE Justified
  <2>1. members' = members /\ b \notin enable'
    BY <1>3 DEF bp_disable, tableVars
  <2>2. \/ patched' = patched
        \/ location[b] # NULL /\ patched' = patched \ {location[b]}
    BY <1>3 DEF bp_disable, loc_disable, patchVars
  <2>3. location[b] # NULL => b \in members[location[b]]
    BY DEF TableInv, NoDangling
  <2> QED
    BY <2>1, <2>2, <2>3 DEF Justified
<1>4. ASSUME NEW b \in Ids, remove_breakpoint(b) PROVE Justified
  <2>1. \/ patched' = patched
        \/ /\ location[b] \in Addrs /\ members[location[b]] = {b}
           /\ members' = [members EXCEPT ![location[b]] = @ \ {b}]
           /\ patched' = patched \ {location[b]}
    BY <1>4
    DEF remove_breakpoint, list_empty, loc_disable, patchVars, TableInv, BPTypeOK
  <2>2. \/ patched' = patched
        \/ members'[location[b]] = {} /\ patched' = patched \ {location[b]}
    BY <2>1 DEF TableInv, BPTypeOK
  <2> QED
    BY <2>2 DEF Justified
<1>5. CASE enable_all_breakpoints
  <2>1. /\ members' = members /\ enable' = bps
        /\ patched' = patched \cup {a \in locs : members[a] # {}}
    BY <1>5 DEF enable_all_breakpoints, loc_enable, tableVars
  <2>2. \A a \in locs : members[a] \subseteq bps
    <3> SUFFICES ASSUME NEW a \in locs, NEW b \in members[a] PROVE b \in bps
      OBVIOUS
    <3>1. a \in Addrs /\ b \in Ids
      BY DEF TableInv, BPTypeOK
    <3>2. location[b] = a /\ a # NULL
      BY <3>1 DEF TableInv, NoDangling
    <3> QED
      BY <3>1, <3>2 DEF TableInv, NoDangling
  <2> QED
    BY <2>1, <2>2 DEF Justified
<1>6. CASE disable_all_breakpoints
  <2>1. /\ members' = members /\ enable' = {}
        /\ patched' = patched \ {a \in locs : members[a] # {}}
    BY <1>6 DEF disable_all_breakpoints, loc_disable, tableVars
  <2> QED
    BY <2>1 DEF Justified
<1>7. CASE remove_all_breakpoints
  BY <1>7 DEF remove_all_breakpoints, loc_free, loc_disable, Justified
<1>8. CASE kill_tracee
  BY <1>8 DEF kill_tracee, cleanup_at_tracee_death, Justified
<1>9. ASSUME NEW S \in SUBSET Addrs, set_temp_bp_location(S) PROVE Justified
  BY <1>9 DEF set_temp_bp_location, loc_enable, Justified
<1>10. ASSUME NEW a \in Mapped, NEW v \in Written, write_memory(a, v) PROVE Justified
  BY <1>10 DEF write_memory, Justified
<1> QED
  BY <1>1, <1>2, <1>3, <1>4, <1>5, <1>6, <1>7, <1>8, <1>9, <1>10 DEF manage

\* A location is armed only for an enabled breakpoint and disarmed, while it
\* exists, only when a breakpoint there is disabled or none is left, but for
\* the single step over it: bp_enable, bp_disable, bp_free, the resolution at
\* the next start and set_temp_bp_location included, shared locations and
\* silent signals too.
THEOREM PatchesJustified == BPSpec => PatchStepsJustified
<1>1. TableInv /\ [BPNext]_bpmVars => [Justified]_bpmVars
  <2> SUFFICES ASSUME TableInv, BPNext PROVE Justified
    OBVIOUS
  <2>1. CASE Quiet /\ manage
    BY <2>1, ManageJustified
  <2>2. CASE spawn_tracee \/ resume \/ stop \/ die
    BY <2>2 DEF spawn_tracee, resume, stop, die, Justified
  <2>3. CASE resolve_pending_breakpoint
    <3>1. PICK b \in todo : attach(b, instr[b] + load, b \in enable)
      BY <2>3 DEF resolve_pending_breakpoint
    <3>2. active /\ b \in Ids /\ instr[b] \in InstrAddrs /\ enable' = enable
      BY <2>3 DEF resolve_pending_breakpoint, bpVars, TableInv, Lists, Life, BPTypeOK
    <3>3. instr[b] + load \in Addrs /\ (b \in enable) \in BOOLEAN
      BY <3>2, RunningAddr
    <3> QED
      BY <3>1, <3>2, <3>3, AttachJustified
  <2>4. CASE reap_tracee
    BY <2>4 DEF reap_tracee, cleanup_at_tracee_death, Justified
  <2>5. ASSUME NEW a \in Addrs, lift(a) \/ unset_temp_bp_location(a) PROVE Justified
    BY <2>5 DEF lift, unset_temp_bp_location, loc_free, loc_disable, Justified
  <2>6. CASE replant
    BY <2>6 DEF replant, loc_enable, Justified
  <2> QED
    BY <2>1, <2>2, <2>3, <2>4, <2>5, <2>6 DEF BPNext
<1> QED
  BY <1>1, InitTable, NextTable, PTL DEF BPSpec, PatchStepsJustified, Justified

-----------------------------------------------------------------------------
(***************************************************************************)
(* With one breakpoint per address the two layers of the table say the     *)
(* same: a location is armed exactly when its breakpoint is enabled.  What *)
(* the user relies on follows.  TableInv gives the pointers; here are the  *)
(* flags.                                                                  *)
(***************************************************************************)
\* No two breakpoints have the same address.
DistinctAddrs == \A b, c \in bps : instr[b] = instr[c] => b = c

\* A breakpoint's location is patched exactly when the breakpoint is enabled,
\* outside the single step over it ...
ArmedIffEnabled ==
  \A b \in bps : location[b] \notin {NULL, lifted} =>
    (location[b] \in patched <=> b \in enable)

\* ... and only an enabled breakpoint is stepped over, so that planting its
\* int3 again is right.
LiftedEnabled == \A b \in bps : location[b] # NULL /\ location[b] = lifted => b \in enable

SoleInv == DistinctAddrs /\ ArmedIffEnabled /\ LiftedEnabled

-----------------------------------------------------------------------------
\* A resolved breakpoint is at its file address plus the load address.
LEMMA LocationAddr ==
  ASSUME TableInv
  PROVE  /\ \A b \in bps : location[b] # NULL => location[b] = instr[b] + load
         /\ \A b \in bps : instr[b] \in Nat
         /\ load \in Nat
<1>1. \A b \in bps : location[b] # NULL => location[b] = instr[b] + load
  BY DEF TableInv, Resolved, Lists
<1>2. \A b \in bps : instr[b] \in Nat
  BY ConstantsAssumption DEF TableInv, Lists
<1>3. load \in Nat
  BY ConstantsAssumption DEF TableInv, BPTypeOK
<1> QED
  BY <1>1, <1>2, <1>3

\* A location has one breakpoint: two that share it would share their address.
LEMMA SoleMember ==
  ASSUME TableInv, DistinctAddrs
  PROVE  /\ \A b, c \in bps : location[b] # NULL /\ location[b] = location[c] => b = c
         /\ \A b \in bps : location[b] # NULL => members[location[b]] = {b}
<1>1. \A b, c \in bps : location[b] # NULL /\ location[b] = location[c] => b = c
  <2> SUFFICES ASSUME NEW b \in bps, NEW c \in bps,
                      location[b] # NULL, location[b] = location[c]
               PROVE  b = c
    OBVIOUS
  <2>1. /\ instr[b] + load = instr[c] + load
        /\ instr[b] \in Nat /\ instr[c] \in Nat /\ load \in Nat
    BY LocationAddr
  <2>2. instr[b] = instr[c]
    BY <2>1
  <2> QED
    BY <2>2 DEF DistinctAddrs
<1>2. \A b \in bps : location[b] # NULL => members[location[b]] = {b}
  <2> SUFFICES ASSUME NEW b \in bps, location[b] # NULL
               PROVE  members[location[b]] = {b}
    OBVIOUS
  <2>1. location[b] \in Addrs /\ b \in members[location[b]]
    BY DEF TableInv, BPTypeOK, NoDangling
  <2>2. \A c \in members[location[b]] : c \in bps /\ location[c] = location[b]
    BY <2>1 DEF TableInv, BPTypeOK, NoDangling
  <2> QED
    BY <1>1, <2>1, <2>2
<1> QED
  BY <1>1, <1>2

\* break keeps it: the new breakpoint has an address of its own.
LEMMA SetSole ==
  ASSUME ~AllowSharing, TableInv, SoleInv, Quiet, NEW i \in InstrAddrs, set_breakpoint(i)
  PROVE  SoleInv'
<1> USE ConstantsAssumption DEF NULL
<1> DEFINE b == nextId
<1>0. /\ b \in Ids /\ b \notin bps /\ location[b] = NULL
      /\ bps \subseteq Ids /\ bps' = bps \cup {b} /\ enable' = enable \cup {b}
      /\ lifted = NULL /\ lifted' = NULL
  BY DEF TableInv, Lists, BPTypeOK, Ids, set_breakpoint, NoDangling, Quiet
<1>1. DistinctAddrs'
  BY <1>0 DEF SoleInv, DistinctAddrs, set_breakpoint, TableInv, BPTypeOK
<1>2. CASE ~active
  <2>1. location' = location /\ patched' = patched
    BY <1>2 DEF set_breakpoint, tableVars, patchVars
  <2> QED
    BY <1>0, <1>1, <2>1 DEF SoleInv, ArmedIffEnabled, LiftedEnabled
<1>3. CASE active
  <2> DEFINE a == i + load
  <2>1. a \in Addrs
    BY <1>3, RunningAddr
  <2>2. b \notin members[a]
    BY <1>0, <2>1 DEF TableInv, NoDangling
  <2>3. location' = [location EXCEPT ![b] = a] /\ loc_enable({a})
    BY <1>3, <2>2 DEF set_breakpoint, attach
  <2>4. patched' = patched \cup {a}
    BY <2>1, <2>3, EnableEffect DEF TableInv
  <2>5. \A c \in bps : location[c] # NULL => location[c] # a
    <3> SUFFICES ASSUME NEW c \in bps, location[c] # NULL, location[c] = a
                 PROVE  FALSE
      OBVIOUS
    <3>1. instr[c] + load = i + load /\ instr[c] \in Nat /\ load \in Nat /\ i \in Nat
      BY LocationAddr
    <3>2. instr[c] = i
      BY <3>1
    <3> QED
      BY <3>2 DEF set_breakpoint
  <2>6. \A c \in bps : location'[c] = location[c]
    BY <1>0, <2>3 DEF TableInv, BPTypeOK
  <2>7. location'[b] = a
    BY <1>0, <2>3 DEF TableInv, BPTypeOK
  <2>8. ArmedIffEnabled' /\ LiftedEnabled'
    BY <1>0, <2>1, <2>4, <2>5, <2>6, <2>7 DEF SoleInv, ArmedIffEnabled, LiftedEnabled
  <2> QED
    BY <1>1, <2>8 DEF SoleInv
<1> QED
  BY <1>2, <1>3

\* enable and disable, of one breakpoint or of all, keep it: all the
\* breakpoints of a location are one.
LEMMA ToggleSole ==
  ASSUME TableInv, SoleInv, Quiet,
         \/ \E b \in Ids : bp_enable(b) \/ bp_disable(b)
         \/ enable_all_breakpoints
         \/ disable_all_breakpoints
  PROVE  SoleInv'
<1> USE ConstantsAssumption DEF NULL
<1>t. /\ BPTypeOK /\ bps \subseteq Ids /\ lifted = NULL /\ lifted' = NULL
      /\ bps' = bps /\ instr' = instr /\ location' = location
  BY DEF TableInv, BPTypeOK, Quiet, bp_enable, bp_disable, enable_all_breakpoints,
         disable_all_breakpoints, tableVars
<1>m. /\ \A b, c \in bps : location[b] # NULL /\ location[b] = location[c] => b = c
      /\ \A b \in bps : location[b] # NULL => members[location[b]] = {b}
      /\ \A b \in bps : location[b] # NULL => location[b] \in Addrs
  BY <1>t, SoleMember DEF SoleInv, BPTypeOK
<1>1. DistinctAddrs'
  BY <1>t DEF SoleInv, DistinctAddrs
<1>2. LiftedEnabled'
  BY <1>t DEF LiftedEnabled
<1>3. ASSUME NEW b \in Ids, bp_enable(b) PROVE ArmedIffEnabled'
  <2>1. b \in bps /\ enable' = enable \cup {b}
    BY <1>3 DEF bp_enable
  <2>2. CASE location[b] = NULL
    BY <1>3, <1>t, <2>1, <2>2 DEF bp_enable, patchVars, SoleInv, ArmedIffEnabled
  <2>3. CASE location[b] # NULL
    <3>1. loc_enable({location[b]})
      BY <1>3, <1>m, <2>1, <2>3 DEF bp_enable, to_patch
    <3>2. patched' = patched \cup {location[b]}
      BY <1>t, <1>m, <2>1, <2>3, <3>1, EnableEffect
    <3> QED
      BY <1>t, <1>m, <2>1, <2>3, <3>2 DEF SoleInv, ArmedIffEnabled
  <2> QED
    BY <2>2, <2>3
<1>4. ASSUME NEW b \in Ids, bp_disable(b) PROVE ArmedIffEnabled'
  <2>1. b \in bps /\ enable' = enable \ {b}
    BY <1>4 DEF bp_disable
  <2>2. CASE location[b] = NULL
    BY <1>4, <1>t, <2>1, <2>2 DEF bp_disable, patchVars, SoleInv, ArmedIffEnabled
  <2>3. CASE location[b] # NULL
    <3>1. loc_disable({location[b]})
      BY <1>4, <1>m, <2>1, <2>3 DEF bp_disable, to_remove_patch
    <3>2. patched' = patched \ {location[b]}
      BY <1>t, <1>m, <2>1, <2>3, <3>1, DisableEffect
    <3> QED
      BY <1>t, <1>m, <2>1, <2>3, <3>2 DEF SoleInv, ArmedIffEnabled
  <2> QED
    BY <2>2, <2>3
<1>5. DEFINE S == {a \in locs : members[a] # {}}
<1>6. \A b \in bps : location[b] # NULL => location[b] \in S
  BY <1>m DEF TableInv, NoDangling, BPTypeOK
<1>7. ASSUME enable_all_breakpoints PROVE ArmedIffEnabled'
  <2>1. enable' = bps /\ patched' = patched \cup S
    BY <1>7, <1>t, EnableEffect DEF enable_all_breakpoints, BPTypeOK
  <2> QED
    BY <1>t, <1>6, <2>1 DEF ArmedIffEnabled
<1>8. ASSUME disable_all_breakpoints PROVE ArmedIffEnabled'
  <2>1. enable' = {} /\ patched' = patched \ S
    BY <1>8, <1>t, DisableEffect DEF disable_all_breakpoints, BPTypeOK
  <2> QED
    BY <1>t, <1>6, <2>1 DEF ArmedIffEnabled
<1> QED
  BY <1>1, <1>2, <1>3, <1>4, <1>7, <1>8 DEF SoleInv

\* delete of one breakpoint keeps it: the others have other locations.
LEMMA RemoveSole ==
  ASSUME TableInv, SoleInv, Quiet, NEW b \in Ids, remove_breakpoint(b)
  PROVE  SoleInv'
<1> USE ConstantsAssumption DEF NULL
<1>t. /\ BPTypeOK /\ bps \subseteq Ids /\ lifted = NULL /\ lifted' = NULL
      /\ b \in bps /\ bps' = bps \ {b} /\ enable' = enable \ {b}
      /\ \A c \in bps' : instr'[c] = instr[c] /\ location'[c] = location[c]
  BY DEF TableInv, BPTypeOK, Quiet, remove_breakpoint
<1>m. /\ \A c \in bps' : location[c] # NULL => location[c] # location[b]
      /\ \A c \in bps : location[c] # NULL => location[c] \in Addrs
  BY <1>t, SoleMember DEF SoleInv, BPTypeOK
<1>1. DistinctAddrs' /\ LiftedEnabled'
  BY <1>t DEF SoleInv, DistinctAddrs, LiftedEnabled
<1>2. patched' = patched \/ (location[b] # NULL /\ patched' = patched \ {location[b]})
  BY <1>t, <1>m, DisableEffect DEF remove_breakpoint, patchVars
<1>3. ArmedIffEnabled'
  BY <1>t, <1>m, <1>2 DEF SoleInv, ArmedIffEnabled
<1> QED
  BY <1>1, <1>3 DEF SoleInv

\* A turn of the loop of resolve_pending_breakpoints keeps it: the location is
\* armed as the flag of its breakpoint says.
LEMMA ResolveSole ==
  ASSUME TableInv, SoleInv, resolve_pending_breakpoint
  PROVE  SoleInv'
<1> USE ConstantsAssumption DEF NULL
<1>1. PICK b \in todo : attach(b, instr[b] + load, b \in enable)
  BY DEF resolve_pending_breakpoint
<1> DEFINE a == instr[b] + load
<1>t. /\ BPTypeOK /\ bps \subseteq Ids /\ lifted = NULL /\ lifted' = NULL
      /\ bps' = bps /\ instr' = instr /\ enable' = enable
      /\ b \in bps /\ b \in Ids /\ instr[b] \in InstrAddrs /\ location[b] = NULL /\ active
  BY DEF TableInv, BPTypeOK, Lists, Life, resolve_pending_breakpoint, bpVars
<1>2. a \in Addrs
  BY <1>t, RunningAddr
<1>3. b \notin members[a] /\ (a \notin locs => a \notin patched)
  BY <1>t, <1>2 DEF TableInv, NoDangling, PatchHasOwner
<1>4. patched' = IF b \in enable THEN patched \cup {a} ELSE patched \ {a}
  <2>1. CASE b \in enable
    <3>1. loc_enable({a})
      BY <1>1, <1>3, <2>1 DEF attach
    <3> QED
      BY <1>t, <1>2, <2>1, <3>1, EnableEffect
  <2>2. CASE b \notin enable /\ a \in locs
    <3>1. loc_disable({a})
      BY <1>1, <1>3, <2>2 DEF attach
    <3> QED
      BY <1>t, <1>2, <2>2, <3>1, DisableEffect
  <2>3. CASE b \notin enable /\ a \notin locs
    BY <1>1, <1>3, <2>3 DEF attach, patchVars
  <2> QED
    BY <2>1, <2>2, <2>3
<1>5. location' = [location EXCEPT ![b] = a]
  BY <1>1 DEF attach
<1>6. /\ location'[b] = a
      /\ \A c \in bps \ {b} : location'[c] = location[c]
  BY <1>t, <1>5 DEF BPTypeOK
<1>7. \A c \in bps \ {b} : location[c] # NULL => location[c] # a
  <2> SUFFICES ASSUME NEW c \in bps \ {b}, location[c] # NULL, location[c] = a
               PROVE  FALSE
    OBVIOUS
  <2>1. instr[c] + load = instr[b] + load /\ instr[c] \in Nat /\ instr[b] \in Nat /\ load \in Nat
    BY <1>t, LocationAddr
  <2>2. instr[c] = instr[b]
    BY ONLY <2>1
  <2> QED
    BY <1>t, <2>2 DEF SoleInv, DistinctAddrs
<1>8. ArmedIffEnabled' /\ LiftedEnabled'
  BY <1>t, <1>4, <1>6, <1>7 DEF SoleInv, ArmedIffEnabled, LiftedEnabled
<1> QED
  BY <1>t, <1>8 DEF SoleInv, DistinctAddrs

\* The temporary locations of finish and next keep it: they are where no
\* breakpoint is.
LEMMA TempSole ==
  ASSUME TableInv, SoleInv,
         \/ \E S \in SUBSET Addrs : set_temp_bp_location(S)
         \/ \E a \in temp : unset_temp_bp_location(a)
  PROVE  SoleInv'
<1> USE ConstantsAssumption DEF NULL
<1>t. /\ BPTypeOK /\ bps \subseteq Ids /\ lifted' = lifted
      /\ bps' = bps /\ instr' = instr /\ enable' = enable
      /\ temp \subseteq Addrs
  BY DEF TableInv, BPTypeOK, set_temp_bp_location, unset_temp_bp_location, bpVars
<1>l. \A b \in bps : location[b] # NULL => location[b] \in locs \ temp
  BY <1>t DEF TableInv, NoDangling
<1>1. ASSUME NEW S \in SUBSET Addrs, set_temp_bp_location(S) PROVE SoleInv'
  <2>1. location' = location /\ patched' = patched \cup (S \ locs)
    BY <1>1, <1>t, EnableEffect DEF set_temp_bp_location
  <2> QED
    BY <1>t, <1>l, <2>1 DEF SoleInv, DistinctAddrs, ArmedIffEnabled, LiftedEnabled
<1>2. ASSUME NEW a \in temp, unset_temp_bp_location(a) PROVE SoleInv'
  <2>1. patched' = patched \ {a} /\ location' = location
    <3>1. loc_disable({a}) /\ location' = forget({a})
      BY <1>2 DEF unset_temp_bp_location, loc_free
    <3>2. forget({a}) = location
      BY <1>t DEF forget, BPTypeOK
    <3> QED
      BY <1>t, <3>1, <3>2, DisableEffect
  <2> QED
    BY <1>t, <1>l, <2>1 DEF SoleInv, DistinctAddrs, ArmedIffEnabled, LiftedEnabled
<1> QED
  BY <1>1, <1>2

\* The step over a breakpoint keeps it: what is lifted was armed, so its
\* breakpoint is enabled, and it is armed again.
LEMMA LiftSole ==
  ASSUME TableInv, SoleInv,
         \/ lifted = NULL /\ \E a \in Addrs : lift(a)
         \/ lifted # NULL /\ replant
  PROVE  SoleInv'
<1> USE ConstantsAssumption DEF NULL
<1>t. /\ BPTypeOK /\ bps \subseteq Ids
      /\ bps' = bps /\ instr' = instr /\ enable' = enable /\ location' = location
  BY DEF TableInv, BPTypeOK, lift, replant, bpVars, tableVars
<1>1. ASSUME NEW a \in Addrs, lift(a), lifted = NULL PROVE SoleInv'
  <2>1. a \in patched /\ patched' = patched \ {a} /\ lifted' = a
    BY <1>1, <1>t, DisableEffect DEF lift
  <2> QED
    BY <1>t, <1>1, <2>1 DEF SoleInv, DistinctAddrs, ArmedIffEnabled, LiftedEnabled
<1>2. ASSUME lifted # NULL, replant PROVE SoleInv'
  <2>1. patched' = patched \cup {lifted} /\ lifted' = NULL
    BY <1>2, <1>t, EnableEffect DEF replant, BPTypeOK
  <2> QED
    BY <1>t, <1>2, <2>1 DEF SoleInv, DistinctAddrs, ArmedIffEnabled, LiftedEnabled
<1> QED
  BY <1>1, <1>2

\* The death of the tracee, and deleting everything, leave no breakpoint with a
\* location.
LEMMA EmptySole ==
  ASSUME TableInv, SoleInv, TableInv',
         remove_all_breakpoints \/ kill_tracee \/ reap_tracee
  PROVE  SoleInv'
<1>1. CASE remove_all_breakpoints
  BY <1>1 DEF remove_all_breakpoints, SoleInv, DistinctAddrs, ArmedIffEnabled, LiftedEnabled
<1>2. CASE kill_tracee \/ reap_tracee
  <2>1. bps' = bps /\ instr' = instr /\ ~active' /\ todo' = {}
    BY <1>2 DEF kill_tracee, reap_tracee, cleanup_at_tracee_death, bpVars, TableInv, Life
  <2>2. \A b \in bps' : location'[b] = NULL
    BY <2>1 DEF TableInv, Resolved
  <2> QED
    BY <2>1, <2>2 DEF SoleInv, DistinctAddrs, ArmedIffEnabled, LiftedEnabled
<1> QED
  BY <1>1, <1>2

\* The other steps change nothing SoleInv speaks of.
LEMMA OtherSole ==
  ASSUME SoleInv,
         \/ spawn_tracee \/ resume \/ stop \/ die \/ UNCHANGED bpmVars
         \/ \E a \in Mapped, v \in Written : write_memory(a, v)
  PROVE  SoleInv'
BY DEF SoleInv, DistinctAddrs, ArmedIffEnabled, LiftedEnabled, spawn_tracee, resume, stop, die,
       write_memory, bpVars, tableVars, bpmVars

\* Every step keeps it.
LEMMA NextSole ==
  ASSUME ~AllowSharing, TableInv, TableInv', SoleInv, [BPNext]_bpmVars
  PROVE  SoleInv'
<1>1. CASE Quiet /\ manage
  <2>1. CASE \E i \in InstrAddrs : set_breakpoint(i)
    BY <1>1, <2>1, SetSole
  <2>2. CASE \/ \E b \in Ids : bp_enable(b) \/ bp_disable(b)
             \/ enable_all_breakpoints \/ disable_all_breakpoints
    BY <1>1, <2>2, ToggleSole
  <2>3. CASE \E b \in Ids : remove_breakpoint(b)
    BY <1>1, <2>3, RemoveSole
  <2>4. CASE remove_all_breakpoints \/ kill_tracee
    BY <2>4, EmptySole
  <2>5. CASE \E S \in SUBSET Addrs : set_temp_bp_location(S)
    BY <2>5, TempSole
  <2>6. CASE \E a \in Mapped, v \in Written : write_memory(a, v)
    BY <2>6, OtherSole
  <2> QED
    BY <1>1, <2>1, <2>2, <2>3, <2>4, <2>5, <2>6 DEF manage
<1>2. CASE spawn_tracee \/ resume \/ stop \/ die \/ UNCHANGED bpmVars
  BY <1>2, OtherSole
<1>3. CASE resolve_pending_breakpoint
  BY <1>3, ResolveSole
<1>4. CASE reap_tracee
  BY <1>4, EmptySole
<1>5. CASE (lifted = NULL /\ \E a \in Addrs : lift(a)) \/ (lifted # NULL /\ replant)
  BY <1>5, LiftSole
<1>6. CASE \E a \in temp : unset_temp_bp_location(a)
  BY <1>6, TempSole
<1> QED
  BY <1>1, <1>2, <1>3, <1>4, <1>5, <1>6 DEF BPNext

-----------------------------------------------------------------------------
\* What a user relies on at the prompt of a live tracee, with one breakpoint
\* per address, no silent signals and no write over a patch: bp_enable,
\* bp_disable, delete and the resolution at each start leave 0xcc at every
\* enabled breakpoint (EnabledStops) and at no disabled one (DisabledSilent).
THEOREM FlagsObeyed ==
  ASSUME ~AllowSharing, ~SilentSignals, ~PokePatched
  PROVE  BPSpec => [](EnabledStops /\ DisabledSilent)
<1>1. BPInit => SoleInv
  BY DEF BPInit, SoleInv, DistinctAddrs, ArmedIffEnabled, LiftedEnabled
<1>2. TableInv /\ MemoryIntact /\ SoleInv => DisabledSilent
  <2> SUFFICES ASSUME TableInv, SoleInv, Quiet, NEW a \in locs, a \in patched,
                      \A b \in members[a] : b \notin enable
               PROVE  FALSE
    BY DEF DisabledSilent
  <2>1. PICK b \in members[a] : a \notin temp
    BY DEF TableInv, PatchHasOwner, Quiet
  <2>2. a \in Addrs /\ b \in Ids
    BY DEF TableInv, BPTypeOK
  <2>3. location[b] = a /\ a # NULL
    BY <2>2, ConstantsAssumption DEF TableInv, NoDangling
  <2>4. b \in bps
    BY <2>2, <2>3 DEF TableInv, NoDangling
  <2> QED
    BY <2>1, <2>3, <2>4 DEF SoleInv, ArmedIffEnabled, Quiet
<1>3. TableInv /\ MemoryIntact /\ SoleInv => EnabledStops
  <2> SUFFICES ASSUME TableInv, MemoryIntact, SoleInv, Quiet, proc = "stopped",
                      NEW b \in bps \cap enable, instr[b] + load \in Mapped
               PROVE  mem[instr[b] + load] = INT3
    BY DEF EnabledStops
  <2>1. location[b] = instr[b] + load
    BY DEF TableInv, Life, Resolved, Quiet
  <2>2. location[b] # NULL
    BY <2>1, ConstantsAssumption DEF Addrs
  <2>3. location[b] \in patched
    BY <2>2 DEF SoleInv, ArmedIffEnabled, Quiet
  <2> QED
    BY <2>1, <2>3 DEF MemoryIntact
<1>4. TableInv /\ TableInv' /\ SoleInv /\ [BPNext]_bpmVars => SoleInv'
  BY NextSole
<1>5. BPSpec => []MemoryIntact
  BY MemoryCorrect
<1> QED
  BY <1>1, <1>2, <1>3, <1>4, <1>5, InitTable, NextTable, PTL DEF BPSpec

=============================================================================
