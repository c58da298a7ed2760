----------------------------- MODULE LinkedLists -----------------------------
(***************************************************************************)
(* The table of Breakpoints with its lists as they are in memory: list.h,  *)
(* and what breakpoint.c and debugger.c do with it.                        *)
(*                                                                         *)
(* A list is a ring of nodes that lie inside what they link.  A breakpoint *)
(* has two, one for the list of all breakpoints and one for the list of    *)
(* its location; the heads lie in the debugger and in each location.  The  *)
(* two loops that change what they walk over take one step a turn.         *)
(*                                                                         *)
(* Breakpoints has sets instead, and says that they are lists in the order *)
(* of the ids.  ListsLinked is that promise, and LSpec => BPSpec that the  *)
(* walk of resolve_pending_breakpoints meets the least id first.           *)
(***************************************************************************)
EXTENDS Breakpoints

VARIABLES
  pendingNodes,   \* dbg->pending_breakpoints, and pending_node of each breakpoint
  locationNodes,  \* bp_list of each location, and location_node of each breakpoint
  walk            \* the loop under way, with its pos and n

listVars == <<pendingNodes, locationNodes, walk>>
lVars == <<bpmVars, listVars>>

\* A breakpoint's node is its id.  The heads: NULL is no address.
pending_breakpoints == NULL
bp_list(a) == -a
Nodes == Ids \cup {pending_breakpoints} \cup {bp_list(a) : a \in Addrs}

\* What a node contains that malloc has just returned, that was freed, or
\* whose list was freed: nothing that may be followed.
Garbage == MaxBps + 1

-----------------------------------------------------------------------------
(***************************************************************************)
(* list.h, on a ring r of next and prev pointers.                          *)
(***************************************************************************)
Ring == [next : [Nodes -> Int], prev : [Nodes -> Int]]

list_init(r, head) ==
  [next |-> [r.next EXCEPT ![head] = head], prev |-> [r.prev EXCEPT ![head] = head]]

list_add(r, new, prev, next) ==
  [next |-> [r.next EXCEPT ![new] = next, ![prev] = new],
   prev |-> [r.prev EXCEPT ![new] = prev, ![next] = new]]

\* Mutant: prev still points to the deleted node.
list_delete_next(r, target) == [r EXCEPT !.next[r.prev[target]] = r.next[target]]

list_add_back(r, head, new) == list_add(r, new, r.prev[head], head)

list_delete(r, target) ==
  [next |-> [r.next EXCEPT ![r.prev[target]] = r.next[target]],
   prev |-> [r.prev EXCEPT ![r.next[target]] = r.prev[target]]]

\* free of what the nodes in S lie in.
freed(r, S) ==
  [next |-> [x \in Nodes |-> IF x \in S THEN Garbage ELSE r.next[x]],
   prev |-> [x \in Nodes |-> IF x \in S THEN Garbage ELSE r.prev[x]]]

-----------------------------------------------------------------------------
(***************************************************************************)
(* The operations of the table that change lists.                          *)
(***************************************************************************)
NoWalk == [loop |-> "none", pos |-> pending_breakpoints, n |-> pending_breakpoints]

\* pos of a loop over the pending list, and n behind it; the loop is over when
\* pos is the head again.
walk_to(loop, pos, n) ==
  IF pos = pending_breakpoints THEN NoWalk ELSE [loop |-> loop, pos |-> pos, n |-> n]

LInit ==
  /\ BPInit
  /\ LET none == [x \in Nodes |-> Garbage]
     IN  /\ pendingNodes = list_init([next |-> none, prev |-> none], pending_breakpoints)
         /\ locationNodes = [next |-> none, prev |-> none]
  /\ walk = NoWalk

\* loc_init and loc_append_breakpoint_to_list.
linked(b, a) ==
  IF a \notin locs THEN list_add_back(list_init(locationNodes, bp_list(a)), bp_list(a), b)
  ELSE IF b \in members[a] THEN locationNodes
  ELSE list_add_back(locationNodes, bp_list(a), b)

add_breakpoint(i) ==
  /\ set_breakpoint(i)
  /\ pendingNodes' = list_add_back(pendingNodes, pending_breakpoints, nextId)
  /\ locationNodes' = IF active THEN linked(nextId, i + load) ELSE locationNodes
  /\ UNCHANGED walk

delete_breakpoint(b) ==
  /\ remove_breakpoint(b)
  /\ pendingNodes' = freed(list_delete(pendingNodes, b), {b})
  /\ locationNodes' =
       freed(IF location[b] = NULL THEN locationNodes ELSE list_delete(locationNodes, b), {b})
  /\ UNCHANGED walk

\* remove_all_breakpoints is a list_for_each_safe.  A turn deletes pos from the
\* pending list, frees the location at its running address with the head in it,
\* then the breakpoint with both its nodes; n was read before.
delete_all ==
  /\ LET pos == pendingNodes.next[pending_breakpoints]
     IN  walk' = walk_to("remove_all", pos, pendingNodes.next[pos])
  /\ UNCHANGED <<bpmVars, pendingNodes, locationNodes>>

\* The table is as Breakpoints has it when the last turn is over.
delete_turn ==
  /\ walk.loop = "remove_all"
  /\ LET b == walk.pos
     IN  /\ pendingNodes' = freed(list_delete(pendingNodes, b), {b})
         /\ locationNodes' = freed(locationNodes, {b, bp_list(instr[b] + load)})
         /\ walk' = walk_to("remove_all", walk.n, pendingNodes'.next[walk.n])
  /\ IF walk.n = pending_breakpoints THEN remove_all_breakpoints ELSE UNCHANGED bpmVars

\* resolve_pending_breakpoints is a list_for_each.
resolve_all ==
  /\ spawn_tracee
  /\ walk' = walk_to("resolve", pendingNodes.next[pending_breakpoints], pending_breakpoints)
  /\ UNCHANGED <<pendingNodes, locationNodes>>

resolve_turn ==
  /\ walk.loop = "resolve"
  /\ LET b == walk.pos
     IN  /\ todo' = todo \ {b}
         /\ attach(b, instr[b] + load, b \in enable)
         /\ locationNodes' = linked(b, instr[b] + load)
         /\ walk' = walk_to("resolve", pendingNodes.next[b], pending_breakpoints)
  /\ UNCHANGED <<proc, own, active, load, bpVars, lifted, pendingNodes>>

\* map_free on bp_locations: loc_free on each.
free_locations ==
  /\ locationNodes' = freed(locationNodes, Ids \cup {bp_list(a) : a \in Addrs})
  /\ UNCHANGED <<pendingNodes, walk>>

-----------------------------------------------------------------------------
\* The operations under the contract of BPNext, which holds through a loop.
\* A temporary location has no list (loc_init).
LNext ==
  \/ /\ Quiet /\ Attended /\ walk = NoWalk
     /\ \/ \E i \in InstrAddrs : add_breakpoint(i)
        \/ \E b \in Ids : delete_breakpoint(b)
        \/ delete_all
        \/ kill_tracee /\ free_locations
        \/ /\ \/ \E b \in Ids : bp_enable(b) \/ bp_disable(b)
              \/ enable_all_breakpoints
              \/ disable_all_breakpoints
              \/ \E S \in SUBSET Addrs : set_temp_bp_location(S)
              \/ \E a \in Mapped, v \in Written : write_memory(a, v)
           /\ UNCHANGED listVars
  \/ Quiet /\ proc = "none" /\ walk = NoWalk /\ resolve_all
  \/ delete_turn
  \/ resolve_turn
  \/ todo = {} /\ walk = NoWalk /\ reap_tracee /\ free_locations
  \/ /\ \/ todo = {} /\ walk = NoWalk /\ resume
        \/ todo = {} /\ lifted = NULL /\ walk = NoWalk /\ Attended /\
              \E a \in Addrs : lift(a) \/ (a \in temp /\ unset_temp_bp_location(a))
        \/ lifted # NULL /\ Attended /\ replant
        \/ stop
        \/ die
     /\ UNCHANGED listVars

LSpec == LInit /\ [][LNext]_lVars

-----------------------------------------------------------------------------
(***************************************************************************)
(* Properties.                                                             *)
(***************************************************************************)

\* y comes directly behind x in the ring of the ids S, in their order, and head.
adjacent(head, S, x, y) ==
  /\ y = head \/ x < y
  /\ ~ \E z \in S : x < z /\ (y = head \/ z < y)

\* The nodes of S and head are such a ring, in both directions.
Linked(r, head, S) ==
  \A x \in S \cup {head} :
    /\ r.next[x] \in S \cup {head} /\ adjacent(head, S, x, r.next[x])
    /\ r.prev[x] \in S \cup {head} /\ adjacent(head, S, r.prev[x], x)

\* The breakpoints that remove_all_breakpoints has freed so far.
gone == {b \in bps : walk.loop = "remove_all" /\ b < walk.pos}

\* The lists are what Breakpoints takes them for, after any sequence of
\* commands and in the middle of the two loops: a walk along the pending list
\* meets the breakpoints in the order of their ids, a walk along the list of a
\* location meets its breakpoints, in either direction, and no pointer in them
\* leads to a node that was freed or never initialised.  pos is the next
\* breakpoint of the loop, and the n that outlives it is the one behind it.
ListsLinked ==
  /\ Linked(pendingNodes, pending_breakpoints, bps \ gone)
  /\ \A a \in locs \ temp :
       members[a] \cap gone = {} => Linked(locationNodes, bp_list(a), members[a])
  /\ walk.loop = "none" => todo = {}
  /\ walk.loop = "resolve" => walk.pos \in todo /\ \A b \in todo : walk.pos <= b
  /\ walk.loop = "remove_all" =>
       /\ walk.pos \in bps
       /\ walk.n \in (bps \cup {pending_breakpoints})
       /\ adjacent(pending_breakpoints, bps, walk.pos, walk.n)

=============================================================================
