---------------------------- MODULE ListsProofs ----------------------------
(***************************************************************************)
(* Proofs about list.h in the breakpoint table, for every executable, any  *)
(* number of breakpoints and locations: what is linked is what the table   *)
(* says, and the table with linked lists implements the one with sets.     *)
(***************************************************************************)
EXTENDS LinkedLists, BreakpointsProofs

\* The heads: less than every id.
Heads == Nodes \ Ids

\* The rings have their type, and a loop is where Breakpoints thinks it is: what
\* is left to resolve is what lies at pos and behind it, and nothing else
\* happens while breakpoints are deleted.
Walk ==
  /\ pendingNodes \in Ring /\ locationNodes \in Ring
  /\ walk \in [loop : {"none", "resolve", "remove_all"},
               pos : Ids \cup {pending_breakpoints}, n : Ids \cup {pending_breakpoints}]
  /\ walk.loop = "none" => walk = NoWalk
  /\ walk.loop = "resolve" => todo = {b \in bps : walk.pos <= b}
  /\ walk.loop = "remove_all" => Quiet /\ Attended

\* The inductive invariant of the lists, besides that of the table.
ListsInv == ListsLinked /\ Walk

-----------------------------------------------------------------------------
(***************************************************************************)
(* Nodes.                                                                  *)
(***************************************************************************)

\* Running addresses are positive numbers.
LEMMA AddrPositive == Addrs \subseteq Nat \ {0}
<1>1. Mapped \subseteq Nat /\ InstrAddrs \subseteq Nat /\ LoadBase \in Nat /\ 0 \notin Addrs
  BY ConstantsAssumption DEF NULL
<1>2. \A i \in InstrAddrs : i + LoadBase \in Nat
  BY <1>1
<1>3. Addrs \subseteq Nat
  BY <1>1, <1>2 DEF Addrs
<1> QED
  BY <1>1, <1>3

\* A head is no breakpoint, and is below all of them.
LEMMA HeadBelow ==
  /\ pending_breakpoints \in Heads
  /\ \A a \in Addrs : bp_list(a) \in Heads /\ bp_list(a) # pending_breakpoints
  /\ \A h \in Heads : h \in Int /\ h <= 0
  /\ Nodes \subseteq Int
<1>1. MaxBps \in Nat /\ Ids \subseteq Nat \ {0}
  BY ConstantsAssumption DEF Ids
<1>2. \A a \in Addrs : bp_list(a) \in Int /\ bp_list(a) < 0
  BY AddrPositive DEF bp_list
<1>3. pending_breakpoints = 0
  BY DEF pending_breakpoints, NULL
<1>4. Nodes = Ids \cup {0} \cup {bp_list(a) : a \in Addrs}
  BY <1>3 DEF Nodes
<1>5. Heads = ({0} \cup {bp_list(a) : a \in Addrs}) \ Ids
  BY <1>4 DEF Heads
<1>6. 0 \notin Ids /\ \A a \in Addrs : bp_list(a) \notin Ids
  BY <1>1, <1>2
<1>7. Nodes \subseteq Int
  <2> DEFINE lists == {bp_list(a) : a \in Addrs}
  <2>1. Ids \subseteq Int /\ lists \subseteq Int /\ Nodes = Ids \cup {0} \cup lists
    BY <1>1, <1>2, <1>4
  <2> HIDE DEF lists
  <2> QED
    BY <2>1
<1>8. \A h \in Heads : h \in Int /\ h <= 0
  BY <1>2, <1>5
<1> HIDE DEF Heads
<1> QED
  BY <1>2, <1>3, <1>5, <1>6, <1>7, <1>8

\* Two locations have two heads.
LEMMA ListsApart ==
  ASSUME NEW a \in Addrs, NEW d \in Addrs, bp_list(a) = bp_list(d)
  PROVE  a = d
<1>1. a \in Int /\ d \in Int
  BY AddrPositive
<1> QED
  BY <1>1 DEF bp_list

-----------------------------------------------------------------------------
(***************************************************************************)
(* Rings: list_init, list_add_back and list_delete.                        *)
(***************************************************************************)

\* Two rings agree on the nodes in N.
Same(r, q, N) == \A x \in N : q.next[x] = r.next[x] /\ q.prev[x] = r.prev[x]

\* A ring is not disturbed by what happens to other nodes.
LEMMA LinkedSame ==
  ASSUME NEW r, NEW q, NEW head, NEW S, Linked(r, head, S), Same(r, q, S \cup {head})
  PROVE  Linked(q, head, S)
BY DEF Linked, Same

\* A node has one neighbour behind it and one in front.
LEMMA AdjacentOne ==
  ASSUME NEW head \in Heads, NEW S \in SUBSET Ids, NEW x \in S \cup {head},
         NEW y \in S \cup {head}, adjacent(head, S, x, y), NEW z \in S \cup {head}
  PROVE  /\ adjacent(head, S, z, y) => z = x
         /\ adjacent(head, S, x, z) => z = y
<1>1. head \in Int /\ head <= 0 /\ S \subseteq Int /\ \A i \in S : head < i
  BY HeadBelow, ConstantsAssumption DEF Ids
<1>2. x \in Int /\ y \in Int /\ z \in Int
  BY <1>1
<1>3. adjacent(head, S, z, y) => z = x
  BY <1>1, <1>2 DEF adjacent
<1>4. adjacent(head, S, x, z) => z = y
  BY <1>1, <1>2 DEF adjacent
<1> QED
  BY <1>3, <1>4

\* Nodes stay neighbours when an id is added that is greater than all, ...
LEMMA AdjacentMore ==
  ASSUME NEW head \in Heads, NEW S \in SUBSET Ids, NEW x \in S \cup {head}, NEW y \in S,
         NEW new \in Ids, \A z \in S : z < new, adjacent(head, S, x, y)
  PROVE  adjacent(head, S \cup {new}, x, y)
<1>1. y \in Int /\ new \in Int /\ y < new /\ y # head
  BY HeadBelow DEF Ids, Heads
<1> QED
  BY <1>1 DEF adjacent

\* ... and when another is taken away; those around it become neighbours.
LEMMA AdjacentLess ==
  ASSUME NEW head \in Heads, NEW S \in SUBSET Ids, NEW x \in S \cup {head},
         NEW y \in S \cup {head}, NEW target \in S,
         \/ adjacent(head, S, x, y)
         \/ adjacent(head, S, x, target) /\ adjacent(head, S, target, y)
  PROVE  adjacent(head, S \ {target}, x, y)
<1>1. head \in Int /\ head <= 0 /\ S \subseteq Int /\ head \notin S /\ \A i \in S : head < i
  BY HeadBelow, ConstantsAssumption DEF Ids, Heads
<1>2. x \in Int /\ y \in Int /\ target \in Int /\ target # head
  BY <1>1
<1>3. CASE adjacent(head, S, x, y)
  BY <1>3 DEF adjacent
<1>4. CASE adjacent(head, S, x, target) /\ adjacent(head, S, target, y)
  <2>1. x < target /\ (y = head \/ target < y)
    BY <1>2, <1>4 DEF adjacent
  <2>2. y = head \/ x < y
    BY <1>2, <2>1
  <2>3. ASSUME NEW z \in S \ {target}, x < z, y = head \/ z < y PROVE FALSE
    <3>1. z < target \/ target < z
      BY <1>1, <1>2, <2>3
    <3> QED
      BY <1>4, <2>3, <3>1 DEF adjacent
  <2> QED
    BY <2>2, <2>3 DEF adjacent
<1> QED
  BY <1>3, <1>4

\* list_init makes an empty ring.
LEMMA InitLinked ==
  ASSUME NEW r \in Ring, NEW head \in Heads
  PROVE  LET q == list_init(r, head)
         IN  q \in Ring /\ Linked(q, head, {}) /\ Same(r, q, Nodes \ {head})
<1> DEFINE q == list_init(r, head)
<1>1. head \in Nodes /\ head \in Int
  BY HeadBelow DEF Heads
<1>2. q \in Ring /\ q.next[head] = head /\ q.prev[head] = head
  BY <1>1 DEF list_init, Ring
<1>3. Linked(q, head, {})
  BY <1>2 DEF Linked, adjacent
<1>4. Same(r, q, Nodes \ {head})
  BY <1>1 DEF list_init, Ring, Same
<1> QED
  BY <1>2, <1>3, <1>4

\* list_add_back puts an id behind all others: the ring is that of one more.
LEMMA AddLinked ==
  ASSUME NEW r \in Ring, NEW head \in Heads, NEW S \in SUBSET Ids, Linked(r, head, S),
         NEW new \in Ids, \A x \in S : x < new
  PROVE  LET q == list_add_back(r, head, new)
         IN  /\ q \in Ring
             /\ Linked(q, head, S \cup {new})
             /\ Same(r, q, Nodes \ (S \cup {head, new}))
<1> DEFINE q == list_add_back(r, head, new)  last == r.prev[head]
<1>1. /\ head \in Nodes /\ head \in Int /\ head <= 0 /\ head \notin Ids
      /\ Ids \subseteq Nodes /\ new \in Int /\ new > 0 /\ \A x \in S : x \in Int /\ x > 0
  BY HeadBelow, ConstantsAssumption DEF Heads, Nodes, Ids
<1>2. last \in S \cup {head} /\ adjacent(head, S, last, head) /\ last # new /\ last \in Nodes
  BY <1>1 DEF Linked
<1>3. /\ q.next = [r.next EXCEPT ![new] = head, ![last] = new]
      /\ q.prev = [r.prev EXCEPT ![new] = last, ![head] = new]
  BY DEF list_add_back, list_add
<1>4. q \in Ring
  BY <1>1, <1>2 DEF list_add_back, list_add, Ring
<1>5. /\ q.next[new] = head /\ q.next[last] = new
      /\ q.prev[new] = last /\ q.prev[head] = new
      /\ \A x \in Nodes \ {new, last} : q.next[x] = r.next[x]
      /\ \A x \in Nodes \ {new, head} : q.prev[x] = r.prev[x]
  BY <1>1, <1>2, <1>3 DEF Ring
<1> HIDE DEF q, last
<1>6. ASSUME NEW x \in S \cup {head, new}
      PROVE  q.next[x] \in S \cup {head, new} /\ adjacent(head, S \cup {new}, x, q.next[x])
  <2>1. CASE x = new
    <3>1. adjacent(head, S \cup {new}, new, head)
      BY <1>1 DEF adjacent
    <3> QED
      BY <1>5, <2>1, <3>1
  <2>2. CASE x = last
    BY <1>1, <1>2, <1>5, <2>2 DEF adjacent
  <2>3. CASE x # new /\ x # last
    <3>1. q.next[x] = r.next[x] /\ r.next[x] \in S \cup {head} /\ adjacent(head, S, x, r.next[x])
      BY <1>1, <1>5, <2>3 DEF Linked
    <3>2. r.next[x] # head
      BY <1>2, <2>3, <3>1, AdjacentOne
    <3> QED
      BY <2>3, <3>1, <3>2, AdjacentMore
  <2> QED
    BY <2>1, <2>2, <2>3
<1>7. ASSUME NEW x \in S \cup {head, new}
      PROVE  q.prev[x] \in S \cup {head, new} /\ adjacent(head, S \cup {new}, q.prev[x], x)
  <2>1. CASE x = new
    BY <1>1, <1>2, <1>5, <2>1 DEF adjacent
  <2>2. CASE x = head
    BY <1>1, <1>2, <1>5, <2>2 DEF adjacent
  <2>3. CASE x # new /\ x # head
    <3>1. q.prev[x] = r.prev[x] /\ r.prev[x] \in S \cup {head} /\ adjacent(head, S, r.prev[x], x)
      BY <1>1, <1>5, <2>3 DEF Linked
    <3> QED
      BY <2>3, <3>1, AdjacentMore
  <2> QED
    BY <2>1, <2>2, <2>3
<1>8. Linked(q, head, S \cup {new})
  BY <1>6, <1>7 DEF Linked
<1>9. Same(r, q, Nodes \ (S \cup {head, new}))
  BY <1>2, <1>5 DEF Same
<1> QED
  BY <1>4, <1>8, <1>9 DEF q

\* list_delete takes an id from anywhere in the ring.
LEMMA DeleteLinked ==
  ASSUME NEW r \in Ring, NEW head \in Heads, NEW S \in SUBSET Ids, Linked(r, head, S),
         NEW target \in S
  PROVE  LET q == list_delete(r, target)
         IN  /\ q \in Ring
             /\ Linked(q, head, S \ {target})
             /\ Same(r, q, Nodes \ (S \cup {head}))
<1> DEFINE q == list_delete(r, target)  before == r.prev[target]  behind == r.next[target]
<1>1. /\ head \in Nodes /\ head \in Int /\ head <= 0 /\ head \notin Ids
      /\ Ids \subseteq Nodes /\ Nodes \subseteq Int /\ \A x \in S : x \in Int /\ x > 0
  BY HeadBelow, ConstantsAssumption DEF Heads, Nodes, Ids
<1>2. /\ before \in S \cup {head} /\ adjacent(head, S, before, target)
      /\ behind \in S \cup {head} /\ adjacent(head, S, target, behind)
      /\ before \in Nodes /\ behind \in Nodes
  BY <1>1 DEF Linked
<1>3. before # target /\ behind # target
  BY <1>1, <1>2 DEF adjacent
<1>4. q \in Ring
  BY <1>1, <1>2 DEF list_delete, Ring
<1>5. /\ q.next[before] = behind /\ q.prev[behind] = before
      /\ \A x \in Nodes \ {before} : q.next[x] = r.next[x]
      /\ \A x \in Nodes \ {behind} : q.prev[x] = r.prev[x]
  BY <1>1, <1>2 DEF Ring, list_delete
<1> HIDE DEF q, before, behind
<1>6. ASSUME NEW x \in (S \ {target}) \cup {head}
      PROVE  /\ q.next[x] \in (S \ {target}) \cup {head}
             /\ adjacent(head, S \ {target}, x, q.next[x])
  <2>1. CASE x = before
    BY <1>2, <1>3, <1>5, <2>1, AdjacentLess
  <2>2. CASE x # before
    <3>1. q.next[x] = r.next[x] /\ r.next[x] \in S \cup {head} /\ adjacent(head, S, x, r.next[x])
      BY <1>1, <1>5, <2>2 DEF Linked
    <3>2. r.next[x] # target
      BY <1>2, <2>2, <3>1, AdjacentOne
    <3> QED
      BY <3>1, <3>2, AdjacentLess
  <2> QED
    BY <2>1, <2>2
<1>7. ASSUME NEW x \in (S \ {target}) \cup {head}
      PROVE  /\ q.prev[x] \in (S \ {target}) \cup {head}
             /\ adjacent(head, S \ {target}, q.prev[x], x)
  <2>1. CASE x = behind
    BY <1>2, <1>3, <1>5, <2>1, AdjacentLess
  <2>2. CASE x # behind
    <3>1. q.prev[x] = r.prev[x] /\ r.prev[x] \in S \cup {head} /\ adjacent(head, S, r.prev[x], x)
      BY <1>1, <1>5, <2>2 DEF Linked
    <3>2. adjacent(head, S, target, x) => x = behind
      BY <1>2, AdjacentOne
    <3>3. r.prev[x] # target
      BY <2>2, <3>1, <3>2
    <3> QED
      BY <3>1, <3>3, AdjacentLess
  <2> QED
    BY <2>1, <2>2
<1>8. Linked(q, head, S \ {target})
  BY <1>6, <1>7 DEF Linked
<1>9. Same(r, q, Nodes \ (S \cup {head}))
  BY <1>2, <1>5 DEF Same
<1> QED
  BY <1>4, <1>8, <1>9 DEF q

\* free spoils what is freed and nothing else.
LEMMA FreedSame ==
  ASSUME NEW r \in Ring, NEW T
  PROVE  freed(r, T) \in Ring /\ Same(r, freed(r, T), Nodes \ T)
BY ConstantsAssumption DEF freed, Ring, Same, Garbage

\* The least and the greatest of a list.
LEMMA Ends ==
  ASSUME NEW S \in SUBSET Ids, NEW x \in S \cup {pending_breakpoints},
         NEW y \in S \cup {pending_breakpoints}, adjacent(pending_breakpoints, S, x, y)
  PROVE  /\ y = pending_breakpoints => \A z \in S : z <= x
         /\ y # pending_breakpoints => x < y /\ \A z \in S : x < z => y <= z
         /\ x = pending_breakpoints => \A z \in S : x < z
<1>1. pending_breakpoints = 0
  BY DEF pending_breakpoints, NULL
<1>2. x \in Int /\ y \in Int /\ \A z \in S : z \in Int /\ 0 < z
  BY <1>1, ConstantsAssumption DEF Ids
<1> QED
  BY <1>1, <1>2 DEF adjacent

-----------------------------------------------------------------------------
(***************************************************************************)
(* Between two commands.                                                   *)
(***************************************************************************)

\* dbg_init links an empty pending list.
LEMMA InitLists == LInit => ListsInv
<1> SUFFICES ASSUME LInit PROVE ListsInv
  OBVIOUS
<1> DEFINE none == [x \in Nodes |-> Garbage]
           r == [next |-> none, prev |-> none]
<1>1. r \in Ring
  BY ConstantsAssumption DEF Ring, Garbage
<1>2. pendingNodes = list_init(r, pending_breakpoints) /\ locationNodes = r
  BY DEF LInit
<1> HIDE DEF r
<1>3. pendingNodes \in Ring /\ Linked(pendingNodes, pending_breakpoints, {})
  BY <1>1, <1>2, HeadBelow, InitLinked
<1>4. bps = {} /\ locs = {} /\ todo = {} /\ walk = NoWalk
  BY DEF LInit, BPInit
<1>5. bps \ gone = {}
  BY <1>4 DEF gone
<1>6. NoWalk \in [loop : {"none", "resolve", "remove_all"},
                  pos : Ids \cup {pending_breakpoints}, n : Ids \cup {pending_breakpoints}]
  BY DEF NoWalk
<1>7. NoWalk.loop = "none"
  BY DEF NoWalk
<1> QED
  BY <1>1, <1>2, <1>3, <1>4, <1>5, <1>6, <1>7 DEF ListsInv, ListsLinked, Walk

\* What is meant by the walk between two commands.
LEMMA NotWalking ==
  ASSUME ListsInv, walk = NoWalk
  PROVE  /\ walk.loop = "none" /\ gone = {} /\ bps \ gone = bps /\ todo = {}
         /\ Linked(pendingNodes, pending_breakpoints, bps)
         /\ \A a \in locs \ temp : Linked(locationNodes, bp_list(a), members[a])
         /\ pendingNodes \in Ring /\ locationNodes \in Ring
<1>1. walk.loop = "none"
  BY DEF NoWalk
<1>2. gone = {}
  BY <1>1 DEF gone
<1>3. bps \ gone = bps
  BY <1>2
<1> QED
  BY <1>1, <1>2, <1>3 DEF ListsInv, ListsLinked, Walk

\* What has to be shown of a step that is not part of a loop.
LEMMA StillNotWalking ==
  ASSUME walk = NoWalk, UNCHANGED walk, todo' = {},
         pendingNodes' \in Ring, locationNodes' \in Ring,
         Linked(pendingNodes', pending_breakpoints, bps'),
         \A a \in locs' \ temp' : Linked(locationNodes', bp_list(a), members'[a])
  PROVE  ListsInv'
<1>1. walk' = NoWalk /\ walk'.loop = "none"
  BY DEF NoWalk
<1>2. gone' = {}
  BY <1>1 DEF gone
<1>3. bps' \ gone' = bps'
  BY <1>2
<1>4. walk' \in [loop : {"none", "resolve", "remove_all"},
                 pos : Ids \cup {pending_breakpoints}, n : Ids \cup {pending_breakpoints}]
  BY <1>1 DEF NoWalk
<1> QED
  BY <1>1, <1>2, <1>3, <1>4 DEF ListsInv, ListsLinked, Walk

-----------------------------------------------------------------------------
(***************************************************************************)
(* The operations, one by one.                                             *)
(***************************************************************************)

\* Attaching a breakpoint to a location, new or shared, links it into the list
\* of that location; ids are attached in their order.
LEMMA LinkedAttach ==
  ASSUME TableInv, ListsInv, gone = {}, temp = {},
         NEW b \in Ids, NEW a \in Addrs, NEW e \in BOOLEAN, location[b] = NULL,
         \A c \in bps : location[c] # NULL => c < b,
         attach(b, a, e), locationNodes' = linked(b, a)
  PROVE  /\ locationNodes' \in Ring
         /\ \A d \in locs' \ temp' : Linked(locationNodes', bp_list(d), members'[d])
<1>1. /\ members \in [Addrs -> SUBSET Ids] /\ locs \subseteq Addrs
      /\ \A d \in Addrs : \A c \in members[d] : c \in bps /\ d \in locs \ temp /\ location[c] = d /\ d # NULL
  BY ConstantsAssumption DEF TableInv, BPTypeOK, NoDangling
<1>2. \A d \in Addrs : b \notin members[d] /\ \A c \in members[d] : c < b
  BY <1>1
<1>3. \A d \in Addrs : bp_list(d) \in Heads /\ bp_list(d) \in Nodes /\ bp_list(d) \notin Ids
  BY HeadBelow DEF Heads
<1>4. \A d \in Addrs : d # a => bp_list(d) # bp_list(a)
  BY ListsApart
<1>5. /\ locs' = locs \cup {a} /\ temp' = temp
      /\ members' = [members EXCEPT ![a] = IF a \in locs THEN @ \cup {b} ELSE {b}]
  BY DEF attach
<1>6. locationNodes \in Ring /\ \A d \in locs : Linked(locationNodes, bp_list(d), members[d])
  BY DEF ListsInv, ListsLinked, Walk
<1>7. ASSUME NEW r \in Ring, NEW S \in SUBSET Ids, Linked(r, bp_list(a), S), \A c \in S : c < b,
             Same(locationNodes, r, Nodes \ {bp_list(a)}),
             locationNodes' = list_add_back(r, bp_list(a), b), members'[a] = S \cup {b},
             \A d \in locs : d # a => S \cap members[d] = {}
      PROVE  /\ locationNodes' \in Ring
             /\ \A d \in locs' : Linked(locationNodes', bp_list(d), members'[d])
  <2>1. /\ locationNodes' \in Ring
        /\ Linked(locationNodes', bp_list(a), S \cup {b})
        /\ Same(r, locationNodes', Nodes \ (S \cup {bp_list(a), b}))
    <3> DEFINE q == list_add_back(r, bp_list(a), b)
    <3>1. bp_list(a) \in Heads
      BY <1>3
    <3>2. q \in Ring /\ Linked(q, bp_list(a), S \cup {b}) /\ Same(r, q, Nodes \ (S \cup {bp_list(a), b}))
      BY <1>7, <3>1, AddLinked
    <3> QED
      BY <1>7, <3>2
  <2>2. ASSUME NEW d \in locs, d # a
        PROVE  Linked(locationNodes', bp_list(d), members'[d])
    <3>1. members'[d] = members[d] /\ members[d] \subseteq Ids /\ Ids \subseteq Nodes
      BY <1>1, <1>5, <2>2 DEF Nodes
    <3>2. members[d] \cup {bp_list(d)} \subseteq Nodes \ (S \cup {bp_list(a), b})
      BY <1>1, <1>2, <1>3, <1>4, <1>7, <2>2, <3>1
    <3>3. Same(locationNodes, locationNodes', members[d] \cup {bp_list(d)})
      BY <1>7, <2>1, <3>2 DEF Same
    <3> QED
      BY <1>6, <3>1, <3>3, LinkedSame
  <2> QED
    BY <1>5, <1>7, <2>1, <2>2
<1>8. CASE a \notin locs
  <2> DEFINE r == list_init(locationNodes, bp_list(a))
  <2>1. r \in Ring /\ Linked(r, bp_list(a), {}) /\ Same(locationNodes, r, Nodes \ {bp_list(a)})
    BY <1>3, <1>6, InitLinked
  <2>2. locationNodes' = list_add_back(r, bp_list(a), b) /\ members'[a] = {} \cup {b}
    BY <1>1, <1>5, <1>8 DEF linked
  <2> HIDE DEF r
  <2> QED
    BY <1>5, <1>7, <2>1, <2>2
<1>9. CASE a \in locs
  <2>1. locationNodes' = list_add_back(locationNodes, bp_list(a), b)
    BY <1>2, <1>9 DEF linked
  <2>2. members'[a] = members[a] \cup {b} /\ members[a] \in SUBSET Ids
    BY <1>1, <1>5, <1>9
  <2>3. \A d \in locs : d # a => members[a] \cap members[d] = {}
    BY <1>1
  <2>4. Same(locationNodes, locationNodes, Nodes \ {bp_list(a)})
    BY DEF Same
  <2> QED
    BY <1>2, <1>5, <1>6, <1>7, <1>9, <2>1, <2>2, <2>3, <2>4
<1> QED
  BY <1>8, <1>9

\* The set_breakpoint_at_* functions.
LEMMA AddLists ==
  ASSUME TableInv, ListsInv, Quiet, walk = NoWalk, NEW i \in InstrAddrs, add_breakpoint(i)
  PROVE  ListsInv'
<1>0. set_breakpoint(i) /\ UNCHANGED walk
  BY DEF add_breakpoint
<1>1. /\ nextId \in Ids /\ bps \in SUBSET Ids /\ \A c \in bps : c < nextId
      /\ location[nextId] = NULL
  BY ConstantsAssumption, <1>0 DEF TableInv, BPTypeOK, Lists, set_breakpoint, NoDangling, Ids
<1>2. bps' = bps \cup {nextId} /\ todo' = todo
  BY <1>0 DEF set_breakpoint
<1>3. pendingNodes' \in Ring /\ Linked(pendingNodes', pending_breakpoints, bps')
  <2>1. pendingNodes' = list_add_back(pendingNodes, pending_breakpoints, nextId)
    BY DEF add_breakpoint
  <2>2. pendingNodes \in Ring /\ pending_breakpoints \in Heads
        /\ Linked(pendingNodes, pending_breakpoints, bps)
    BY HeadBelow, NotWalking
  <2> QED
    BY <1>1, <1>2, <2>1, <2>2, AddLinked
<1>4. /\ locationNodes' \in Ring
      /\ \A a \in locs' \ temp' : Linked(locationNodes', bp_list(a), members'[a])
  <2>1. CASE active
    <3>1. i + load \in Addrs
      BY <2>1, RunningAddr
    <3>2. attach(nextId, i + load, TRUE) /\ locationNodes' = linked(nextId, i + load)
      BY <1>0, <2>1 DEF set_breakpoint, add_breakpoint
    <3>3. gone = {} /\ temp = {}
      BY NotWalking DEF Quiet
    <3> QED
      BY <1>1, <3>1, <3>2, <3>3, LinkedAttach
  <2>2. CASE ~active
    <3>1. UNCHANGED <<locs, temp, members, locationNodes>>
      BY <1>0, <2>2 DEF set_breakpoint, add_breakpoint, tableVars
    <3> QED
      BY <3>1, NotWalking
  <2> QED
    BY <2>1, <2>2
<1> QED
  BY <1>0, <1>2, <1>3, <1>4, NotWalking, StillNotWalking

\* remove_breakpoint: bp_free unlinks both nodes before it frees them.
LEMMA DeleteLists ==
  ASSUME TableInv, ListsInv, Quiet, walk = NoWalk, NEW b \in Ids, delete_breakpoint(b)
  PROVE  ListsInv'
<1>0. remove_breakpoint(b) /\ UNCHANGED walk
  BY DEF delete_breakpoint
<1>1. /\ bps \in SUBSET Ids /\ b \in bps
      /\ members \in [Addrs -> SUBSET Ids] /\ locs \subseteq Addrs
      /\ location \in [Ids -> Addrs \cup {NULL}]
  BY <1>0 DEF TableInv, BPTypeOK, remove_breakpoint
<1>2. bps' = bps \ {b} /\ todo' = todo /\ locs' = locs /\ temp' = temp
  BY <1>0 DEF remove_breakpoint
<1>3. \A a \in Addrs : bp_list(a) \in Nodes /\ bp_list(a) \notin Ids /\ bp_list(a) \in Heads
  BY HeadBelow DEF Heads
<1>4. pendingNodes' \in Ring /\ Linked(pendingNodes', pending_breakpoints, bps')
  <2> DEFINE r == list_delete(pendingNodes, b)
  <2>1. pendingNodes' = freed(r, {b})
    BY DEF delete_breakpoint
  <2>2. pendingNodes \in Ring /\ pending_breakpoints \in Heads
        /\ Linked(pendingNodes, pending_breakpoints, bps)
    BY HeadBelow, NotWalking
  <2>3. r \in Ring /\ Linked(r, pending_breakpoints, bps \ {b})
    BY <1>1, <2>2, DeleteLinked
  <2> HIDE DEF r
  <2>4. pendingNodes' \in Ring /\ Same(r, pendingNodes', Nodes \ {b})
    BY <2>1, <2>3, FreedSame
  <2>5. (bps \ {b}) \cup {pending_breakpoints} \subseteq Nodes \ {b}
    BY <1>1, <2>2 DEF Heads, Nodes
  <2>6. Same(r, pendingNodes', (bps \ {b}) \cup {pending_breakpoints})
    BY <2>4, <2>5 DEF Same
  <2> QED
    BY <1>2, <2>3, <2>4, <2>6, LinkedSame
<1>5. /\ locationNodes' \in Ring
      /\ \A a \in locs' \ temp' : Linked(locationNodes', bp_list(a), members'[a])
  <2>0. \A a \in Addrs : \A c \in members[a] : a \in locs \ temp /\ location[c] = a
    BY DEF TableInv, NoDangling
  <2>1. CASE location[b] = NULL
    <3>1. locationNodes' = freed(locationNodes, {b}) /\ members' = members
      BY <1>0, <2>1 DEF delete_breakpoint, remove_breakpoint
    <3>2. locationNodes' \in Ring /\ Same(locationNodes, locationNodes', Nodes \ {b})
      BY <3>1, NotWalking, FreedSame
    <3>3. ASSUME NEW a \in locs \ temp PROVE Linked(locationNodes', bp_list(a), members[a])
      <4>1. b \notin members[a] /\ members[a] \subseteq Ids
        BY <1>1, <2>0, <2>1, <3>3, ConstantsAssumption
      <4>2. Same(locationNodes, locationNodes', members[a] \cup {bp_list(a)})
        BY <1>1, <1>3, <3>2, <3>3, <4>1 DEF Same, Nodes
      <4> QED
        BY <3>3, <4>2, LinkedSame, NotWalking
    <3> QED
      BY <1>2, <3>1, <3>2, <3>3
  <2>2. CASE location[b] # NULL
    <3> DEFINE a == location[b]  r == list_delete(locationNodes, b)
    <3>1. a \in Addrs /\ a \in locs \ temp /\ b \in members[a]
      BY <1>1, <2>2 DEF TableInv, NoDangling
    <3>2. locationNodes' = freed(r, {b}) /\ members' = [members EXCEPT ![a] = @ \ {b}]
      BY <1>0, <2>2 DEF delete_breakpoint, remove_breakpoint
    <3> HIDE DEF a
    <3>3. /\ r \in Ring
          /\ Linked(r, bp_list(a), members[a] \ {b})
          /\ Same(locationNodes, r, Nodes \ (members[a] \cup {bp_list(a)}))
      <4>1. bp_list(a) \in Heads /\ members[a] \in SUBSET Ids
        BY <1>1, <1>3, <3>1
      <4>2. locationNodes \in Ring /\ Linked(locationNodes, bp_list(a), members[a])
        BY <3>1, NotWalking
      <4> QED
        BY <3>1, <4>1, <4>2, DeleteLinked
    <3> HIDE DEF r
    <3>4. locationNodes' \in Ring /\ Same(r, locationNodes', Nodes \ {b})
      BY <3>2, <3>3, FreedSame
    <3>5. ASSUME NEW d \in locs \ temp
          PROVE  Linked(locationNodes', bp_list(d), members'[d])
      <4>0. d \in Addrs /\ members[d] \subseteq Ids /\ members[d] \cup {bp_list(d)} \subseteq Nodes
            /\ b # bp_list(d)
        BY <1>1, <1>3, <3>5 DEF Nodes
      <4>1. CASE d = a
        <5>1. members'[d] = members[a] \ {b}
          BY <1>1, <3>1, <3>2, <4>1
        <5>2. Same(r, locationNodes', (members[a] \ {b}) \cup {bp_list(a)})
          BY <3>4, <4>0, <4>1 DEF Same
        <5> QED
          BY <3>3, <4>1, <5>1, <5>2, LinkedSame
      <4>2. CASE d # a
        <5>1. members'[d] = members[d]
          BY <1>1, <3>2, <4>0, <4>2
        <5>2. b \notin members[d] /\ members[d] \cap members[a] = {}
          BY <2>0, <3>1, <4>0, <4>2
        <5>3. bp_list(d) # bp_list(a)
          BY <3>1, <4>0, <4>2, ListsApart
        <5>4. members[d] \cup {bp_list(d)} \subseteq Nodes \ (members[a] \cup {bp_list(a)})
          BY <1>1, <1>3, <3>1, <4>0, <5>2, <5>3
        <5>5. Same(locationNodes, locationNodes', members[d] \cup {bp_list(d)})
          BY <3>3, <3>4, <4>0, <5>2, <5>4 DEF Same
        <5> QED
          BY <3>5, <5>1, <5>5, LinkedSame, NotWalking
      <4> QED
        BY <4>1, <4>2
    <3> QED
      BY <1>2, <3>4, <3>5
  <2> QED
    BY <2>1, <2>2
<1> QED
  BY <1>0, <1>2, <1>4, <1>5, NotWalking, StillNotWalking

\* Where a walk along the pending list begins.
LEMMA First ==
  ASSUME TableInv, ListsInv, walk = NoWalk
  PROVE  LET pos == pendingNodes.next[pending_breakpoints]
         IN  /\ pos \in bps \cup {pending_breakpoints}
             /\ pos = pending_breakpoints => bps = {}
             /\ \A b \in bps : pos <= b
<1> DEFINE pos == pendingNodes.next[pending_breakpoints]
<1>1. bps \in SUBSET Ids
  BY DEF TableInv, BPTypeOK
<1>2. /\ pos \in bps \cup {pending_breakpoints}
      /\ adjacent(pending_breakpoints, bps, pending_breakpoints, pos)
  BY NotWalking DEF Linked
<1> HIDE DEF pos
<1>3. \A b \in bps : pending_breakpoints < b /\ b \in Int
  BY <1>1, ConstantsAssumption DEF Ids, pending_breakpoints, NULL
<1>4. pos = pending_breakpoints => bps = {}
  BY <1>2, <1>3 DEF adjacent
<1>5. \A b \in bps : pos <= b
  BY <1>1, <1>2, <1>3, <1>4, Ends
<1> QED
  BY <1>2, <1>4, <1>5 DEF pos

\* remove_all_breakpoints reads pos and n before the first turn.
LEMMA DeleteAllLists ==
  ASSUME TableInv, ListsInv, Quiet, Attended, walk = NoWalk, delete_all
  PROVE  ListsInv'
<1> DEFINE pos == pendingNodes.next[pending_breakpoints]  n == pendingNodes.next[pos]
<1>1. /\ UNCHANGED <<bps, todo, temp, lifted, proc, locs, members, pendingNodes, locationNodes>>
      /\ walk' = walk_to("remove_all", pos, n)
  BY DEF delete_all, bpmVars
<1>2. /\ pos \in bps \cup {pending_breakpoints} /\ (pos = pending_breakpoints => bps = {})
      /\ \A b \in bps : pos <= b
  BY First
<1>3. bps \in SUBSET Ids /\ pending_breakpoints \notin Ids /\ \A b \in bps : b \in Int
  BY HeadBelow DEF TableInv, BPTypeOK, Heads, Ids
<1>4. n \in bps \cup {pending_breakpoints} /\ adjacent(pending_breakpoints, bps, pos, n)
  BY <1>2, NotWalking DEF Linked
<1> HIDE DEF pos, n
<1>5. CASE pos = pending_breakpoints
  <2>1. walk' = NoWalk
    BY <1>1, <1>5 DEF walk_to
  <2>2. UNCHANGED walk
    BY <2>1
  <2> QED
    BY <1>1, <2>2, NotWalking, StillNotWalking
<1>6. CASE pos # pending_breakpoints
  <2>1. walk' = [loop |-> "remove_all", pos |-> pos, n |-> n]
    BY <1>1, <1>6 DEF walk_to
  <2>2. gone' = {}
    BY <1>1, <1>2, <1>3, <1>6, <2>1 DEF gone
  <2>3. bps' \ gone' = bps
    BY <1>1, <2>2
  <2>4. Quiet' /\ Attended'
    BY <1>1 DEF Quiet, Attended
  <2>5. ListsLinked'
    BY <1>1, <1>2, <1>4, <1>6, <2>1, <2>2, <2>3, NotWalking DEF ListsLinked
  <2>6. Walk'
    BY <1>1, <1>2, <1>3, <1>4, <2>1, <2>4, NotWalking DEF Walk
  <2> QED
    BY <2>5, <2>6 DEF ListsInv
<1> QED
  BY <1>5, <1>6

\* A breakpoint that has a location is in the location's list.
LEMMA AtRunningAddr ==
  ASSUME TableInv, todo = {}
  PROVE  /\ \A d \in locs : \A b \in bps : d = instr[b] + load => b \in members[d]
         /\ \A d \in locs : \A b \in members[d] : b \in bps /\ d = instr[b] + load
<1>1. \A b \in bps : location[b] = IF active THEN instr[b] + load ELSE NULL
  BY DEF TableInv, Resolved
<1>2. locs # {} => active
  BY DEF TableInv, Life
<1>3. /\ locs \subseteq Addrs /\ NULL \notin Addrs /\ bps \subseteq Ids
      /\ members \in [Addrs -> SUBSET Ids]
  BY ConstantsAssumption DEF TableInv, BPTypeOK
<1>4. ASSUME NEW d \in locs, NEW b \in bps, d = instr[b] + load PROVE b \in members[d]
  <2>1. location[b] = d /\ d # NULL /\ b \in Ids
    BY <1>1, <1>2, <1>3, <1>4
  <2> QED
    BY <2>1 DEF TableInv, NoDangling
<1>5. ASSUME NEW d \in locs, NEW b \in members[d] PROVE b \in bps /\ d = instr[b] + load
  <2>1. location[b] = d /\ d # NULL /\ b \in Ids
    BY <1>3, <1>5 DEF TableInv, NoDangling
  <2>2. b \in bps
    BY <2>1 DEF TableInv, NoDangling
  <2> QED
    BY <1>1, <1>2, <2>1, <2>2
<1> QED
  BY <1>4, <1>5

\* Where a breakpoint is, or was in the file, is a number.
LEMMA RunningNat ==
  ASSUME TableInv, NEW b \in bps
  PROVE  instr[b] + load \in Nat
<1>1. instr[b] \in InstrAddrs /\ load \in {0, LoadBase}
  BY DEF TableInv, Lists, BPTypeOK
<1>2. InstrAddrs \subseteq Nat /\ LoadBase \in Nat
  BY ConstantsAssumption
<1>3. instr[b] \in Nat
  BY <1>1, <1>2
<1>4. load \in Nat
  BY <1>1, <1>2
<1> QED
  BY <1>3, <1>4

\* A turn frees a location before other breakpoints of its list: these never
\* look at the list again, and no other list has a node in what is freed.
LEMMA DeleteTurnLists ==
  ASSUME TableInv, ListsInv, delete_turn
  PROVE  ListsInv'
<1> DEFINE b == walk.pos  n == walk.n  S == bps \ gone  r == list_delete(pendingNodes, b)
           a == bp_list(instr[b] + load)
<1>1. /\ walk.loop = "remove_all" /\ b \in bps /\ n \in bps \cup {pending_breakpoints}
      /\ adjacent(pending_breakpoints, bps, b, n)
      /\ Quiet /\ Attended /\ pendingNodes \in Ring /\ locationNodes \in Ring
      /\ Linked(pendingNodes, pending_breakpoints, S)
  BY DEF delete_turn, ListsInv, ListsLinked, Walk
<1>2. /\ pendingNodes' = freed(r, {b}) /\ locationNodes' = freed(locationNodes, {b, a})
      /\ walk' = walk_to("remove_all", n, pendingNodes'.next[n])
  BY DEF delete_turn
<1>3. /\ bps \in SUBSET Ids /\ pending_breakpoints \notin Ids /\ pending_breakpoints \in Heads
      /\ pending_breakpoints \in Nodes /\ bps \subseteq Nodes /\ locs \subseteq Addrs
      /\ \A c \in bps : c \in Int /\ pending_breakpoints < c
  <2>1. bps \in SUBSET Ids /\ locs \subseteq Addrs
    BY DEF TableInv, BPTypeOK
  <2>2. pending_breakpoints \in Nodes /\ pending_breakpoints \notin Ids /\ Ids \subseteq Nodes
    BY HeadBelow DEF Heads, Nodes
  <2>3. \A c \in Ids : c \in Int /\ pending_breakpoints < c
    BY ConstantsAssumption DEF Ids, pending_breakpoints, NULL
  <2> QED
    BY <2>1, <2>2, <2>3, HeadBelow
<1>4. gone = {c \in bps : c < b}
  BY <1>1 DEF gone
<1>5. b \in S
  BY <1>1, <1>3, <1>4
<1>6. /\ n = pending_breakpoints => \A c \in bps : c <= b
      /\ n # pending_breakpoints => b < n /\ \A c \in bps : b < c => n <= c
  BY <1>1, <1>3, Ends
<1>7. r \in Ring /\ Linked(r, pending_breakpoints, S \ {b})
  BY <1>1, <1>3, <1>5, DeleteLinked
<1> HIDE DEF r
<1>8. pendingNodes' \in Ring /\ Linked(pendingNodes', pending_breakpoints, S \ {b})
  <2>1. pendingNodes' \in Ring /\ Same(r, pendingNodes', Nodes \ {b})
    BY <1>2, <1>7, FreedSame
  <2>2. Same(r, pendingNodes', (S \ {b}) \cup {pending_breakpoints})
    BY <1>1, <1>3, <2>1 DEF Same
  <2> QED
    BY <1>7, <2>1, <2>2, LinkedSame
<1>9. locationNodes' \in Ring /\ Same(locationNodes, locationNodes', Nodes \ {b, a})
  BY <1>1, <1>2, FreedSame
<1>10. instr[b] + load \in Nat
  BY <1>1, RunningNat
<1>11. ASSUME NEW d \in locs, members[d] \cap (gone \cup {b}) = {}
       PROVE  Linked(locationNodes', bp_list(d), members[d])
  <2>1. d \in locs \ temp /\ Linked(locationNodes, bp_list(d), members[d])
    BY <1>1, <1>11 DEF Quiet, ListsInv, ListsLinked
  <2>2. d # instr[b] + load
    BY <1>1, <1>11, AtRunningAddr DEF Quiet
  <2>3. bp_list(d) # a /\ bp_list(d) # b
    <3>1. d \in Int /\ d \in Addrs /\ bp_list(d) \notin Ids
      BY <1>3, <1>11, AddrPositive, HeadBelow DEF Heads
    <3>2. b \in bps /\ bps \subseteq Ids
      BY <1>1, <1>3
    <3>3. instr[b] + load \in Int
      BY <1>10
    <3> QED
      BY <2>2, <3>1, <3>2, <3>3 DEF bp_list
  <2>4. members[d] \subseteq Ids \ {b} /\ bp_list(d) \in Nodes /\ a \notin Ids
    <3>1. members[d] \subseteq Ids
      BY <1>3, <1>11 DEF TableInv, BPTypeOK
    <3>2. a <= 0 /\ a \in Int
      BY <1>10 DEF bp_list
    <3>3. a \notin Ids
      BY <3>2, ConstantsAssumption DEF Ids
    <3> QED
      BY <1>3, <1>11, <3>1, <3>3, HeadBelow DEF Heads
  <2>5. members[d] \cup {bp_list(d)} \subseteq Nodes \ {b, a}
    BY <2>3, <2>4 DEF Nodes
  <2>6. Same(locationNodes, locationNodes', members[d] \cup {bp_list(d)})
    BY <1>9, <2>5 DEF Same
  <2> QED
    BY <2>1, <2>6, LinkedSame
<1>12. CASE n = pending_breakpoints
  <2>1. remove_all_breakpoints /\ walk' = NoWalk
    BY <1>2, <1>12 DEF delete_turn, walk_to
  <2>2. bps' = {} /\ UNCHANGED todo
    BY <2>1 DEF remove_all_breakpoints
  <2>3. walk'.loop = "none" /\ gone' = {} /\ bps' \ gone' = {}
    BY <2>1, <2>2 DEF NoWalk, gone
  <2>4. S \ {b} = {}
    BY <1>3, <1>4, <1>5, <1>6, <1>12
  <2>5. ASSUME NEW d \in locs' \ temp'
        PROVE  Linked(locationNodes', bp_list(d), members'[d])
    <3>1. d \in locs /\ ~(\E c \in bps : d = instr[c] + load) /\ members'[d] = members[d]
      BY <1>3, <2>1 DEF remove_all_breakpoints, loc_free
    <3>2. members[d] = {}
      BY <1>1, <3>1, AtRunningAddr DEF Quiet
    <3> QED
      BY <1>11, <3>1, <3>2
  <2>6. walk' \in [loop : {"none", "resolve", "remove_all"},
                   pos : Ids \cup {pending_breakpoints}, n : Ids \cup {pending_breakpoints}]
    BY <2>1 DEF NoWalk
  <2> QED
    BY <1>1, <1>8, <1>9, <2>1, <2>2, <2>3, <2>4, <2>5, <2>6
    DEF ListsInv, ListsLinked, Walk, Quiet
<1>13. CASE n # pending_breakpoints
  <2> DEFINE m == pendingNodes'.next[n]
  <2>1. UNCHANGED bpmVars /\ walk' = [loop |-> "remove_all", pos |-> n, n |-> m]
    BY <1>2, <1>13 DEF delete_turn, walk_to
  <2>2. UNCHANGED <<bps, todo, temp, lifted, proc, locs, members>>
    BY <2>1 DEF bpmVars
  <2>3. gone' = gone \cup {b}
    <3>1. gone' = {c \in bps : c < n}
      BY <2>1, <2>2 DEF gone
    <3>2. n \in Int /\ b \in Int /\ \A c \in bps : c \in Int
      BY <1>1, <1>3, <1>13
    <3>3. \A c \in bps : c < n <=> c < b \/ c = b
      BY <1>1, <1>6, <1>13, <3>2
    <3> QED
      BY <1>1, <1>4, <3>1, <3>3
  <2>4. bps' \ gone' = S \ {b} /\ n \in S \ {b}
    BY <1>1, <1>3, <1>4, <1>6, <1>13, <2>2, <2>3
  <2>5. m \in (S \ {b}) \cup {pending_breakpoints}
        /\ adjacent(pending_breakpoints, S \ {b}, n, m)
    BY <1>8, <2>4 DEF Linked
  <2>6. m \in bps \cup {pending_breakpoints} /\ adjacent(pending_breakpoints, bps, n, m)
    <3>1. \A c \in bps : n < c => c \in S \ {b}
      BY <1>1, <1>3, <1>4, <1>6, <1>13
    <3> QED
      BY <2>5, <3>1 DEF adjacent
  <2>7. Quiet' /\ Attended'
    BY <1>1, <2>2 DEF Quiet, Attended
  <2>8. \A d \in locs' \ temp' :
          members'[d] \cap gone' = {} => Linked(locationNodes', bp_list(d), members'[d])
    BY <1>11, <2>2, <2>3
  <2> HIDE DEF m
  <2>9. ListsLinked'
    BY <1>1, <1>8, <1>13, <2>1, <2>2, <2>4, <2>6, <2>8 DEF ListsLinked
  <2>10. Walk'
    BY <1>1, <1>3, <1>8, <1>9, <1>13, <2>1, <2>6, <2>7 DEF Walk
  <2> QED
    BY <2>9, <2>10 DEF ListsInv
<1> QED
  BY <1>12, <1>13

\* resolve_pending_breakpoints begins with the first breakpoint.
LEMMA ResolveAllLists ==
  ASSUME TableInv, ListsInv, Quiet, proc = "none", walk = NoWalk, resolve_all
  PROVE  ListsInv'
<1> DEFINE pos == pendingNodes.next[pending_breakpoints]
<1>1. /\ UNCHANGED <<bps, locs, temp, members, pendingNodes, locationNodes>>
      /\ todo' = bps /\ walk' = walk_to("resolve", pos, pending_breakpoints)
  BY DEF resolve_all, spawn_tracee, bpVars, tableVars
<1>2. /\ pos \in bps \cup {pending_breakpoints} /\ (pos = pending_breakpoints => bps = {})
      /\ \A b \in bps : pos <= b
  BY First
<1>3. bps \in SUBSET Ids
  BY DEF TableInv, BPTypeOK
<1>4. locs' \ temp' = {}
  BY <1>1 DEF TableInv, Life
<1> HIDE DEF pos
<1>5. CASE pos = pending_breakpoints
  <2>1. walk' = NoWalk /\ UNCHANGED walk /\ todo' = {}
    BY <1>1, <1>2, <1>5 DEF walk_to
  <2> QED
    BY <1>1, <1>4, <2>1, NotWalking, StillNotWalking
<1>6. CASE pos # pending_breakpoints
  <2>1. walk' = [loop |-> "resolve", pos |-> pos, n |-> pending_breakpoints]
    BY <1>1, <1>6 DEF walk_to
  <2>2. gone' = {} /\ bps' \ gone' = bps
    BY <1>1, <2>1 DEF gone
  <2>3. ListsLinked'
    BY <1>1, <1>2, <1>4, <1>6, <2>1, <2>2, NotWalking DEF ListsLinked
  <2>4. todo' = {b \in bps : pos <= b}
    BY <1>1, <1>2
  <2>5. Walk'
    BY <1>1, <1>2, <1>3, <1>6, <2>1, <2>4, NotWalking DEF Walk
  <2> QED
    BY <2>3, <2>5 DEF ListsInv
<1> QED
  BY <1>5, <1>6

\* The turn of the loop is the step Breakpoints has for it: pos is the least
\* id that is left.
LEMMA ResolveTurnMaps ==
  ASSUME TableInv, ListsInv, resolve_turn
  PROVE  /\ resolve_pending_breakpoint
         /\ walk.pos \in todo /\ walk.pos \in bps /\ todo = {b \in bps : walk.pos <= b}
         /\ gone = {} /\ temp = {}
<1>1. /\ walk.loop = "resolve" /\ walk.pos \in todo /\ \A b \in todo : walk.pos <= b
      /\ todo = {b \in bps : walk.pos <= b}
  BY DEF resolve_turn, ListsInv, ListsLinked, Walk
<1>2. temp = {} /\ walk.pos \in bps
  BY <1>1 DEF TableInv, Lists
<1>3. gone = {}
  BY <1>1 DEF gone
<1>4. resolve_pending_breakpoint
  BY <1>1 DEF resolve_turn, resolve_pending_breakpoint
<1> QED
  BY <1>1, <1>2, <1>3, <1>4

\* A turn goes on to the next breakpoint.
LEMMA ResolveTurnLists ==
  ASSUME TableInv, ListsInv, resolve_turn
  PROVE  ListsInv'
<1> DEFINE b == walk.pos  a == instr[b] + load  m == pendingNodes.next[b]
<1>1. /\ b \in todo /\ b \in bps /\ todo = {c \in bps : b <= c} /\ gone = {} /\ temp = {}
      /\ walk.loop = "resolve"
  BY ResolveTurnMaps DEF resolve_turn
<1>2. /\ attach(b, a, b \in enable) /\ locationNodes' = linked(b, a)
      /\ walk' = walk_to("resolve", m, pending_breakpoints)
      /\ todo' = todo \ {b} /\ UNCHANGED <<bps, pendingNodes>>
  BY DEF resolve_turn, bpVars
<1> HIDE DEF b
<1>3. bps \in SUBSET Ids /\ \A c \in bps : c \in Int
  BY DEF TableInv, BPTypeOK, Ids
<1>4. /\ locationNodes' \in Ring
      /\ \A d \in locs' \ temp' : Linked(locationNodes', bp_list(d), members'[d])
  <2>1. active
    BY <1>1 DEF TableInv, Life
  <2>2. a \in Addrs
    BY <1>1, <2>1, RunningAddr DEF TableInv, Lists
  <2>3. \A c \in todo : location[c] = NULL
    BY DEF TableInv, Lists
  <2>4. location[b] = NULL /\ \A c \in bps : location[c] # NULL => c < b
    BY <1>1, <1>3, <2>3
  <2>5. (b \in enable) \in BOOLEAN /\ b \in Ids
    BY <1>1, <1>3
  <2> HIDE DEF a
  <2> QED
    BY <1>1, <1>2, <2>2, <2>4, <2>5, LinkedAttach
<1>5. /\ bps \ gone = bps /\ pendingNodes \in Ring
      /\ Linked(pendingNodes, pending_breakpoints, bps)
  BY <1>1 DEF ListsInv, ListsLinked, Walk
<1>6. m \in bps \cup {pending_breakpoints} /\ adjacent(pending_breakpoints, bps, b, m)
  BY <1>1, <1>5 DEF Linked
<1>7. /\ m = pending_breakpoints => \A c \in bps : c <= b
      /\ m # pending_breakpoints => b < m /\ \A c \in bps : b < c => m <= c
  BY <1>1, <1>3, <1>6, Ends
<1> HIDE DEF m
<1>8. CASE m = pending_breakpoints
  <2>1. walk' = NoWalk
    BY <1>2, <1>8 DEF walk_to
  <2>2. todo' = {}
    BY <1>1, <1>2, <1>3, <1>7, <1>8
  <2>3. walk'.loop = "none" /\ gone' = {} /\ bps' \ gone' = bps
    BY <1>2, <2>1 DEF NoWalk, gone
  <2>4. walk' \in [loop : {"none", "resolve", "remove_all"},
                   pos : Ids \cup {pending_breakpoints}, n : Ids \cup {pending_breakpoints}]
    BY <2>1 DEF NoWalk
  <2> QED
    BY <1>2, <1>4, <1>5, <2>1, <2>2, <2>3, <2>4 DEF ListsInv, ListsLinked, Walk
<1>9. CASE m # pending_breakpoints
  <2>1. walk' = [loop |-> "resolve", pos |-> m, n |-> pending_breakpoints]
    BY <1>2, <1>9 DEF walk_to
  <2>2. gone' = {} /\ bps' \ gone' = bps
    BY <1>2, <2>1 DEF gone
  <2>3. m \in bps /\ m \in Int /\ b \in Int
    BY <1>1, <1>3, <1>6, <1>9
  <2>4. todo' = {c \in bps : m <= c}
    <3>1. \A c \in bps : b <= c /\ c # b <=> m <= c
      BY <1>3, <1>7, <1>9, <2>3
    <3> QED
      BY <1>1, <1>2, <3>1
  <2>5. m \in todo' /\ \A c \in todo' : m <= c
    BY <2>3, <2>4
  <2>6. ListsLinked'
    BY <1>2, <1>4, <1>5, <2>1, <2>2, <2>5 DEF ListsLinked
  <2>7. Walk'
    BY <1>2, <1>3, <1>4, <1>5, <2>1, <2>3, <2>4 DEF Walk
  <2> QED
    BY <2>6, <2>7 DEF ListsInv
<1> QED
  BY <1>8, <1>9

\* When the tracee dies no location is left, and so no list of one.
LEMMA FreeLists ==
  ASSUME TableInv, ListsInv, walk = NoWalk, cleanup_at_tracee_death, free_locations, UNCHANGED todo
  PROVE  ListsInv'
<1>1. locationNodes' \in Ring
  BY NotWalking, FreedSame DEF free_locations
<1>2. UNCHANGED <<bps, pendingNodes, walk>> /\ locs' \ temp' = {}
  BY DEF cleanup_at_tracee_death, free_locations, bpVars
<1> QED
  BY <1>1, <1>2, NotWalking, StillNotWalking

\* An action that leaves the lists alone: locations may come and go, if they
\* are temporary.
LEMMA SameLists ==
  ASSUME ListsInv, UNCHANGED <<bps, todo, listVars>>,
         locs' \ temp' \subseteq locs \ temp,
         \A a \in locs' \ temp' : members'[a] = members[a],
         walk.loop = "remove_all" => Quiet' /\ Attended'
  PROVE  ListsInv'
<1>1. UNCHANGED <<pendingNodes, locationNodes, walk>> /\ gone' = gone
  BY DEF listVars, gone
<1>2. ListsLinked'
  BY <1>1 DEF ListsInv, ListsLinked
<1>3. Walk'
  BY <1>1 DEF ListsInv, Walk
<1> QED
  BY <1>2, <1>3 DEF ListsInv

-----------------------------------------------------------------------------
(***************************************************************************)
(* The theorems.                                                           *)
(***************************************************************************)

\* A step of the lists is a step of the table.
LEMMA ListsMap ==
  ASSUME TableInv, ListsInv, [LNext]_lVars
  PROVE  [BPNext]_bpmVars
<1>1. ASSUME Quiet, Attended, walk = NoWalk, NEW i \in InstrAddrs, add_breakpoint(i) PROVE BPNext
  BY <1>1 DEF add_breakpoint, BPNext, manage
<1>2. ASSUME Quiet, Attended, walk = NoWalk, NEW b \in Ids, delete_breakpoint(b) PROVE BPNext
  BY <1>2 DEF delete_breakpoint, BPNext, manage
<1>3. CASE delete_all
  BY <1>3 DEF delete_all
<1>4. CASE Quiet /\ Attended /\ kill_tracee
  BY <1>4 DEF BPNext, manage
<1>5. CASE Quiet /\ Attended /\ (\/ \E b \in Ids : bp_enable(b) \/ bp_disable(b)
                                 \/ enable_all_breakpoints
                                 \/ disable_all_breakpoints
                                 \/ \E S \in SUBSET Addrs : set_temp_bp_location(S)
                                 \/ \E a \in Mapped, v \in Written : write_memory(a, v))
  BY <1>5 DEF BPNext, manage
<1>6. CASE Quiet /\ proc = "none" /\ resolve_all
  BY <1>6 DEF resolve_all, BPNext
<1>7. CASE delete_turn
  <2>1. Quiet /\ Attended
    BY <1>7 DEF delete_turn, ListsInv, Walk
  <2> QED
    BY <1>7, <2>1 DEF delete_turn, BPNext, manage
<1>8. CASE resolve_turn
  BY <1>8, ResolveTurnMaps DEF BPNext
<1>9. CASE todo = {} /\ (reap_tracee \/ resume)
  BY <1>9 DEF BPNext
<1>10. CASE todo = {} /\ lifted = NULL /\ Attended /\
              \E a \in Addrs : lift(a) \/ (a \in temp /\ unset_temp_bp_location(a))
  BY <1>10 DEF BPNext
<1>11. CASE (lifted # NULL /\ Attended /\ replant) \/ stop \/ die
  BY <1>11 DEF BPNext
<1>12. CASE UNCHANGED lVars
  BY <1>12 DEF lVars
<1> QED
  BY <1>1, <1>2, <1>3, <1>4, <1>5, <1>6, <1>7, <1>8, <1>9, <1>10, <1>11, <1>12 DEF LNext

\* Every step keeps the lists.
LEMMA NextLists ==
  ASSUME TableInv, ListsInv, [LNext]_lVars
  PROVE  ListsInv'
<1>1. ASSUME Quiet, Attended, walk = NoWalk, NEW i \in InstrAddrs, add_breakpoint(i) PROVE ListsInv'
  BY <1>1, AddLists
<1>2. ASSUME Quiet, Attended, walk = NoWalk, NEW b \in Ids, delete_breakpoint(b) PROVE ListsInv'
  BY <1>2, DeleteLists
<1>3. CASE Quiet /\ Attended /\ walk = NoWalk /\ delete_all
  BY <1>3, DeleteAllLists
<1>4. CASE walk = NoWalk /\ (kill_tracee \/ reap_tracee) /\ free_locations
  BY <1>4, FreeLists DEF kill_tracee, reap_tracee
<1>5. ASSUME Quiet, walk = NoWalk, UNCHANGED listVars,
             \/ \E b \in Ids : bp_enable(b) \/ bp_disable(b)
             \/ enable_all_breakpoints
             \/ disable_all_breakpoints
             \/ \E a \in Mapped, v \in Written : write_memory(a, v)
      PROVE  ListsInv'
  <2>1. UNCHANGED <<bps, todo, locs, temp, members>> /\ walk.loop # "remove_all"
    BY <1>5, NotWalking
    DEF bp_enable, bp_disable, enable_all_breakpoints, disable_all_breakpoints, write_memory,
        tableVars, bpVars
  <2> QED
    BY <1>5, <2>1, SameLists
<1>6. ASSUME Quiet, walk = NoWalk, UNCHANGED listVars,
             NEW S \in SUBSET Addrs, set_temp_bp_location(S)
      PROVE  ListsInv'
  <2>1. UNCHANGED <<bps, todo, members>> /\ walk.loop # "remove_all" /\ locs' \ temp' \subseteq locs \ temp
    BY <1>6, NotWalking DEF set_temp_bp_location, bpVars, Quiet
  <2> QED
    BY <1>6, <2>1, SameLists
<1>7. CASE Quiet /\ proc = "none" /\ walk = NoWalk /\ resolve_all
  BY <1>7, ResolveAllLists
<1>8. CASE delete_turn
  BY <1>8, DeleteTurnLists
<1>9. CASE resolve_turn
  BY <1>9, ResolveTurnLists
<1>10. ASSUME walk = NoWalk, UNCHANGED listVars, NEW a \in Addrs,
              resume \/ lift(a) \/ (a \in temp /\ unset_temp_bp_location(a))
       PROVE  ListsInv'
  <2>1. walk.loop # "remove_all"
    BY <1>10, NotWalking
  <2>2. CASE resume \/ lift(a)
    <3>1. UNCHANGED <<bps, todo, locs, temp, members>>
      BY <2>2 DEF resume, lift, bpVars, tableVars
    <3> QED
      BY <1>10, <2>1, <3>1, SameLists
  <2>3. CASE a \in temp /\ unset_temp_bp_location(a)
    <3>1. /\ UNCHANGED <<bps, todo>> /\ locs' \ temp' = (locs \ temp) \ {a}
          /\ \A d \in Addrs : d # a => members'[d] = members[d]
      BY <2>3 DEF unset_temp_bp_location, loc_free, bpVars
    <3>2. locs \subseteq Addrs
      BY DEF TableInv, BPTypeOK
    <3> QED
      BY <1>10, <2>1, <3>1, <3>2, SameLists
  <2> QED
    BY <1>10, <2>2, <2>3
<1>11. CASE walk = NoWalk /\ resume /\ UNCHANGED listVars
  <2>1. UNCHANGED <<bps, todo, locs, temp, members>> /\ walk.loop # "remove_all"
    BY <1>11, NotWalking DEF resume, bpVars, tableVars
  <2> QED
    BY <1>11, <2>1, SameLists
<1>12. CASE ((lifted # NULL /\ replant) \/ stop \/ die) /\ UNCHANGED listVars
  <2>1. UNCHANGED <<bps, todo, locs, temp, members>>
    BY <1>12 DEF replant, stop, die, bpVars, tableVars
  <2>2. walk.loop = "remove_all" => Quiet' /\ Attended'
    <3> SUFFICES ASSUME walk.loop = "remove_all" PROVE Quiet' /\ Attended'
      OBVIOUS
    <3>1. Quiet /\ Attended
      BY DEF ListsInv, Walk
    <3> QED
      BY <1>12, <3>1 DEF Quiet, Attended, replant, stop, die, tableVars
  <2> QED
    BY <1>12, <2>1, <2>2, SameLists
<1>13. CASE UNCHANGED lVars
  <2>1. UNCHANGED <<bps, todo, locs, temp, members, lifted, proc, listVars>>
    BY <1>13 DEF lVars, bpmVars
  <2>2. walk.loop = "remove_all" => Quiet' /\ Attended'
    BY <2>1 DEF ListsInv, Walk, Quiet, Attended
  <2> QED
    BY <2>1, <2>2, SameLists
<1> QED
  BY <1>1, <1>2, <1>3, <1>4, <1>5, <1>6, <1>7, <1>8, <1>9, <1>10, <1>11, <1>12, <1>13 DEF LNext

\* The invariant holds.
LEMMA ListsAlways == LSpec => [](TableInv /\ ListsInv)
<1>1. LInit => TableInv /\ ListsInv
  BY InitTable, InitLists DEF LInit
<1>2. TableInv /\ ListsInv /\ [LNext]_lVars => TableInv' /\ ListsInv'
  BY ListsMap, NextTable, NextLists
<1> QED
  BY <1>1, <1>2, PTL DEF LSpec

\* The lists of vdbg are what the table takes them for: in the order of the
\* ids, linked in both directions, without a freed node, also in the middle of
\* resolve_pending_breakpoints and remove_all_breakpoints.
THEOREM ListsRight == LSpec => []ListsLinked
<1>1. ListsInv => ListsLinked
  BY DEF ListsInv
<1> QED
  BY <1>1, ListsAlways, PTL

\* breakpoint.c on the lists of list.h implements the table of Breakpoints,
\* which has ordered sets: what is proved of BPSpec holds of it.
THEOREM ListsImplement == LSpec => BPSpec
<1>1. LInit => BPInit
  BY DEF LInit
<1>2. TableInv /\ ListsInv /\ [LNext]_lVars => [BPNext]_bpmVars
  BY ListsMap
<1> QED
  BY <1>1, <1>2, ListsAlways, PTL DEF LSpec, BPSpec

=============================================================================
