------------------------------- MODULE HashMap -------------------------------
(***************************************************************************)
(* hashmap.c: a hash table with chaining and Fibonacci hashing, used for   *)
(* dbg->breakpoints (by id), dbg->bp_locations (by running address) and    *)
(* the function names of disassemble.c.                                    *)
(*                                                                         *)
(* A bucket is the sequence of its entries, the head first.  Words are     *)
(* WordSize bits wide (64 in the code) and Multiplier is the word nearest  *)
(* to 2^WordSize divided by the golden ratio.                              *)
(***************************************************************************)
EXTENDS Integers, SequencesExt

CONSTANTS
  WordSize,    \* bits of a uintptr_t
  Multiplier,  \* 11400714819323198485lu
  Sizes,       \* the sizes map_init is called with
  Keys,        \* ids or addresses
  Objs,        \* the objects ever stored, each in one allocation
  NULL

\* Powers of two, as a shift by n bits makes them.
pow2[n \in Nat] == IF n = 0 THEN 1 ELSE 2 * pow2[n - 1]

ASSUME HashMapAssumption ==
  /\ WordSize \in Nat \ {0}
  /\ Multiplier \in 0 .. pow2[WordSize] - 1
  /\ Sizes \subseteq 0 .. pow2[WordSize] - 2    \* size++ does not wrap around
  /\ Keys \subseteq 0 .. pow2[WordSize] - 1
  /\ NULL \notin Objs

VARIABLES
  exists,      \* the map_t * is not NULL
  cf,          \* ht->cf is not NULL
  size,        \* ht->size
  shift_bits,  \* ht->shift_bits
  elements,    \* ht->elements
  given,       \* the objects map_insert took
  cleaned,     \* the objects ht->cf was called on
  ret          \* what the last call returned

vars == <<exists, cf, size, shift_bits, elements, given, cleaned, ret>>

Entry == [key : Keys, obj : Objs]

Init ==
  /\ exists = FALSE
  /\ cf \in BOOLEAN
  /\ size = 0 /\ shift_bits = 0 /\ elements = <<>>
  /\ given = {} /\ cleaned = {}
  /\ ret = NULL

-----------------------------------------------------------------------------
\* __builtin_ctz
ctz(n) == CHOOSE c \in 0 .. WordSize : n % pow2[c] = 0 /\ n % pow2[c + 1] # 0

\* Mutant: one bit too many is kept.
shift_too_small(n) == WordSize - ctz(n) - 1

shift_for(n) == WordSize - ctz(n)

even_size(n) == IF n % 2 = 1 THEN n + 1 ELSE n

map_init(n) ==
  /\ ~exists
  /\ n # 0
  /\ exists' = TRUE
  /\ size' = even_size(n)
  /\ shift_bits' = shift_for(size')
  /\ elements' = [i \in 0 .. size' - 1 |-> <<>>]
  /\ UNCHANGED <<cf, given, cleaned, ret>>

map_index(k) == ((k * Multiplier) % pow2[WordSize]) \div pow2[shift_bits]

chain(k) == elements[map_index(k)]

\* Where the walk along the chain of k stops: 0 at its end.
position(k) == SelectInSeq(chain(k), LAMBDA e : e.key = k)

lookup(k) ==
  IF ~exists \/ position(k) = 0 THEN NULL ELSE chain(k)[position(k)].obj

map_lookup(k) ==
  /\ ret' = lookup(k)
  /\ UNCHANGED <<exists, cf, size, shift_bits, elements, given, cleaned>>

\* Mutant: an entry with the same key is shadowed.
insert_always(k, o) ==
  /\ o \notin given
  /\ ret' = exists
  /\ IF ret' THEN /\ elements' = [elements EXCEPT ![map_index(k)] = <<[key |-> k, obj |-> o]>> \o @]
                  /\ given' = given \cup {o}
     ELSE UNCHANGED <<elements, given>>
  /\ UNCHANGED <<exists, cf, size, shift_bits, cleaned>>

\* The callers insert objects they have just allocated.
map_insert(k, o) ==
  /\ o \notin given
  /\ ret' = (exists /\ lookup(k) = NULL)
  /\ IF ret' THEN /\ elements' = [elements EXCEPT ![map_index(k)] = <<[key |-> k, obj |-> o]>> \o @]
                  /\ given' = given \cup {o}
     ELSE UNCHANGED <<elements, given>>
  /\ UNCHANGED <<exists, cf, size, shift_bits, cleaned>>

\* Mutant: the entry stays in the chain.
unlink_nothing(s, j) == s

\* The head moves on, or the previous entry skips the deleted one.
unlink(s, j) == RemoveAt(s, j)

map_delete(k) ==
  /\ IF lookup(k) = NULL THEN UNCHANGED <<elements, cleaned>>
     ELSE /\ elements' = [elements EXCEPT ![map_index(k)] = unlink(@, position(k))]
          /\ cleaned' = IF cf THEN cleaned \cup {lookup(k)} ELSE cleaned
  /\ UNCHANGED <<exists, cf, size, shift_bits, given, ret>>

\* The objects in the table.
stored ==
  IF exists THEN UNION {{elements[i][j].obj : j \in DOMAIN elements[i]} : i \in 0 .. size - 1}
  ELSE {}

map_free ==
  /\ exists' = FALSE
  /\ elements' = <<>>
  /\ cleaned' = IF cf THEN cleaned \cup stored ELSE cleaned
  /\ UNCHANGED <<cf, size, shift_bits, given, ret>>

Next ==
  \/ \E n \in Sizes : map_init(n)
  \/ \E k \in Keys : map_lookup(k) \/ map_delete(k) \/ \E o \in Objs : map_insert(k, o)
  \/ map_free

Spec == Init /\ [][Next]_vars

-----------------------------------------------------------------------------
\* The multiplicative hash never leaves the table, whatever the size: an odd
\* size is made even, and a size that is no power of two uses the first
\* 2^ctz(size) buckets only.
IndexInRange == exists => \A k \in Keys : map_index(k) \in 0 .. size - 1

\* No object is lost and none is cleaned up while the table still holds it:
\* a location or a breakpoint is freed once, at the right time.
Owned ==
  /\ stored \cap cleaned = {}
  /\ cf => given = stored \cup cleaned

\* The table is a map.  map_init, map_insert, map_lookup, map_delete and
\* map_free do on the chains what Map says, return values included.
Table == INSTANCE Map WITH contents <- [k \in Keys |-> lookup(k)]

MapSpec == Table!MapSpec

=============================================================================
