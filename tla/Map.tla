--------------------------------- MODULE Map ---------------------------------
(***************************************************************************)
(* What the users of hashmap.h rely on: a finite map from keys to objects  *)
(* that refuses to overwrite, and that hands every object it drops to the  *)
(* cleanup function exactly when it drops it.                              *)
(***************************************************************************)
CONSTANTS Keys, Objs, NULL

VARIABLES
  exists,    \* the map_t * is not NULL
  cf,        \* it was made with a cleanup function
  contents,  \* contents[k]: the object stored under k, or NULL
  cleaned,   \* the objects the cleanup function has been called on
  ret        \* what the last call returned

mapVars == <<exists, cf, contents, cleaned, ret>>

Empty == [k \in Keys |-> NULL]

Objects == {contents[k] : k \in Keys} \ {NULL}

MapInit ==
  /\ exists = FALSE
  /\ cf \in BOOLEAN
  /\ contents = Empty
  /\ cleaned = {}
  /\ ret = NULL

Create ==
  /\ ~exists /\ exists' = TRUE
  /\ UNCHANGED <<cf, contents, cleaned, ret>>

Insert(k, o) ==
  /\ ret' = (exists /\ contents[k] = NULL)
  /\ contents' = IF ret' THEN [contents EXCEPT ![k] = o] ELSE contents
  /\ UNCHANGED <<exists, cf, cleaned>>

Lookup(k) ==
  /\ ret' = contents[k]
  /\ UNCHANGED <<exists, cf, contents, cleaned>>

Delete(k) ==
  /\ contents' = [contents EXCEPT ![k] = NULL]
  /\ cleaned' = IF cf THEN cleaned \cup ({contents[k]} \ {NULL}) ELSE cleaned
  /\ UNCHANGED <<exists, cf, ret>>

Free ==
  /\ exists' = FALSE
  /\ contents' = Empty
  /\ cleaned' = IF cf THEN cleaned \cup Objects ELSE cleaned
  /\ UNCHANGED <<cf, ret>>

MapNext ==
  \/ Create
  \/ \E k \in Keys, o \in Objs : Insert(k, o)
  \/ \E k \in Keys : Lookup(k) \/ Delete(k)
  \/ Free

MapSpec == MapInit /\ [][MapNext]_mapVars

=============================================================================
