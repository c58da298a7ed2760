------------------------------ MODULE Arguments ------------------------------
(***************************************************************************)
(* The tracee's argument vector: split cuts the command line into tokens,  *)
(* add_arguments_for_tracee copies them to dbg->args, execv reads them up  *)
(* to the first NULL.  Both arrays grow by doubling; a slot realloc adds   *)
(* holds garbage.  An access outside an array, or the use of garbage, is   *)
(* undefined: the arguments are then used no more.  Module Launch starts   *)
(* the tracee with them.                                                   *)
(***************************************************************************)
EXTENDS Integers, Sequences

CONSTANTS
  TokensCap,  \* tokens_list_cap of split, 32
  MaxArgs,    \* MAX_ARGS, the first capacity of dbg->args.list, 50
  Strings,    \* the values of an argument
  Given       \* bound: the numbers of arguments the user gives

ASSUME ArgumentsAssumption ==
  /\ TokensCap \in Nat \ {0}
  /\ MaxArgs \in Nat \ {0, 1}
  /\ Given \subseteq Nat
  /\ Strings \cap {"NULL", "garbage"} = {}

VARIABLES
  list,    \* dbg->args.list; its length is dbg->args.list_capacity
  wanted,  \* the arguments the user gave last
  argv,    \* the arguments the last tracee got
  wild     \* an array was used outside its bounds, or garbage was read

argumentVars == <<list, wanted, argv, wild>>

NULL == "NULL"
Garbage == "garbage"

\* The list of the code starts at 0 with the program's name; list[i] here is
\* its i-th slot behind that.
ArgumentsInit ==
  /\ list = [i \in 1 .. MaxArgs - 1 |-> NULL]
  /\ wanted = <<>> /\ argv = <<>>
  /\ wild = FALSE

\* Doubled until n elements fit.
doubled(c, n) == LET from[x \in Nat] == IF n <= x THEN x ELSE from[2 * x] IN from[c]

\* split stores the command, n arguments and a NULL, and makes room for all of
\* them but the NULL.
split_fits(n) == n + 1 < doubled(TokensCap, n + 1)

\* The first slot that is not an argument: NULL, garbage or the end.
first_free(l) ==
  CHOOSE i \in 1 .. Len(l) + 1 :
    /\ i = Len(l) + 1 \/ l[i] \in {NULL, Garbage}
    /\ \A j \in 1 .. i - 1 : l[j] \notin {NULL, Garbage}

\* A reader that stops at NULL finds one.
terminated(l) == first_free(l) <= Len(l) /\ l[first_free(l)] = NULL

\* Mutants: the old arguments stay, or are freed and stay.
cleared_not == list
cleared_dangling == [i \in DOMAIN list |-> IF i < first_free(list) THEN Garbage ELSE list[i]]

\* The old arguments are freed and their slots set to NULL.
cleared == [i \in DOMAIN list |-> IF i < first_free(list) THEN NULL ELSE list[i]]

\* The loop that appends, on the capacity the list has or grows to.
appended(n, s) ==
  LET cap == doubled(Len(list) + 1, n + 1)
  IN  [i \in 1 .. cap - 1 |-> IF i <= n THEN s
                              ELSE IF i <= Len(list) THEN cleared[i] ELSE Garbage]

add_arguments_for_tracee(n, s) ==
  /\ ~wild
  /\ wanted' = [i \in 1 .. n |-> s]
  /\ IF split_fits(n) /\ terminated(list)
     THEN list' = appended(n, s) /\ UNCHANGED wild
     ELSE wild' = TRUE /\ UNCHANGED list
  /\ UNCHANGED argv

\* execv(dbg->process_name, dbg->args.list).
execv_arguments ==
  /\ ~wild
  /\ IF terminated(list)
     THEN argv' = SubSeq(list, 1, first_free(list) - 1) /\ UNCHANGED wild
     ELSE wild' = TRUE /\ UNCHANGED argv
  /\ UNCHANGED <<list, wanted>>

-----------------------------------------------------------------------------
\* The tracee gets the arguments given last, no fewer and none of earlier
\* commands ("clear the existing arguments first").
Delivered == [][ execv_arguments => argv' = wanted ]_argumentVars

\* Neither array is read or written outside its bounds, nor read where it was
\* never written.
InBounds == ~wild

=============================================================================
