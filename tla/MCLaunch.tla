------------------------------ MODULE MCLaunch ------------------------------
(***************************************************************************)
(* Launch with the code's own capacities for the arguments.                *)
(***************************************************************************)
EXTENDS Launch

MCTokensCap == 32
MCMaxArgs == 50
Few == {0, 2, 30, 48}
SplitFull == {0, 1, 31}
ListFull == {0, 1, 49}
AllFailures == {"fork", "exec"}

=============================================================================
