------------------------------ MODULE MCHashMap ------------------------------
(***************************************************************************)
(* Words of six bits, whose multiplier is 64 divided by the golden ratio.  *)
(* Three of the keys share a bucket in the tables of size 2 and 6 (for 1   *)
(* and 5, which are odd), two in that of 12, which is no power of two; 0   *)
(* makes no table.                                                         *)
(***************************************************************************)
EXTENDS HashMap

MCWordSize == 6
MCMultiplier == 39
MCSizes == {0, 1, 5, 12}
MCKeys == {0, 1, 2, 7}

=============================================================================
