---------------------------- MODULE MCBreakpoints ----------------------------
(***************************************************************************)
(* Instances of LinkedLists for TLC: a position-independent executable     *)
(* mapped at 10, with two instructions in the text segment and a third     *)
(* address (`break 0x6') the tracee has not mapped.                        *)
(***************************************************************************)
EXTENDS LinkedLists

MCInstrAddrs == {2, 4, 6}
MCLoadBase == 10
MCMapped == {12, 14}
MCText == [a \in MCMapped |-> a + 70]
MCWritten == {7}

\* Two instructions only.
MCTwoInstrAddrs == {2, 4}

=============================================================================
