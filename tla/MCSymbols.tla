------------------------------ MODULE MCSymbols ------------------------------
(***************************************************************************)
(* A program of two files with a static function f each, rebuilt with one  *)
(* more instruction, or stripped; and the variants that the counterexample *)
(* configurations are about.                                               *)
(***************************************************************************)
EXTENDS Symbols, TLC

Func(n, v, s) == [name |-> n, kind |-> "FUNC", value |-> v, size |-> s]
Die(n, l, h) == [name |-> n, low |-> l, high |-> h]

\* main calls f, puts and f again; f of a.c calls exit, f of b.c calls main.
First ==
  [type |-> "DYN", shift |-> 0,
   plt |-> <<"puts", "exit">>, pltAt |-> 16, stubs |-> <<32, 48>>,
   symtab |-> << Func("puts", 0, 0), [name |-> "x", kind |-> "OBJECT", value |-> 300, size |-> 4],
                 Func("f", 104, 2), Func("f", 200, 3), Func("main", 100, 4) >>,
   code |-> (100 :> 0) @@ (101 :> 104 - 101) @@ (102 :> 32 - 102) @@ (103 :> 104 - 103) @@
            (104 :> 0) @@ (105 :> 48 - 105) @@
            (200 :> 0) @@ (201 :> 100 - 201) @@ (202 :> 0),
   cus |-> << [name |-> "a.c",
               rows |-> (100 :> 3) @@ (101 :> 4) @@ (102 :> 5) @@ (103 :> 4) @@ (104 :> 8) @@ (105 :> 9),
               dies |-> << Die("main", 100, 104), Die("f", 104, 106) >>],
              [name |-> "b.c",
               rows |-> (200 :> 3) @@ (201 :> 3) @@ (202 :> 6),
               dies |-> << Die("f", 200, 203) >>] >>]

\* f of b.c without its last instruction and its call.
Rebuilt ==
  [First EXCEPT !.symtab = [@ EXCEPT ![4] = Func("f", 200, 2)],
                !.code = [a \in DOMAIN @ \ {202} |-> IF a = 201 THEN 0 ELSE @[a]],
                !.cus = [@ EXCEPT ![2] = [name |-> "b.c", rows |-> (200 :> 4) @@ (201 :> 7),
                                          dies |-> << Die("f", 200, 202) >>]]]

NoDebugInfo == [First EXCEPT !.cus = <<>>]
Stripped == [NoDebugInfo EXCEPT !.symtab = <<>>]

\* -1 is the largest unsigned number.
MCContexts == {-1, 1, 2, 4, 100}

MCExecutables == {First, Rebuilt, NoDebugInfo, Stripped}

\* f of a.c has a second name.
Aliased == {[First EXCEPT !.symtab = Append(@, Func("g", 104, 2))]}
\* The stubs are in .plt.sec (-fcf-protection).
PltSec == {[First EXCEPT !.stubs = <<64, 80>>,
                         !.code = [@ EXCEPT ![102] = 64 - 102, ![105] = 80 - 105]]}
\* A program linked at a fixed address.
Fixed == {[First EXCEPT !.type = "EXEC", !.shift = 400]}
\* A declaration in front of main.
Declared == {[First EXCEPT !.cus = [@ EXCEPT ![1].dies = << Die("puts", 1, 0) >> \o @]]}
\* Both files have the same name, in two directories.
TwinFiles == {[First EXCEPT !.cus = [@ EXCEPT ![2].name = "a.c"]]}

=============================================================================
