------------------------------- MODULE MCFrames -------------------------------
(***************************************************************************)
(* Four small programs, with the instruction lengths of x86-64, for the    *)
(* stepping commands.  main calls f, which may call g (or itself).         *)
(***************************************************************************)
EXTENDS Frames, TLC

I(op_, len_, line_, to_) == [op |-> op_, len |-> len_, line |-> line_, to |-> to_]

MCLibc == 900
MCMain == [low |-> 100, high |-> 115]
MCG == [low |-> 300, high |-> 308]
MainCode ==
  (100 :> I("push", 1, 10, {})) @@ (101 :> I("mov", 3, 10, {})) @@
  (104 :> I("plain", 2, 11, {})) @@ (106 :> I("call", 5, 12, {200})) @@
  (111 :> I("plain", 2, 13, {})) @@ (113 :> I("leave", 1, 14, {})) @@ (114 :> I("ret", 1, 14, {}))
GCode ==
  (300 :> I("push", 1, 6, {})) @@ (301 :> I("mov", 3, 6, {})) @@
  (304 :> I("plain", 2, 7, {})) @@ (306 :> I("leave", 1, 8, {})) @@ (307 :> I("ret", 1, 8, {}))

\* f: `if (...) x = callee() + 1; return;', then back to `back' or on.
F(callee, back) ==
  (200 :> I("push", 1, 1, {})) @@ (201 :> I("mov", 3, 1, {})) @@
  (204 :> I("jump", 2, 2, {206, 215})) @@
  (206 :> I("call", 5, 3, {callee})) @@ (211 :> I("plain", 2, 3, {})) @@
  (213 :> I("jump", 2, 4, {back, 215})) @@
  (215 :> I("leave", 1, 5, {})) @@ (216 :> I("ret", 1, 5, {}))
MCF == [low |-> 200, high |-> 217]
MCFuncs == {MCMain, MCF, MCG}

Straight == MainCode @@ GCode @@ F(300, 215)
Loop == MainCode @@ GCode @@ F(300, 204)
Recursive == MainCode @@ GCode @@ F(200, 215)

\* f as compiled with -fcf-protection: endbr64 in front of the prologue.
EndbrF ==
  (200 :> I("endbr", 4, 1, {})) @@ (204 :> I("push", 1, 1, {})) @@ (205 :> I("mov", 3, 1, {})) @@
  (208 :> I("call", 5, 2, {300})) @@ (213 :> I("plain", 2, 3, {})) @@
  (215 :> I("leave", 1, 4, {})) @@ (216 :> I("ret", 1, 4, {}))
Endbr == MainCode @@ GCode @@ EndbrF

MCBreakAt == {200, 213, 306}

\* Where rbp points to the frame of the function that executes.
Entries == {f.low : f \in Funcs}
Framed == {a \in Instrs : Code[a].op \notin {"endbr", "push", "mov", "ret"}}

\* The commands that need rbp are given where it is set; next and backtrace at
\* a function's entry as well ...
WhereFramed ==
  [c \in Commands |-> CASE c = "finish" -> Framed
                        [] c \in {"next", "backtrace"} -> Framed \cup Entries
                        [] OTHER -> Instrs]
\* ... or finish too.
AtEntries ==
  [c \in Commands |-> IF c \in {"finish", "next", "backtrace"} THEN Framed \cup Entries ELSE Instrs]

=============================================================================
