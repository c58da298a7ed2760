---------------------------- MODULE FramesProofs ----------------------------
(***************************************************************************)
(* Proofs about backtrace, finish and next, for every program that is      *)
(* compiled with frame pointers, and any depth of calls: which programs    *)
(* each of these commands is right for.                                    *)
(***************************************************************************)
EXTENDS Frames, SequenceTheorems, TLAPS

\* Where control is after an instruction, as far as its function goes: a call
\* returns.
After(a) == IF Code[a].op = "jump" THEN Code[a].to ELSE {a + Code[a].len}

\* The instructions at which rbp points to the frame of the function.
Framed == {a \in Instrs : Code[a].op \notin {"push", "mov", "ret"}}

\* What a compiler makes with frame pointers: a function begins with push and
\* mov, nothing else sets up a frame, nothing but leave is in front of ret,
\* control stays in the function but for calls, which go to functions other
\* than main.
Compiled ==
  /\ \A a \in Instrs : \E f \in Funcs : get_func_die_from_pc(a) = {f}
  /\ \A f \in Funcs : /\ f.low < f.high
                      /\ Code[f.low].op = "push" /\ Code[f.low].len = 1
                      /\ Code[f.low + 1].len = 3
  /\ \A a \in Instrs : Code[a].op = "push" => \E f \in Funcs : a = f.low
  /\ \A a \in Instrs : Code[a].op # "ret" =>
       \A b \in After(a) :
         /\ b \in Instrs /\ get_func_die_from_pc(b) = get_func_die_from_pc(a)
         /\ Code[b].op # "push"
         /\ Code[b].op = "mov" <=> Code[a].op = "push"
         /\ Code[b].op = "ret" <=> Code[a].op = "leave"
  /\ \A a \in Instrs : Code[a].op = "call" =>
       \A b \in Code[a].to : \E f \in Funcs \ {Main} : b = f.low

Frame == [ret : Nat, saved : Nat]

InMain(a) == get_func_die_from_pc(a) = {Main}

\* The chain of frames: each one's saved rbp is the one below, each return
\* address is behind a call, and main is at the bottom.
Chain ==
  /\ pc \in Instrs /\ stack \in Seq(Frame) /\ Len(stack) >= 1
  /\ \A i \in 1 .. Len(stack) :
       /\ i < Len(stack) \/ op # "push" => stack[i].saved = i - 1
       /\ i >= 2 => stack[i].ret \in Framed /\ (InMain(stack[i].ret) <=> i = 2)
  /\ stack[1].ret = Libc
  /\ rbp = IF pc \in Framed THEN Len(stack) ELSE Len(stack) - 1
  /\ InMain(pc) <=> Len(stack) = 1

Alive == ctl \in {"prompt", "running", "frames"}

ChainInv == (Alive => Chain) /\ bps \subseteq BreakAt

-----------------------------------------------------------------------------
(***************************************************************************)
(* What an instruction does to the frames.                                 *)
(***************************************************************************)

\* An instruction other than call and ret stays in its function and leaves
\* the return addresses alone.
LEMMA Inside ==
  ASSUME Compiled, Chain, instruction, op \notin {"call", "ret"}
  PROVE  /\ pc' \in After(pc) /\ stack' \in Seq(Frame) /\ Len(stack') = Len(stack)
         /\ \A i \in 1 .. Len(stack) :
              /\ stack'[i].ret = stack[i].ret
              /\ stack'[i].saved = IF op = "push" /\ i = Len(stack) THEN rbp ELSE stack[i].saved
         /\ rbp' = IF op = "mov" THEN Len(stack)
                   ELSE IF op = "leave" THEN stack[Len(stack)].saved ELSE rbp
<1>1. Len(stack) \in Nat \ {0} /\ rbp \in Nat /\ pc \in Instrs
  BY DEF Chain
<1>2. pc' \in After(pc)
  BY FramesAssumption, <1>1 DEF instruction, op, After
<1>3. rbp' = IF op = "mov" THEN Len(stack)
             ELSE IF op = "leave" THEN stack[Len(stack)].saved ELSE rbp
  BY DEF instruction
<1>4. CASE op = "push"
  <2>1. stack' = [stack EXCEPT ![Len(stack)].saved = rbp]
    BY <1>4 DEF instruction
  <2>2. stack[Len(stack)] \in Frame
    BY <1>1 DEF Chain
  <2>3. [stack[Len(stack)] EXCEPT !.saved = rbp] \in Frame
    BY <1>1, <2>2 DEF Frame
  <2>4. stack' = [stack EXCEPT ![Len(stack)] = [stack[Len(stack)] EXCEPT !.saved = rbp]]
    BY <2>1
  <2>5. stack' \in Seq(Frame) /\ Len(stack') = Len(stack)
    BY <1>1, <2>3, <2>4 DEF Chain
  <2>6. \A i \in 1 .. Len(stack) :
          stack'[i] = IF i = Len(stack) THEN [stack[Len(stack)] EXCEPT !.saved = rbp] ELSE stack[i]
    BY <1>1, <2>4 DEF Chain
  <2>7. /\ [stack[Len(stack)] EXCEPT !.saved = rbp].ret = stack[Len(stack)].ret
        /\ [stack[Len(stack)] EXCEPT !.saved = rbp].saved = rbp
    BY <2>2 DEF Frame
  <2> QED
    BY <1>2, <1>3, <1>4, <2>5, <2>6, <2>7
<1>5. CASE op # "push"
  <2>1. stack' = stack
    BY <1>5 DEF instruction
  <2> QED
    BY <1>2, <1>3, <1>5, <2>1 DEF Chain
<1> QED
  BY <1>4, <1>5

\* A call pushes the address behind it.
LEMMA Calls ==
  ASSUME Compiled, Chain, instruction, op = "call"
  PROVE  /\ pc' \in Code[pc].to /\ stack' \in Seq(Frame) /\ Len(stack') = Len(stack) + 1
         /\ \A i \in 1 .. Len(stack) : stack'[i] = stack[i]
         /\ stack'[Len(stack) + 1].ret = pc + Code[pc].len
         /\ rbp' = rbp
<1>1. stack' = Append(stack, [ret |-> pc + Code[pc].len, saved |-> 0]) /\ rbp' = rbp
      /\ pc' \in Code[pc].to
  BY DEF instruction
<1>2. pc + Code[pc].len \in Nat
  BY FramesAssumption DEF Chain
<1>3. [ret |-> pc + Code[pc].len, saved |-> 0] \in Frame
  BY <1>2 DEF Frame
<1> QED
  BY <1>1, <1>3 DEF Chain

\* A sequence without its last element.
LEMMA Shorter ==
  ASSUME NEW S, NEW s \in Seq(S), Len(s) >= 1
  PROVE  /\ SubSeq(s, 1, Len(s) - 1) \in Seq(S) /\ Len(SubSeq(s, 1, Len(s) - 1)) = Len(s) - 1
         /\ \A i \in 1 .. Len(s) - 1 : SubSeq(s, 1, Len(s) - 1)[i] = s[i]
<1> DEFINE n == Len(s) - 1
<1>1. 1 \in Int /\ n \in Int /\ n >= 0
  OBVIOUS
<1>2. \A i \in 1 .. n : s[i] \in S
  OBVIOUS
<1> HIDE DEF n
<1>3. /\ SubSeq(s, 1, n) \in Seq(S) /\ Len(SubSeq(s, 1, n)) = IF 1 <= n THEN n - 1 + 1 ELSE 0
      /\ \A i \in 1 .. n - 1 + 1 : SubSeq(s, 1, n)[i] = s[1 + i - 1]
  BY <1>1, <1>2, SubSeqProperties
<1>4. Len(SubSeq(s, 1, n)) = n /\ \A i \in 1 .. n : SubSeq(s, 1, n)[i] = s[i]
  BY <1>1, <1>3
<1> QED
  BY <1>3, <1>4 DEF n

\* ret goes to the return address on top.
LEMMA Returns ==
  ASSUME Compiled, Chain, instruction, op = "ret"
  PROVE  /\ pc' = stack[Len(stack)].ret /\ stack' \in Seq(Frame)
         /\ Len(stack') = Len(stack) - 1
         /\ \A i \in 1 .. Len(stack) - 1 : stack'[i] = stack[i]
         /\ rbp' = rbp
<1>1. stack' = SubSeq(stack, 1, Len(stack) - 1) /\ rbp' = rbp /\ pc' = stack[Len(stack)].ret
  BY DEF instruction
<1>2. stack \in Seq(Frame) /\ Len(stack) \in Nat /\ Len(stack) >= 1
  BY DEF Chain
<1> QED
  BY <1>1, <1>2, Shorter

\* The instruction after a call has its frame.
LEMMA Behind ==
  ASSUME Compiled, NEW a \in Instrs, Code[a].op = "call"
  PROVE  /\ a + Code[a].len \in Framed
         /\ get_func_die_from_pc(a + Code[a].len) = get_func_die_from_pc(a)
BY DEF Compiled, After, Framed

\* Until main returns the frames stay a chain.
LEMMA ChainKept ==
  ASSUME Compiled, Chain, instruction, pc' # Libc
  PROVE  Chain'
<1>1. /\ Len(stack) \in Nat /\ Len(stack) >= 1 /\ pc \in Instrs
      /\ op \in Ops
  BY FramesAssumption DEF Chain, op
<1>2. CASE op \notin {"call", "ret"}
  <2>1. /\ pc' \in Instrs /\ get_func_die_from_pc(pc') = get_func_die_from_pc(pc)
        /\ op' # "push"
        /\ op' = "mov" <=> op = "push"
        /\ op' = "ret" <=> op = "leave"
    BY <1>1, <1>2, Inside DEF Compiled, op
  <2>2. \A i \in 1 .. Len(stack') :
          /\ stack'[i].saved = i - 1
          /\ i >= 2 => stack'[i].ret \in Framed /\ (InMain(stack'[i].ret) <=> i = 2)
    <3> TAKE i \in 1 .. Len(stack')
    <3>1. i >= 2 => stack'[i].ret \in Framed /\ (InMain(stack'[i].ret) <=> i = 2)
      BY <1>2, Inside DEF Chain
    <3>2. stack'[i].saved = i - 1
      BY <1>1, <1>2, Inside DEF Chain, Framed, op
    <3> QED
      BY <3>1, <3>2
  <2>3. rbp' = IF pc' \in Framed THEN Len(stack') ELSE Len(stack') - 1
    BY <1>1, <1>2, <2>1, Inside DEF Chain, Framed, op
  <2>4. stack'[1].ret = Libc /\ (InMain(pc') <=> Len(stack') = 1)
    <3>1. InMain(pc') <=> InMain(pc)
      BY <2>1 DEF InMain
    <3>2. Len(stack') = Len(stack) /\ stack'[1].ret = stack[1].ret
      BY <1>1, <1>2, Inside
    <3> QED
      BY <3>1, <3>2 DEF Chain
  <2> QED
    BY <1>1, <1>2, <2>1, <2>2, <2>3, <2>4, Inside DEF Chain
<1>3. CASE op = "call"
  <2>1. PICK f \in Funcs \ {Main} : pc' = f.low
    BY <1>1, <1>3, Calls DEF Compiled, op
  <2>2. pc' \in Instrs /\ op' = "push" /\ ~InMain(pc')
    <3>1. f.low \in Instrs /\ Code[f.low].op = "push"
      BY <2>1, FramesAssumption DEF Compiled
    <3>2. f \in get_func_die_from_pc(f.low)
      <4>1. f.low \in Nat /\ f.low < f.high
        BY <2>1, <3>1, FramesAssumption DEF Compiled
      <4> QED
        BY <4>1 DEF get_func_die_from_pc
    <3> QED
      BY <2>1, <3>1, <3>2 DEF InMain, op
  <2>3. pc \in Framed /\ rbp = Len(stack)
    BY <1>1, <1>3 DEF Framed, Chain, op
  <2>4. rbp' = IF pc' \in Framed THEN Len(stack') ELSE Len(stack') - 1
    BY <1>1, <1>3, <2>2, <2>3, Calls DEF Framed, op
  <2>5. \A i \in 1 .. Len(stack') :
          /\ i < Len(stack') => stack'[i].saved = i - 1
          /\ i >= 2 => stack'[i].ret \in Framed /\ (InMain(stack'[i].ret) <=> i = 2)
    <3> TAKE i \in 1 .. Len(stack')
    <3>1. CASE i <= Len(stack)
      <4>1. stack'[i] = stack[i]
        BY <1>1, <1>3, <3>1, Calls
      <4> QED
        BY <1>1, <1>3, <3>1, <4>1 DEF Chain
    <3>2. CASE i = Len(stack) + 1
      <4>1. stack'[i].ret \in Framed /\ (InMain(stack'[i].ret) <=> InMain(pc))
        <5>1. stack'[i].ret = pc + Code[pc].len
          BY <1>3, <3>2, Calls
        <5>2. /\ pc + Code[pc].len \in Framed
              /\ get_func_die_from_pc(pc + Code[pc].len) = get_func_die_from_pc(pc)
          BY <1>1, <1>3, Behind DEF op
        <5> QED
          BY <5>1, <5>2 DEF InMain
      <4>2. InMain(pc) <=> i = 2
        <5>1. InMain(pc) <=> Len(stack) = 1
          BY DEF Chain
        <5>2. Len(stack) \in Int
          BY <1>1
        <5>3. ASSUME NEW n \in Int, i = n + 1 PROVE n = 1 <=> i = 2
          BY <5>3
        <5>4. Len(stack) = 1 <=> i = 2
          BY <3>2, <5>2, <5>3
        <5> QED
          BY <5>1, <5>4
      <4> QED
        BY <1>1, <1>3, <3>2, <4>1, <4>2, Calls
    <3>3. Len(stack') = Len(stack) + 1 /\ i \in Nat
      BY <1>3, Calls
    <3>4. i <= Len(stack) \/ i = Len(stack) + 1
      BY <1>1, <3>3
    <3> QED
      BY <3>1, <3>2, <3>4
  <2>6. stack'[1].ret = Libc /\ Len(stack') >= 1 /\ ~(Len(stack') = 1)
    BY <1>1, <1>3, Calls DEF Chain
  <2> QED
    BY <1>3, <2>2, <2>4, <2>5, <2>6, Calls DEF Chain
<1>4. CASE op = "ret"
  <2> DEFINE n == Len(stack)
  <2>1. pc' = stack[n].ret /\ Len(stack') = n - 1
        /\ \A i \in 1 .. n - 1 : stack'[i] = stack[i]
    BY <1>4, Returns
  <2>2. stack[1].ret = Libc /\ n >= 2
    BY <1>1, <2>1 DEF Chain
  <2>3. \A i \in 1 .. n :
          /\ i < n => stack[i].saved = i - 1
          /\ i >= 2 => stack[i].ret \in Framed /\ (InMain(stack[i].ret) <=> i = 2)
    BY DEF Chain
  <2>4. pc' \in Framed /\ (InMain(pc') <=> n = 2)
    BY <1>1, <2>1, <2>2, <2>3
  <2>5. pc' \in Instrs /\ op' # "push"
    BY <2>4 DEF Framed, op
  <2>6. rbp' = Len(stack')
    BY <1>1, <1>4, <2>1, Returns DEF Chain, Framed, op
  <2>7. \A i \in 1 .. n - 1 :
          /\ stack'[i].saved = i - 1
          /\ i >= 2 => stack'[i].ret \in Framed /\ (InMain(stack'[i].ret) <=> i = 2)
    BY <1>1, <2>1, <2>3
  <2>8. stack'[1].ret = Libc /\ n - 1 >= 1
    BY <1>1, <2>1, <2>2
  <2> HIDE DEF n
  <2> QED
    BY <1>1, <1>4, <2>1, <2>4, <2>5, <2>6, <2>7, <2>8, Returns DEF Chain
<1> QED
  BY <1>2, <1>3, <1>4

-----------------------------------------------------------------------------
(***************************************************************************)
(* The frames in every state.                                              *)
(***************************************************************************)

\* main begins at its own entry.
LEMMA InitChain ==
  ASSUME Compiled
  PROVE  Init => ChainInv
<1> SUFFICES ASSUME Init PROVE ChainInv
  OBVIOUS
<1>1. pc = Main.low /\ rbp = 0 /\ stack = <<[ret |-> Libc, saved |-> 0]>> /\ bps \subseteq BreakAt
  BY DEF Init
<1>2. Main.low \in Instrs /\ Main.low \in Nat /\ op = "push" /\ Main.low < Main.high
  BY <1>1, FramesAssumption DEF Compiled, op
<1>3. InMain(pc)
  <2>1. PICK f \in Funcs : get_func_die_from_pc(pc) = {f}
    BY <1>1, <1>2 DEF Compiled
  <2>2. Main \in get_func_die_from_pc(pc)
    BY <1>1, <1>2, FramesAssumption DEF get_func_die_from_pc
  <2> QED
    BY <2>1, <2>2 DEF InMain
<1>4. stack \in Seq(Frame) /\ Len(stack) = 1 /\ stack[1].ret = Libc
  <2>1. [ret |-> Libc, saved |-> 0] \in Frame
    BY FramesAssumption DEF Frame
  <2> QED
    BY <1>1, <2>1
<1>5. rbp = IF pc \in Framed THEN Len(stack) ELSE Len(stack) - 1
  BY <1>1, <1>2, <1>4 DEF Framed, op
<1>6. \A i \in 1 .. Len(stack) :
        /\ i < Len(stack) \/ op # "push" => stack[i].saved = i - 1
        /\ i >= 2 => stack[i].ret \in Framed /\ (InMain(stack[i].ret) <=> i = 2)
  BY <1>2, <1>4
<1> QED
  BY <1>1, <1>2, <1>3, <1>4, <1>5, <1>6 DEF ChainInv, Chain

\* Between two instructions nothing of the tracee changes.
LEMMA Resting ==
  ASSUME Chain, UNCHANGED <<pc, rbp, stack>>
  PROVE  Chain'
BY DEF Chain, op, InMain, get_func_die_from_pc

\* Which steps are an instruction, and where main's return leads.
LEMMA Executes ==
  ASSUME ChainInv, stop \/ run_on \/ exit
  PROVE  /\ ctl = "running" /\ Chain /\ instruction /\ UNCHANGED <<bps, cmd, start>>
         /\ pc' = Libc => ctl' \in {"aborted", "exited"}
BY DEF ChainInv, Alive, stop, run_on, exit

\* The debugger's own steps leave the tracee where it is.
LEMMA Commanding ==
  ASSUME [Next]_vars, ~(stop \/ run_on \/ exit)
  PROVE  UNCHANGED <<pc, rbp, stack, bps>> /\ (Alive' => Alive)
<1>1. CASE continue_execution \/ stepi \/ step_in \/ step_out \/ step_over \/ print_backtrace
  BY <1>1 DEF continue_execution, stepi, step_in, step_out, step_over, print_backtrace, go,
              traceeVars, Alive
<1>2. CASE print_frame
  BY <1>2 DEF print_frame, traceeVars, Alive
<1>3. CASE ended \/ UNCHANGED vars
  BY <1>3 DEF ended, vars, Alive
<1> QED
  BY <1>1, <1>2, <1>3 DEF Next

\* The chain is kept, whatever the commands do.
LEMMA NextChain ==
  ASSUME Compiled, ChainInv, [Next]_vars
  PROVE  ChainInv'
<1>1. CASE stop \/ run_on \/ exit
  <2>1. CASE pc' = Libc
    BY <1>1, <2>1, Executes DEF ChainInv, Alive
  <2>2. CASE pc' # Libc
    BY <1>1, <2>2, Executes, ChainKept DEF ChainInv
  <2> QED
    BY <2>1, <2>2
<1>2. CASE ~(stop \/ run_on \/ exit)
  <2>1. UNCHANGED <<pc, rbp, stack, bps>> /\ (Alive' => Alive)
    BY <1>2, Commanding
  <2> QED
    BY <2>1, Resting DEF ChainInv
<1> QED
  BY <1>1, <1>2

-----------------------------------------------------------------------------
(***************************************************************************)
(* backtrace.                                                              *)
(***************************************************************************)

\* It is given where rbp is set or at a function's entry, and there is no
\* breakpoint inside a prologue.
Walkable ==
  /\ \A a \in CommandAt["backtrace"] : Code[a].op \notin {"mov", "ret"}
  /\ \A f \in Funcs : f.low + 1 \notin BreakAt

\* The frames printed so far are the topmost, and the two locals of
\* print_backtrace belong to the next one.
Walk ==
  LET n == Len(stack)
      k == Len(trace)
  IN  /\ pc \in Framed
      /\ trace \in Seq(Nat) /\ k \in 1 .. n
      /\ \A i \in 1 .. k : trace[i] = IF i = 1 THEN pc ELSE stack[n + 2 - i].ret
      /\ fp = n + 1 - k /\ ra = stack[n + 1 - k].ret

\* On the way out of the prologue.
Prologue ==
  /\ \E f \in Funcs : start.pc = f.low
  /\ pc \in {start.pc, start.pc + 1}
  /\ temps = {start.pc + 4} \ bps

WalkInv ==
  cmd = "backtrace" =>
    /\ Alive
    /\ ctl = "running" => Prologue
    /\ ctl = "frames" => Walk
    /\ ctl = "prompt" => BacktraceTrue

\* The step over the prologue is two instructions, and the second stops.
LEMMA FromEntry ==
  ASSUME Compiled, Walkable, ChainInv, Chain, Prologue, instruction
  PROVE  \/ pc = start.pc /\ pc' = start.pc + 1 /\ pc' \in Instrs /\ pc' \notin bps \cup temps
         \/ pc' = start.pc + 4 /\ pc' \in Framed /\ pc' \in bps \cup temps
<1>1. PICK f \in Funcs : start.pc = f.low
  BY DEF Prologue
<1>2. /\ f.low \in Instrs /\ f.low \in Nat /\ Code[f.low].op = "push" /\ Code[f.low].len = 1
      /\ Code[f.low + 1].len = 3 /\ f.low + 1 \notin bps
  BY <1>1, FramesAssumption DEF Compiled, Walkable, ChainInv
<1>3. After(f.low) = {f.low + 1}
  BY <1>2 DEF After
<1>4. f.low + 1 \in Instrs /\ Code[f.low + 1].op = "mov"
  BY <1>2, <1>3 DEF Compiled
<1>5. After(f.low + 1) = {f.low + 4}
  BY <1>2, <1>4 DEF After
<1>6. f.low + 4 \in Framed
  BY <1>4, <1>5 DEF Compiled, Framed
<1>7. CASE pc = f.low
  <2>1. pc' = f.low + 1
    BY <1>2, <1>3, <1>7, Inside DEF op
  <2>2. temps = {f.low + 4} \ bps /\ f.low + 1 # f.low + 4
    BY <1>1, <1>2 DEF Prologue
  <2> QED
    BY <1>1, <1>2, <1>4, <1>7, <2>1, <2>2
<1>8. CASE pc = f.low + 1
  <2>1. pc' = f.low + 4
    BY <1>4, <1>5, <1>8, Inside DEF op
  <2> QED
    BY <1>1, <1>6, <2>1 DEF Prologue
<1> QED
  BY <1>1, <1>7, <1>8 DEF Prologue

\* The first frame is the one of the pc.
LEMMA FirstFrame ==
  Chain /\ pc \in Framed /\ trace = <<pc>> /\ fp = rbp /\ ra = return_address(rbp) => Walk
<1> SUFFICES ASSUME Chain, pc \in Framed, trace = <<pc>>, fp = rbp, ra = return_address(rbp)
             PROVE  Walk
  OBVIOUS
<1>1. Len(stack) \in Nat /\ Len(stack) >= 1 /\ pc \in Nat /\ stack \in Seq(Frame)
  BY FramesAssumption DEF Chain
<1>2. rbp = Len(stack) /\ Len(stack) \in DOMAIN stack
  BY <1>1 DEF Chain
<1>3. trace \in Seq(Nat) /\ Len(trace) = 1 /\ trace[1] = pc
  BY <1>1
<1>4. ra = stack[Len(stack)].ret
  BY <1>2 DEF return_address
<1> QED
  BY <1>1, <1>2, <1>3, <1>4 DEF Walk

\* The walk is at main exactly when it has come to the last frame, ...
LEMMA WalkEnds ==
  ASSUME Chain, Walk
  PROVE  InMain(trace[Len(trace)]) <=> Len(trace) = Len(stack)
<1> DEFINE n == Len(stack)
           k == Len(trace)
<1>1. n \in Nat /\ k \in 1 .. n
  BY DEF Chain, Walk
<1>0. \A i \in 1 .. k : trace[i] = IF i = 1 THEN pc ELSE stack[n + 2 - i].ret
  BY DEF Walk
<1>4. /\ InMain(pc) <=> n = 1
      /\ \A i \in 2 .. n : InMain(stack[i].ret) <=> i = 2
  BY <1>1 DEF Chain
<1> HIDE DEF n, k
<1>2. CASE k = 1
  <2>1. trace[k] = pc
    BY <1>0, <1>1, <1>2
  <2> QED
    BY <1>1, <1>2, <1>4, <2>1 DEF n, k
<1>3. CASE k # 1
  <2>1. trace[k] = stack[n + 2 - k].ret
    BY <1>0, <1>1, <1>3
  <2>2. n + 2 - k \in 2 .. n
    BY <1>1, <1>3
  <2>3. InMain(trace[k]) <=> n + 2 - k = 2
    BY <1>4, <2>1, <2>2
  <2>4. n + 2 - k = 2 <=> k = n
    BY <1>1
  <2> QED
    BY <2>3, <2>4 DEF n, k
<1> QED
  BY <1>2, <1>3

\* ... and until then there is a function to go on with.
LEMMA WalkGoesOn ==
  ASSUME Compiled, Chain, Walk, Len(trace) # Len(stack)
  PROVE  /\ get_func_die_from_pc(ra) # {} /\ ra \in Nat
         /\ caller_frame(fp) = Len(stack) - Len(trace)
         /\ return_address(caller_frame(fp)) = stack[Len(stack) - Len(trace)].ret
<1> DEFINE n == Len(stack)
           k == Len(trace)
<1>1. n \in Nat /\ k \in 1 .. n /\ k < n /\ stack \in Seq(Frame)
  BY DEF Chain, Walk
<1>3. fp = n + 1 - k /\ ra = stack[n + 1 - k].ret /\ pc \in Framed /\ n + 1 - k \in 2 .. n
      /\ n - k \in 1 .. n /\ n + 1 - k \in 1 .. n
  BY <1>1 DEF Walk
<1>4. op # "push"
  BY <1>3 DEF Framed, op
<1>5. stack[n + 1 - k].saved = n + 1 - k - 1 /\ stack[n + 1 - k].ret \in Framed
  BY <1>3, <1>4 DEF Chain
<1>6. get_func_die_from_pc(ra) # {} /\ ra \in Nat
  <2>1. ra \in Instrs
    BY <1>3, <1>5 DEF Framed
  <2>2. PICK f \in Funcs : get_func_die_from_pc(ra) = {f}
    BY <2>1 DEF Compiled
  <2> QED
    BY <2>1, <2>2, FramesAssumption
<1>7. caller_frame(fp) = n - k
  BY <1>1, <1>3, <1>5 DEF caller_frame
<1>8. return_address(n - k) = stack[n - k].ret
  BY <1>1, <1>3 DEF return_address
<1> QED
  BY <1>6, <1>7, <1>8

\* One more frame is the next one.
LEMMA NextFrame ==
  ASSUME Compiled, Chain, Walk, Len(trace) # Len(stack),
         trace' = Append(trace, ra), fp' = caller_frame(fp), ra' = return_address(fp'),
         UNCHANGED <<pc, stack>>
  PROVE  Walk'
<1> DEFINE n == Len(stack)
           k == Len(trace)
<1>1. n \in Nat /\ k \in 1 .. n /\ k < n /\ k + 1 \in 1 .. n /\ trace \in Seq(Nat)
  BY DEF Chain, Walk
<1>2. /\ ra = stack[n + 1 - k].ret /\ pc \in Framed
      /\ \A i \in 1 .. k : trace[i] = IF i = 1 THEN pc ELSE stack[n + 2 - i].ret
  BY DEF Walk
<1>3. ra \in Nat /\ fp' = n - k /\ ra' = stack[n - k].ret /\ stack' = stack
  BY WalkGoesOn
<1>4. trace' \in Seq(Nat) /\ Len(trace') = k + 1
      /\ \A i \in 1 .. k + 1 : trace'[i] = IF i <= k THEN trace[i] ELSE ra
  BY <1>1, <1>3
<1>5. n + 1 - (k + 1) = n - k /\ n + 2 - (k + 1) = n + 1 - k
  BY <1>1
<1> HIDE DEF n, k
<1>6. \A i \in 1 .. k + 1 : trace'[i] = IF i = 1 THEN pc ELSE stack[n + 2 - i].ret
  <2> TAKE i \in 1 .. k + 1
  <2>1. CASE i <= k
    <3>1. i \in 1 .. k /\ trace'[i] = trace[i]
      BY <1>1, <1>4, <2>1
    <3> QED
      BY <1>2, <3>1
  <2>2. CASE i = k + 1
    <3>1. trace'[i] = ra /\ i # 1 /\ n + 2 - i = n + 1 - k
      BY <1>1, <1>4, <1>5, <2>2
    <3> QED
      BY <1>2, <3>1
  <2>3. i <= k \/ i = k + 1
    BY <1>1
  <2> QED
    BY <2>1, <2>2, <2>3
<1>7. Len(stack') = n /\ pc' = pc
  BY <1>3 DEF n
<1> QED
  BY <1>1, <1>2, <1>3, <1>4, <1>5, <1>6, <1>7 DEF Walk

\* At the last frame all of them have been printed.
LEMMA WalkDone ==
  ASSUME Chain, Walk, Len(trace) = Len(stack)
  PROVE  trace = [i \in 1 .. Len(stack) |-> IF i = 1 THEN pc ELSE stack[Len(stack) + 2 - i].ret]
<1>1. trace \in Seq(Nat) /\ \A i \in 1 .. Len(stack) :
        trace[i] = IF i = 1 THEN pc ELSE stack[Len(stack) + 2 - i].ret
  BY DEF Walk
<1>2. trace = [i \in 1 .. Len(stack) |-> trace[i]]
  BY <1>1
<1> QED
  BY <1>1, <1>2

\* Every step keeps to the frames there are.
LEMMA NextWalk ==
  ASSUME Compiled, Walkable, ChainInv, ChainInv', WalkInv, [Next]_vars
  PROVE  WalkInv'
<1>1. CASE continue_execution \/ stepi \/ step_in \/ step_out \/ step_over
  BY <1>1 DEF continue_execution, stepi, step_in, step_out, step_over, go, WalkInv
<1>2. CASE print_backtrace
  <2>1. CASE \E f \in Funcs : f.low = pc
    <3>1. /\ ctl' = "running" /\ start'.pc = pc /\ temps' = {pc + 4} \ bps
          /\ UNCHANGED <<pc, bps>>
      BY <1>2, <2>1 DEF print_backtrace, go, traceeVars
    <3> QED
      BY <2>1, <3>1 DEF WalkInv, Alive, Prologue
  <2>2. CASE ~\E f \in Funcs : f.low = pc
    <3>1. /\ ctl = "prompt" /\ pc \in CommandAt["backtrace"] /\ ctl' = "frames"
          /\ trace' = <<pc>> /\ fp' = rbp /\ ra' = return_address(rbp)
          /\ UNCHANGED <<pc, rbp, stack>>
      BY <1>2, <2>2 DEF print_backtrace, traceeVars
    <3>2. Chain /\ pc \in Framed /\ Chain'
      BY <2>2, <3>1 DEF ChainInv, Alive, Chain, Framed, Compiled, Walkable
    <3>3. return_address(rbp)' = return_address(rbp)
      BY <3>1 DEF return_address
    <3>5. (Chain /\ pc \in Framed /\ trace = <<pc>> /\ fp = rbp /\ ra = return_address(rbp) => Walk)'
      BY FirstFrame, PTL
    <3>6. Walk'
      BY <3>1, <3>2, <3>3, <3>5
    <3> QED
      BY <3>1, <3>6 DEF WalkInv, Alive
  <2> QED
    BY <2>1, <2>2
<1>3. CASE print_frame
  <2> SUFFICES ASSUME cmd = "backtrace" PROVE WalkInv'
    BY <1>3 DEF print_frame, WalkInv
  <2>1. Chain /\ Walk /\ ctl = "frames" /\ UNCHANGED <<pc, rbp, stack, cmd>>
    BY <1>3 DEF print_frame, WalkInv, ChainInv, Alive, traceeVars
  <2>2. CASE InMain(trace[Len(trace)])
    <3>1. ctl' = "prompt" /\ trace' = trace
      BY <1>3, <2>2 DEF print_frame, InMain, walkVars
    <3>2. Len(trace) = Len(stack)
      BY <2>1, <2>2, WalkEnds
    <3>3. trace = [i \in 1 .. Len(stack) |-> IF i = 1 THEN pc ELSE stack[Len(stack) + 2 - i].ret]
      BY <2>1, <3>2, WalkDone
    <3> QED
      BY <2>1, <3>1, <3>3 DEF WalkInv, Alive, BacktraceTrue
  <2>3. CASE ~InMain(trace[Len(trace)])
    <3>1. Len(trace) # Len(stack)
      BY <2>1, <2>3, WalkEnds
    <3>2. get_func_die_from_pc(ra) # {}
      BY <2>1, <3>1, WalkGoesOn
    <3>3. /\ trace' = Append(trace, ra) /\ fp' = caller_frame(fp) /\ ra' = return_address(fp')
          /\ ctl' = ctl
      <4>1. return_address(fp)' = return_address(fp')
        BY <2>1 DEF return_address
      <4> QED
        BY <1>3, <2>3, <3>2, <4>1 DEF print_frame, InMain
    <3>4. Walk'
      BY <2>1, <3>1, <3>3, NextFrame
    <3> QED
      BY <2>1, <3>3, <3>4 DEF WalkInv, Alive
  <2> QED
    BY <2>2, <2>3
<1>4. CASE stop \/ run_on \/ exit
  <2> SUFFICES ASSUME cmd = "backtrace" PROVE WalkInv'
    BY <1>4, Executes DEF WalkInv
  <2>1. ctl = "running" /\ Chain /\ instruction /\ Prologue /\ UNCHANGED <<bps, cmd, start>>
    BY <1>4, Executes DEF WalkInv
  <2>2. CASE pc = start.pc /\ pc' = start.pc + 1 /\ pc' \in Instrs /\ pc' \notin bps \cup temps
    <3>1. pc' # Libc /\ ~arrived
      BY <2>2, FramesAssumption DEF arrived
    <3>2. run_on
      BY <1>4, <3>1 DEF stop, exit
    <3>3. UNCHANGED <<temps, ctl>>
      BY <3>2 DEF run_on
    <3> QED
      BY <2>1, <2>2, <3>3 DEF WalkInv, Alive, Prologue
  <2>3. CASE pc' = start.pc + 4 /\ pc' \in Framed /\ pc' \in bps \cup temps
    <3>1. pc' # Libc /\ arrived
      BY <2>3, FramesAssumption DEF arrived, Framed
    <3>2. stop
      BY <1>4, <3>1 DEF run_on, exit
    <3>3. ctl' = "frames" /\ trace' = <<pc'>> /\ fp' = rbp' /\ ra' = return_address(rbp)'
      BY <2>3, <3>1, <3>2 DEF stop
    <3>4. Chain'
      BY <3>3 DEF ChainInv, Alive
    <3>5. (Chain /\ pc \in Framed /\ trace = <<pc>> /\ fp = rbp /\ ra = return_address(rbp) => Walk)'
      BY FirstFrame, PTL
    <3>6. Walk'
      BY <2>3, <3>3, <3>4, <3>5 DEF Framed
    <3> QED
      BY <2>1, <3>3, <3>6 DEF WalkInv, Alive
  <2> QED
    BY <2>1, <2>2, <2>3, FromEntry
<1>5. CASE ended \/ UNCHANGED vars
  BY <1>5 DEF ended, vars, WalkInv, Alive, Prologue, Walk, BacktraceTrue, Framed
<1> QED
  BY <1>1, <1>2, <1>3, <1>4, <1>5 DEF Next

\* backtrace prints the frames there are and comes back, in every program
\* compiled with frame pointers, recursive or not, however deep the stack,
\* and from every function's entry too.
THEOREM BacktraceRight ==
  ASSUME Compiled, Walkable
  PROVE  Spec => []BacktraceTrue
<1>1. Init => ChainInv /\ WalkInv
  <2>1. Init => WalkInv
    BY DEF Init, WalkInv
  <2> QED
    BY <2>1, InitChain
<1>2. ChainInv /\ WalkInv /\ [Next]_vars => ChainInv' /\ WalkInv'
  BY NextChain, NextWalk
<1>3. WalkInv => BacktraceTrue
  BY DEF WalkInv, Alive, BacktraceTrue
<1> QED
  BY <1>1, <1>2, <1>3, PTL DEF Spec

-----------------------------------------------------------------------------
(***************************************************************************)
(* finish and next, in a program without recursion.                        *)
(***************************************************************************)

\* Every call goes down, from one level of functions to a lower one.
Layered(level) ==
  /\ level \in [Instrs -> Nat]
  /\ \A a, b \in Instrs : get_func_die_from_pc(a) = get_func_die_from_pc(b) => level[a] = level[b]
  /\ \A a \in Instrs : Code[a].op = "call" => \A b \in Code[a].to : level[b] < level[a]

\* No function is on the stack twice: a frame is on a lower level than all
\* those below it.
Sorted(level) ==
  \A i \in 2 .. Len(stack) :
    /\ level[pc] < level[stack[i].ret]
    /\ \A j \in 2 .. i - 1 : level[stack[i].ret] < level[stack[j].ret]

SortedInv(level) == Alive => Sorted(level)

\* Where the frame d executes.
At(d) == IF Len(stack) = d THEN pc ELSE stack[d + 1].ret

\* While finish waits, its frame is on the stack and its return address stops
\* the tracee.
FinishInv ==
  cmd = "finish" /\ ctl = "running" =>
    /\ start.depth \in 1 .. Len(stack)
    /\ temps = {stack[start.depth].ret} \ bps

\* While next waits, its frame is on the stack; where the tracee stops is the
\* return address or in the function of that frame.
NextInv(level) ==
  cmd = "next" /\ ctl = "running" =>
    LET d == start.depth
    IN  /\ d \in 1 .. Len(stack) /\ start.pc \in Instrs
        /\ d >= 2 => stack[d].ret \in bps \cup temps
        /\ \A t \in temps : \/ d >= 2 /\ t = stack[d].ret
                            \/ t \in Instrs /\ level[t] = level[start.pc]
        /\ At(d) \in Instrs /\ level[At(d)] = level[start.pc]

\* Control goes forward only, and reaches a line where it begins.
Forward ==
  \A a \in Instrs : Code[a].op # "ret" =>
    \A b \in After(a) :
      a < b /\ (Code[b].line = Code[a].line \/ Code[b].line # Code[before(b)].line)

\* While next waits, its frame is still on the line where it was given, or
\* waits for a call to return to where the tracee will stop.
LineInv ==
  cmd = "next" /\ ctl = "running" =>
    LET d == start.depth
    IN  /\ get_func_die_from_pc(At(d)) = get_func_die_from_pc(start.pc)
        /\ start.pc <= At(d)
        /\ \/ Code[At(d)].line = Code[start.pc].line
           \/ Len(stack) # d /\ At(d) \in bps \cup temps
        /\ lines_from(start.pc) \subseteq bps \cup temps

\* finish and next are given where rbp is set.
FramedOnly == CommandAt["finish"] \cup CommandAt["next"] \subseteq Framed

-----------------------------------------------------------------------------

\* A frame stays, and executes on or waits on, until it returns.
LEMMA FrameSteps ==
  ASSUME Compiled, Chain, instruction, NEW d \in 1 .. Len(stack)
  PROVE  \/ /\ d \in 1 .. Len(stack') /\ stack'[d].ret = stack[d].ret
            /\ \/ At(d)' = At(d)
               \/ Len(stack) = d /\ op # "ret" /\ At(d)' \in After(pc)
         \/ Len(stack) = d /\ Len(stack') = d - 1 /\ pc' = stack[d].ret
<1> DEFINE n == Len(stack)
           m == Len(stack')
<1>1. n \in Nat /\ d \in 1 .. n /\ d \in Nat
  BY DEF Chain
<1>2. /\ At(d) = IF n = d THEN pc ELSE stack[d + 1].ret
      /\ At(d)' = IF m = d THEN pc' ELSE stack'[d + 1].ret
  BY DEF At
<1>3. CASE op \notin {"call", "ret"}
  <2>1. pc' \in After(pc) /\ m = n /\ \A i \in 1 .. n : stack'[i].ret = stack[i].ret
    BY <1>3, Inside
  <2> HIDE DEF n, m
  <2>2. CASE n = d
    BY <1>1, <1>2, <1>3, <2>1, <2>2 DEF n, m
  <2>3. CASE n # d
    <3>1. d + 1 \in 1 .. n
      BY <1>1, <2>3
    <3> QED
      BY <1>1, <1>2, <2>1, <2>3, <3>1 DEF n, m
  <2> QED
    BY <2>2, <2>3
<1>4. CASE op = "call"
  <2>1. /\ m = n + 1 /\ \A i \in 1 .. n : stack'[i] = stack[i]
        /\ stack'[n + 1].ret = pc + Code[pc].len
    BY <1>4, Calls
  <2>2. pc + Code[pc].len \in After(pc)
    BY <1>4 DEF After, op
  <2> HIDE DEF n, m
  <2>3. m # d /\ d \in 1 .. m /\ stack'[d].ret = stack[d].ret
    BY <1>1, <2>1
  <2>4. CASE n = d
    BY <1>2, <1>4, <2>1, <2>2, <2>3, <2>4 DEF n, m
  <2>5. CASE n # d
    <3>1. d + 1 \in 1 .. n
      BY <1>1, <2>5
    <3> QED
      BY <1>2, <2>1, <2>3, <2>5, <3>1 DEF n, m
  <2> QED
    BY <2>4, <2>5
<1>5. CASE op = "ret"
  <2>1. pc' = stack[n].ret /\ m = n - 1 /\ \A i \in 1 .. n - 1 : stack'[i] = stack[i]
    BY <1>5, Returns
  <2> HIDE DEF n, m
  <2>2. CASE n = d
    BY <2>1, <2>2 DEF n, m
  <2>3. CASE n # d
    <3>1. d \in 1 .. m /\ stack'[d].ret = stack[d].ret
      BY <1>1, <2>1, <2>3
    <3>2. CASE m = d
      <4>1. n = d + 1
        BY <1>1, <2>1, <3>2
      <4> QED
        BY <1>2, <2>1, <2>3, <3>1, <3>2, <4>1 DEF n, m
    <3>3. CASE m # d
      <4>1. d + 1 \in 1 .. n - 1
        BY <1>1, <2>1, <2>3, <3>3
      <4> QED
        BY <1>2, <2>1, <2>3, <3>1, <3>3, <4>1 DEF n, m
    <3> QED
      BY <3>2, <3>3
  <2> QED
    BY <2>2, <2>3
<1> QED
  BY <1>3, <1>4, <1>5

\* An instruction's successors are in its function, on its level.
LEMMA SameLevel ==
  ASSUME Compiled, NEW level, Layered(level), NEW a \in Instrs, Code[a].op # "ret",
         NEW b \in After(a)
  PROVE  /\ b \in Instrs /\ level[b] = level[a]
         /\ get_func_die_from_pc(b) = get_func_die_from_pc(a)
BY DEF Compiled, Layered

\* Calls and returns keep the stack sorted.
LEMMA SortedKept ==
  ASSUME Compiled, NEW level, Layered(level), Chain, Sorted(level), instruction, pc' # Libc
  PROVE  Sorted(level)'
<1> DEFINE n == Len(stack)
           m == Len(stack')
           L(i) == level[stack[i].ret]
           P(i) == level[stack'[i].ret]
<1>1. /\ n \in Nat /\ n >= 1 /\ pc \in Instrs /\ level \in [Instrs -> Nat]
      /\ \A i \in 2 .. n : stack[i].ret \in Instrs
  BY DEF Chain, Layered, Framed
<1>2. level[pc] \in Nat /\ \A i \in 2 .. n : L(i) \in Nat
  BY <1>1
<1>3. \A i \in 2 .. n : level[pc] < L(i) /\ \A j \in 2 .. i - 1 : L(i) < L(j)
  BY DEF Sorted
<1>4. SUFFICES \A i \in 2 .. m : level[pc'] < P(i) /\ \A j \in 2 .. i - 1 : P(i) < P(j)
  <2>1. level' = level
    OBVIOUS
  <2> QED
    BY <2>1 DEF Sorted
<1>5. CASE op \notin {"call", "ret"}
  <2>1. pc' \in After(pc) /\ m = n /\ \A i \in 1 .. n : stack'[i].ret = stack[i].ret
    BY <1>5, Inside
  <2>2. level[pc'] = level[pc]
    BY <1>1, <1>5, <2>1, SameLevel DEF op
  <2>3. \A i \in 2 .. n : P(i) = L(i)
    BY <1>1, <2>1
  <2> HIDE DEF n, m, L, P
  <2> QED
    BY <1>1, <1>2, <1>3, <2>1, <2>2, <2>3
<1>6. CASE op = "call"
  <2>1. /\ m = n + 1 /\ \A i \in 1 .. n : stack'[i] = stack[i]
        /\ stack'[n + 1].ret = pc + Code[pc].len /\ pc' \in Code[pc].to
    BY <1>6, Calls
  <2>2. pc' \in Instrs /\ level[pc'] < level[pc]
    BY <1>1, <1>6, <2>1, FramesAssumption DEF Layered, op
  <2>3. P(n + 1) = level[pc]
    <3>1. pc + Code[pc].len \in After(pc)
      BY <1>6 DEF After, op
    <3> QED
      BY <1>1, <1>6, <2>1, <3>1, SameLevel DEF op
  <2>4. \A i \in 2 .. n : P(i) = L(i)
    BY <1>1, <2>1
  <2>5. level[pc'] \in Nat
    BY <1>1, <2>2
  <2> HIDE DEF n, m, L, P
  <2>6. ASSUME NEW i \in 2 .. m
        PROVE  level[pc'] < P(i) /\ \A j \in 2 .. i - 1 : P(i) < P(j)
    <3>1. CASE i \in 2 .. n
      <4>1. \A j \in 2 .. i - 1 : j \in 2 .. n
        BY <1>1, <3>1
      <4> QED
        BY <1>2, <1>3, <2>2, <2>4, <2>5, <3>1, <4>1
    <3>2. CASE i = n + 1
      <4>1. \A j \in 2 .. i - 1 : j \in 2 .. n
        BY <1>1, <3>2
      <4> QED
        BY <1>2, <1>3, <2>2, <2>3, <2>4, <2>5, <3>2, <4>1
    <3>3. i \in 2 .. n \/ i = n + 1
      BY <1>1, <2>1
    <3> QED
      BY <3>1, <3>2, <3>3
  <2> QED
    BY <2>6
<1>7. CASE op = "ret"
  <2>1. pc' = stack[n].ret /\ m = n - 1 /\ \A i \in 1 .. n - 1 : stack'[i] = stack[i]
    BY <1>7, Returns
  <2>2. n # 1
    BY <2>1 DEF Chain
  <2>3. level[pc'] = L(n) /\ \A i \in 2 .. m : P(i) = L(i)
    BY <1>1, <2>1
  <2> HIDE DEF n, m, L, P
  <2>4. ASSUME NEW i \in 2 .. m
        PROVE  level[pc'] < P(i) /\ \A j \in 2 .. i - 1 : P(i) < P(j)
    <3>1. i \in 2 .. n /\ n \in 2 .. n /\ i \in 2 .. n - 1
      BY <1>1, <2>1, <2>2
    <3>2. \A j \in 2 .. i - 1 : j \in 2 .. m
      BY <1>1, <2>1
    <3> QED
      BY <1>3, <2>3, <3>1, <3>2
  <2> QED
    BY <2>4
<1> QED
  BY <1>5, <1>6, <1>7

\* No function is on the stack twice, whatever the commands do.
LEMMA NextSorted ==
  ASSUME Compiled, NEW level, Layered(level), ChainInv, SortedInv(level), [Next]_vars
  PROVE  SortedInv(level)'
<1>1. CASE stop \/ run_on \/ exit
  <2>1. CASE pc' = Libc
    BY <1>1, <2>1, Executes DEF SortedInv, Alive
  <2>2. CASE pc' # Libc
    <3>1. Chain /\ Sorted(level) /\ instruction
      BY <1>1, Executes DEF SortedInv, Alive
    <3> QED
      BY <2>2, <3>1, SortedKept DEF SortedInv
  <2> QED
    BY <2>1, <2>2
<1>2. CASE ~(stop \/ run_on \/ exit)
  <2>1. UNCHANGED <<pc, rbp, stack, bps>> /\ (Alive' => Alive)
    BY <1>2, Commanding
  <2> QED
    BY <2>1 DEF SortedInv, Sorted
<1> QED
  BY <1>1, <1>2

\* It starts with main alone.
LEMMA InitSorted ==
  ASSUME NEW level
  PROVE  Init => SortedInv(level)
<1> SUFFICES ASSUME Init PROVE Sorted(level)
  BY DEF SortedInv
<1>1. Len(stack) = 1
  BY DEF Init
<1> QED
  BY <1>1 DEF Sorted

\* The steps of finish.
LEMMA NextFinish ==
  ASSUME Compiled, FramedOnly, ChainInv, FinishInv, [Next]_vars
  PROVE  FinishInv'
<1>1. CASE step_out
  <2>1. /\ ctl = "prompt" /\ pc \in CommandAt["finish"] /\ start'.depth = Len(stack)
        /\ temps' = {return_address(rbp)} \ bps /\ UNCHANGED <<stack, bps>>
    BY <1>1 DEF step_out, go, traceeVars
  <2>2. Chain /\ pc \in Framed
    BY <2>1 DEF ChainInv, Alive, FramedOnly
  <2>3. rbp = Len(stack) /\ Len(stack) \in 1 .. Len(stack) /\ stack \in Seq(Frame)
    BY <2>2 DEF Chain
  <2>4. return_address(rbp) = stack[Len(stack)].ret
    BY <2>3 DEF return_address
  <2>5. /\ start'.depth \in 1 .. Len(stack')
        /\ temps' = {stack'[start'.depth].ret} \ bps'
    BY <2>1, <2>3, <2>4
  <2> QED
    BY <2>5 DEF FinishInv
<1>2. CASE run_on
  <2> SUFFICES ASSUME cmd = "finish", ctl = "running" PROVE FinishInv'
    BY <1>2 DEF run_on, FinishInv
  <2>1. /\ Chain /\ instruction /\ pc' \notin bps \cup temps
        /\ UNCHANGED <<bps, temps, ctl, cmd, start>>
    BY <1>2, Executes DEF run_on, arrived
  <2>2. start.depth \in 1 .. Len(stack) /\ temps = {stack[start.depth].ret} \ bps
    BY DEF FinishInv
  <2>3. /\ start.depth \in 1 .. Len(stack')
        /\ stack'[start.depth].ret = stack[start.depth].ret
    BY <2>1, <2>2, FrameSteps
  <2> QED
    BY <2>1, <2>2, <2>3 DEF FinishInv
<1>3. CASE \/ continue_execution \/ stepi \/ step_in \/ step_over \/ print_backtrace
           \/ print_frame \/ stop \/ exit
  <2>1. cmd' # "finish" \/ ctl' # "running"
    BY <1>3 DEF continue_execution, stepi, step_in, step_over, print_backtrace, go, print_frame,
                stop, exit, walkVars
  <2> QED
    BY <2>1 DEF FinishInv
<1>4. CASE ended \/ UNCHANGED vars
  BY <1>4 DEF ended, vars, FinishInv
<1> QED
  BY <1>1, <1>2, <1>3, <1>4 DEF Next

\* Only a stop of the tracee ends finish or next at the prompt.
LEMMA DoneStops ==
  ASSUME Next, NEW c, Done(c), c # "backtrace"
  PROVE  /\ stop /\ pc' # Libc /\ pc' \notin bps
         /\ c \notin {"stepi", "step"} => pc' \in temps
<1>1. ctl = "running" /\ ctl' = "prompt" /\ cmd = c /\ pc' \notin bps
  BY DEF Done
<1>2. stop
  BY <1>1 DEF Next, continue_execution, stepi, step_in, step_out, step_over, print_backtrace, go,
              print_frame, run_on, exit, ended, vars
<1> QED
  BY <1>1, <1>2 DEF stop, arrived

\* finish stops in the caller, in every program without recursion.
THEOREM FinishRight ==
  ASSUME Compiled, FramedOnly, NEW level, Layered(level)
  PROVE  Spec => FinishReturns
<1> DEFINE Inv == ChainInv /\ SortedInv(level) /\ FinishInv
<1>1. Init => Inv
  <2>1. Init => FinishInv
    BY DEF Init, FinishInv
  <2> QED
    BY <2>1, InitChain, InitSorted
<1>2. Inv /\ [Next]_vars => Inv'
  BY NextChain, NextSorted, NextFinish
<1>3. Inv /\ Inv' /\ [Next]_vars =>
        [Done("finish") => Len(stack') = start.depth - 1]_vars
  <2> SUFFICES ASSUME Inv, Inv', Next, Done("finish") PROVE Len(stack') = start.depth - 1
    OBVIOUS
  <2> DEFINE d == start.depth
  <2>1. stop /\ pc' # Libc /\ pc' \notin bps /\ pc' \in temps
    BY DoneStops
  <2>2. /\ Chain /\ instruction /\ d \in 1 .. Len(stack) /\ pc' = stack[d].ret
        /\ Chain' /\ Sorted(level)'
    BY <2>1, Executes DEF Done, FinishInv, ChainInv, SortedInv, Alive
  <2>3. ~(d \in 1 .. Len(stack') /\ stack'[d].ret = stack[d].ret)
    <3> SUFFICES ASSUME d \in 1 .. Len(stack'), stack'[d].ret = stack[d].ret PROVE FALSE
      OBVIOUS
    <3>1. d # 1
      BY <2>1, <2>2 DEF Chain
    <3>2. d \in 2 .. Len(stack') /\ pc' = stack'[d].ret
      BY <2>2, <3>1
    <3>3. level[pc'] < level[pc']
      BY <2>2, <3>2 DEF Sorted
    <3>4. level[pc'] \in Nat
      BY <2>2 DEF Chain, Layered
    <3> QED
      BY <3>3, <3>4
  <2> HIDE DEF d
  <2>4. Len(stack') = d - 1
    BY <2>2, <2>3, FrameSteps
  <2> QED
    BY <2>4 DEF d
<1> QED
  BY <1>1, <1>2, <1>3, PTL DEF Spec, FinishReturns

-----------------------------------------------------------------------------
(***************************************************************************)
(* next, for a program without recursion.                                  *)
(***************************************************************************)

\* The lines that next waits for are further on in the function.
LEMMA LinesNear ==
  ASSUME Compiled, NEW level, Layered(level), NEW a \in Instrs, NEW b \in lines_from(a)
  PROVE  /\ b \in Instrs /\ a < b /\ level[b] = level[a]
         /\ get_func_die_from_pc(b) = get_func_die_from_pc(a)
<1>1. PICK f \in get_func_die_from_pc(a) : b \in Instrs /\ a < b /\ b < f.high
  BY DEF lines_from
<1>2. f \in get_func_die_from_pc(b)
  <2>1. f \in Funcs /\ f.low <= a
    BY <1>1 DEF get_func_die_from_pc
  <2>2. a \in Nat /\ b \in Nat /\ f.low \in Nat
    BY <1>1, <2>1, FramesAssumption
  <2>3. f.low <= b
    BY <1>1, <2>1, <2>2
  <2> QED
    BY <1>1, <2>1, <2>3 DEF get_func_die_from_pc
<1>3. get_func_die_from_pc(b) = get_func_die_from_pc(a)
  BY <1>1, <1>2 DEF Compiled
<1> QED
  BY <1>1, <1>3 DEF Layered

\* What next sets out with.
LEMMA NextBegins ==
  ASSUME Compiled, FramedOnly, ChainInv, step_over
  PROVE  /\ cmd' = "next" /\ ctl' = "running" /\ UNCHANGED <<pc, stack, bps>>
         /\ start'.pc = pc /\ start'.depth = Len(stack) /\ temps' = next_temps \ bps
         /\ Chain /\ pc \in Framed /\ rbp = Len(stack)
         /\ next_temps = lines_from(pc) \cup
                           IF Len(stack) = 1 THEN {} ELSE {stack[Len(stack)].ret}
<1>1. /\ cmd' = "next" /\ ctl' = "running" /\ UNCHANGED <<pc, stack, bps>>
      /\ start'.pc = pc /\ start'.depth = Len(stack) /\ temps' = next_temps \ bps
      /\ ctl = "prompt" /\ pc \in CommandAt["next"]
  BY DEF step_over, go, traceeVars
<1>2. Chain /\ pc \in Framed
  BY <1>1 DEF ChainInv, Alive, FramedOnly
<1>3. rbp = Len(stack) /\ Len(stack) \in 1 .. Len(stack) /\ stack \in Seq(Frame)
  BY <1>2 DEF Chain
<1>4. return_address(rbp) = stack[Len(stack)].ret
  BY <1>3 DEF return_address
<1>5. get_func_die_from_pc(pc) = {Main} <=> Len(stack) = 1
  BY <1>2 DEF Chain, InMain
<1> QED
  BY <1>1, <1>2, <1>3, <1>4, <1>5 DEF next_temps

\* While next waits, a step leaves its frame on the stack.
LEMMA FrameWaits ==
  ASSUME Compiled, ChainInv, NEW level, NextInv(level), run_on, cmd = "next", ctl = "running"
  PROVE  /\ Chain /\ instruction /\ pc' # Libc /\ pc' \notin bps \cup temps
         /\ UNCHANGED <<bps, temps, cmd, ctl, start>>
         /\ start.depth \in 1 .. Len(stack') /\ stack'[start.depth].ret = stack[start.depth].ret
         /\ \/ At(start.depth)' = At(start.depth)
            \/ Len(stack) = start.depth /\ op # "ret" /\ At(start.depth)' \in After(pc)
<1> DEFINE d == start.depth
<1>1. /\ Chain /\ instruction /\ pc' # Libc /\ pc' \notin bps \cup temps
      /\ UNCHANGED <<bps, temps, cmd, ctl, start>>
  BY Executes DEF run_on, arrived
<1>2. d \in 1 .. Len(stack) /\ (d >= 2 => stack[d].ret \in bps \cup temps)
  BY DEF NextInv
<1>3. ~(Len(stack) = d /\ Len(stack') = d - 1 /\ pc' = stack[d].ret)
  <2>1. d = 1 \/ d >= 2
    BY <1>1, <1>2 DEF Chain
  <2> QED
    BY <1>1, <1>2, <2>1 DEF Chain
<1>4. start' = start
  BY <1>1
<1>5. \A k \in 1 .. Len(stack) :
        \/ /\ k \in 1 .. Len(stack') /\ stack'[k].ret = stack[k].ret
           /\ \/ At(k)' = At(k)
              \/ Len(stack) = k /\ op # "ret" /\ At(k)' \in After(pc)
        \/ Len(stack) = k /\ Len(stack') = k - 1 /\ pc' = stack[k].ret
  BY <1>1, FrameSteps
<1>6. At(start.depth)' = IF Len(stack') = d THEN pc' ELSE stack'[d + 1].ret
  BY <1>4 DEF At
<1>7. \A k : At(k)' = IF Len(stack') = k THEN pc' ELSE stack'[k + 1].ret
  BY DEF At
<1> QED
  BY <1>1, <1>2, <1>3, <1>5, <1>6, <1>7

\* The steps of next.
LEMMA NextKept ==
  ASSUME Compiled, FramedOnly, NEW level, Layered(level), ChainInv, NextInv(level), [Next]_vars
  PROVE  NextInv(level)'
<1>1. CASE step_over
  <2> DEFINE n == Len(stack)
  <2>1. /\ cmd' = "next" /\ ctl' = "running" /\ UNCHANGED <<pc, stack, bps>>
        /\ start'.pc = pc /\ start'.depth = n /\ temps' = next_temps \ bps
        /\ Chain /\ n \in Nat /\ n >= 1 /\ pc \in Instrs
        /\ next_temps = lines_from(pc) \cup IF n = 1 THEN {} ELSE {stack[n].ret}
    BY <1>1, NextBegins DEF Chain
  <2>2. n \in 1 .. n /\ (n >= 2 => stack[n].ret \in bps' \cup temps')
    BY <2>1
  <2>3. \A t \in temps' : \/ n >= 2 /\ t = stack[n].ret
                          \/ t \in Instrs /\ level[t] = level[pc]
    <3>1. \A t \in lines_from(pc) : t \in Instrs /\ level[t] = level[pc]
      BY <2>1, LinesNear
    <3> HIDE DEF n
    <3> QED
      BY <2>1, <3>1
  <2>4. At(start.depth)' = pc
    BY <2>1 DEF At
  <2> HIDE DEF n
  <2>5. stack' = stack /\ Len(stack') = n
    BY <2>1 DEF n
  <2> QED
    BY <2>1, <2>2, <2>3, <2>4, <2>5 DEF NextInv
<1>2. CASE run_on
  <2> SUFFICES ASSUME cmd = "next", ctl = "running" PROVE NextInv(level)'
    BY <1>2 DEF run_on, NextInv
  <2> DEFINE d == start.depth
  <2>1. /\ Chain /\ UNCHANGED <<bps, temps, start>>
        /\ d \in 1 .. Len(stack') /\ stack'[d].ret = stack[d].ret
        /\ \/ At(start.depth)' = At(d)
           \/ Len(stack) = d /\ op # "ret" /\ At(start.depth)' \in After(pc)
    BY <1>2, FrameWaits
  <2>2. /\ start.pc \in Instrs
        /\ d >= 2 => stack[d].ret \in bps \cup temps
        /\ \A t \in temps : \/ d >= 2 /\ t = stack[d].ret
                            \/ t \in Instrs /\ level[t] = level[start.pc]
        /\ At(d) \in Instrs /\ level[At(d)] = level[start.pc]
    BY DEF NextInv
  <2>3. At(start.depth)' \in Instrs /\ level[At(start.depth)'] = level[start.pc]
    <3>1. CASE Len(stack) = d /\ op # "ret" /\ At(start.depth)' \in After(pc)
      <4>1. At(d) = pc /\ pc \in Instrs
        BY <2>1, <3>1 DEF At, Chain
      <4> QED
        BY <2>2, <3>1, <4>1, SameLevel DEF op
    <3> QED
      BY <2>1, <2>2, <3>1
  <2> QED
    BY <2>1, <2>2, <2>3 DEF NextInv
<1>3. CASE \/ continue_execution \/ stepi \/ step_in \/ step_out \/ print_backtrace
           \/ print_frame \/ stop \/ exit
  <2>1. cmd' # "next" \/ ctl' # "running"
    BY <1>3 DEF continue_execution, stepi, step_in, step_out, print_backtrace, go, print_frame,
                stop, exit, walkVars
  <2> QED
    BY <2>1 DEF NextInv
<1>4. CASE ended \/ UNCHANGED vars
  BY <1>4 DEF ended, vars, NextInv, At
<1> QED
  BY <1>1, <1>2, <1>3, <1>4 DEF Next

\* next steps over calls, in every program without recursion.
THEOREM NextShallow ==
  ASSUME Compiled, FramedOnly, NEW level, Layered(level)
  PROVE  Spec => NextNotDeeper
<1> DEFINE Inv == ChainInv /\ SortedInv(level) /\ NextInv(level)
<1>1. Init => Inv
  <2>1. Init => NextInv(level)
    BY DEF Init, NextInv
  <2> QED
    BY <2>1, InitChain, InitSorted
<1>2. Inv /\ [Next]_vars => Inv'
  BY NextChain, NextSorted, NextKept
<1>3. Inv /\ Inv' /\ [Next]_vars =>
        [Done("next") => Len(stack') <= start.depth]_vars
  <2> SUFFICES ASSUME Inv, Inv', Next, Done("next"), ~(Len(stack') <= start.depth) PROVE FALSE
    OBVIOUS
  <2> DEFINE d == start.depth
  <2>1. stop /\ pc' # Libc /\ pc' \notin bps /\ pc' \in temps
    BY DoneStops
  <2>2. Chain /\ instruction /\ Chain' /\ Sorted(level)'
    BY <2>1, Executes DEF Done, ChainInv, SortedInv, Alive
  <2>3. /\ d \in 1 .. Len(stack)
        /\ \/ d >= 2 /\ pc' = stack[d].ret
           \/ level[pc'] = level[start.pc]
        /\ At(d) \in Instrs /\ level[At(d)] = level[start.pc]
    BY <2>1 DEF Done, NextInv
  <2>4. /\ Len(stack') \in Nat /\ d \in Nat /\ d >= 1 /\ d + 1 \in 2 .. Len(stack')
        /\ pc' \in Instrs
    BY <2>2, <2>3 DEF Chain
  <2>5. /\ stack'[d].ret = stack[d].ret
        /\ \/ stack'[d + 1].ret = At(d)
           \/ Len(stack) = d /\ op # "ret" /\ stack'[d + 1].ret \in After(pc)
    <3>1. \A k \in 1 .. Len(stack) :
            \/ /\ k \in 1 .. Len(stack') /\ stack'[k].ret = stack[k].ret
               /\ \/ At(k)' = At(k)
                  \/ Len(stack) = k /\ op # "ret" /\ At(k)' \in After(pc)
            \/ Len(stack) = k /\ Len(stack') = k - 1 /\ pc' = stack[k].ret
      BY <2>2, FrameSteps
    <3>2. \A k : At(k)' = IF Len(stack') = k THEN pc' ELSE stack'[k + 1].ret
      BY DEF At
    <3> QED
      BY <2>3, <2>4, <3>1, <3>2
  <2>6. level[stack'[d + 1].ret] = level[start.pc]
    <3>1. CASE Len(stack) = d /\ op # "ret" /\ stack'[d + 1].ret \in After(pc)
      <4>1. At(d) = pc /\ pc \in Instrs
        BY <2>2, <3>1 DEF At, Chain
      <4> QED
        BY <2>3, <3>1, <4>1, SameLevel DEF op
    <3> QED
      BY <2>3, <2>5, <3>1
  <2>7. level[pc'] < level[stack'[d + 1].ret]
    BY <2>2, <2>4 DEF Sorted
  <2>8. \A j \in 2 .. d : level[pc'] < level[stack'[j].ret]
    BY <2>2, <2>4 DEF Sorted
  <2>9. level[pc'] \in Nat
    BY <2>4 DEF Layered
  <2>10. CASE d >= 2 /\ pc' = stack[d].ret
    <3>1. d \in 2 .. d
      BY <2>4, <2>10
    <3> HIDE DEF d
    <3> QED
      BY <2>5, <2>8, <2>9, <2>10, <3>1
  <2>11. CASE level[pc'] = level[start.pc]
    BY <2>6, <2>7, <2>9, <2>11
  <2> QED
    BY <2>3, <2>10, <2>11
<1> QED
  BY <1>1, <1>2, <1>3, PTL DEF Spec, NextNotDeeper

\* The line that begins at b is one of those next waits for.
LEMMA LineAhead ==
  ASSUME Compiled, NEW a \in Instrs, NEW b \in Instrs, a < b,
         get_func_die_from_pc(b) = get_func_die_from_pc(a), Code[b].line # Code[before(b)].line
  PROVE  b \in lines_from(a)
<1>1. PICK f \in Funcs : get_func_die_from_pc(b) = {f}
  BY DEF Compiled
<1>2. f \in get_func_die_from_pc(a) /\ b < f.high
  BY <1>1 DEF get_func_die_from_pc
<1> QED
  BY <1>2 DEF lines_from

\* One instruction further, the frame of next is on its line or at a place
\* where the tracee stops.
LEMMA LineFurther ==
  ASSUME Compiled, NEW level, Layered(level), Forward, NEW s \in Instrs, NEW a \in Instrs,
         get_func_die_from_pc(a) = get_func_die_from_pc(s), s <= a,
         Code[a].op # "ret", Code[a].line = Code[s].line, NEW b \in After(a)
  PROVE  /\ get_func_die_from_pc(b) = get_func_die_from_pc(s) /\ s <= b
         /\ Code[b].line = Code[s].line \/ b \in lines_from(s)
<1>1. /\ b \in Instrs /\ get_func_die_from_pc(b) = get_func_die_from_pc(s)
      /\ a < b /\ (Code[b].line = Code[a].line \/ Code[b].line # Code[before(b)].line)
  BY SameLevel DEF Forward
<1>2. a \in Nat /\ b \in Nat /\ s \in Nat
  BY <1>1, FramesAssumption
<1>3. s < b /\ s <= b
  BY <1>1, <1>2
<1>4. CASE Code[b].line # Code[before(b)].line
  <2>1. b \in lines_from(s)
    BY <1>1, <1>3, <1>4, LineAhead
  <2> QED
    BY <1>1, <1>3, <2>1
<1>5. CASE Code[b].line = Code[a].line
  BY <1>1, <1>3, <1>5
<1> QED
  BY <1>1, <1>4, <1>5

\* The steps of next keep its frame on its line.
LEMMA LineKept ==
  ASSUME Compiled, FramedOnly, NEW level, Layered(level), Forward,
         ChainInv, NextInv(level), LineInv, [Next]_vars
  PROVE  LineInv'
<1>1. CASE step_over
  <2> DEFINE n == Len(stack)
  <2>1. /\ cmd' = "next" /\ ctl' = "running" /\ UNCHANGED <<pc, stack, bps>>
        /\ start'.pc = pc /\ start'.depth = n /\ temps' = next_temps \ bps
        /\ n \in Nat /\ pc \in Instrs /\ lines_from(pc) \subseteq next_temps
    BY <1>1, NextBegins DEF Chain
  <2>2. At(start.depth)' = pc
    BY <2>1 DEF At
  <2>3. lines_from(pc) \subseteq bps' \cup temps'
    BY <2>1
  <2>4. pc <= pc
    BY <2>1, FramesAssumption
  <2> HIDE DEF n
  <2>5. lines_from(start.pc)' = lines_from(pc)
    BY <2>1 DEF lines_from, get_func_die_from_pc
  <2>6. lines_from(start'.pc) = lines_from(pc)
    BY <2>1
  <2> QED
    BY <2>1, <2>2, <2>3, <2>4, <2>5, <2>6 DEF LineInv
<1>2. CASE run_on
  <2> SUFFICES ASSUME cmd = "next", ctl = "running" PROVE LineInv'
    BY <1>2 DEF run_on, LineInv
  <2>1. /\ Chain /\ UNCHANGED <<bps, temps, start>> /\ pc' \notin bps \cup temps
        /\ \/ At(start.depth)' = At(start.depth)
           \/ Len(stack) = start.depth /\ op # "ret" /\ At(start.depth)' \in After(pc)
    BY <1>2, FrameWaits
  <2> DEFINE d == start.depth
             s == start.pc
             a == At(d)
             b == At(start.depth)'
             m == Len(stack')
  <2>2. /\ get_func_die_from_pc(a) = get_func_die_from_pc(s) /\ s <= a
        /\ \/ Code[a].line = Code[s].line
           \/ Len(stack) # d /\ a \in bps \cup temps
        /\ lines_from(s) \subseteq bps \cup temps
        /\ s \in Instrs /\ a \in Instrs
    BY DEF LineInv, NextInv
  <2>3. m = d => b = pc'
    BY <2>1 DEF At
  <2>4. /\ get_func_die_from_pc(b) = get_func_die_from_pc(s) /\ s <= b
        /\ Code[b].line = Code[s].line \/ b \in bps \cup temps
    <3>1. CASE b = a
      BY <2>2, <3>1
    <3>2. CASE Len(stack) = d /\ op # "ret" /\ b \in After(pc)
      <4>1. a = pc /\ Code[a].op # "ret" /\ Code[a].line = Code[s].line /\ b \in After(a)
        BY <2>2, <3>2 DEF At, op
      <4> HIDE DEF a, b, s
      <4>2. /\ get_func_die_from_pc(b) = get_func_die_from_pc(s) /\ s <= b
            /\ Code[b].line = Code[s].line \/ b \in lines_from(s)
        BY <2>2, <4>1, LineFurther
      <4> QED
        BY <2>2, <4>2
    <3> QED
      BY <2>1, <3>1, <3>2
  <2>5. Code[b].line = Code[s].line \/ (m # d /\ b \in bps \cup temps)
    BY <2>1, <2>3, <2>4
  <2>6. lines_from(s) \subseteq bps' \cup temps'
    BY <2>1, <2>2
  <2>7. start'.pc = s /\ start'.depth = d
    BY <2>1
  <2>8. /\ lines_from(start.pc)' = lines_from(start'.pc)
        /\ get_func_die_from_pc(start.pc)' = get_func_die_from_pc(start'.pc)
        /\ get_func_die_from_pc(At(start.depth))' = get_func_die_from_pc(b)
    BY DEF lines_from, get_func_die_from_pc
  <2> HIDE DEF a, b, s, d
  <2>9. b \in (bps \cup temps)' <=> b \in bps \cup temps
    BY <2>1
  <2>10. b = At(start.depth)'
    BY DEF b
  <2> QED
    BY <2>4, <2>5, <2>6, <2>7, <2>8, <2>9, <2>10 DEF LineInv
<1>3. CASE \/ continue_execution \/ stepi \/ step_in \/ step_out \/ print_backtrace
           \/ print_frame \/ stop \/ exit
  <2>1. cmd' # "next" \/ ctl' # "running"
    BY <1>3 DEF continue_execution, stepi, step_in, step_out, print_backtrace, go, print_frame,
                stop, exit, walkVars
  <2> QED
    BY <2>1 DEF LineInv
<1>4. CASE ended \/ UNCHANGED vars
  BY <1>4 DEF ended, vars, LineInv, At, lines_from, get_func_die_from_pc
<1> QED
  BY <1>1, <1>2, <1>3, <1>4 DEF Next

\* next stops at the next line of its function or in the caller, in every
\* program without recursion whose control goes forward.
THEOREM NextInTime ==
  ASSUME Compiled, FramedOnly, NEW level, Layered(level), Forward
  PROVE  Spec => NextStops
<1> DEFINE Inv == ChainInv /\ NextInv(level) /\ LineInv
<1>1. Init => Inv
  <2>1. Init => NextInv(level) /\ LineInv
    BY DEF Init, NextInv, LineInv
  <2> QED
    BY <2>1, InitChain
<1>2. Inv /\ [Next]_vars => Inv'
  BY NextChain, NextKept, LineKept
<1>3. Inv /\ Inv' /\ [Next]_vars =>
        [cmd = "next" /\ run_on =>
           \/ Len(stack') > start.depth
           \/ Len(stack') = start.depth /\ Code[pc'].line = Code[start.pc].line]_vars
  <2> SUFFICES ASSUME Inv, Inv', cmd = "next", run_on
               PROVE  \/ Len(stack') > start.depth
                      \/ Len(stack') = start.depth /\ Code[pc'].line = Code[start.pc].line
    OBVIOUS
  <2> DEFINE d == start.depth
  <2>1. ctl = "running"
    BY DEF run_on
  <2>2. UNCHANGED <<cmd, ctl, start>> /\ d \in 1 .. Len(stack') /\ Chain
    BY <2>1, FrameWaits
  <2>3. CASE Len(stack') = d
    <3>1. At(start.depth)' = pc'
      BY <2>2, <2>3 DEF At
    <3>2. Code[pc'].line = Code[start.pc].line
      BY <2>1, <2>2, <2>3, <3>1 DEF LineInv
    <3> QED
      BY <2>3, <3>2
  <2>4. CASE Len(stack') # d
    BY <2>2, <2>4
  <2> QED
    BY <2>3, <2>4
<1> QED
  BY <1>1, <1>2, <1>3, PTL DEF Spec, NextStops

=============================================================================
