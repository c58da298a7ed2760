----------------------------- MODULE LaunchProofs -----------------------------
(***************************************************************************)
(* Proofs about the start of the tracee, for chains of debuggers of any    *)
(* length, position-independent programs or not, whichever of fork and     *)
(* execv fails, and about its argument vector, for every capacity of the   *)
(* two arrays, as long as nothing makes them grow.                         *)
(***************************************************************************)
EXTENDS Launch, SequenceTheorems, TLAPS

Spots == {"none", "prompt", "execv", "wait", "load", "resolve", "report", "continue", "contwait",
          "exited", "aborted", "undefined"}

DebuggerRec ==
  [at : Spots, active : BOOLEAN, load : {"none", "vdbg", "program"},
   planted : {"none", "lost", "vdbg", "program"}, sig : {"none", "abrt"}]

KidRec ==
  [image : {"none", "vdbg", "program"}, life : {"none", "running", "stopped", "zombie"},
   why : {"none", "exec", "abrt", "silent", "other"}]

LTypeOK == dbg \in [Debuggers -> DebuggerRec] /\ kid \in [Debuggers -> KidRec]

\* What a debugger believes about its child, from fork to the prompt.
Belief(i) ==
  /\ dbg[i].at = "prompt" =>
       /\ dbg[i].active <=> kid[i].life # "none"
       /\ ~dbg[i].active => dbg[i].planted = "none" /\ dbg[i].load = "none"
  /\ dbg[i].at = "execv" =>
       ~dbg[i].active /\ dbg[i].planted = "none" /\ dbg[i].load = "none" /\ kid[i].life = "none"
  /\ dbg[i].at \in {"resolve", "report"} => dbg[i].active /\ (Pie => kid[i].life # "none")
  /\ dbg[i].at \in {"continue", "contwait"} => dbg[i].active /\ kid[i].life # "none"
  /\ Pie => dbg[i].at # "undefined"

BeliefInv == LTypeOK /\ \A i \in Debuggers : Belief(i)

\* A debugger that can still act ...
Live(i) == dbg[i].at \notin {"none", "exited", "aborted"}

\* ... has all those before it in the chain waiting for their child, which is
\* the next debugger.
Chain ==
  \A j \in Debuggers : Live(j) =>
    \A i \in 1 .. j - 1 :
      dbg[i].at = "wait" /\ kid[i].image = "vdbg" /\ kid[i].life = "running"

\* Between wait_for_signal and continue_execution the child is gone, or
\* stopped as the program, or stopped by the SIGABRT it will get.
Held(i) ==
  \/ kid[i].life \in {"none", "zombie"}
  \/ kid[i].life = "stopped" /\ (kid[i].image = "program" \/ dbg[i].sig = "abrt")

\* What spawn_tracee knows about the child, step by step.
Course(i) ==
  /\ dbg[i].at = "wait" =>
       \/ kid[i].life \in {"none", "zombie"}
       \/ kid[i].life = "running" /\ kid[i].image = "vdbg"
       \/ kid[i].life = "stopped" /\ kid[i].image = "program" /\ kid[i].why = "exec"
       \/ kid[i].life = "stopped" /\ kid[i].why = "abrt"
  /\ dbg[i].at \in {"load", "resolve", "report", "continue"} => Held(i)
  /\ dbg[i].at \in {"resolve", "report", "continue"} /\ kid[i].life = "stopped" /\ Pie =>
       dbg[i].load = kid[i].image
  /\ dbg[i].at \in {"report", "continue"} /\ kid[i].life = "stopped" =>
       dbg[i].planted = kid[i].image

CourseInv == BeliefInv /\ Chain /\ \A i \in Debuggers : Course(i)

-----------------------------------------------------------------------------
(***************************************************************************)
(* What the steps do to each debugger of the chain.                        *)
(***************************************************************************)

\* run: the debuggers before it stay as they are, those behind are gone, and a
\* successful fork makes the next one.
LEMMA RunEffect ==
  ASSUME LTypeOK, NEW i \in Debuggers, run(i)
  PROVE  /\ At(i, "prompt")
         /\ \A j \in Debuggers : j < i => dbg'[j] = dbg[j] /\ kid'[j] = kid[j]
         /\ \/ kid'[i] = Forked
            \/ kid'[i] = NoKid
         /\ dbg'[i] = [NoDebugger EXCEPT !.at = "wait", !.sig = dbg[i].sig]
         /\ \A j \in Debuggers : j > i =>
              /\ kid'[j] = NoKid
              /\ \/ dbg'[j] = NoDebugger
                 \/ /\ j = i + 1 /\ kid'[i] = Forked
                    /\ dbg'[j] = [NoDebugger EXCEPT !.at = "execv", !.sig = dbg[i].sig]
         /\ LTypeOK'
<1>1. PICK child \in {Forked, NoKid} :
        /\ kid' = [j \in Debuggers |-> CASE j < i -> kid[j] [] j = i -> child [] OTHER -> NoKid]
        /\ dbg' = [j \in Debuggers |->
                     CASE j < i -> dbg[j]
                       [] j = i -> [NoDebugger EXCEPT !.at = "wait", !.sig = dbg[i].sig]
                       [] j = i + 1 /\ child = Forked ->
                                   [NoDebugger EXCEPT !.at = "execv", !.sig = dbg[i].sig]
                       [] OTHER -> NoDebugger]
  BY DEF run
<1>2. \A j \in Debuggers : j \in Nat
  BY DEF Debuggers
<1>3. /\ \A j \in Debuggers : j < i => dbg'[j] = dbg[j] /\ kid'[j] = kid[j]
      /\ kid'[i] = child
      /\ dbg'[i] = [NoDebugger EXCEPT !.at = "wait", !.sig = dbg[i].sig]
  BY <1>1, <1>2
<1>4. \A j \in Debuggers : j > i =>
        /\ kid'[j] = NoKid
        /\ \/ dbg'[j] = NoDebugger
           \/ /\ j = i + 1 /\ child = Forked
              /\ dbg'[j] = [NoDebugger EXCEPT !.at = "execv", !.sig = dbg[i].sig]
  BY <1>1, <1>2
<1>5. LTypeOK'
  <2>1. Forked \in KidRec /\ NoKid \in KidRec /\ NoDebugger \in DebuggerRec
    BY DEF Forked, NoKid, NoDebugger, KidRec, DebuggerRec, Spots
  <2>2. \A p \in Spots : [NoDebugger EXCEPT !.at = p, !.sig = dbg[i].sig] \in DebuggerRec
    BY DEF LTypeOK, NoDebugger, DebuggerRec, Spots
  <2>3. \A j \in Debuggers : dbg'[j] \in DebuggerRec /\ kid'[j] \in KidRec
    <3> SUFFICES ASSUME NEW j \in Debuggers PROVE dbg'[j] \in DebuggerRec /\ kid'[j] \in KidRec
      OBVIOUS
    <3>1. "wait" \in Spots /\ "execv" \in Spots
      BY DEF Spots
    <3>2. CASE j < i
      BY <1>3, <3>2 DEF LTypeOK
    <3>3. CASE j = i
      BY <1>3, <2>1, <2>2, <3>1, <3>3
    <3>4. CASE j > i
      BY <1>4, <2>1, <2>2, <3>1, <3>4
    <3> QED
      BY <1>2, <3>2, <3>3, <3>4
  <2>4. dbg' = [j \in Debuggers |-> dbg'[j]] /\ kid' = [j \in Debuggers |-> kid'[j]]
    BY <1>1
  <2> QED
    BY <2>3, <2>4 DEF LTypeOK
<1> QED
  BY <1>1, <1>3, <1>4, <1>5 DEF run

\* exit, and abort in spawn_tracee: the debugger ends and its tracer, if any,
\* has a dead child or one stopped by SIGABRT.
LEMMA EndEffect ==
  ASSUME LTypeOK, NEW i \in Debuggers, exit(i) \/ abort(i)
  PROVE  /\ dbg'[i].at \in {"exited", "aborted"}
         /\ \A j \in Debuggers : j # i => dbg'[j] = dbg[j]
         /\ \A j \in Debuggers : j \notin {i, i - 1} => kid'[j] = kid[j]
         /\ \A j \in Debuggers : j = i - 1 =>
              /\ kid'[j].image = kid[j].image /\ kid'[j].life \in {"stopped", "zombie"}
              /\ kid'[j].life = "stopped" => kid'[j].why = "abrt"
         /\ LTypeOK'
<1> USE DEF LTypeOK
<1>0. \A j \in Debuggers : j \in Int
  BY DEF Debuggers
<1>1. PICK p \in {"exited", "aborted"} : dbg' = [dbg EXCEPT ![i].at = p]
  BY DEF exit, abort, GoTo
<1>2. dbg' \in [Debuggers -> DebuggerRec]
  BY <1>1 DEF DebuggerRec, Spots
<1>3. dbg'[i].at \in {"exited", "aborted"} /\ \A j \in Debuggers : j # i => dbg'[j] = dbg[j]
  BY <1>1 DEF DebuggerRec
<1>4. \A j \in Debuggers :
        /\ j \notin {i, i - 1} => kid'[j] = kid[j]
        /\ j = i => kid'[j] \in {NoKid, kid[i]}
        /\ j = i - 1 => \/ kid'[j] = [kid[j] EXCEPT !.life = "stopped", !.why = "abrt"]
                        \/ kid'[j] = [kid[j] EXCEPT !.life = "zombie", !.why = "none"]
  <2> SUFFICES ASSUME NEW j \in Debuggers
               PROVE  /\ j \notin {i, i - 1} => kid'[j] = kid[j]
                      /\ j = i => kid'[j] \in {NoKid, kid[i]}
                      /\ j = i - 1 => \/ kid'[j] = [kid[j] EXCEPT !.life = "stopped", !.why = "abrt"]
                                      \/ kid'[j] = [kid[j] EXCEPT !.life = "zombie", !.why = "none"]
    OBVIOUS
  <2>0. j \in Int /\ i \in Int
    BY <1>0
  <2>1. CASE abort(i)
    <3>1. kid'[j] = IF j = i - 1 THEN [kid[j] EXCEPT !.life = "stopped", !.why = "abrt"] ELSE kid[j]
      BY <2>1 DEF abort
    <3>2. i # i - 1
      BY <2>0
    <3> QED
      BY <3>1, <3>2
  <2>2. CASE exit(i)
    <3> DEFINE killed == dbg[i].active /\ kid[i].life # "none"
               freed == killed \/ dbg[i].planted = "none"
    <3>1. kid'[j] = CASE j = i /\ killed -> NoKid
                      [] j = i - 1       -> [kid[j] EXCEPT !.life = IF freed THEN "zombie" ELSE "stopped",
                                                           !.why = IF freed THEN "none" ELSE "abrt"]
                      [] OTHER           -> kid[j]
      BY <2>2 DEF exit
    <3> HIDE DEF killed, freed
    <3>2. CASE j = i
      BY <2>0, <3>1, <3>2
    <3>3. CASE j = i - 1
      <4>1. kid'[j] = [kid[j] EXCEPT !.life = IF freed THEN "zombie" ELSE "stopped",
                                     !.why = IF freed THEN "none" ELSE "abrt"]
        BY <2>0, <3>1, <3>3
      <4>2. CASE freed
        BY <2>0, <3>3, <4>1, <4>2
      <4>3. CASE ~freed
        BY <2>0, <3>3, <4>1, <4>3
      <4> QED
        BY <4>2, <4>3
    <3>4. CASE j \notin {i, i - 1}
      BY <3>1, <3>4
    <3> QED
      BY <3>2, <3>3, <3>4
  <2> QED
    BY <2>1, <2>2
<1>5. \A j \in Debuggers : j = i - 1 =>
        /\ kid'[j] \in KidRec
        /\ kid'[j].image = kid[j].image /\ kid'[j].life \in {"stopped", "zombie"}
        /\ kid'[j].life = "stopped" => kid'[j].why = "abrt"
  <2> SUFFICES ASSUME NEW j \in Debuggers, j = i - 1
               PROVE  /\ kid'[j] \in KidRec
                      /\ kid'[j].image = kid[j].image /\ kid'[j].life \in {"stopped", "zombie"}
                      /\ kid'[j].life = "stopped" => kid'[j].why = "abrt"
    OBVIOUS
  <2>0. kid[j] \in KidRec
    OBVIOUS
  <2>1. CASE kid'[j] = [kid[j] EXCEPT !.life = "stopped", !.why = "abrt"]
    BY <2>0, <2>1 DEF KidRec
  <2>2. CASE kid'[j] = [kid[j] EXCEPT !.life = "zombie", !.why = "none"]
    BY <2>0, <2>2 DEF KidRec
  <2> QED
    BY <1>4, <2>1, <2>2
<1>6. kid' = [j \in Debuggers |-> kid'[j]]
  BY DEF exit, abort
<1>7. \A j \in Debuggers : kid'[j] \in KidRec
  <2>1. NoKid \in KidRec
    BY DEF NoKid, KidRec
  <2> QED
    BY <1>4, <1>5, <2>1
<1> QED
  BY <1>2, <1>3, <1>4, <1>5, <1>6, <1>7

\* wait_for_signal, by what waitpid reports.
LEMMA WaitEffect ==
  ASSUME LTypeOK, NEW i \in Debuggers, wait_for_signal(i)
  PROVE  /\ Waiting(i) /\ kid[i].life # "running"
         /\ \A j \in Debuggers : j # i => kid'[j] = kid[j]
         /\ \A j \in Debuggers : j \notin {i, i + 1} => dbg'[j] = dbg[j]
         /\ \A j \in Debuggers : j = i + 1 => dbg'[j] \in {dbg[j], NoDebugger}
         /\ dbg'[i].at = after_wait(i)
         /\ kid[i].life = "zombie" =>
              /\ kid'[i] = NoKid
              /\ ~dbg'[i].active /\ dbg'[i].load = "none" /\ dbg'[i].planted = "none"
         /\ kid[i].life # "zombie" =>
              /\ kid'[i].image = kid[i].image
              /\ kid'[i].life # "zombie" /\ (kid'[i].life = "none" <=> kid[i].life = "none")
              /\ dbg'[i].active = dbg[i].active
              /\ dbg'[i].load = dbg[i].load /\ dbg'[i].planted = dbg[i].planted
         /\ kid[i].life = "stopped" =>
              /\ kid'[i].life = IF kid[i].why = "silent" THEN "running" ELSE "stopped"
              /\ kid[i].why = "abrt" => dbg'[i].sig = "abrt"
         /\ LTypeOK'
<1> USE DEF LTypeOK
<1>0. /\ Waiting(i) /\ kid[i].life # "running" /\ after_wait(i) \in Spots
      /\ \A j \in Debuggers : j \in Int
  BY DEF wait_for_signal, waited, after_wait, Spots, Debuggers
<1>1. CASE kid[i].life = "zombie"
  <2>1. /\ kid' = [kid EXCEPT ![i] = NoKid]
        /\ dbg' = [j \in Debuggers |-> CASE j = i     -> cleanup_at_tracee_death(i)
                                         [] j = i + 1 -> NoDebugger
                                         [] OTHER     -> dbg[j]]
    BY <1>1 DEF wait_for_signal
  <2>2. /\ dbg'[i] = [NoDebugger EXCEPT !.at = after_wait(i), !.sig = dbg[i].sig]
        /\ \A j \in Debuggers : j \notin {i, i + 1} => dbg'[j] = dbg[j]
        /\ \A j \in Debuggers : j = i + 1 => dbg'[j] = NoDebugger
    BY <1>0, <2>1 DEF cleanup_at_tracee_death
  <2>3. /\ dbg'[i].at = after_wait(i) /\ dbg'[i] \in DebuggerRec
        /\ ~dbg'[i].active /\ dbg'[i].load = "none" /\ dbg'[i].planted = "none"
    BY <1>0, <2>2 DEF NoDebugger, DebuggerRec
  <2>4. NoKid \in KidRec /\ NoDebugger \in DebuggerRec
    BY DEF NoKid, NoDebugger, KidRec, DebuggerRec, Spots
  <2>5. \A j \in Debuggers : dbg'[j] \in DebuggerRec
    BY <2>2, <2>3, <2>4
  <2>6. dbg' = [j \in Debuggers |-> dbg'[j]]
    BY <2>1
  <2>7. LTypeOK'
    BY <2>1, <2>4, <2>5, <2>6
  <2>8. kid'[i] = NoKid /\ \A j \in Debuggers : j # i => kid'[j] = kid[j]
    BY <2>1
  <2> QED
    BY <1>0, <1>1, <2>2, <2>3, <2>7, <2>8
<1>2. CASE kid[i].life = "stopped"
  <2>1. /\ kid' = [kid EXCEPT ![i].life = IF kid[i].why = "silent" THEN "running" ELSE "stopped",
                              ![i].why = "none"]
        /\ dbg' = [dbg EXCEPT ![i].at = after_wait(i),
                              ![i].sig = IF kid[i].why = "abrt" THEN "abrt" ELSE dbg[i].sig]
    BY <1>2 DEF wait_for_signal
  <2>2. /\ \A j \in Debuggers : j # i => kid'[j] = kid[j] /\ dbg'[j] = dbg[j]
        /\ dbg'[i].at = after_wait(i)
        /\ dbg'[i].active = dbg[i].active
        /\ dbg'[i].load = dbg[i].load /\ dbg'[i].planted = dbg[i].planted
        /\ kid[i].why = "abrt" => dbg'[i].sig = "abrt"
    BY <2>1 DEF DebuggerRec
  <2>3. /\ kid'[i].image = kid[i].image
        /\ kid'[i].life = IF kid[i].why = "silent" THEN "running" ELSE "stopped"
    BY <2>1 DEF KidRec
  <2>4. LTypeOK'
    <3>1. PICK l \in {"running", "stopped"}, s \in {"none", "abrt"} :
            /\ kid' = [kid EXCEPT ![i].life = l, ![i].why = "none"]
            /\ dbg' = [dbg EXCEPT ![i].at = after_wait(i), ![i].sig = s]
      <4>1. dbg[i].sig \in {"none", "abrt"}
        BY DEF DebuggerRec
      <4> QED
        BY <2>1, <4>1
    <3>2. kid' \in [Debuggers -> KidRec]
      BY <3>1 DEF KidRec
    <3>3. dbg' \in [Debuggers -> DebuggerRec]
      BY <1>0, <3>1 DEF DebuggerRec
    <3> QED
      BY <3>2, <3>3
  <2> QED
    BY <1>0, <1>2, <2>2, <2>3, <2>4
<1>3. CASE kid[i].life = "none"
  <2>1. dbg' = [dbg EXCEPT ![i].at = after_wait(i)] /\ kid' = kid
    BY <1>3 DEF wait_for_signal, GoTo
  <2>2. /\ \A j \in Debuggers : j # i => dbg'[j] = dbg[j]
        /\ dbg'[i].at = after_wait(i)
        /\ dbg'[i].active = dbg[i].active
        /\ dbg'[i].load = dbg[i].load /\ dbg'[i].planted = dbg[i].planted
    BY <2>1 DEF DebuggerRec
  <2>3. LTypeOK'
    BY <1>0, <2>1 DEF DebuggerRec
  <2> QED
    BY <1>0, <1>3, <2>1, <2>2, <2>3
<1> QED
  BY <1>0, <1>1, <1>2, <1>3 DEF KidRec

\* The rest of spawn_tracee, when it does not abort: only this debugger moves,
\* and the child is at most resumed.
LEMMA SpawnEffect ==
  ASSUME LTypeOK, NEW i \in Debuggers,
         \/ initialize_load_address(i) \/ resolve_pending_breakpoints(i)
         \/ setup_dwfl(i) \/ continue_execution(i)
  PROVE  \/ /\ abort(i) /\ Runs(i) /\ dbg[i].at \in {"load", "resolve"}
         \/ /\ LTypeOK'
            /\ \A j \in Debuggers : j # i => dbg'[j] = dbg[j] /\ kid'[j] = kid[j]
            /\ kid'[i].image = kid[i].image /\ kid'[i].why = kid[i].why
            /\ kid'[i].life # kid[i].life => dbg[i].at = "continue"
            /\ kid'[i].life = "none" <=> kid[i].life = "none"
            /\ \/ /\ dbg[i].at = "load" /\ dbg'[i].at = "resolve" /\ dbg'[i].active
                  /\ ~(Pie /\ kid[i].life = "none")
                  /\ Pie /\ kid[i].life # "zombie" => dbg'[i].load = kid[i].image
                  /\ dbg'[i].planted = dbg[i].planted /\ dbg'[i].sig = dbg[i].sig
               \/ /\ dbg[i].at = "resolve" /\ dbg'[i].at = "report"
                  /\ dbg'[i].active = dbg[i].active /\ dbg'[i].load = dbg[i].load
                  /\ kid[i].life = "stopped" => dbg'[i].planted = kid[i].image
                  /\ dbg'[i].sig = dbg[i].sig
               \/ /\ dbg[i].at = "report"
                  /\ dbg'[i].at = IF kid[i].life = "none" THEN "undefined" ELSE "continue"
                  /\ dbg'[i].active = dbg[i].active /\ dbg'[i].load = dbg[i].load
                  /\ dbg'[i].planted = dbg[i].planted /\ dbg'[i].sig = dbg[i].sig
               \/ /\ dbg[i].at = "continue" /\ dbg'[i].at = "contwait"
                  /\ dbg'[i].active = dbg[i].active
<1> USE DEF LTypeOK
<1>1. CASE initialize_load_address(i)
  <2>1. CASE Pie /\ kid[i].life = "none"
    BY <1>1, <2>1 DEF initialize_load_address, At
  <2>2. CASE ~(Pie /\ kid[i].life = "none")
    <3>1. /\ dbg[i].at = "load" /\ kid' = kid
          /\ dbg' = [dbg EXCEPT ![i].at = "resolve", ![i].active = TRUE,
                                ![i].load = IF Pie /\ kid[i].life # "zombie" THEN kid[i].image ELSE "none"]
      BY <1>1, <2>2 DEF initialize_load_address, At
    <3>2. /\ \A j \in Debuggers : j # i => dbg'[j] = dbg[j]
          /\ dbg'[i].at = "resolve" /\ dbg'[i].active
          /\ Pie /\ kid[i].life # "zombie" => dbg'[i].load = kid[i].image
          /\ dbg'[i].planted = dbg[i].planted /\ dbg'[i].sig = dbg[i].sig
      BY <3>1 DEF DebuggerRec
    <3>3. LTypeOK'
      <4>1. PICK b \in BOOLEAN, l \in {"none", "vdbg", "program"} :
              dbg' = [dbg EXCEPT ![i].at = "resolve", ![i].active = b, ![i].load = l]
        <5>1. kid[i].image \in {"none", "vdbg", "program"}
          BY DEF KidRec
        <5> QED
          BY <3>1, <5>1
      <4>2. dbg' \in [Debuggers -> DebuggerRec]
        <5>1. dbg' = [dbg EXCEPT ![i] = [dbg[i] EXCEPT !.at = "resolve", !.active = b, !.load = l]]
          BY <4>1
        <5>2. "resolve" \in Spots
          BY DEF Spots
        <5>3. [dbg[i] EXCEPT !.at = "resolve", !.active = b, !.load = l] \in DebuggerRec
          BY <5>2 DEF DebuggerRec
        <5> QED
          BY <5>1, <5>3
      <4> QED
        BY <3>1, <4>2
    <3> QED
      BY <2>2, <3>1, <3>2, <3>3
  <2> QED
    BY <2>1, <2>2
<1>2. CASE resolve_pending_breakpoints(i)
  <2>1. CASE dbg[i].planted # "none"
    BY <1>2, <2>1 DEF resolve_pending_breakpoints, At
  <2>2. CASE dbg[i].planted = "none"
    <3>1. /\ dbg[i].at = "resolve" /\ kid' = kid
          /\ dbg' = [dbg EXCEPT ![i].at = "report",
                                ![i].planted = IF kid[i].life = "stopped" THEN kid[i].image ELSE "lost"]
      BY <1>2, <2>2 DEF resolve_pending_breakpoints, At
    <3>2. /\ \A j \in Debuggers : j # i => dbg'[j] = dbg[j]
          /\ dbg'[i].at = "report"
          /\ dbg'[i].active = dbg[i].active /\ dbg'[i].load = dbg[i].load
          /\ kid[i].life = "stopped" => dbg'[i].planted = kid[i].image
          /\ dbg'[i].sig = dbg[i].sig
      BY <3>1 DEF DebuggerRec
    <3>3. LTypeOK'
      <4>1. PICK l \in {"none", "lost", "vdbg", "program"} :
              dbg' = [dbg EXCEPT ![i].at = "report", ![i].planted = l]
        <5>1. kid[i].image \in {"none", "vdbg", "program"}
          BY DEF KidRec
        <5> QED
          BY <3>1, <5>1
      <4>2. dbg' \in [Debuggers -> DebuggerRec]
        <5>1. {"resolve", "report"} \subseteq Spots
          BY DEF Spots
        <5> QED
          BY <4>1, <5>1 DEF DebuggerRec
      <4> QED
        BY <3>1, <4>2
    <3> QED
      BY <3>1, <3>2, <3>3
  <2> QED
    BY <2>1, <2>2
<1>3. CASE setup_dwfl(i)
  <2>1. /\ dbg[i].at = "report" /\ kid' = kid
        /\ dbg' = [dbg EXCEPT ![i].at = IF kid[i].life = "none" THEN "undefined" ELSE "continue"]
    BY <1>3 DEF setup_dwfl, At, GoTo
  <2>2. /\ \A j \in Debuggers : j # i => dbg'[j] = dbg[j]
        /\ dbg'[i].at = IF kid[i].life = "none" THEN "undefined" ELSE "continue"
        /\ dbg'[i].active = dbg[i].active /\ dbg'[i].load = dbg[i].load
        /\ dbg'[i].planted = dbg[i].planted /\ dbg'[i].sig = dbg[i].sig
    BY <2>1 DEF DebuggerRec
  <2>3. LTypeOK'
    BY <2>1 DEF DebuggerRec, Spots
  <2> QED
    BY <2>1, <2>2, <2>3
<1>4. CASE continue_execution(i)
  <2>1. PICK l \in {"zombie", "running", kid[i].life} :
          /\ dbg[i].at = "continue"
          /\ l = "none" <=> kid[i].life = "none"
          /\ kid' = [kid EXCEPT ![i].life = l]
          /\ dbg' = [dbg EXCEPT ![i].at = "contwait", ![i].sig = "none"]
    BY <1>4 DEF continue_execution, At
  <2>2. /\ \A j \in Debuggers : j # i => dbg'[j] = dbg[j] /\ kid'[j] = kid[j]
        /\ dbg'[i].at = "contwait" /\ dbg'[i].active = dbg[i].active
    BY <2>1 DEF DebuggerRec
  <2>3. kid'[i].image = kid[i].image /\ kid'[i].why = kid[i].why /\ kid'[i].life = l
    BY <2>1 DEF KidRec
  <2>4. LTypeOK'
    <3>1. l \in {"none", "running", "stopped", "zombie"}
      BY DEF KidRec
    <3>2. kid' \in [Debuggers -> KidRec]
      BY <2>1, <3>1 DEF KidRec
    <3>3. dbg' \in [Debuggers -> DebuggerRec]
      <4>1. "contwait" \in Spots
        BY DEF Spots
      <4> QED
        BY <2>1, <4>1 DEF DebuggerRec
    <3> QED
      BY <3>2, <3>3
  <2> QED
    BY <2>1, <2>2, <2>3, <2>4
<1> QED
  BY <1>1, <1>2, <1>3, <1>4

\* execv succeeds: the copy of vdbg is gone.
LEMMA ExecEffect ==
  ASSUME LTypeOK, NEW i \in Debuggers, execv(i)
  PROVE  /\ kid[i].image = "vdbg" /\ kid[i].life = "running"
         /\ i < Depth => dbg[i + 1].at = "execv"
         /\ kid'[i].image = "program" /\ kid'[i].life = "stopped" /\ kid'[i].why = "exec"
         /\ \A j \in Debuggers : j # i => kid'[j] = kid[j]
         /\ \A j \in Debuggers : dbg'[j] = IF j = i + 1 THEN NoDebugger ELSE dbg[j]
         /\ LTypeOK'
<1> USE DEF LTypeOK
<1>1. /\ kid[i] = Forked
      /\ kid' = [kid EXCEPT ![i] = [image |-> "program", life |-> "stopped", why |-> "exec"]]
      /\ dbg' = [j \in Debuggers |-> IF j = i + 1 THEN NoDebugger ELSE dbg[j]]
  BY DEF execv
<1>2. NoDebugger \in DebuggerRec
  BY DEF NoDebugger, DebuggerRec, Spots
<1>3. kid' \in [Debuggers -> KidRec]
  BY <1>1 DEF KidRec
<1>4. dbg' \in [Debuggers -> DebuggerRec]
  BY <1>1, <1>2
<1> QED
  BY <1>1, <1>3, <1>4 DEF execv, Forked

\* execv fails: the copy of vdbg has a prompt.
LEMMA FailEffect ==
  ASSUME LTypeOK, NEW i \in Debuggers, execv_fails(i)
  PROVE  /\ dbg[i].at = "execv" /\ dbg'[i].at = "prompt" /\ kid' = kid
         /\ dbg'[i].active = dbg[i].active /\ dbg'[i].load = dbg[i].load
         /\ dbg'[i].planted = dbg[i].planted
         /\ \A j \in Debuggers : j # i => dbg'[j] = dbg[j]
         /\ LTypeOK'
<1> USE DEF LTypeOK
<1>1. dbg[i].at = "execv" /\ kid' = kid /\ dbg' = [dbg EXCEPT ![i].at = "prompt"]
  BY DEF execv_fails, At, GoTo
<1>2. "prompt" \in Spots
  BY DEF Spots
<1>3. dbg' \in [Debuggers -> DebuggerRec]
  BY <1>1, <1>2 DEF DebuggerRec
<1> QED
  BY <1>1, <1>3 DEF DebuggerRec

\* A child gets a signal, or the program stops or ends.
LEMMA SignalEffect ==
  ASSUME LTypeOK, NEW i \in Debuggers, child_gets_signal(i) \/ program_runs(i)
  PROVE  /\ kid[i].life \in {"running", "stopped"} /\ kid'[i].life \in {"stopped", "zombie"}
         /\ kid'[i].image = kid[i].image
         /\ \/ child_gets_signal(i)
            \/ kid[i].image = "program" /\ kid[i].life = "running" /\ UNCHANGED dbg
         /\ \A j \in Debuggers : j # i => kid'[j] = kid[j]
         /\ \A j \in Debuggers : j # i + 1 => dbg'[j] = dbg[j]
         /\ \A j \in Debuggers : j = i + 1 => dbg'[j] \in {dbg[j], NoDebugger}
         /\ LTypeOK'
<1> USE DEF LTypeOK
<1>1. /\ kid[i].life \in {"running", "stopped"}
      /\ \/ kid' = [kid EXCEPT ![i].life = "zombie"]
         \/ \E l \in {"stopped", "zombie"}, w \in {"silent", "abrt", "other"} :
              kid' = [kid EXCEPT ![i].life = l, ![i].why = w]
  BY LaunchAssumption DEF child_gets_signal, program_runs
<1>2. /\ kid'[i].life \in {"stopped", "zombie"} /\ kid'[i].image = kid[i].image
      /\ \A j \in Debuggers : j # i => kid'[j] = kid[j]
  BY <1>1 DEF KidRec
<1>3. kid' \in [Debuggers -> KidRec]
  BY <1>1 DEF KidRec
<1>4. dbg' = dbg \/ dbg' = [j \in Debuggers |-> IF j = i + 1 THEN NoDebugger ELSE dbg[j]]
  BY DEF child_gets_signal, program_runs
<1>5. NoDebugger \in DebuggerRec
  BY DEF NoDebugger, DebuggerRec, Spots
<1>6. dbg' \in [Debuggers -> DebuggerRec]
  BY <1>4, <1>5
<1>7. /\ \A j \in Debuggers : j # i + 1 => dbg'[j] = dbg[j]
      /\ \A j \in Debuggers : j = i + 1 => dbg'[j] \in {dbg[j], NoDebugger}
  BY <1>4
<1> QED
  BY <1>1, <1>2, <1>3, <1>6, <1>7 DEF program_runs

-----------------------------------------------------------------------------
(***************************************************************************)
(* What a debugger at its prompt believes.                                 *)
(***************************************************************************)

\* A debugger whose own record and child are unchanged, or that is gone,
\* believes what it did.
LEMMA SameBelief ==
  ASSUME NEW j \in Debuggers, Belief(j),
         dbg'[j] = dbg[j] \/ dbg'[j] = NoDebugger \/ dbg'[j].at \in {"exited", "aborted"},
         kid'[j] = kid[j]
           \/ (kid[j].life # "none" /\ kid'[j].life # "none")
           \/ dbg'[j] = NoDebugger \/ dbg'[j].at \in {"exited", "aborted"}
  PROVE  Belief(j)'
BY DEF Belief, NoDebugger

\* Every step keeps the beliefs true.
LEMMA NextBelief == BeliefInv /\ [Next]_vars => BeliefInv'
<1> SUFFICES ASSUME BeliefInv, [Next]_vars PROVE BeliefInv'
  OBVIOUS
<1> USE DEF BeliefInv
<1>0. \A j \in Debuggers : j \in Int
  BY DEF Debuggers
<1>1. CASE UNCHANGED <<dbg, kid>>
  BY <1>1 DEF LTypeOK, Belief
<1>2. ASSUME NEW i \in Debuggers, run(i) PROVE BeliefInv'
  <2> SUFFICES ASSUME NEW j \in Debuggers PROVE Belief(j)'
    BY <1>2, RunEffect
  <2>1. CASE j < i
    BY <1>0, <1>2, <2>1, RunEffect, SameBelief
  <2>2. CASE j = i
    <3>1. dbg'[j].at = "wait"
      BY <1>2, <2>2, RunEffect DEF NoDebugger
    <3> QED
      BY <3>1 DEF Belief
  <2>3. CASE j > i /\ dbg'[j] = NoDebugger
    BY <2>3 DEF Belief, NoDebugger
  <2>4. CASE j > i /\ dbg'[j] = [NoDebugger EXCEPT !.at = "execv", !.sig = dbg[i].sig]
    <3>1. kid'[j] = NoKid
      BY <1>2, <2>4, RunEffect
    <3> QED
      BY <2>4, <3>1 DEF Belief, NoDebugger, NoKid
  <2>5. CASE j > i
    BY <1>2, <2>3, <2>4, <2>5, RunEffect
  <2> QED
    BY <1>0, <2>1, <2>2, <2>5
<1>3. ASSUME NEW i \in Debuggers, exit(i) \/ (abort(i) /\ Runs(i)) PROVE BeliefInv'
  <2> SUFFICES ASSUME NEW j \in Debuggers PROVE Belief(j)'
    BY <1>3, EndEffect
  <2>1. CASE j = i
    BY <1>3, <2>1, EndEffect, SameBelief
  <2>2. CASE j = i - 1
    <3>1. i > 1
      BY <2>2, LaunchAssumption DEF Debuggers
    <3>2. kid[j].life # "none"
      BY <1>3, <2>2, <3>1 DEF Runs, exit, At
    <3>3. dbg'[j] = dbg[j] /\ kid'[j].life # "none"
      BY <1>0, <1>3, <2>2, EndEffect
    <3> QED
      BY <3>2, <3>3, SameBelief
  <2>3. CASE j \notin {i, i - 1}
    BY <1>3, <2>3, EndEffect, SameBelief
  <2> QED
    BY <2>1, <2>2, <2>3
<1>4. ASSUME NEW i \in Debuggers, wait_for_signal(i) PROVE BeliefInv'
  <2> SUFFICES ASSUME NEW j \in Debuggers PROVE Belief(j)'
    BY <1>4, WaitEffect
  <2>1. CASE j # i
    BY <1>0, <1>4, <2>1, WaitEffect, SameBelief
  <2>2. CASE j = i
    <3>1. dbg[i].at \in {"wait", "contwait"}
      BY <1>4, WaitEffect DEF Waiting, At
    <3>2. CASE dbg[i].at = "wait"
      <4>1. dbg'[i].at = "load"
        BY <1>4, <3>2, WaitEffect DEF after_wait
      <4> QED
        BY <2>2, <4>1 DEF Belief
    <3>3. CASE dbg[i].at = "contwait"
      <4>1. dbg'[i].at = "prompt"
        BY <1>4, <3>3, WaitEffect DEF after_wait
      <4>2. dbg[i].active /\ kid[i].life # "none"
        BY <3>3 DEF Belief
      <4>3. CASE kid[i].life = "zombie"
        BY <1>4, <2>2, <4>1, <4>3, WaitEffect DEF Belief, NoKid
      <4>4. CASE kid[i].life # "zombie"
        BY <1>4, <2>2, <4>1, <4>2, <4>4, WaitEffect DEF Belief
      <4> QED
        BY <4>3, <4>4
    <3> QED
      BY <3>1, <3>2, <3>3
  <2> QED
    BY <2>1, <2>2
<1>5. ASSUME NEW i \in Debuggers,
             \/ initialize_load_address(i) \/ resolve_pending_breakpoints(i)
             \/ setup_dwfl(i) \/ continue_execution(i)
      PROVE  BeliefInv'
  <2>1. CASE abort(i) /\ Runs(i)
    BY <1>3, <2>1
  <2>2. CASE ~(abort(i) /\ Runs(i))
    <3> SUFFICES ASSUME NEW j \in Debuggers PROVE Belief(j)'
      BY <1>5, <2>2, SpawnEffect
    <3>1. CASE j # i
      BY <1>5, <2>2, <3>1, SpawnEffect, SameBelief
    <3>2. CASE j = i
      BY <1>5, <2>2, <3>2, SpawnEffect DEF Belief
    <3> QED
      BY <3>1, <3>2
  <2> QED
    BY <2>1, <2>2
<1>6. ASSUME NEW i \in Debuggers, execv(i) PROVE BeliefInv'
  <2> SUFFICES ASSUME NEW j \in Debuggers PROVE Belief(j)'
    BY <1>6, ExecEffect
  <2>1. dbg'[j] = dbg[j] \/ dbg'[j] = NoDebugger
    BY <1>6, ExecEffect
  <2>2. kid'[j] = kid[j] \/ (kid[j].life # "none" /\ kid'[j].life # "none")
    BY <1>6, ExecEffect
  <2> QED
    BY <2>1, <2>2, SameBelief
<1>7. ASSUME NEW i \in Debuggers, execv_fails(i) PROVE BeliefInv'
  <2> SUFFICES ASSUME NEW j \in Debuggers PROVE Belief(j)'
    BY <1>7, FailEffect
  <2>1. CASE j # i
    BY <1>7, <2>1, FailEffect, SameBelief
  <2>2. CASE j = i
    BY <1>7, <2>2, FailEffect DEF Belief
  <2> QED
    BY <2>1, <2>2
<1>8. ASSUME NEW i \in Debuggers, child_gets_signal(i) \/ program_runs(i) PROVE BeliefInv'
  <2> SUFFICES ASSUME NEW j \in Debuggers PROVE Belief(j)'
    BY <1>8, SignalEffect
  <2>1. dbg'[j] = dbg[j] \/ dbg'[j] = NoDebugger
    BY <1>8, SignalEffect
  <2>2. kid'[j] = kid[j] \/ (kid[j].life # "none" /\ kid'[j].life # "none")
    BY <1>8, SignalEffect
  <2> QED
    BY <2>1, <2>2, SameBelief
<1> QED
  BY <1>1, <1>2, <1>3, <1>4, <1>5, <1>6, <1>7, <1>8 DEF Next, launch, cmd_arguments, vars

\* main: one debugger at its prompt, without a child.
LEMMA InitBelief == Init => BeliefInv /\ Chain /\ \A i \in Debuggers : Course(i)
<1> SUFFICES ASSUME Init PROVE BeliefInv /\ Chain /\ \A i \in Debuggers : Course(i)
  OBVIOUS
<1>1. \A i \in Debuggers : kid[i] = NoKid
  BY DEF Init
<1>2. \A i \in Debuggers :
        /\ dbg[i] = NoDebugger \/ dbg[i] = [NoDebugger EXCEPT !.at = "prompt"]
        /\ i # 1 => dbg[i] = NoDebugger
  BY DEF Init
<1>3. NoKid \in KidRec /\ NoDebugger \in DebuggerRec
      /\ [NoDebugger EXCEPT !.at = "prompt"] \in DebuggerRec
  BY DEF NoKid, NoDebugger, KidRec, DebuggerRec, Spots
<1>4. LTypeOK
  BY <1>3 DEF Init, LTypeOK
<1>5. \A i \in Debuggers : Belief(i) /\ Course(i)
  <2> SUFFICES ASSUME NEW i \in Debuggers PROVE Belief(i) /\ Course(i)
    OBVIOUS
  <2>1. /\ dbg[i].at \in {"none", "prompt"} /\ kid[i].life = "none"
        /\ ~dbg[i].active /\ dbg[i].planted = "none" /\ dbg[i].load = "none"
    BY <1>1, <1>2 DEF NoKid, NoDebugger
  <2> QED
    BY <2>1 DEF Belief, Course
<1>6. Chain
  BY <1>2 DEF Chain, Live, NoDebugger
<1> QED
  BY <1>4, <1>5, <1>6 DEF BeliefInv

\* At the prompt the debugger is right about its tracee, whatever failed and
\* whatever signals the child got before the program ran; and for a position-
\* independent program setup_dwfl is not reached without a process, so that no
\* freed libdwfl handle is used.
THEOREM PromptHonest == Spec => [](PromptTrue /\ (Pie => HandleValid))
<1>1. BeliefInv => PromptTrue /\ (Pie => HandleValid)
  BY DEF BeliefInv, Belief, PromptTrue, HandleValid
<1> QED
  BY <1>1, InitBelief, NextBelief, PTL DEF Spec

-----------------------------------------------------------------------------
(***************************************************************************)
(* The chain of debuggers, when the child gets no signal it survives.      *)
(***************************************************************************)

\* A debugger that does not wait for a running copy of vdbg is the last one.
LEMMA LastOne ==
  ASSUME Chain, NEW i \in Debuggers, NEW j \in Debuggers, j > i,
         ~(dbg[i].at = "wait" /\ kid[i].image = "vdbg" /\ kid[i].life = "running")
  PROVE  ~Live(j)
<1>1. i \in 1 .. j - 1
  BY DEF Debuggers
<1> QED
  BY <1>1 DEF Chain

\* The chain survives a step that leaves every debugger but one as it was, or
\* ends it, and does not disturb those before it.
LEMMA SameChain ==
  ASSUME Chain, NEW i \in Debuggers,
         \A j \in Debuggers : j < i => dbg'[j] = dbg[j] /\ kid'[j] = kid[j],
         \A j \in Debuggers : j > i => ~Live(j)',
         Live(i)' => Live(i)
  PROVE  Chain'
<1> SUFFICES ASSUME NEW j \in Debuggers, Live(j)', NEW k \in 1 .. j - 1
             PROVE  dbg'[k].at = "wait" /\ kid'[k].image = "vdbg" /\ kid'[k].life = "running"
  BY DEF Chain
<1>1. j \in Int /\ i \in Int /\ ~(j > i)
  BY DEF Debuggers
<1>2. k \in Debuggers /\ k < i
  BY <1>1, LaunchAssumption DEF Debuggers
<1>3. dbg'[k] = dbg[k] /\ kid'[k] = kid[k]
  BY <1>2
<1>4. Live(j)
  <2>1. CASE j = i
    BY <2>1
  <2>2. CASE j < i
    BY <2>2 DEF Live
  <2> QED
    BY <1>1, <2>1, <2>2
<1> QED
  BY <1>3, <1>4 DEF Chain

\* Every step keeps the chain.
LEMMA NextChain ==
  ASSUME Signals \subseteq {"fatal"}, BeliefInv, Chain, [Next]_vars
  PROVE  Chain'
<1> USE DEF BeliefInv
<1>0. \A j \in Debuggers : j \in Int
  BY DEF Debuggers
<1>1. CASE UNCHANGED <<dbg, kid>>
  BY <1>1 DEF Chain, Live
<1>2. ASSUME NEW i \in Debuggers, run(i) PROVE Chain'
  <2> SUFFICES ASSUME NEW j \in Debuggers, Live(j)', NEW k \in 1 .. j - 1
               PROVE  dbg'[k].at = "wait" /\ kid'[k].image = "vdbg" /\ kid'[k].life = "running"
    BY DEF Chain
  <2>1. dbg[i].at = "prompt" /\ Live(i)
    BY <1>2, RunEffect DEF At, Live
  <2>2. j < i => Live(j)
    BY <1>2, RunEffect DEF Live
  <2>3. j > i => j = i + 1 /\ kid'[i] = Forked
    <3>1. dbg'[j] # NoDebugger
      BY DEF Live, NoDebugger
    <3> QED
      BY <1>2, <3>1, RunEffect
  <2>4. k \in Debuggers /\ k <= i
    BY <1>0, <2>3, LaunchAssumption DEF Debuggers
  <2>5. CASE k = i
    <3>1. kid'[i] = Forked
      BY <1>0, <2>3, <2>5
    <3>2. dbg'[i].at = "wait"
      BY <1>2, RunEffect DEF NoDebugger
    <3> QED
      BY <2>5, <3>1, <3>2 DEF Forked
  <2>6. CASE k < i
    <3>1. dbg'[k] = dbg[k] /\ kid'[k] = kid[k]
      BY <1>2, <2>4, <2>6, RunEffect
    <3>2. k \in 1 .. i - 1
      BY <1>0, <2>4, <2>6 DEF Debuggers
    <3> QED
      BY <2>1, <3>1, <3>2 DEF Chain
  <2> QED
    BY <1>0, <2>4, <2>5, <2>6
<1>3. ASSUME NEW i \in Debuggers, exit(i) \/ (abort(i) /\ dbg[i].at \in {"load", "resolve"})
      PROVE  Chain'
  <2>1. dbg[i].at # "wait"
    BY <1>3 DEF exit, At
  <2>2. \A j \in Debuggers : j >= i => ~Live(j)'
    <3> SUFFICES ASSUME NEW j \in Debuggers, j >= i PROVE ~Live(j)'
      OBVIOUS
    <3>1. CASE j = i
      BY <1>3, <3>1, EndEffect DEF Live
    <3>2. CASE j > i
      <4>1. ~Live(j)
        BY <2>1, <3>2, LastOne
      <4>2. dbg'[j] = dbg[j]
        BY <1>0, <1>3, <3>2, EndEffect
      <4> QED
        BY <4>1, <4>2 DEF Live
    <3> QED
      BY <1>0, <3>1, <3>2
  <2> SUFFICES ASSUME NEW j \in Debuggers, Live(j)', NEW k \in 1 .. j - 1
               PROVE  dbg'[k].at = "wait" /\ kid'[k].image = "vdbg" /\ kid'[k].life = "running"
    BY DEF Chain
  <2>3. j < i
    BY <1>0, <2>2
  <2>4. k \in Debuggers /\ k \notin {i, i - 1}
    BY <1>0, <2>3, LaunchAssumption DEF Debuggers
  <2>5. dbg'[k] = dbg[k] /\ kid'[k] = kid[k]
    BY <1>3, <2>4, EndEffect
  <2>6. Live(j)
    BY <1>0, <1>3, <2>3, EndEffect DEF Live
  <2> QED
    BY <2>5, <2>6 DEF Chain
<1>4. ASSUME NEW i \in Debuggers, wait_for_signal(i) PROVE Chain'
  <2>1. \A j \in Debuggers : j < i => dbg'[j] = dbg[j] /\ kid'[j] = kid[j]
    BY <1>0, <1>4, WaitEffect
  <2>2. \A j \in Debuggers : j > i => ~Live(j)'
    <3> SUFFICES ASSUME NEW j \in Debuggers, j > i PROVE ~Live(j)'
      OBVIOUS
    <3>1. ~Live(j)
      BY <1>4, WaitEffect, LastOne
    <3>2. dbg'[j] = dbg[j] \/ dbg'[j] = NoDebugger
      BY <1>0, <1>4, WaitEffect
    <3> QED
      BY <3>1, <3>2 DEF Live, NoDebugger
  <2>3. Live(i)
    BY <1>4, WaitEffect DEF Waiting, At, Live
  <2> QED
    BY <2>1, <2>2, <2>3, SameChain
<1>5. ASSUME NEW i \in Debuggers,
             \/ initialize_load_address(i) \/ resolve_pending_breakpoints(i)
             \/ setup_dwfl(i) \/ continue_execution(i)
      PROVE  Chain'
  <2>1. CASE abort(i) /\ Runs(i) /\ dbg[i].at \in {"load", "resolve"}
    BY <1>3, <2>1
  <2>2. CASE ~(abort(i) /\ Runs(i) /\ dbg[i].at \in {"load", "resolve"})
    <3>1. /\ \A j \in Debuggers : j # i => dbg'[j] = dbg[j] /\ kid'[j] = kid[j]
          /\ dbg[i].at \in {"load", "resolve", "report", "continue"}
      BY <1>5, <2>2, SpawnEffect
    <3>2. \A j \in Debuggers : j < i => dbg'[j] = dbg[j] /\ kid'[j] = kid[j]
      BY <1>0, <3>1
    <3>3. \A j \in Debuggers : j > i => ~Live(j)'
      <4> SUFFICES ASSUME NEW j \in Debuggers, j > i PROVE ~Live(j)'
        OBVIOUS
      <4>1. ~Live(j)
        BY <3>1, LastOne
      <4> QED
        BY <1>0, <3>1, <4>1 DEF Live
    <3>4. Live(i)
      BY <3>1 DEF Live
    <3> QED
      BY <3>2, <3>3, <3>4, SameChain
  <2> QED
    BY <2>1, <2>2
<1>6. ASSUME NEW i \in Debuggers, execv(i) PROVE Chain'
  <2>1. \A j \in Debuggers : j < i => dbg'[j] = dbg[j] /\ kid'[j] = kid[j]
    BY <1>0, <1>6, ExecEffect
  <2>2. \A j \in Debuggers : j > i => ~Live(j)'
    <3> SUFFICES ASSUME NEW j \in Debuggers, j > i PROVE ~Live(j)'
      OBVIOUS
    <3>1. CASE j = i + 1
      BY <1>6, <3>1, ExecEffect DEF Live, NoDebugger
    <3>2. CASE j > i + 1
      <4>1. i + 1 \in Debuggers /\ i < Depth
        BY <3>2, LaunchAssumption DEF Debuggers
      <4>2. dbg[i + 1].at = "execv"
        BY <1>6, <4>1, ExecEffect
      <4>3. ~Live(j)
        BY <3>2, <4>1, <4>2, LastOne
      <4> QED
        BY <1>0, <1>6, <3>2, <4>3, ExecEffect DEF Live
    <3> QED
      BY <1>0, <3>1, <3>2
  <2>3. Live(i)' => Live(i)
    BY <1>0, <1>6, ExecEffect DEF Live
  <2> QED
    BY <2>1, <2>2, <2>3, SameChain
<1>7. ASSUME NEW i \in Debuggers, execv_fails(i) PROVE Chain'
  <2>1. \A j \in Debuggers : j < i => dbg'[j] = dbg[j] /\ kid'[j] = kid[j]
    BY <1>0, <1>7, FailEffect
  <2>2. \A j \in Debuggers : j > i => ~Live(j)'
    <3> SUFFICES ASSUME NEW j \in Debuggers, j > i PROVE ~Live(j)'
      OBVIOUS
    <3>1. ~Live(j)
      BY <1>7, FailEffect, LastOne
    <3> QED
      BY <1>0, <1>7, <3>1, FailEffect DEF Live
  <2>3. Live(i)
    BY <1>7, FailEffect DEF Live
  <2> QED
    BY <2>1, <2>2, <2>3, SameChain
<1>8. ASSUME NEW i \in Debuggers, child_gets_signal(i) \/ program_runs(i) PROVE Chain'
  <2>1. \A j \in Debuggers : j < i => dbg'[j] = dbg[j] /\ kid'[j] = kid[j]
    BY <1>0, <1>8, SignalEffect
  <2>2. \A j \in Debuggers : j > i => ~Live(j)'
    <3> SUFFICES ASSUME NEW j \in Debuggers, j > i PROVE ~Live(j)'
      OBVIOUS
    <3>1. CASE kid[i].image # "vdbg"
      <4>1. ~Live(j)
        BY <3>1, LastOne
      <4>2. dbg'[j] = dbg[j] \/ dbg'[j] = NoDebugger
        BY <1>0, <1>8, SignalEffect
      <4> QED
        BY <4>1, <4>2 DEF Live, NoDebugger
    <3>2. CASE kid[i].image = "vdbg"
      <4>1. i + 1 \in Debuggers /\ i < Depth
        BY LaunchAssumption DEF Debuggers
      <4>2. child_gets_signal(i)
        BY <1>8, <3>2, SignalEffect
      <4>3. /\ dbg[i + 1].at = "execv"
            /\ dbg' = [l \in Debuggers |-> IF l = i + 1 THEN NoDebugger ELSE dbg[l]]
        BY <3>2, <4>1, <4>2 DEF child_gets_signal
      <4>4. CASE j = i + 1
        BY <4>3, <4>4 DEF Live, NoDebugger
      <4>5. CASE j > i + 1
        <5>1. ~Live(j)
          BY <4>1, <4>3, <4>5, LastOne
        <5> QED
          BY <1>0, <4>3, <4>5, <5>1 DEF Live
      <4> QED
        BY <1>0, <4>4, <4>5
    <3> QED
      BY <3>1, <3>2
  <2>3. Live(i)' => Live(i)
    BY <1>0, <1>8, SignalEffect DEF Live
  <2> QED
    BY <2>1, <2>2, <2>3, SameChain
<1> QED
  BY <1>1, <1>2, <1>3, <1>4, <1>5, <1>6, <1>7, <1>8 DEF Next, launch, cmd_arguments, vars

\* One process at a time reads the terminal, however often execv fails: a
\* debugger with a prompt has everyone before it in the chain waiting.
THEOREM ReadersApart ==
  ASSUME Signals \subseteq {"fatal"}
  PROVE  Spec => []OneReader
<1>1. BeliefInv /\ Chain => OneReader
  <2> SUFFICES ASSUME Chain, NEW i \in Debuggers, NEW j \in Debuggers, i # j,
                      dbg[i].at = "prompt", dbg[j].at = "prompt"
               PROVE  FALSE
    BY DEF OneReader
  <2>1. Live(i) /\ Live(j)
    BY DEF Live
  <2>2. i < j \/ j < i
    BY DEF Debuggers
  <2> QED
    BY <2>1, <2>2, LastOne
<1>2. BeliefInv /\ Chain /\ [Next]_vars => Chain'
  BY NextChain
<1> QED
  BY <1>1, <1>2, InitBelief, NextBelief, PTL DEF Spec

-----------------------------------------------------------------------------
(***************************************************************************)
(* What spawn_tracee knows when it lets the tracee go.                     *)
(***************************************************************************)

\* Where a debugger knows nothing about a start under way.
Idle == {"none", "prompt", "execv", "contwait", "exited", "aborted", "undefined"}

\* A debugger that is not starting a tracee, or whose record and child are
\* unchanged, or whose child just died, stays on its course.
LEMMA SameCourse ==
  ASSUME NEW j \in Debuggers, Course(j),
         \/ dbg'[j].at \in Idle
         \/ dbg'[j] = dbg[j] /\ (kid'[j] = kid[j] \/ kid'[j].life = "zombie")
  PROVE  Course(j)'
<1>1. CASE dbg'[j].at \in Idle
  BY <1>1 DEF Course, Idle
<1>2. CASE dbg'[j] = dbg[j] /\ kid'[j] = kid[j]
  BY <1>2 DEF Course, Held
<1>3. CASE dbg'[j] = dbg[j] /\ kid'[j].life = "zombie"
  BY <1>3 DEF Course, Held
<1> QED
  BY <1>1, <1>2, <1>3

\* The tracer of a debugger that ends is waiting for it, and finds it dead or
\* stopped by its SIGABRT.
LEMMA EndCourse ==
  ASSUME CourseInv, NEW i \in Debuggers,
         exit(i) \/ (abort(i) /\ dbg[i].at \in {"load", "resolve"}),
         NEW j \in Debuggers
  PROVE  Course(j)'
<1>0. \A l \in Debuggers : l \in Int
  BY DEF Debuggers
<1>1. LTypeOK /\ Course(j) /\ Chain
  BY DEF CourseInv, BeliefInv
<1>2. CASE j = i
  <2>1. dbg'[j].at \in Idle
    BY <1>1, <1>2, EndEffect DEF Idle
  <2> QED
    BY <1>1, <2>1, SameCourse
<1>3. CASE j = i - 1
  <2>1. Live(i)
    BY DEF exit, At, Live
  <2>2. j \in 1 .. i - 1
    BY <1>0, <1>3 DEF Debuggers
  <2>3. dbg[j].at = "wait"
    BY <1>1, <2>1, <2>2 DEF Chain
  <2>4. dbg'[j] = dbg[j]
    BY <1>0, <1>1, <1>3, EndEffect
  <2>5. kid'[j].life = "zombie" \/ (kid'[j].life = "stopped" /\ kid'[j].why = "abrt")
    BY <1>1, <1>3, EndEffect
  <2> QED
    BY <2>3, <2>4, <2>5 DEF Course
<1>4. CASE j \notin {i, i - 1}
  <2>1. dbg'[j] = dbg[j] /\ kid'[j] = kid[j]
    BY <1>1, <1>4, EndEffect
  <2> QED
    BY <1>1, <2>1, SameCourse
<1> QED
  BY <1>2, <1>3, <1>4

\* Every step keeps every debugger on its course.
LEMMA NextCourse ==
  ASSUME Signals \subseteq {"fatal"}, CourseInv, [Next]_vars, NEW j \in Debuggers
  PROVE  Course(j)'
<1>0. \A l \in Debuggers : l \in Int
  BY DEF Debuggers
<1>1. LTypeOK /\ Course(j)
  BY DEF CourseInv, BeliefInv
<1>2. CASE UNCHANGED <<dbg, kid>>
  BY <1>1, <1>2 DEF Course, Held
<1>3. ASSUME NEW i \in Debuggers, run(i) PROVE Course(j)'
  <2>1. CASE j < i
    BY <1>1, <1>3, <2>1, RunEffect, SameCourse
  <2>2. CASE j = i
    <3>1. dbg'[j].at = "wait"
      BY <1>1, <1>3, <2>2, RunEffect DEF NoDebugger
    <3>2. kid'[j] \in {Forked, NoKid}
      BY <1>1, <1>3, <2>2, RunEffect
    <3> QED
      BY <3>1, <3>2 DEF Course, Forked, NoKid
  <2>3. CASE j > i
    <3>1. dbg'[j].at \in {"none", "execv"}
      <4>1. \/ dbg'[j] = NoDebugger
            \/ dbg'[j] = [NoDebugger EXCEPT !.at = "execv", !.sig = dbg[i].sig]
        BY <1>1, <1>3, <2>3, RunEffect
      <4>2. CASE dbg'[j] = NoDebugger
        BY <4>2 DEF NoDebugger
      <4>3. CASE dbg'[j] = [NoDebugger EXCEPT !.at = "execv", !.sig = dbg[i].sig]
        BY <4>3 DEF NoDebugger
      <4> QED
        BY <4>1, <4>2, <4>3
    <3> QED
      BY <1>1, <3>1, SameCourse DEF Idle
  <2> QED
    BY <1>0, <2>1, <2>2, <2>3
<1>4. ASSUME NEW i \in Debuggers, wait_for_signal(i) PROVE Course(j)'
  <2>1. CASE j \notin {i, i + 1}
    BY <1>1, <1>4, <2>1, WaitEffect, SameCourse
  <2>2. CASE j = i + 1
    <3>1. kid'[j] = kid[j] /\ (dbg'[j] = dbg[j] \/ dbg'[j].at = "none")
      BY <1>0, <1>1, <1>4, <2>2, WaitEffect DEF NoDebugger
    <3> QED
      BY <1>1, <3>1, SameCourse DEF Idle
  <2>3. CASE j = i /\ dbg[i].at # "wait"
    <3>1. dbg'[j].at = "prompt"
      BY <1>1, <1>4, <2>3, WaitEffect DEF after_wait
    <3> QED
      BY <1>1, <3>1, SameCourse DEF Idle
  <2>4. CASE j = i /\ dbg[i].at = "wait"
    <3>1. dbg'[j].at = "load"
      BY <1>1, <1>4, <2>4, WaitEffect DEF after_wait
    <3>2. Held(j)'
      <4>1. \/ kid[i].life \in {"none", "zombie"}
            \/ kid[i].life = "stopped" /\ kid[i].image = "program" /\ kid[i].why = "exec"
            \/ kid[i].life = "stopped" /\ kid[i].why = "abrt"
        BY <1>1, <1>4, <2>4, WaitEffect DEF Course
      <4>2. CASE kid[i].life \in {"none", "zombie"}
        BY <1>1, <1>4, <2>4, <4>2, WaitEffect DEF Held, NoKid
      <4>3. CASE kid[i].life = "stopped" /\ kid[i].why \in {"exec", "abrt"}
        BY <1>1, <1>4, <2>4, <4>1, <4>3, WaitEffect DEF Held
      <4> QED
        BY <4>1, <4>2, <4>3
    <3> QED
      BY <3>1, <3>2 DEF Course
  <2> QED
    BY <2>1, <2>2, <2>3, <2>4
<1>5. ASSUME NEW i \in Debuggers,
             \/ initialize_load_address(i) \/ resolve_pending_breakpoints(i)
             \/ setup_dwfl(i) \/ continue_execution(i)
      PROVE  Course(j)'
  <2>1. CASE abort(i) /\ Runs(i) /\ dbg[i].at \in {"load", "resolve"}
    BY <2>1, EndCourse
  <2>2. CASE ~(abort(i) /\ Runs(i) /\ dbg[i].at \in {"load", "resolve"}) /\ j # i
    BY <1>1, <1>5, <2>2, SpawnEffect, SameCourse
  <2>3. CASE ~(abort(i) /\ Runs(i) /\ dbg[i].at \in {"load", "resolve"}) /\ j = i
    <3>1. /\ kid'[i].image = kid[i].image
          /\ kid'[i].life # kid[i].life => dbg[i].at = "continue"
      BY <1>1, <1>5, <2>3, SpawnEffect
    <3>2. CASE dbg[i].at = "load"
      BY <1>1, <1>5, <2>3, <3>1, <3>2, SpawnEffect DEF Course, Held
    <3>3. CASE dbg[i].at = "resolve"
      BY <1>1, <1>5, <2>3, <3>1, <3>3, SpawnEffect DEF Course, Held
    <3>4. CASE dbg[i].at = "report"
      BY <1>1, <1>5, <2>3, <3>1, <3>4, SpawnEffect DEF Course, Held
    <3>5. CASE dbg[i].at = "continue"
      BY <1>1, <1>5, <2>3, <3>5, SpawnEffect, SameCourse DEF Idle
    <3> QED
      BY <1>1, <1>5, <2>3, <3>2, <3>3, <3>4, <3>5, SpawnEffect
  <2> QED
    BY <2>1, <2>2, <2>3
<1>6. ASSUME NEW i \in Debuggers, execv(i) PROVE Course(j)'
  <2>1. CASE j \notin {i, i + 1}
    BY <1>1, <1>6, <2>1, ExecEffect, SameCourse
  <2>2. CASE j = i + 1
    <3>1. dbg'[j].at = "none"
      BY <1>1, <1>6, <2>2, ExecEffect DEF NoDebugger
    <3> QED
      BY <1>1, <3>1, SameCourse DEF Idle
  <2>3. CASE j = i
    <3>1. dbg'[j] = dbg[j]
      BY <1>0, <1>1, <1>6, <2>3, ExecEffect
    <3>2. dbg[j].at \notin {"load", "resolve", "report", "continue"}
      BY <1>1, <1>6, <2>3, ExecEffect DEF Course, Held
    <3> QED
      BY <1>1, <1>6, <2>3, <3>1, <3>2, ExecEffect DEF Course
  <2> QED
    BY <2>1, <2>2, <2>3
<1>7. ASSUME NEW i \in Debuggers, execv_fails(i) PROVE Course(j)'
  <2>1. CASE j = i
    BY <1>1, <1>7, <2>1, FailEffect, SameCourse DEF Idle
  <2>2. CASE j # i
    BY <1>1, <1>7, <2>2, FailEffect, SameCourse
  <2> QED
    BY <2>1, <2>2
<1>8. ASSUME NEW i \in Debuggers, child_gets_signal(i) \/ program_runs(i) PROVE Course(j)'
  <2>1. CASE j \notin {i, i + 1}
    BY <1>1, <1>8, <2>1, SignalEffect, SameCourse
  <2>2. CASE j = i + 1
    <3>1. kid'[j] = kid[j] /\ (dbg'[j] = dbg[j] \/ dbg'[j].at = "none")
      BY <1>0, <1>1, <1>8, <2>2, SignalEffect DEF NoDebugger
    <3> QED
      BY <1>1, <3>1, SameCourse DEF Idle
  <2>3. CASE j = i
    <3>1. dbg'[j] = dbg[j]
      BY <1>0, <1>1, <1>8, <2>3, SignalEffect
    <3>2. CASE child_gets_signal(i)
      <4>1. kid' = [kid EXCEPT ![i].life = "zombie"]
        BY <3>2 DEF child_gets_signal
      <4>2. kid'[j].life = "zombie"
        BY <1>1, <2>3, <4>1 DEF LTypeOK, KidRec
      <4> QED
        BY <1>1, <3>1, <4>2, SameCourse
    <3>3. CASE kid[i].image = "program" /\ kid[i].life = "running"
      <4>1. dbg[j].at \notin {"wait", "load", "resolve", "report", "continue"}
        BY <1>1, <2>3, <3>3 DEF Course, Held
      <4> QED
        BY <3>1, <4>1 DEF Course
    <3> QED
      BY <1>1, <1>8, <3>2, <3>3, SignalEffect
  <2> QED
    BY <2>1, <2>2, <2>3
<1> QED
  BY <1>2, <1>3, <1>4, <1>5, <1>6, <1>7, <1>8, EndCourse DEF Next, launch, cmd_arguments, vars

\* When spawn_tracee lets a tracee go, its load address and its int3s are
\* those of the program, for a chain of any length and however often fork and
\* execv fail: only a fatal signal may come early.
THEOREM ProgramLaunched ==
  ASSUME Signals \subseteq {"fatal"}
  PROVE  Spec => []Launched
<1>1. Init => CourseInv
  BY InitBelief DEF CourseInv
<1>2. CourseInv /\ [Next]_vars => CourseInv'
  BY NextBelief, NextChain, NextCourse DEF CourseInv, BeliefInv
<1>3. CourseInv => Launched
  BY DEF CourseInv, Course, Held, Launched
<1> QED
  BY <1>1, <1>2, <1>3, PTL DEF Spec

-----------------------------------------------------------------------------
(***************************************************************************)
(* doubled is a recursive function: that it satisfies its equation needs   *)
(* one function that does.  Reached(c) are the capacities c, 2c, 4c ...    *)
(***************************************************************************)
Reached(c) ==
  {x \in Nat : \A S \in SUBSET Nat : c \in S /\ (\A y \in S : 2 * y \in S) => x \in S}

Enough(c, n) == {x \in Reached(c) : n <= x}

Least(S) == CHOOSE x \in S : \A y \in S : x <= y

\* Doubling reaches the capacity itself, the double of what it reaches, and
\* nothing between.
LEMMA ReachedStep ==
  ASSUME NEW c \in Nat
  PROVE  /\ c \in Reached(c)
         /\ 2 * c \in Nat
         /\ Reached(c) = {c} \cup Reached(2 * c)
         /\ \A x \in Reached(c) : c <= x
<1>0. 2 * c \in Nat
  OBVIOUS
<1>1. c \in Reached(c)
  BY DEF Reached
<1>2. \A x \in Reached(c) : c <= x
  <2> DEFINE S == {x \in Nat : c <= x}
  <2>1. S \in SUBSET Nat /\ c \in S /\ \A y \in S : 2 * y \in S
    OBVIOUS
  <2> QED
    BY <2>1 DEF Reached
<1>3. Reached(2 * c) \subseteq Reached(c)
  BY <1>0 DEF Reached
<1>4. Reached(c) \subseteq {c} \cup Reached(2 * c)
  <2> DEFINE S == {c} \cup Reached(2 * c)
  <2>1. S \in SUBSET Nat /\ c \in S
    BY DEF Reached
  <2>2. \A y \in Reached(2 * c) : 2 * y \in Reached(2 * c)
    BY DEF Reached
  <2>3. 2 * c \in Reached(2 * c)
    BY <1>0 DEF Reached
  <2>4. \A y \in S : 2 * y \in S
    BY <2>2, <2>3
  <2> HIDE DEF S
  <2>5. Reached(c) \subseteq S
    BY <2>1, <2>4 DEF Reached
  <2> QED
    BY <2>5 DEF S
<1> QED
  BY <1>0, <1>1, <1>2, <1>3, <1>4

\* The equation of doubled.
LEMMA Doubled ==
  ASSUME NEW c \in Nat, NEW n \in Nat
  PROVE  doubled(c, n) = IF n <= c THEN c ELSE doubled(2 * c, n)
<1> DEFINE F(f) == [x \in Nat |-> IF n <= x THEN x ELSE f[2 * x]]
           g == [x \in Nat |-> IF n <= x THEN x ELSE Least(Enough(x, n))]
           h == CHOOSE f : f = F(f)
<1>1. ASSUME NEW a \in Nat, a < n
      PROVE  Least(Enough(a, n)) = IF n <= 2 * a THEN 2 * a ELSE Least(Enough(2 * a, n))
  <2>0. 2 * a \in Nat
    OBVIOUS
  <2>1. Enough(a, n) = Enough(2 * a, n)
    BY <1>1, ReachedStep DEF Enough
  <2>2. ASSUME n <= 2 * a PROVE Least(Enough(2 * a, n)) = 2 * a
    <3>1. 2 * a \in Enough(2 * a, n) /\ \A y \in Enough(2 * a, n) : 2 * a <= y
      BY <2>0, <2>2, ReachedStep DEF Enough
    <3>2. Enough(2 * a, n) \subseteq Nat
      BY DEF Enough, Reached
    <3> QED
      BY <3>1, <3>2 DEF Least
  <2> QED
    BY <2>1, <2>2
<1>2. g = F(g)
  <2>1. ASSUME NEW x \in Nat
        PROVE  g[x] = IF n <= x THEN x ELSE g[2 * x]
    <3>1. 2 * x \in Nat
      OBVIOUS
    <3>2. g[x] = IF n <= x THEN x ELSE Least(Enough(x, n))
      OBVIOUS
    <3>3. g[2 * x] = IF n <= 2 * x THEN 2 * x ELSE Least(Enough(2 * x, n))
      BY <3>1
    <3> QED
      BY <1>1, <3>2, <3>3
  <2>2. g = [x \in Nat |-> g[x]]
    OBVIOUS
  <2> QED
    BY <2>1, <2>2
<1> HIDE DEF g
<1>3. h = F(h)
  BY <1>2
<1>4. \A x \in Nat : h[x] = IF n <= x THEN x ELSE h[2 * x]
  BY <1>3
<1>5. doubled(c, n) = h[c] /\ doubled(2 * c, n) = h[2 * c]
  BY DEF doubled
<1> QED
  BY <1>4, <1>5

-----------------------------------------------------------------------------
(***************************************************************************)
(* The vector holds what the user gave last, and NULL behind it.           *)
(***************************************************************************)

\* What the user may give: split stores it inside its own array, and the list
\* has room for it and for a NULL without growing.
Modest == \A n \in Given : split_fits(n) /\ n + 1 < MaxArgs

Slots == 1 .. MaxArgs - 1

ListInv ==
  /\ ~wild
  /\ wanted \in Seq(Strings) /\ Len(wanted) + 1 < MaxArgs
  /\ list \in Seq(Strings \cup {NULL}) /\ Len(list) = MaxArgs - 1
  /\ \A i \in Slots : list[i] = IF i <= Len(wanted) THEN wanted[i] ELSE NULL

\* first_free finds the NULL behind the arguments.
LEMMA FirstFree ==
  ASSUME ListInv
  PROVE  first_free(list) = Len(wanted) + 1 /\ terminated(list)
<1> USE DEF ListInv, Slots
<1> DEFINE m == Len(wanted) + 1
           P(i) == /\ i = Len(list) + 1 \/ list[i] \in {NULL, Garbage}
                   /\ \A j \in 1 .. i - 1 : list[j] \notin {NULL, Garbage}
<1>1. MaxArgs \in Nat /\ Len(wanted) \in Nat /\ m \in 1 .. Len(list) + 1 /\ m <= Len(list)
  BY ArgumentsAssumption
<1>2. list[m] = NULL
  BY <1>1
<1>3. \A j \in 1 .. m - 1 : list[j] \in Strings
  BY <1>1
<1>4. P(m)
  BY <1>1, <1>2, <1>3, ArgumentsAssumption DEF NULL, Garbage
<1>5. ASSUME NEW i \in 1 .. Len(list) + 1, P(i) PROVE i = m
  <2>1. CASE i < m
    <3>1. i \in 1 .. m - 1 /\ i # Len(list) + 1
      BY <1>1, <2>1
    <3> QED
      BY <1>3, <1>5, <3>1, ArgumentsAssumption DEF NULL, Garbage
  <2>2. CASE i > m
    <3>1. m \in 1 .. i - 1
      BY <1>1, <2>2
    <3> QED
      BY <1>2, <1>5, <3>1
  <2> QED
    BY <1>1, <2>1, <2>2
<1>6. first_free(list) = CHOOSE i \in 1 .. Len(list) + 1 : P(i)
  BY DEF first_free
<1> HIDE DEF P
<1>7. first_free(list) = m
  BY <1>1, <1>4, <1>5, <1>6
<1> QED
  BY <1>1, <1>2, <1>7 DEF terminated

\* add_arguments_for_tracee puts the new arguments in the place of the old.
LEMMA AddKeeps ==
  ASSUME Modest, ListInv, NEW n \in Given, NEW s \in Strings, add_arguments_for_tracee(n, s)
  PROVE  ListInv'
<1> USE DEF ListInv, Slots
<1>0. n \in Nat /\ MaxArgs \in Nat /\ n + 1 < MaxArgs /\ split_fits(n)
  BY ArgumentsAssumption DEF Modest
<1>1. terminated(list) /\ first_free(list) = Len(wanted) + 1
  BY FirstFree
<1>2. /\ wanted' = [i \in 1 .. n |-> s] /\ wild' = wild
      /\ list' = appended(n, s)
  BY <1>0, <1>1 DEF add_arguments_for_tracee
<1>3. doubled(Len(list) + 1, n + 1) = MaxArgs
  <2>1. Len(list) + 1 = MaxArgs /\ n + 1 \in Nat /\ n + 1 <= MaxArgs
    BY <1>0
  <2> QED
    BY <1>0, <2>1, Doubled
<1>4. list' = [i \in Slots |-> IF i <= n THEN s
                               ELSE IF i <= Len(list) THEN cleared[i] ELSE Garbage]
  BY <1>2, <1>3 DEF appended
<1>5. DOMAIN list = Slots
  BY <1>0
<1>6. \A i \in Slots : cleared[i] = NULL
  <2> SUFFICES ASSUME NEW i \in Slots PROVE cleared[i] = NULL
    OBVIOUS
  <2>1. cleared[i] = IF i < first_free(list) THEN NULL ELSE list[i]
    BY <1>5 DEF cleared
  <2> QED
    BY <1>0, <1>1, <2>1
<1>7. \A i \in Slots : list'[i] = IF i <= n THEN s ELSE NULL
  BY <1>0, <1>4, <1>6
<1>8. wanted' \in Seq(Strings) /\ Len(wanted') = n /\ \A i \in 1 .. n : wanted'[i] = s
  BY <1>0, <1>2
<1>9. list' \in Seq(Strings \cup {NULL}) /\ Len(list') = MaxArgs - 1
  <2>1. list' = [i \in 1 .. MaxArgs - 1 |-> list'[i]]
    BY <1>4
  <2>2. \A i \in Slots : list'[i] \in Strings \cup {NULL}
    BY <1>7
  <2>3. MaxArgs - 1 \in Nat
    BY <1>0
  <2> QED
    BY <2>1, <2>2, <2>3
<1> QED
  BY <1>0, <1>2, <1>7, <1>8, <1>9

\* execv reads the arguments and leaves the vector alone.
LEMMA ExecKeeps ==
  ASSUME ListInv, execv_arguments
  PROVE  ListInv' /\ argv' = wanted
<1> USE DEF ListInv, Slots
<1>1. /\ argv' = SubSeq(list, 1, Len(wanted))
      /\ UNCHANGED <<list, wanted, wild>>
  BY FirstFree DEF execv_arguments
<1>2. MaxArgs \in Nat /\ Len(wanted) \in Nat /\ Len(wanted) <= Len(list)
  BY ArgumentsAssumption
<1>3. /\ Len(SubSeq(list, 1, Len(wanted))) = Len(wanted)
      /\ \A i \in 1 .. Len(wanted) : SubSeq(list, 1, Len(wanted))[i] = list[i]
      /\ SubSeq(list, 1, Len(wanted)) \in Seq(Strings \cup {NULL})
  BY <1>2
<1>4. \A i \in 1 .. Len(wanted) : SubSeq(list, 1, Len(wanted))[i] = wanted[i]
  BY <1>2, <1>3
<1>5. SubSeq(list, 1, Len(wanted)) = wanted
  <2>1. wanted \in Seq(Strings \cup {NULL})
    OBVIOUS
  <2> QED
    BY <1>3, <1>4, <2>1, SeqEqual
<1> QED
  BY <1>1, <1>5

\* Every step of a debugger keeps the vector.
LEMMA NextList ==
  ASSUME Modest, ListInv, [Next]_vars
  PROVE  ListInv' /\ (execv_arguments => argv' = wanted)
<1>1. CASE UNCHANGED argumentVars
  BY <1>1, ExecKeeps DEF ListInv, argumentVars
<1>2. CASE cmd_arguments
  <2>1. PICK n \in Given, s \in Strings : add_arguments_for_tracee(n, s)
    BY <1>2 DEF cmd_arguments
  <2> QED
    BY <2>1, AddKeeps, ExecKeeps
<1>3. CASE execv_arguments
  BY <1>3, ExecKeeps
<1> QED
  BY <1>1, <1>2, <1>3
     DEF Next, launch, run, exit, child_gets_signal, program_runs, wait_for_signal,
         initialize_load_address, resolve_pending_breakpoints, setup_dwfl, continue_execution,
         execv, execv_fails, vars

\* The list is in order throughout.
LEMMA ListAlways ==
  ASSUME Modest
  PROVE  Spec => []ListInv
<1>1. Init => ListInv
  <2> SUFFICES ASSUME Init PROVE ListInv
    OBVIOUS
  <2>1. MaxArgs - 1 \in Nat /\ 1 < MaxArgs /\ MaxArgs \in Nat
    BY ArgumentsAssumption
  <2>2. list = [i \in 1 .. MaxArgs - 1 |-> NULL] /\ wanted = <<>> /\ ~wild
    BY DEF Init, ArgumentsInit
  <2>3. list \in Seq(Strings \cup {NULL}) /\ Len(list) = MaxArgs - 1
    BY <2>1, <2>2
  <2> QED
    BY <2>1, <2>2, <2>3 DEF ListInv, Slots
<1>2. ListInv /\ [Next]_vars => ListInv'
  BY NextList
<1> QED
  BY <1>1, <1>2, PTL DEF Spec

\* Whatever is given, as often as it is given and however the starts between
\* end: neither array is used outside its bounds, nor read where it was never
\* written.
THEOREM ArraysBounded ==
  ASSUME Modest
  PROVE  Spec => []InBounds
<1>1. ListInv => InBounds
  BY DEF ListInv, InBounds
<1> QED
  BY <1>1, ListAlways, PTL

\* And the tracee gets the arguments given last.
THEOREM ArgumentsArrive ==
  ASSUME Modest
  PROVE  Spec => Delivered
<1>1. ListInv /\ [Next]_vars => [execv_arguments => argv' = wanted]_argumentVars
  BY NextList
<1> QED
  BY <1>1, ListAlways, PTL DEF Spec, Delivered

=============================================================================
