----------------------------- MODULE DaemonProofs -----------------------------
(***************************************************************************)
(* What a stop() does to the update loop, for every daemon: whatever its   *)
(* callbacks are and its threads do.                                       *)
(***************************************************************************)
EXTENDS Daemon, TLAPS

\* A stop that was asked for is in the flag, unless run() has overwritten it.
FlagTells == asked = "yes" => m_is_running = FALSE

\* Where the main thread is once it has done its one thing more.
OnTheWayOut == {"check", "test", "on_stop", "returning", "hung"}

LateInv ==
    /\ late \in {0, 1}
    /\ late = 1 => asked = "yes" /\ main \in OnTheWayOut

IInv == FlagTells /\ LateInv

\* What none of the steps on the way out undoes: no place, flag or count moves.
LEMMA Unmoved ==
    ASSUME IInv, UNCHANGED <<main, m_is_running, asked, late>>
    PROVE  IInv'
  BY DEF IInv, FlagTells, LateInv

(* A stop() is in the flag from then on, and what it leaves to do is done    *)
(* once: each step of the main thread, the handler and the loops keeps that. *)
LEMMA Step ==
    ASSUME IInv, [Next]_vars
    PROVE  IInv'
  <1> USE DEF IInv, FlagTells, LateInv, OnTheWayOut
  <1>1. CASE DoLog \/ DoSpawn \/ Back \/ DoStop \/ DoJoin
    <2>1. step' = step + 1 /\ UNCHANGED <<main, m_is_running, asked, late>>
      BY <1>1 DEF DoLog, DoSpawn, Back, DoStop, DoJoin, Done
    <2> QED BY <2>1, Unmoved
  <1>2. CASE DoCall
    BY <1>2, Unmoved DEF DoCall, history
  <1>3. CASE Return
    <2>1. CASE main = "on_update"
      BY <1>3, <2>1 DEF Return, AfterScript, Scripts
    <2>2. CASE main # "on_update"
      BY <1>3, <2>2 DEF Return, AfterScript, Scripts
    <2> QED BY <2>1, <2>2
  <1>4. CASE Fork \/ Arm \/ Begin
    <2>1. CASE Fork
      BY <2>1 DEF Fork, At, history
    <2>2. CASE Arm
      BY <2>2 DEF Arm, Go, At, history
    <2>3. CASE Begin
      BY <2>3 DEF Begin, Go, At
    <2> QED BY <1>4, <2>1, <2>2, <2>3
  <1>5. CASE Test \/ Check
    <2>1. CASE Test
      BY <2>1 DEF Test, Go, At, history
    <2>2. CASE Check
      BY <2>2 DEF Check, Go, At, history
    <2> QED BY <1>5, <2>1, <2>2
  <1>6. CASE Wait \/ Spurious
    BY <1>6 DEF Wait, Spurious, Go, At, history
  <1>7. CASE Timeout
    BY <1>7 DEF Timeout, Go, At
  <1>8. CASE HandleTerm
    BY <1>8 DEF HandleTerm
  <1>9. CASE HandlerHangs
    BY <1>9 DEF HandlerHangs, history
  <1>10. CASE MisuseThread \/ Destroy \/ Fail \/ Killed \/ \E r \in Runners : Throw(r) \/ Exit(r)
    <2>1. UNCHANGED <<main, m_is_running, asked, late>>
      BY <1>10 DEF MisuseThread, Destroy, Fail, Killed, Throw, Exit, End, history
    <2> QED BY <2>1, Unmoved
  <1>11. CASE \E r \in Runners : Enter(r) \/ Leave(r) \/ Finish(r)
    <2>1. UNCHANGED <<main, m_is_running, asked, late>>
      BY <1>11 DEF Enter, Leave, Finish, Over, history
    <2> QED BY <2>1, Unmoved
  <1>12. CASE UNCHANGED vars
    BY <1>12, Unmoved DEF vars, history
  <1> QED
    BY <1>1, <1>2, <1>3, <1>4, <1>5, <1>6, <1>7, <1>8, <1>9, <1>10, <1>11, <1>12
    DEF Next, Main, Scripted

(* After stop() the update loop finishes one on_update() or waits one full   *)
(* duration, never both and never twice (daemon.hpp, run and stop).          *)
THEOREM AtMostOneMore == Spec => []OneMoreAtMost
  <1>1. Init => IInv
    BY DEF Init, IInv, FlagTells, LateInv
  <1>2. IInv => OneMoreAtMost
    BY DEF IInv, LateInv, OneMoreAtMost
  <1> QED BY <1>1, <1>2, Step, PTL DEF Spec

-----------------------------------------------------------------------------
\* A script is a finite sequence.
LEMMA Lengths ==
    ASSUME program \in Programs, NEW s \in Scripts
    PROVE  program[s] \in Seq(Operations) /\ Len(program[s]) \in Nat
  <1>1. program[s] \in Seq(Operations)
    BY ProgramsAssumption
  <1> QED BY <1>1

\* What a script holds at the place the main thread is at.
LEMMA OpType ==
    ASSUME TypeOK, InScript
    PROVE  Op \in Operations /\ program[main] \in Seq(Operations) /\ main \in Scripts
  <1>1. program[main] \in Seq(Operations)
    BY ProgramsAssumption DEF TypeOK, InScript
  <1>2. step \in 1..Len(program[main])
    BY <1>1 DEF TypeOK, InScript
  <1> QED BY <1>1, <1>2 DEF Op, InScript

\* An operation is of one kind, and has the thread and the loop of its kind.
LEMMA OpParts ==
    ASSUME NEW op \in Operations
    PROVE  /\ op.do \in {"spawn", "join", "joinIf"} => op.thread \in Threads
           /\ op.do \in {"spawn", "call"} => op.loop \in Loops
           /\ op.do = "stop" => op.loop \in Flagged
  BY DEF Operations, Log, Spawn, Call, Stop, Join, JoinIf

(* Every operation of a script finds the threads, loops and places it needs, *)
(* and the main thread is in a loop only while a callback calls one: it      *)
(* leaves that operation by Back alone, or with the process.                 *)
LEMMA TypeStep ==
    ASSUME TypeOK, [Next]_vars
    PROVE  TypeOK'
  <1> USE LoopsAssumption DEF TypeOK, Runners, None, history, threads
  <1>a. program' = program
    BY DEF Next, Main, Scripted, DoLog, DoSpawn, DoCall, Back, DoStop, DoJoin, MisuseThread,
        Return, Fork, Arm, Begin, Test, Check, Wait, Timeout, Destroy, Fail, Spurious,
        HandleTerm, HandlerHangs, Killed, Enter, Leave, Finish, Throw, Exit, Done, Go, End, Over, vars
  <1>1. CASE Scripted
    <2>1. CASE MisuseThread
      BY <2>1 DEF MisuseThread, End, Calls
    <2>2. CASE Return
      BY <2>2, ProgramsAssumption
      DEF Return, Calls, AfterScript, Scripts, Places, Updating
    <2>3. CASE DoLog \/ DoSpawn \/ DoCall \/ Back \/ DoStop \/ DoJoin
      <3>1. InScript /\ Op \in Operations /\ program[main] \in Seq(Operations) /\ main \in Scripts
        BY <2>3, OpType DEF DoLog, DoSpawn, DoCall, Back, DoStop, DoJoin, Doing
      <3>2. step \in Nat /\ step + 1 <= Len(program[main]) + 1
        BY <3>1 DEF InScript
      <3>3. Op.do \in {"spawn", "join", "joinIf"} => Op.thread \in Threads
        BY <3>1, OpParts
      <3>4. Op.do \in {"spawn", "call"} => Op.loop \in Loops
        BY <3>1, OpParts
      <3>5. Op.do = "stop" => Op.loop \in Flagged
        BY <3>1, OpParts
      <3>6. CASE DoLog
        BY <3>1, <3>2, <3>6 DEF DoLog, Doing, Done, Calls, Op
      <3>7. CASE DoSpawn
        BY <3>1, <3>2, <3>3, <3>4, <3>7 DEF DoSpawn, Doing, Done, Calls, Op
      <3>8. CASE DoCall
        BY <3>1, <3>2, <3>4, <3>8 DEF DoCall, Doing, Calls, Op, InScript
      <3>9. CASE Back
        BY <3>1, <3>2, <3>9 DEF Back, Doing, Done, Calls, Op
      <3>10. CASE DoStop
        BY <3>1, <3>2, <3>5, <3>10 DEF DoStop, Doing, Done, Calls, Op
      <3>11. CASE DoJoin
        BY <3>1, <3>2, <3>3, <3>11 DEF DoJoin, Doing, Done, Calls, Op
      <3> QED BY <2>3, <3>6, <3>7, <3>8, <3>9, <3>10, <3>11
    <2> QED BY <1>1, <2>1, <2>2, <2>3 DEF Scripted
  <1>b. ASSUME NEW s \in Scripts PROVE Len(program[s]) \in Nat
    BY Lengths
  <1>2. CASE Fork \/ Arm \/ Begin
    <2>1. CASE Fork
      <3>1. state["main"] = None /\ main' = "arming"
        BY <2>1 DEF Fork, At, Scripts, Places
      <3>2. state' \in [Runners -> {None, "begun", "looping", "over", "lost"}] /\ state'["main"] = None
        BY <2>1, <3>1 DEF Fork
      <3>3. main' \in Places /\ main' \notin Scripts /\ step' = 1
        BY <2>1, <3>1 DEF Fork, At, Places, Scripts
      <3> QED BY <2>1, <3>2, <3>3 DEF Fork
    <2>2. CASE Arm
      BY <2>2 DEF Arm, Go, At, Places, Scripts
    <2>3. CASE Begin
      <3>1. main = "armed" /\ main' = "on_start" /\ step' = step /\ state' = state
        BY <2>3 DEF Begin, Go, At
      <3>2. state["main"] = None /\ step = 1
        BY <3>1 DEF Scripts
      <3>3. step' <= Len(program'[main']) + 1
        BY <3>1, <3>2, <1>a, <1>b DEF Scripts
      <3> QED BY <2>3, <1>a, <3>1, <3>2, <3>3 DEF Begin, Go, Places, Scripts
    <2> QED BY <1>2, <2>1, <2>2, <2>3
  <1>3. CASE Test \/ Check \/ Wait \/ Timeout \/ Spurious
    <2>1. CASE Test
      <3>1. main = "test" /\ main' \in {"on_update", "on_stop"} /\ step' = step
        BY <2>1 DEF Test, Go, At
      <3>2. state["main"] = None /\ state' = state
        BY <2>1, <3>1 DEF Test, Go, Scripts
      <3>3. step' <= Len(program[main']) + 1
        BY <2>1, <3>1, <1>b DEF Test, Go, Scripts
      <3> QED BY <2>1, <3>1, <3>2, <3>3 DEF Test, Go, Places, Scripts
    <2>2. CASE Check \/ Wait
      BY <2>2 DEF Check, Wait, Go, At, Places, Updating, Scripts
    <2>3. CASE Timeout \/ Spurious
      BY <2>3 DEF Timeout, Spurious, Go, At, Places, Updating, Scripts
    <2> QED BY <1>3, <2>1, <2>2, <2>3
  <1>4. CASE HandleTerm \/ HandlerHangs
    <2>1. CASE HandleTerm
      <3>1. main' \in Places /\ step' = step /\ state' = state
        BY <2>1 DEF HandleTerm, Places, Updating
      <3>2. main' = main \/ (main = "waiting" /\ main' = "check")
        BY <2>1 DEF HandleTerm
      <3>3. CASE main' = main
        BY <2>1, <3>1, <3>3 DEF HandleTerm, Calls
      <3>4. CASE main = "waiting" /\ main' = "check"
        BY <2>1, <3>1, <3>4 DEF HandleTerm, Scripts
      <3> QED BY <3>2, <3>3, <3>4
    <2>2. CASE HandlerHangs
      BY <2>2 DEF HandlerHangs, Places, Scripts
    <2> QED BY <1>4, <2>1, <2>2
  <1>5. CASE Destroy \/ Fail \/ Killed \/ \E r \in Runners : Throw(r) \/ Exit(r)
    BY <1>5 DEF Destroy, Fail, Killed, Throw, Exit, End, Calls
  <1>6. CASE \E r \in Runners : Enter(r) \/ Leave(r) \/ Finish(r)
    <2>1. PICK r \in Runners : Enter(r) \/ Leave(r) \/ Finish(r)
      BY <1>6
    <2>2. state[r] # None /\ \E how \in {"looping", "over"} : state' = [state EXCEPT ![r] = how]
      BY <2>1 DEF Enter, Leave, Finish, Over, Looping
    <2>3. UNCHANGED <<main, step, loop, m_is_running, asked, stopped, late, fate>>
      BY <2>1 DEF Enter, Leave, Finish, Over
    <2>4. state' \in [Runners -> {None, "begun", "looping", "over", "lost"}]
      BY <2>2
    <2>5. state'["main"] # None => state["main"] # None
      BY <2>2
    <2>6. working' \in [Loops -> BOOLEAN] /\ overwritten' \subseteq stopped'
      <3>1. CASE Enter(r)
        BY <3>1 DEF Enter
      <3>2. CASE Leave(r) \/ Finish(r)
        BY <3>2 DEF Leave, Finish, Over
      <3> QED BY <2>1, <3>1, <3>2
    <2> QED BY <1>a, <2>3, <2>4, <2>5, <2>6 DEF Calls
  <1>7. CASE UNCHANGED vars
    BY <1>7 DEF vars, Calls
  <1> QED
    BY <1>1, <1>2, <1>3, <1>4, <1>5, <1>6, <1>7 DEF Next, Main

\* At first it holds too.
LEMMA InitType ==
    ASSUME Init
    PROVE  TypeOK
  <1>1. 1 <= Len(program["constructor"]) + 1
    BY Lengths DEF Init, Scripts
  <1>2. /\ state \in [Runners -> {None, "begun", "looping", "over", "lost"}]
        /\ state["main"] = None
    BY DEF Init, Runners
  <1>3. loop \in [Runners -> Loops \cup {None}] /\ working \in [Loops -> BOOLEAN]
    BY DEF Init, Runners
  <1>4. main \in Places /\ main \in Scripts /\ step \in Nat \ {0} /\ step <= Len(program[main]) + 1
    BY <1>1 DEF Init, Places, Scripts
  <1>5. stopped \subseteq Flagged /\ overwritten \subseteq stopped /\ late \in 0..2
    BY DEF Init
  <1>6. /\ program \in Programs /\ m_is_running \in BOOLEAN /\ asked \in {"no", "yes", "forgotten"}
        /\ fate \in {None, "killed", "failure", "terminate", "exit", "clean"}
    BY DEF Init
  <1> QED BY <1>2, <1>3, <1>4, <1>5, <1>6 DEF TypeOK

(* Type correctness of every daemon whose callbacks are made of the          *)
(* operations.                                                               *)
THEOREM TypeCorrect == Spec => []TypeOK
  BY InitType, TypeStep, PTL DEF Spec
===============================================================================
