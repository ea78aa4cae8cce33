---------------------------- MODULE MCDaemonsProofs ----------------------------
(***************************************************************************)
(* Why the callbacks of the three daemons never let main() return, however *)
(* their loops, the signals and the timeouts fall: each has an operation   *)
(* on a std::thread that cannot be got over.                               *)
(***************************************************************************)
EXTENDS MCDaemons, DaemonProofs

\* Radio joins client_thread, which it never makes.
RadioStays ==
    /\ state["client_thread"] = None
    /\ main = "on_stop" => step <= 7
    /\ main # "returning"

\* Configuration joins loop_radioSM, which it never makes.
ConfigurationStays ==
    /\ state["loop_radioSM"] = None
    /\ main = "on_stop" => step <= 2
    /\ main # "returning"

\* Fault makes server_thread twice.
FaultStays ==
    /\ main \in {"constructor", "constructed", "arming", "armed", "on_start", "hung"}
    /\ main = "on_start" => step <= 5 /\ (step >= 2 => state["server_thread"] # None)

StaysInv ==
    /\ TypeOK
    /\ program = Radio => RadioStays
    /\ program = Configuration => ConfigurationStays
    /\ program = Fault => FaultStays
    /\ NeverDestroyed

-----------------------------------------------------------------------------
(* What any step can do, whatever the scripts are.                          *)

(* The main thread moves on in its script, out of it, or between scripts.   *)
LEMMA MainMoves ==
    ASSUME [Next]_vars
    PROVE  /\ program' = program
           /\ \/ UNCHANGED <<main, step>>
              \/ main' = "hung"
              \/ /\ InScript /\ main' = main /\ step' = step + 1
                 /\ Op.do = "join" => state[Op.thread] # None
                 /\ Op.do = "spawn" => state[Op.thread] = None
                                       /\ state' = [state EXCEPT ![Op.thread] = "begun"]
              \/ /\ main \in Scripts /\ step = Len(program[main]) + 1
                 /\ main' = AfterScript[main] /\ step' = 1
              \/ /\ main \notin Scripts \cup {"hung"} /\ step' = step /\ main' # "returning"
                 /\ main' = "on_start" => main = "armed"
                 /\ main \in {"constructed", "arming", "armed"} =>
                       main' \in {"arming", "armed", "on_start"}
<1>1. CASE DoLog \/ DoSpawn \/ Back \/ DoStop \/ DoJoin
  <2>1. InScript /\ step' = step + 1 /\ UNCHANGED <<program, main>>
    BY <1>1 DEF DoLog, DoSpawn, Back, DoStop, DoJoin, Doing, Done
  <2>2. DoSpawn \/ Op.do # "spawn"
    BY <1>1 DEF DoLog, Back, DoStop, DoJoin, Doing
  <2>3. DoJoin \/ Op.do # "join"
    BY <1>1 DEF DoLog, Back, DoStop, DoSpawn, Doing
  <2>4. Op.do = "join" => state[Op.thread] # None
    BY <2>3 DEF DoJoin, None
  <2>5. Op.do = "spawn" =>
           state[Op.thread] = None /\ state' = [state EXCEPT ![Op.thread] = "begun"]
    BY <2>2 DEF DoSpawn
  <2>6. QED
    BY <2>1, <2>4, <2>5
<1>2. CASE Return
  BY <1>2 DEF Return
<1>3. CASE Fork \/ Arm \/ Begin \/ Test \/ Check \/ Wait \/ Timeout \/ Spurious
  BY <1>3 DEF Fork, Arm, Begin, Test, Check, Wait, Timeout, Spurious, Go, At, Scripts
<1>4. CASE HandleTerm \/ HandlerHangs
  BY <1>4 DEF HandleTerm, HandlerHangs, Scripts
<1>5. CASE DoCall \/ MisuseThread \/ Destroy \/ Fail \/ Killed
  BY <1>5 DEF DoCall, MisuseThread, Destroy, Fail, Killed, End
<1>6. CASE \E r \in Runners : Enter(r) \/ Leave(r) \/ Finish(r) \/ Throw(r) \/ Exit(r)
  BY <1>6 DEF Enter, Leave, Finish, Throw, Exit, Over, End
<1>7. CASE UNCHANGED vars
  BY <1>7 DEF vars
<1>8. QED
  BY <1>1, <1>2, <1>3, <1>4, <1>5, <1>6, <1>7 DEF Next, Main, Scripted

(* A std::thread becomes joinable where the script makes a thread, and is   *)
(* no longer so where the script joins it.                                  *)
LEMMA ThreadMoves ==
    ASSUME TypeOK, [Next]_vars, NEW t \in Threads
    PROVE  /\ state[t] = None /\ state'[t] # None =>
                 InScript /\ Op.do = "spawn" /\ Op.thread = t
           /\ state[t] # None /\ state'[t] = None =>
                 InScript /\ Op.do \in {"join", "joinIf"} /\ Op.thread = t
<1>1. state \in [Runners -> {None, "begun", "looping", "over", "lost"}] /\ t \in Runners /\ t # "main"
  BY LoopsAssumption DEF TypeOK, Runners
<1>2. CASE DoSpawn \/ DoJoin
  BY <1>1, <1>2 DEF DoSpawn, DoJoin, Doing
<1>3. CASE DoCall \/ Back
  BY <1>1, <1>3 DEF DoCall, Back
<1>4. CASE Fork
  BY <1>1, <1>4 DEF Fork, None
<1>5. CASE \E r \in Runners : Enter(r) \/ Leave(r) \/ Finish(r) \/ Throw(r) \/ Exit(r)
  BY <1>1, <1>5 DEF Enter, Leave, Finish, Throw, Exit, Over, End, Looping, threads, None
<1>6. CASE \/ DoLog \/ DoStop \/ MisuseThread \/ Return \/ Arm \/ Begin \/ Test \/ Check
           \/ Wait \/ Timeout \/ Destroy \/ Fail \/ Spurious \/ HandleTerm \/ HandlerHangs
           \/ Killed \/ UNCHANGED vars
  BY <1>6 DEF DoLog, DoStop, MisuseThread, Return, Arm, Begin, Test, Check, Wait, Timeout,
     Destroy, Fail, Spurious, HandleTerm, HandlerHangs, Killed, Go, End, threads, vars
<1>7. QED
  BY <1>2, <1>3, <1>4, <1>5, <1>6 DEF Next, Main, Scripted

(* Only a main() that returns is destroyed.                                 *)
LEMMA DestroyedAtTheEnd ==
    ASSUME [Next]_vars, fate' = "clean"
    PROVE  fate = "clean" \/ main = "returning"
<1>1. CASE MisuseThread \/ Destroy \/ Fail \/ Killed
  BY <1>1 DEF MisuseThread, Destroy, Fail, Killed, End, At
<1>2. CASE \E r \in Runners : Enter(r) \/ Leave(r) \/ Finish(r) \/ Throw(r) \/ Exit(r)
  BY <1>2 DEF Enter, Leave, Finish, Throw, Exit, Over, End
<1>3. CASE \/ DoLog \/ DoSpawn \/ DoCall \/ Back \/ DoStop \/ DoJoin \/ Return \/ Fork \/ Arm
           \/ Begin \/ Test \/ Check \/ Wait \/ Timeout \/ Spurious \/ HandleTerm
           \/ HandlerHangs \/ UNCHANGED vars
  BY <1>3 DEF DoLog, DoSpawn, DoCall, Back, DoStop, DoJoin, Done, Return, Fork, Arm, Begin,
     Test, Check, Wait, Timeout, Spurious, HandleTerm, HandlerHangs, Go, vars
<1>4. QED
  BY <1>1, <1>2, <1>3 DEF Next, Main, Scripted

-----------------------------------------------------------------------------
(* What the scripts say.                                                    *)

(* Radio joins client_thread seventh, and makes it nowhere.                 *)
LEMMA RadioScripts ==
    ASSUME program = Radio, program \in Programs
    PROVE  /\ Len(program["on_stop"]) = 8
           /\ program["on_stop"][7] = Join("client_thread")
           /\ "client_thread" \in Threads
           /\ \A s \in Scripts : \A i \in 1..Len(program[s]) :
                 program[s][i].do = "spawn" => program[s][i].thread # "client_thread"
<1>1. /\ program["constructor"] = <<>> /\ program["on_start"] = RadioStart
      /\ program["on_update"] = OnUpdate /\ program["on_stop"] = RadioStop
  BY DEF Radio
<1>2. Len(RadioStop) = 8 /\ RadioStop[7] = Join("client_thread")
  BY DEF RadioStop
<1>3. Join("client_thread") \in Operations
  <2>1. RadioStop \in Seq(Operations)
    BY <1>1, Lengths DEF Scripts
  <2>2. \A i \in 1..Len(RadioStop) : RadioStop[i] \in Operations
    BY <2>1
  <2>3. QED
    BY <1>2, <2>2
<1>4. "client_thread" \in Threads
  BY <1>3, OpParts DEF Join
<1>5. \A i \in 1..Len(RadioStart) :
         RadioStart[i].do = "spawn" => RadioStart[i].thread # "client_thread"
  BY DEF RadioStart, Log, Call, Spawn, None
<1>6. \A i \in 1..Len(RadioStop) : RadioStop[i].do # "spawn"
  BY DEF RadioStop, Log, Stop, Join
<1>7. \A i \in 1..Len(OnUpdate) : OnUpdate[i].do # "spawn"
  BY DEF OnUpdate, Log
<1>8. \A i \in 1..Len(<<>>) : FALSE
  OBVIOUS
<1>9. \A s \in Scripts : program[s] \in {<<>>, RadioStart, OnUpdate, RadioStop}
  BY <1>1 DEF Scripts
<1>10. \A script \in {<<>>, RadioStart, OnUpdate, RadioStop} : \A i \in 1..Len(script) :
          script[i].do = "spawn" => script[i].thread # "client_thread"
  BY <1>5, <1>6, <1>7, <1>8
<1>11. QED
  BY <1>1, <1>2, <1>4, <1>9, <1>10

(* Configuration joins loop_radioSM second, and makes it nowhere.           *)
LEMMA ConfigurationScripts ==
    ASSUME program = Configuration, program \in Programs
    PROVE  /\ Len(program["on_stop"]) = 6
           /\ program["on_stop"][2] = Join("loop_radioSM")
           /\ "loop_radioSM" \in Threads
           /\ \A s \in Scripts : \A i \in 1..Len(program[s]) :
                 program[s][i].do = "spawn" => program[s][i].thread # "loop_radioSM"
<1> DEFINE First == <<Spawn("clientAppThread", "clientApp")>>
<1>1. /\ program["constructor"] = First
      /\ program["on_start"] = ConfigurationStart
      /\ program["on_update"] = OnUpdate /\ program["on_stop"] = ConfigurationStop
  BY DEF Configuration
<1>2. Len(ConfigurationStop) = 6 /\ ConfigurationStop[2] = Join("loop_radioSM")
  BY DEF ConfigurationStop
<1>3. Join("loop_radioSM") \in Operations
  <2>1. ConfigurationStop \in Seq(Operations)
    BY <1>1, Lengths DEF Scripts
  <2>2. QED
    BY <1>2, <2>1
<1>4. "loop_radioSM" \in Threads
  BY <1>3, OpParts DEF Join
<1>5. \A i \in 1..Len(ConfigurationStart) :
         ConfigurationStart[i].do = "spawn" => ConfigurationStart[i].thread # "loop_radioSM"
  BY DEF ConfigurationStart, Log, Call, Spawn
<1>6. \A i \in 1..Len(ConfigurationStop) : ConfigurationStop[i].do # "spawn"
  BY DEF ConfigurationStop, Log, Stop, Join
<1>7. \A i \in 1..Len(OnUpdate) : OnUpdate[i].do # "spawn"
  BY DEF OnUpdate, Log
<1>8. \A i \in 1..Len(First) : First[i].thread # "loop_radioSM"
  BY DEF Spawn
<1> HIDE DEF First
<1>9. QED
  BY <1>1, <1>2, <1>4, <1>5, <1>6, <1>7, <1>8 DEF Scripts

(* Fault makes server_thread first and fifth, and joins nothing before      *)
(* on_stop.                                                                 *)
LEMMA FaultScripts ==
    ASSUME program = Fault, program \in Programs
    PROVE  /\ Len(program["constructor"]) = 0
           /\ Len(program["on_start"]) = 6
           /\ program["on_start"][1] = Spawn("server_thread", "server")
           /\ program["on_start"][5] = Spawn("server_thread", "server")
           /\ "server_thread" \in Threads
           /\ \A i \in 1..6 : program["on_start"][i].do \notin {"join", "joinIf"}
<1>1. program["constructor"] = <<>> /\ program["on_start"] = FaultStart
  BY DEF Fault
<1>2. /\ Len(FaultStart) = 6
      /\ FaultStart[1] = Spawn("server_thread", "server")
      /\ FaultStart[5] = Spawn("server_thread", "server")
  BY DEF FaultStart
<1>3. Spawn("server_thread", "server") \in Operations
  <2>1. FaultStart \in Seq(Operations)
    BY <1>1, Lengths DEF Scripts
  <2>2. \A i \in 1..Len(FaultStart) : FaultStart[i] \in Operations
    BY <2>1
  <2>3. QED
    BY <1>2, <2>2
<1>4. "server_thread" \in Threads
  BY <1>3, OpParts DEF Spawn
<1>5. \A i \in 1..6 : FaultStart[i].do \notin {"join", "joinIf"}
  BY DEF FaultStart, Log, Spawn, Call
<1>6. QED
  BY <1>1, <1>2, <1>4, <1>5

-----------------------------------------------------------------------------
(* Each daemon stays.                                                       *)

(* A daemon stays in on_stop if there it joins a thread it never makes.     *)
LEMMA JoinKeepsIt ==
    ASSUME TypeOK, [Next]_vars, NEW t \in Threads, NEW k \in Nat,
           k \in 1..Len(program["on_stop"]), program["on_stop"][k] = Join(t),
           \A s \in Scripts : \A i \in 1..Len(program[s]) :
               program[s][i].do = "spawn" => program[s][i].thread # t,
           state[t] = None, main = "on_stop" => step <= k, main # "returning"
    PROVE  /\ state'[t] = None
           /\ main' = "on_stop" => step' <= k
           /\ main' # "returning"
<1>1. ASSUME InScript
      PROVE  step \in 1..Len(program[main]) /\ main \in Scripts /\ Op = program[main][step]
  BY <1>1, OpType DEF InScript, TypeOK, Op
<1>2. state'[t] = None
  BY <1>1, ThreadMoves
<1>3. step \in Nat /\ Len(program["on_stop"]) \in Nat
  BY Lengths DEF TypeOK, Scripts
<1>4. CASE UNCHANGED <<main, step>> \/ main' = "hung"
  BY <1>2, <1>4
<1>5. CASE InScript /\ main' = main /\ step' = step + 1 /\ (Op.do = "join" => state[Op.thread] # None)
  <2>1. main = "on_stop" => step # k
    BY <1>5 DEF Op, Join
  <2>2. QED
    BY <1>2, <1>3, <1>5, <2>1
<1>6. CASE main \in Scripts /\ step = Len(program[main]) + 1 /\ main' = AfterScript[main] /\ step' = 1
  <2>1. main # "on_stop"
    BY <1>3, <1>6
  <2>2. main' \notin {"on_stop", "returning"}
    BY <1>6, <2>1 DEF AfterScript, Scripts
  <2>3. QED
    BY <1>2, <2>2
<1>7. CASE main \notin Scripts \cup {"hung"} /\ step' = step /\ main' # "returning"
  <2>1. step = 1
    BY <1>7 DEF TypeOK
  <2>2. QED
    BY <1>2, <1>3, <1>7, <2>1
<1>8. QED
  BY <1>2, <1>4, <1>5, <1>6, <1>7, MainMoves

(* Fault stays in on_start, where it makes a thread it has made already.    *)
LEMMA SpawnKeepsIt ==
    ASSUME TypeOK, [Next]_vars, program = Fault, FaultStays
    PROVE  FaultStays'
<1>1. /\ Len(program["constructor"]) = 0 /\ Len(program["on_start"]) = 6
      /\ program["on_start"][1] = Spawn("server_thread", "server")
      /\ program["on_start"][5] = Spawn("server_thread", "server")
      /\ "server_thread" \in Threads
      /\ \A i \in 1..6 : program["on_start"][i].do \notin {"join", "joinIf"}
  BY FaultScripts DEF TypeOK
<1>2. step \in Nat /\ state \in [Runners -> {None, "begun", "looping", "over", "lost"}]
      /\ "server_thread" \in Runners
  BY <1>1 DEF TypeOK, Runners
<1>3. ASSUME InScript
      PROVE  main = "on_start" /\ step \in 1..6 /\ Op = program["on_start"][step]
  BY <1>1, <1>3, OpType DEF InScript, TypeOK, Op, FaultStays, Scripts
<1>4. state["server_thread"] # None => state'["server_thread"] # None
  BY <1>1, <1>3, ThreadMoves
<1>5. CASE UNCHANGED <<main, step>> \/ main' = "hung"
  BY <1>4, <1>5 DEF FaultStays
<1>6. CASE /\ InScript /\ main' = main /\ step' = step + 1
           /\ Op.do = "spawn" => state[Op.thread] = None
                                 /\ state' = [state EXCEPT ![Op.thread] = "begun"]
  <2>1. CASE step = 1
    <3>1. state'["server_thread"] = "begun"
      BY <1>1, <1>2, <1>3, <1>6, <2>1 DEF Spawn
    <3>2. QED
      BY <1>3, <1>6, <2>1, <3>1 DEF FaultStays, None
  <2>2. CASE step # 1
    <3>1. state["server_thread"] # None /\ step <= 5
      BY <1>2, <1>3, <1>6, <2>2 DEF FaultStays
    <3>2. step # 5
      BY <1>1, <1>3, <1>6, <3>1 DEF Spawn
    <3>3. QED
      BY <1>2, <1>3, <1>4, <1>6, <3>1, <3>2 DEF FaultStays
  <2>3. QED
    BY <2>1, <2>2
<1>7. CASE /\ main \in Scripts /\ step = Len(program[main]) + 1
           /\ main' = AfterScript[main] /\ step' = 1
  <2>1. main = "constructor"
    BY <1>1, <1>7 DEF FaultStays, Scripts
  <2>2. QED
    BY <1>7, <2>1 DEF FaultStays, AfterScript
<1>8. CASE /\ main \notin Scripts \cup {"hung"} /\ step' = step
           /\ main \in {"constructed", "arming", "armed"} =>
                 main' \in {"arming", "armed", "on_start"}
  BY <1>8 DEF FaultStays, TypeOK, Scripts
<1>9. QED
  BY <1>5, <1>6, <1>7, <1>8, MainMoves

(* StaysInv is inductive.                                                   *)
LEMMA NextStays ==
    ASSUME Programs \subseteq MCPrograms, StaysInv, [Next]_vars
    PROVE  StaysInv'
<1>1. TypeOK /\ TypeOK' /\ program' = program
  BY TypeStep, MainMoves DEF StaysInv
<1>2. ASSUME program = Radio
      PROVE  RadioStays'
  <2>1. /\ Len(program["on_stop"]) = 8
        /\ program["on_stop"][7] = Join("client_thread")
        /\ "client_thread" \in Threads
        /\ \A s \in Scripts : \A i \in 1..Len(program[s]) :
              program[s][i].do = "spawn" => program[s][i].thread # "client_thread"
    BY <1>1, <1>2, RadioScripts DEF TypeOK
  <2>2. RadioStays
    BY <1>2 DEF StaysInv
  <2>3. QED
    BY <1>1, <2>1, <2>2, JoinKeepsIt DEF RadioStays, None
<1>3. ASSUME program = Configuration
      PROVE  ConfigurationStays'
  <2>1. /\ Len(program["on_stop"]) = 6
        /\ program["on_stop"][2] = Join("loop_radioSM")
        /\ "loop_radioSM" \in Threads
        /\ \A s \in Scripts : \A i \in 1..Len(program[s]) :
              program[s][i].do = "spawn" => program[s][i].thread # "loop_radioSM"
    BY <1>1, <1>3, ConfigurationScripts DEF TypeOK
  <2>2. ConfigurationStays
    BY <1>3 DEF StaysInv
  <2>3. QED
    BY <1>1, <2>1, <2>2, JoinKeepsIt DEF ConfigurationStays, None
<1>4. ASSUME program = Fault
      PROVE  FaultStays'
  BY <1>1, <1>4, SpawnKeepsIt DEF StaysInv
<1>5. NeverDestroyed'
  <2>1. SUFFICES ASSUME fate' = "clean", fate # "clean"
                 PROVE  program = Plain
    BY <1>1 DEF StaysInv, NeverDestroyed
  <2>2. main = "returning"
    BY <2>1, DestroyedAtTheEnd
  <2>3. program \in MCPrograms /\ program # Radio /\ program # Configuration /\ program # Fault
    BY <1>1, <2>2 DEF StaysInv, RadioStays, ConfigurationStays, FaultStays, TypeOK
  <2>4. QED
    BY <2>3 DEF MCPrograms
<1>6. (program = Radio)' <=> program = Radio
  BY <1>1 DEF Radio, RadioStart, RadioStop, OnUpdate, Log, Call, Spawn, Stop, Join, None
<1>7. (program = Configuration)' <=> program = Configuration
  BY <1>1 DEF Configuration, ConfigurationStart, ConfigurationStop, OnUpdate, Log, Call, Spawn,
     Stop, Join, None
<1>8. (program = Fault)' <=> program = Fault
  BY <1>1 DEF Fault, FaultStart, FaultStop, OnUpdate, Log, Call, Spawn, Stop, Join, JoinIf, None
<1>9. QED
  BY <1>1, <1>2, <1>3, <1>4, <1>5, <1>6, <1>7, <1>8 DEF StaysInv

(* None of the three main() returns, however the loops of the daemons end,  *)
(* and whenever they are stopped, so the destructors that would unlink      *)
(* objects and pipes do not run.                                            *)
THEOREM NoneDestroyed ==
    ASSUME Programs \subseteq MCPrograms
    PROVE  Spec => []NeverDestroyed
<1>1. ASSUME Init
      PROVE  StaysInv
  <2>1. TypeOK
    BY <1>1, InitType
  <2>2. /\ program \in Programs /\ main = "constructor" /\ fate = None
        /\ \A t \in Threads : state[t] = None
    BY <1>1 DEF Init, Runners
  <2>3. program = Radio => RadioStays
    BY <2>2, RadioScripts DEF RadioStays
  <2>4. program = Configuration => ConfigurationStays
    BY <2>2, ConfigurationScripts DEF ConfigurationStays
  <2>5. program = Fault => FaultStays
    BY <2>2 DEF FaultStays
  <2>6. NeverDestroyed
    BY <2>2 DEF NeverDestroyed, None
  <2>7. QED
    BY <2>1, <2>3, <2>4, <2>5, <2>6 DEF StaysInv
<1>2. StaysInv /\ [Next]_vars => StaysInv'
  BY NextStays
<1>3. StaysInv => NeverDestroyed
  BY DEF StaysInv
<1>4. QED
  BY <1>1, <1>2, <1>3, PTL DEF Spec
===============================================================================
