-------------------------------- MODULE Daemon --------------------------------
(***************************************************************************)
(* The life of a process that derives from daemonpp::daemon: its           *)
(* constructor, run() with daemonize() and the update loop, the signal     *)
(* handler, and the threads its callbacks make, stop and join.             *)
(*                                                                         *)
(* A callback is a script, a sequence of the operations below.  A loop is  *)
(* a function a thread runs until it is told to stop: it raises its flag   *)
(* `working' when it is entered, and most loops look at it now and then.   *)
(* The handler runs on the main thread, between two steps of it.           *)
(***************************************************************************)
EXTENDS Naturals, Sequences

CONSTANTS
    Programs,   \* the daemons: records with the scripts of the four callbacks
    Threads,    \* the std::thread members
    Loops,      \* the functions that threads run
    Flagged,    \* the loops that look at `working'
    Prompt,     \* those that look again within a bounded time
    Returning,  \* the loops that may come to an end of themselves
    Throwing,   \* those an exception may leave
    Exiting,    \* those that may call exit()
    Logged      \* those that write to the log on the way

ASSUME LoopsAssumption ==
    /\ Prompt \subseteq Flagged
    /\ Flagged \cup Returning \cup Throwing \cup Exiting \cup Logged \subseteq Loops
    /\ "main" \notin Threads

VARIABLES
    program,        \* which daemon this is
    main,           \* where the main thread is
    step,           \* the next operation of the script it is in
    state, loop,    \* of every thread and of "main": how far it is in which loop
    working,        \* the flag of each loop
    m_is_running,
    asked,          \* history: whether a stop was asked for, and then overwritten
    stopped,        \* history: the loops that were told to stop
    overwritten,    \* history: those that raised their flag again after that
    late,           \* history: updates and full waits since the stop (2 for more)
    fate            \* how the process ended

threads == <<state, loop>>
history == <<asked, stopped, overwritten, late>>
vars == <<program, main, step, threads, working, m_is_running, history, fate>>

None == "none"
Runners == Threads \cup {"main"}

Log == [do |-> "log", thread |-> None, loop |-> None]
Spawn(t, l) == [do |-> "spawn", thread |-> t, loop |-> l]
Call(l) == [do |-> "call", thread |-> "main", loop |-> l]
Stop(l) == [do |-> "stop", thread |-> None, loop |-> l]
Join(t) == [do |-> "join", thread |-> t, loop |-> None]
JoinIf(t) == [do |-> "joinIf", thread |-> t, loop |-> None]    \* if (t.joinable())

Operations == {Log} \cup {Spawn(t, l) : t \in Threads, l \in Loops}
                \cup {Call(l) : l \in Loops} \cup {Stop(l) : l \in Flagged}
                \cup {Join(t) : t \in Threads} \cup {JoinIf(t) : t \in Threads}

\* A place named as a script is the place of who is inside it.
AfterScript == [constructor |-> "constructed", on_start |-> "test",
                on_update |-> "check", on_stop |-> "returning"]
Scripts == {"constructor", "on_start", "on_update", "on_stop"}
Updating == {"test", "on_update", "check", "committed", "waiting"}
ASSUME ProgramsAssumption == \A p \in Programs : p \in [Scripts -> Seq(Operations)]

Places == Scripts \cup Updating
            \cup {"constructed", "arming", "armed", "returning", "hung"}

Calls(script, i) == i <= Len(program[script]) /\ program[script][i].do = "call"

(* Type correctness; and the main thread is in a loop only while a callback  *)
(* calls one.                                                                *)
TypeOK ==
    /\ program \in Programs
    /\ main \in Places
    /\ step \in Nat \ {0}
    /\ main \in Scripts => step <= Len(program[main]) + 1
    /\ main \notin Scripts => main = "hung" \/ step = 1
    /\ state["main"] # None => main = "hung" \/ (main \in Scripts /\ Calls(main, step))
    /\ state \in [Runners -> {None, "begun", "looping", "over", "lost"}]
    /\ loop \in [Runners -> Loops \cup {None}]
    /\ working \in [Loops -> BOOLEAN]
    /\ m_is_running \in BOOLEAN
    /\ asked \in {"no", "yes", "forgotten"}
    /\ stopped \subseteq Flagged /\ overwritten \subseteq stopped
    /\ late \in 0..2
    /\ fate \in {None, "killed", "failure", "terminate", "exit", "clean"}

Init ==
    /\ program \in Programs
    /\ main = "constructor" /\ step = 1
    /\ state = [r \in Runners |-> None]
    /\ loop = [r \in Runners |-> None]
    /\ working = [l \in Loops |-> TRUE]
    /\ m_is_running = FALSE
    /\ asked = "no" /\ stopped = {} /\ overwritten = {} /\ late = 0
    /\ fate = None

Alive == fate = None
At(place) == Alive /\ main = place

End(how) ==
    /\ fate' = how
    /\ UNCHANGED <<program, main, step, threads, working, m_is_running, history>>

-----------------------------------------------------------------------------
(* The scripts.                                                             *)

InScript == Alive /\ main \in Scripts /\ step <= Len(program[main])
Op == program[main][step]
Doing(kinds) == InScript /\ Op.do \in kinds
Done == step' = step + 1 /\ UNCHANGED <<program, main, m_is_running, asked, late, fate>>

DoLog ==
    /\ Doing({"log"})
    /\ Done
    /\ UNCHANGED <<threads, working, stopped, overwritten>>

DoSpawn ==
    /\ Doing({"spawn"})
    /\ state[Op.thread] = None
    /\ state' = [state EXCEPT ![Op.thread] = "begun"]
    /\ loop' = [loop EXCEPT ![Op.thread] = Op.loop]
    /\ Done
    /\ UNCHANGED <<working, stopped, overwritten>>

\* Mutant: the callback gives the loop a thread of its own.
DoCallElsewhere ==
    /\ Doing({"call"})
    /\ state["main"] = None
    /\ state' = [state EXCEPT !["main"] = "begun"]
    /\ loop' = [loop EXCEPT !["main"] = Op.loop]
    /\ Done
    /\ UNCHANGED <<working, stopped, overwritten>>

\* The main thread runs a loop itself, and is back when that is over.
DoCall ==
    /\ Doing({"call"})
    /\ state["main"] = None
    /\ state' = [state EXCEPT !["main"] = "begun"]
    /\ loop' = [loop EXCEPT !["main"] = Op.loop]
    /\ UNCHANGED <<program, main, step, working, m_is_running, history, fate>>

Back ==
    /\ Doing({"call"})
    /\ state["main"] = "over"
    /\ state' = [state EXCEPT !["main"] = None]
    /\ Done
    /\ UNCHANGED <<loop, working, stopped, overwritten>>

DoStop ==
    /\ Doing({"stop"})
    /\ working' = [working EXCEPT ![Op.loop] = FALSE]
    /\ stopped' = stopped \cup {Op.loop}
    /\ Done
    /\ UNCHANGED <<threads, overwritten>>

\* A thread made before the fork is not in the child: there its std::thread
\* is joinable, and the join finds it gone.
DoJoin ==
    /\ Doing({"join", "joinIf"})
    /\ state[Op.thread] \in {"over", "lost"} \cup (IF Op.do = "joinIf" THEN {None} ELSE {})
    /\ state' = [state EXCEPT ![Op.thread] = None]
    /\ Done
    /\ UNCHANGED <<loop, working, stopped, overwritten>>

\* A joinable std::thread is assigned to, or one that is not is joined (which
\* throws, and nobody catches it).
MisuseThread ==
    /\ Doing({"spawn", "join"})
    /\ (Op.do = "join") <=> (state[Op.thread] = None)
    /\ End("terminate")

\* Mutant: run() sets the flag after on_start, not before.
ReturnAndRun ==
    /\ Alive /\ main \in Scripts /\ step = Len(program[main]) + 1
    /\ main' = AfterScript[main]
    /\ step' = 1
    /\ m_is_running' = (main = "on_start" \/ m_is_running)
    /\ UNCHANGED <<program, threads, working, history, fate>>

Return ==
    /\ Alive /\ main \in Scripts /\ step = Len(program[main]) + 1
    /\ main' = AfterScript[main]
    /\ step' = 1
    /\ late' = IF main = "on_update" /\ asked = "yes" /\ late < 2 THEN late + 1 ELSE late
    /\ UNCHANGED <<program, threads, working, m_is_running, asked, stopped, overwritten, fate>>

-----------------------------------------------------------------------------
(* daemonize() and run().                                                   *)

Go(from, to) ==
    /\ At(from)
    /\ main' = to
    /\ UNCHANGED <<program, step, threads, working, fate>>

\* fork() takes the main thread along and no other.
Fork ==
    /\ At("constructed")
    /\ main' = "arming"
    /\ state' = [r \in Runners |-> IF state[r] = None THEN None ELSE "lost"]
    /\ UNCHANGED <<program, step, loop, working, m_is_running, history, fate>>

Arm == Go("arming", "armed") /\ UNCHANGED <<m_is_running, history>>

\* fork(), setsid() or chdir() fails.
Fail ==
    /\ Alive /\ main \in {"constructed", "arming", "armed"}
    /\ End("failure")

\* m_is_running = true, whatever a handler has done to it.
Begin ==
    /\ Go("armed", "on_start")
    /\ m_is_running' = TRUE
    /\ asked' = IF asked = "yes" THEN "forgotten" ELSE asked
    /\ UNCHANGED <<stopped, overwritten, late>>

Test == Go("test", IF m_is_running THEN "on_update" ELSE "on_stop")
            /\ UNCHANGED <<m_is_running, history>>

\* Mutant: wait_for is given no predicate.
CheckNothing == Go("check", "committed") /\ UNCHANGED <<m_is_running, history>>

\* wait_for looks at the predicate before it waits.
Check == Go("check", IF m_is_running THEN "committed" ELSE "test")
            /\ UNCHANGED <<m_is_running, history>>

Wait == Go("committed", "waiting") /\ UNCHANGED <<m_is_running, history>>

Timeout ==
    /\ Go("waiting", "test")
    /\ late' = IF asked = "yes" /\ late < 2 THEN late + 1 ELSE late
    /\ UNCHANGED <<m_is_running, asked, stopped, overwritten>>

Spurious == Go("waiting", "check") /\ UNCHANGED <<m_is_running, history>>

\* main() returns: the members are destroyed, std::thread among them, and then
\* the daemon itself, which exits.
Destroy ==
    /\ At("returning")
    /\ End(IF \A t \in Threads : state[t] = None THEN "clean" ELSE "terminate")

-----------------------------------------------------------------------------
(* Signals.                                                                 *)

Armed == Alive /\ main \notin {"constructor", "constructed", "arming", "hung"}

\* SIGTERM: stop().  The notification reaches who waits already.
HandleTerm ==
    /\ Armed
    /\ m_is_running' = FALSE
    /\ asked' = "yes"
    /\ main' = IF main = "waiting" THEN "check" ELSE main
    /\ UNCHANGED <<program, step, threads, working, stopped, overwritten, late, fate>>

Logging == Doing({"log"}) \/ (state["main"] = "looping" /\ loop["main"] \in Logged)

\* The handler of either signal writes to the log first: if the main thread
\* was inside syslog(), it waits for the lock it holds itself.  But for this
\* a SIGHUP has no effect: every on_reload() only logs.
HandlerHangs ==
    /\ Armed /\ Logging
    /\ main' = "hung"
    /\ UNCHANGED <<program, step, threads, working, m_is_running, history, fate>>

\* A signal before there are handlers, or SIGKILL, which has none.
Killed == Alive /\ End("killed")

-----------------------------------------------------------------------------
(* The loops.                                                               *)

Runs(r) == Alive /\ (r # "main" \/ main # "hung")
Looping(r) == Runs(r) /\ state[r] = "looping"

Enter(r) ==
    /\ Runs(r) /\ state[r] = "begun"
    /\ state' = [state EXCEPT ![r] = "looping"]
    /\ working' = [working EXCEPT ![loop[r]] = TRUE]
    /\ overwritten' = overwritten \cup ({loop[r]} \cap stopped)
    /\ UNCHANGED <<program, main, step, loop, m_is_running, asked, stopped, late, fate>>

Over(r) ==
    /\ state' = [state EXCEPT ![r] = "over"]
    /\ UNCHANGED <<program, main, step, loop, working, m_is_running, history, fate>>

Leave(r) == Looping(r) /\ loop[r] \in Flagged /\ ~working[loop[r]] /\ Over(r)
Finish(r) == Looping(r) /\ loop[r] \in Returning /\ Over(r)
Throw(r) == Looping(r) /\ loop[r] \in Throwing /\ End("terminate")
Exit(r) == Looping(r) /\ loop[r] \in Exiting /\ End("exit")

-----------------------------------------------------------------------------
Scripted == DoLog \/ DoSpawn \/ DoCall \/ Back \/ DoStop \/ DoJoin \/ MisuseThread \/ Return
Main == Scripted \/ Fork \/ Arm \/ Begin \/ Test \/ Check \/ Wait \/ Timeout \/ Destroy

Next ==
    \/ Main \/ Fail \/ Spurious
    \/ HandleTerm \/ HandlerHangs \/ Killed
    \/ \E r \in Runners : Enter(r) \/ Leave(r) \/ Finish(r) \/ Throw(r) \/ Exit(r)

Spec == Init /\ [][Next]_vars

\* The main thread goes on unless it waits for a loop; a thread that was made
\* enters its loop; a prompt loop sees its flag.  No loop must end of itself.
FairSpec ==
    /\ Spec
    /\ WF_vars(Main)
    /\ \A r \in Runners : WF_vars(Enter(r)) /\ WF_vars(loop[r] \in Prompt /\ Leave(r))

-----------------------------------------------------------------------------
(* Safety.                                                                  *)

(* After stop() the update loop does at most one thing more: it finishes an  *)
(* on_update() or waits one full duration, if the notification came between  *)
(* the test of the predicate and the wait.  Never both, and never twice.     *)
OneMoreAtMost == late <= 1

-----------------------------------------------------------------------------
(* Liveness, under FairSpec.                                                *)

(* A stop() that finds the update loop running ends it, however the handler  *)
(* falls between test, update, predicate and wait; unless a signal finds the *)
(* main thread logging.  Only a stop before run() sets the flag is forgotten.*)
StopIsHeard ==
    (asked = "yes" /\ main \in Updating)
        ~> (main \notin Updating \/ ~Alive)

(* on_stop() does not wait for ever for a loop that looks at its flag: it    *)
(* told it to stop before.  Only a thread that enters its loop after that    *)
(* goes on for ever.                                                         *)
JoinsReturn ==
    \A t \in Threads :
        (Doing({"join"}) /\ Op.thread = t /\ loop[t] \in Prompt /\ loop[t] \notin overwritten)
            ~> (~Doing({"join"}) \/ Op.thread # t \/ loop[t] \in overwritten)
===============================================================================
