----------------------------- MODULE SocketDevice -----------------------------
(***************************************************************************)
(* What the sockets promise the users of several clients: the server is a  *)
(* device with atomic operations.  A call takes effect once, between its   *)
(* request and its return, and its user is shown what came of that effect; *)
(* a call that fails had none, and after the first that fails none takes   *)
(* effect any more.                                                        *)
(*                                                                         *)
(* The promise is void once a second thread runs the server's loop, two    *)
(* users share a Transport, or a process is killed.                        *)
(***************************************************************************)
EXTENDS Vectors

CONSTANTS Users, Calls, Frequency0, Power0

VARIABLES
    frequency, power, emergencies,
    call,       \* what each user has called, a set of none or one
    effect,     \* what it came to, likewise
    told,       \* what each user was shown last, likewise
    over,       \* the device is gone
    disturbed

vars == <<frequency, power, emergencies, call, effect, told, over, disturbed>>

Init ==
    /\ frequency = Frequency0 /\ power = Power0 /\ emergencies = <<>>
    /\ call = [u \in Users |-> {}]
    /\ effect = [u \in Users |-> {}]
    /\ told = [u \in Users |-> {}]
    /\ over = FALSE /\ disturbed = FALSE

Call(u) ==
    /\ call[u] = {}
    /\ \E m \in Calls : call' = [call EXCEPT ![u] = {m}]
    /\ UNCHANGED <<frequency, power, emergencies, effect, told, over, disturbed>>

Sets(m, command) == m.command = command /\ m.data # <<>>

Result(m) ==
    CASE m.command = "STATUS" -> <<"GOOD">>
      [] m.command = "GET_FREQUENCY" -> <<frequency>>
      [] m.command = "GET_POWER" -> <<power>>
      [] m.command = "GET_EMERGENCIES" -> emergencies
      [] m.command = "OTHER" -> <<"ERROR">>
      [] OTHER -> <<"OK">>

Perform(u) ==
    \E m \in call[u] :
        /\ ~over /\ effect[u] = {} /\ m.command # "EXIT"
        /\ effect' = [effect EXCEPT ![u] = {Result(m)}]
        /\ frequency' = IF Sets(m, "SET_FREQUENCY") THEN m.data[1] ELSE frequency
        /\ power' = IF Sets(m, "SET_POWER") THEN m.data[1] ELSE power
        /\ emergencies' = IF Sets(m, "RAISE_EMERGENCY") THEN Append(emergencies, m.data[1])
                          ELSE IF Sets(m, "CLEAR_EMERGENCY")
                          THEN Without(emergencies, m.data[1])
                          ELSE emergencies
        /\ UNCHANGED <<call, told, over, disturbed>>

Show(u, m, data) == told' = [told EXCEPT ![u] = {[menu |-> m.menu, data |-> data]}]

Over(u) ==
    /\ call' = [call EXCEPT ![u] = {}]
    /\ effect' = [effect EXCEPT ![u] = {}]
    /\ UNCHANGED <<frequency, power, emergencies, over, disturbed>>

Return(u) == \E m \in call[u], r \in effect[u] : Show(u, m, r) /\ Over(u)

\* An answer that never came is shown as an empty one, or not at all.
Fail(u) ==
    /\ over /\ effect[u] = {}
    /\ \E m \in call[u] : Show(u, m, <<>>) \/ told' = told
    /\ Over(u)

Stop ==
    /\ over' = TRUE
    /\ UNCHANGED <<frequency, power, emergencies, call, effect, told, disturbed>>

\* From here on nothing is promised.
Disturb == disturbed'

Next == Disturb \/ Stop \/ \E u \in Users : Call(u) \/ Perform(u) \/ Return(u) \/ Fail(u)

Spec == Init /\ [][Next]_vars
===============================================================================
