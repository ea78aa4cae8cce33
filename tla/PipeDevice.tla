------------------------------ MODULE PipeDevice ------------------------------
(***************************************************************************)
(* What the pipes promise a user whose client is alone with a server: the  *)
(* server is a device with atomic operations.  A command takes effect once *)
(* between its call and its return, and what the client makes of it is the *)
(* outcome of that effect.                                                 *)
(*                                                                         *)
(* Keep Alive is promised as ClientApp has it: the connection is there, so *)
(* the call is done.                                                       *)
(*                                                                         *)
(* The promise is void once the two are disturbed: by a second client, a   *)
(* death, a pipe that is unlinked.                                         *)
(***************************************************************************)
EXTENDS Naturals

CONSTANTS
    Commands, Bytes,
    Failing     \* exceptions: what may fail, though the promise is that it is done

VARIABLES
    frequency, power, alarms,
    call,       \* the command under way and its byte, or NoCall
    effect,     \* what it came to, NoEffect until then
    told,       \* what the last call came to
    disturbed

vars == <<frequency, power, alarms, call, effect, told, disturbed>>

NoCall == [type |-> "none", byte |-> 0]
NoEffect == <<"none">>
Done == <<"done">>

Init ==
    /\ frequency = 0 /\ power = 0 /\ alarms = {}
    /\ call = NoCall
    /\ effect = NoEffect
    /\ told = NoEffect
    /\ disturbed = FALSE

Call ==
    /\ call = NoCall
    /\ call' \in [type : Commands, byte : Bytes \cup {0}]
    /\ UNCHANGED <<frequency, power, alarms, effect, told, disturbed>>

Promised ==
    CASE call.type = "GET_FREQUENCY" -> <<"value", frequency>>
      [] call.type = "GET_POWER" -> <<"value", power>>
      [] call.type = "GET_ALARMS" -> <<"alarms", alarms>>
      [] OTHER -> Done

Perform ==
    /\ call # NoCall /\ effect = NoEffect
    /\ frequency' = IF call.type = "SET_FREQUENCY" THEN call.byte ELSE frequency
    /\ power' = IF call.type = "SET_POWER" THEN call.byte ELSE power
    /\ alarms' = CASE call.type = "RAISE_ALARM" -> alarms \cup {call.byte}
                   [] call.type = "CLEAR_ALARM" -> alarms \ {call.byte}
                   [] OTHER -> alarms
    /\ \/ effect' = Promised
       \/ call.type \in Failing /\ effect' = <<"failed">>
    /\ UNCHANGED <<call, told, disturbed>>

Return ==
    /\ effect # NoEffect
    /\ told' = effect
    /\ call' = NoCall
    /\ effect' = NoEffect
    /\ UNCHANGED <<frequency, power, alarms, disturbed>>

\* From here on nothing is promised.
Disturb == disturbed'

Next == Disturb \/ Call \/ Perform \/ Return

Spec == Init /\ [][Next]_vars
===============================================================================
