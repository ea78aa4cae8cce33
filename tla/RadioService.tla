----------------------------- MODULE RadioService -----------------------------
(***************************************************************************)
(* What the shared memory session promises its user while both sides are   *)
(* punctual: the radio is an object with atomic operations.  A command     *)
(* takes effect once, between its call and its return, and what the user   *)
(* is told is the outcome of that one effect.                              *)
(*                                                                         *)
(* The faults are a bag here (how many of each code); ShmSession keeps     *)
(* them in the order they came.                                            *)
(***************************************************************************)
EXTENDS Integers

CONSTANTS Commands, Numbers, MinFrequency

VARIABLES
    frequency, power,
    faults,     \* how many faults there are of each number
    call,       \* the command being served, [cmd, num], or NoCall
    outcome,    \* what it came to, Pending until it takes effect
    told        \* what the last call told the user, Pending during a call

vars == <<frequency, power, faults, call, outcome, told>>

NoCall == [cmd |-> "none", num |-> 0]
Pending == [text |-> "none", num |-> 0]
Says(text) == [text |-> text, num |-> 0]
Value(n) == [text |-> "num", num |-> n]

Init ==
    /\ frequency = MinFrequency
    /\ power = 0
    /\ faults = [n \in Numbers |-> 0]
    /\ call = NoCall
    /\ outcome = Pending
    /\ told = Pending

Call ==
    /\ call = NoCall
    /\ call' \in [cmd : Commands, num : Numbers \cup {0}]
    /\ told' = Pending
    /\ UNCHANGED <<frequency, power, faults, outcome>>

Called(cmd) == call.cmd = cmd /\ outcome = Pending

Ask ==
    /\ \/ \E cmd \in {"ping", "status"} : Called(cmd) /\ outcome' = Says(cmd)
       \/ Called("listflt") /\ outcome' = Says("list")
       \/ Called("getfreq") /\ outcome' = Value(frequency)
       \/ Called("getpwr") /\ outcome' = Value(power)
    /\ UNCHANGED <<frequency, power, faults, call, told>>

SetFrequency ==
    /\ Called("setfreq")
    /\ \/ call.num >= MinFrequency /\ frequency' = call.num /\ outcome' = Says("ok")
       \/ call.num < MinFrequency /\ frequency' = frequency /\ outcome' = Says("not ok")
    /\ UNCHANGED <<power, faults, call, told>>

SetPower ==
    /\ Called("setpwr")
    /\ \/ call.num >= 0 /\ power' = call.num /\ outcome' = Says("ok")
       \/ call.num < 0 /\ power' = power /\ outcome' = Says("not ok")
    /\ UNCHANGED <<frequency, faults, call, told>>

SetFault ==
    /\ Called("setflt")
    /\ faults' = [faults EXCEPT ![call.num] = @ + 1]
    /\ outcome' = Says("ok")
    /\ UNCHANGED <<frequency, power, call, told>>

ClearFault ==
    /\ Called("clrflt")
    /\ \/ /\ faults[call.num] > 0
          /\ faults' = [faults EXCEPT ![call.num] = @ - 1]
          /\ outcome' = Says("ok")
       \/ faults[call.num] = 0 /\ faults' = faults /\ outcome' = Says("not found")
    /\ UNCHANGED <<frequency, power, call, told>>

Return ==
    /\ call # NoCall
    /\ outcome # Pending
    /\ told' = outcome
    /\ call' = NoCall
    /\ outcome' = Pending
    /\ UNCHANGED <<frequency, power, faults>>

Next == Call \/ Ask \/ SetFrequency \/ SetPower \/ SetFault \/ ClearFault \/ Return

Spec == Init /\ [][Next]_vars
=============================================================================
