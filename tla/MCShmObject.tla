----------------------------- MODULE MCShmObject -----------------------------
(* Instances of ShmObject for TLC: the three daemons and the two objects,   *)
(* in the order radio.cpp constructs its servers.                           *)
EXTENDS ShmObject

MCOpens == [radio |-> <<"RC", "RF">>, configuration |-> <<"RC">>, fault |-> <<"RF">>]
==============================================================================
