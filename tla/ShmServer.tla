------------------------------ MODULE ShmServer ------------------------------
(***************************************************************************)
(* SharedMemoryServer, as the radio daemon runs it (SharedMemoryServer_A): *)
(* the thread that serves one client, with a handler per tag; the radio's  *)
(* main thread, which may call Stop() at any moment; and the death and the *)
(* restart of the process.                                                 *)
(*                                                                         *)
(* Each call of GetNumber() is a read of the shared buffer of its own, as  *)
(* in the code: it is compiled apart from the handlers.                    *)
(***************************************************************************)
EXTENDS ShmMemory, SequencesExt

CONSTANTS
    MinFrequency,   \* SharedMemoryServer::minFrequency
    CanStop,        \* may the radio's main thread call Stop()?
    MaxCrashes      \* deaths of either process (bound)

ASSUME MinFrequencyAssumption == MinFrequency \in Nat
ASSUME CanStopAssumption == CanStop \in BOOLEAN
ASSUME MaxCrashesAssumption == MaxCrashes \in Nat

VARIABLES
    frequency,  \* SharedMemoryServer::frequency
    power,      \* SharedMemoryServer::power
    faults,     \* the codes of SharedMemoryServer::faults
    working,    \* SharedMemoryServer::working
    req,        \* the tag the running handler was looked up by
    stop,       \* how far the main thread is in Stop(): "none", "half", "done"
    performed,  \* history: how often each request was performed, up to 2
    crashes     \* history: deaths so far

radio == <<frequency, power, faults>>
serverVars == <<frequency, power, faults, working, req, stop, performed, crashes>>

ServerPc == {"off", "starting", "grant", "loop", "look", "dispatch", "handle", "recheck",
             "assign", "listen", "stopped", "fill", "give", "sent", "final", "recv", "ack", "check"}

FreshRadio ==
    /\ frequency' = MinFrequency
    /\ power' = 0
    /\ faults' = <<>>

ServerInit ==
    /\ frequency = MinFrequency
    /\ power = 0
    /\ faults = <<>>
    /\ working = TRUE
    /\ req = NoTag
    /\ stop = "none"
    /\ performed = [i \in 1..MaxRequests |-> 0]
    /\ crashes = 0

-----------------------------------------------------------------------------
(* WorkLoop.                                                                *)

\* The process starts and the serving thread with it.
Start ==
    /\ pc.server = "off"
    /\ Goto("server", "starting")
    /\ UNCHANGED <<shared, msg, str, serverVars>>

\* Overwrites a Stop() that came first.
Enter ==
    /\ pc.server = "starting"
    /\ working' = TRUE
    /\ Goto("server", "grant")
    /\ UNCHANGED <<shared, msg, str, radio, req, stop, performed, crashes>>

\* Passes control to the client, whatever the memory holds.
Grant ==
    /\ pc.server = "grant"
    /\ owner' = "client"
    /\ Goto("server", "loop")
    /\ UNCHANGED <<tag, left, data, msg, str, serverVars>>

\* Mutant: the loop runs on after Stop().
LoopForever ==
    /\ pc.server = "loop"
    /\ Goto("server", "look")
    /\ UNCHANGED <<shared, msg, str, serverVars>>

Loop ==
    /\ pc.server = "loop"
    /\ Goto("server", IF working THEN "look" ELSE "stopped")
    /\ UNCHANGED <<shared, msg, str, serverVars>>

\* Mutant: the server serves without looking at the flag.
LookBlindly ==
    /\ pc.server = "look"
    /\ Goto("server", "dispatch")
    /\ UNCHANGED <<shared, msg, str, serverVars>>

Look ==
    /\ pc.server = "look"
    /\ Goto("server", IF owner = "server" THEN "dispatch" ELSE "loop")
    /\ UNCHANGED <<shared, msg, str, serverVars>>

\* Looks the handler up; a bad tag only hands the memory back.
Dispatch ==
    /\ pc.server = "dispatch"
    /\ req' = tag
    /\ Goto("server", IF tag = NoTag THEN "final" ELSE "handle")
    /\ UNCHANGED <<shared, msg, str, radio, working, stop, performed, crashes>>

-----------------------------------------------------------------------------
(* The handlers.                                                            *)

Handling(cmds) == pc.server = "handle" /\ req.cmd \in cmds

\* The request has taken effect.
Perform == performed' = [performed EXCEPT ![req.id] = IF @ = 0 THEN 1 ELSE 2]

Reply(text, chunks) ==
    \E n \in TextNumbers : Send("server", Message(text, n, req.id, chunks))

ServerKeeps == UNCHANGED <<shared, str, working, req, stop, crashes>>

HandlePing ==       \* Ping and Status
    /\ Handling({"ping", "status"})
    /\ Perform
    /\ Reply(req.cmd, 1)
    /\ UNCHANGED radio
    /\ ServerKeeps

HandleExit ==
    /\ Handling({"exit"})
    /\ Perform
    /\ working' = FALSE
    /\ Goto("server", "loop")
    /\ UNCHANGED <<shared, msg, str, radio, req, stop, crashes>>

\* Mutant: the number is not tested.
HandleSetAnyFrequency ==
    /\ Handling({"setfreq"})
    /\ Goto("server", "assign")
    /\ UNCHANGED <<msg, performed, radio>>
    /\ ServerKeeps

\* The test of the number; the number is read again to be stored.
HandleSetFrequency ==
    /\ Handling({"setfreq"})
    /\ \/ /\ data.num >= MinFrequency
          /\ Goto("server", "assign")
          /\ UNCHANGED <<msg, performed>>
       \/ /\ data.num < MinFrequency
          /\ Perform
          /\ Reply("not ok", 1)
    /\ UNCHANGED radio
    /\ ServerKeeps

AssignFrequency ==
    /\ pc.server = "assign"
    /\ req.cmd = "setfreq"
    /\ frequency' = data.num
    /\ Perform
    /\ Reply("ok", 1)
    /\ UNCHANGED <<power, faults>>
    /\ ServerKeeps

HandleSetPower ==
    /\ Handling({"setpwr"})
    /\ Goto("server", IF data.num > 0 THEN "assign" ELSE "recheck")
    /\ UNCHANGED <<msg, radio, performed>>
    /\ ServerKeeps

\* Mutant: every number that is not positive passes for zero.
RecheckPowerNot ==
    /\ pc.server = "recheck"
    /\ Goto("server", "assign")
    /\ UNCHANGED <<msg, performed, radio>>
    /\ ServerKeeps

RecheckPower ==
    /\ pc.server = "recheck"
    /\ \/ /\ data.num = 0
          /\ Goto("server", "assign")
          /\ UNCHANGED <<msg, performed>>
       \/ /\ data.num # 0
          /\ Perform
          /\ Reply("not ok", 1)
    /\ UNCHANGED radio
    /\ ServerKeeps

\* "ok" and "ok, power off" are not told apart.
AssignPower ==
    /\ pc.server = "assign"
    /\ req.cmd = "setpwr"
    /\ power' = data.num
    /\ Perform
    /\ Reply("ok", 1)
    /\ UNCHANGED <<frequency, faults>>
    /\ ServerKeeps

HandleGetNumber ==  \* GetFrequency and GetPower
    /\ Handling({"getfreq", "getpwr"})
    /\ data' = [text |-> "num", id |-> req.id,
                num |-> IF req.cmd = "getfreq" THEN frequency ELSE power]
    /\ Perform
    /\ Goto("server", "final")
    /\ UNCHANGED <<owner, tag, left, msg, str, radio, working, req, stop, crashes>>

HandleSetFault ==
    /\ Handling({"setflt"})
    /\ faults' = Append(faults, data.num)
    /\ Perform
    /\ Reply("ok", 1)
    /\ UNCHANGED <<frequency, power>>
    /\ ServerKeeps

\* Mutant: every fault with the code is erased.
HandleClearEveryFault ==
    /\ Handling({"clrflt"})
    /\ faults' = SelectSeq(faults, LAMBDA f : f # data.num)
    /\ Perform
    /\ Reply(IF data.num \in ToSet(faults) THEN "ok" ELSE "not found", 1)
    /\ UNCHANGED <<frequency, power>>
    /\ ServerKeeps

\* Only the oldest fault with the code is erased.
HandleClearFault ==
    /\ Handling({"clrflt"})
    /\ faults' = RemoveFirst(faults, data.num)
    /\ Perform
    /\ Reply(IF data.num \in ToSet(faults) THEN "ok" ELSE "not found", 1)
    /\ UNCHANGED <<frequency, power>>
    /\ ServerKeeps

\* "faults:\n" and 22 characters a fault, or " empty", in chunks of 16.
ListChunks == IF faults = <<>> THEN 1 ELSE (8 + 22 * Len(faults) + 15) \div 16

HandleListFaults ==
    /\ Handling({"listflt"})
    /\ Perform
    /\ Reply("list", ListChunks)
    /\ UNCHANGED radio
    /\ ServerKeeps

\* RecvStr hands the memory to the client before it starts to receive.
HandleRecvStr ==
    /\ Handling({"toserv"})
    /\ owner' = "client"
    /\ Perform
    /\ Goto("server", "listen")
    /\ UNCHANGED <<tag, left, data, msg, str, radio, working, req, stop, crashes>>

ListenForString ==
    /\ pc.server = "listen"
    /\ Receive("server")
    /\ UNCHANGED <<shared, msg, serverVars>>

Handle ==
    \/ HandlePing \/ HandleExit \/ HandleSetFrequency \/ AssignFrequency
    \/ HandleSetPower \/ RecheckPower \/ AssignPower \/ HandleGetNumber
    \/ HandleSetFault \/ HandleClearFault \/ HandleListFaults
    \/ HandleRecvStr \/ ListenForString

ServerStream == Stream("server") /\ UNCHANGED serverVars

ServerStep == Enter \/ Grant \/ Loop \/ Look \/ Dispatch \/ Handle \/ ServerStream

-----------------------------------------------------------------------------
(* The main thread, and the process.                                        *)

StopWorking ==
    /\ CanStop
    /\ stop = "none"
    /\ pc.server # "off"
    /\ working' = FALSE
    /\ stop' = "half"
    /\ UNCHANGED <<memVars, radio, req, performed, crashes>>

StopSetState ==
    /\ stop = "half"
    /\ owner' = "server"
    /\ stop' = "done"
    /\ UNCHANGED <<tag, left, data, pc, msg, str, radio, working, req, performed, crashes>>

\* The process is killed: its fields are lost, the object stays as it is.
ServerCrash ==
    /\ crashes < MaxCrashes
    /\ pc.server # "off"
    /\ Goto("server", "off")
    /\ FreshRadio
    /\ working' = TRUE
    /\ req' = NoTag
    /\ stop' = "none"
    /\ crashes' = crashes + 1
    /\ UNCHANGED <<shared, msg, str, performed>>
=============================================================================
