------------------------------ MODULE ShmClient ------------------------------
(***************************************************************************)
(* SharedMemoryClient: the thread that reads a command from its user and   *)
(* runs it against the server.  Commands typed while the server owns the   *)
(* memory are dropped without a word; they are not steps here, nor are     *)
(* "help" and unknown words.                                               *)
(***************************************************************************)
EXTENDS ShmMemory

CONSTANTS
    Commands,       \* the commands the user types
    Numbers,        \* the numbers the user types after some of them
    StreamSizes     \* lengths of the strings of "toserv", in chunks

AllCommands == {"ping", "exit", "status", "setfreq", "setpwr", "getfreq", "getpwr",
                "setflt", "clrflt", "listflt", "toserv"}

ASSUME CommandsAssumption == Commands \subseteq AllCommands
ASSUME NumbersAssumption == Numbers \subseteq Int
ASSUME StreamSizesAssumption == StreamSizes \subseteq Nat

VARIABLES
    cmd,    \* the command being run
    arg,    \* history: the number typed after it, 0 if it takes none
    uses    \* history: commands run so far, the number of the last one

clientVars == <<cmd, arg, uses>>

WithNumber == {"setfreq", "setpwr", "setflt", "clrflt"}
ForNumber == {"getfreq", "getpwr"}

ClientPc == {"prompt", "tag", "number", "text", "request", "recv", "ack", "check", "await",
             "read", "takeback", "fill", "give", "sent", "final", "ended"}

\* Where the thread sits in std::cin: at the prompt, and in the middle of a
\* command that asks for a number or a string.
AtInput == {"prompt", "number", "text"}

ClientInit ==
    /\ cmd = "none"
    /\ arg = 0
    /\ uses = 0

\* The user types a command while the client owns the memory.
Prompt ==
    /\ pc.client = "prompt"
    /\ owner = "client"
    /\ uses < MaxRequests
    /\ cmd' \in Commands
    /\ arg' = 0
    /\ uses' = uses + 1
    /\ Goto("client", "tag")
    /\ UNCHANGED <<shared, msg, str>>

\* SetTag, and the branch of the command.
SetTag ==
    /\ pc.client = "tag"
    /\ tag' = [cmd |-> cmd, id |-> uses]
    /\ Goto("client", CASE cmd \in WithNumber -> "number"
                         [] cmd = "toserv" -> "text"
                         [] OTHER -> "request")
    /\ UNCHANGED <<owner, left, data, msg, str, clientVars>>

\* The user types the number a command waits for, and the command stores it.
SetNumber ==
    /\ pc.client = "number"
    /\ arg' \in Numbers
    /\ data' = [text |-> "num", num |-> arg', id |-> uses]
    /\ Goto("client", "request")
    /\ UNCHANGED <<owner, tag, left, msg, str, cmd, uses>>

\* The user types the string "toserv" waits for, and SendStr goes on with its
\* stream.
SendStr ==
    /\ pc.client = "text"
    /\ \E n \in TextNumbers, size \in StreamSizes :
          Send("client", Message("string", n, uses, size))
    /\ UNCHANGED <<shared, str, clientVars>>

\* SetState(SM_SERVER), and the wait for the answer.
Request ==
    /\ pc.client = "request"
    /\ owner' = "server"
    /\ \/ /\ cmd = "exit"
          /\ Goto("client", "ended")
          /\ UNCHANGED str
       \/ /\ cmd \in ForNumber
          /\ Goto("client", "await")
          /\ UNCHANGED str
       \/ /\ cmd \notin ForNumber \cup {"exit"}
          /\ Receive("client")
    /\ UNCHANGED <<tag, left, data, msg, clientVars>>

\* AwaitLoop.
Await ==
    /\ pc.client = "await"
    /\ \/ /\ owner = "client"
          /\ Goto("client", "read")
       \/ /\ Timeouts
          /\ owner # "client"
          /\ Goto("client", "takeback")
    /\ UNCHANGED <<shared, msg, str, clientVars>>

ReadNumber ==
    /\ pc.client = "read"
    /\ str' = [str EXCEPT !.client = <<data>>]
    /\ Goto("client", "prompt")
    /\ UNCHANGED <<shared, msg, clientVars>>

\* "server not anwering": the client takes the memory without being given it.
TakeBack ==
    /\ pc.client = "takeback"
    /\ owner' = "client"
    /\ str' = [str EXCEPT !.client = <<>>]
    /\ Goto("client", "prompt")
    /\ UNCHANGED <<tag, left, data, msg, clientVars>>

ClientStream == Stream("client") /\ UNCHANGED clientVars

\* What the client's thread does by itself, between two inputs of the user.
ClientStep == SetTag \/ Request \/ Await \/ ReadNumber \/ TakeBack \/ ClientStream
=============================================================================
