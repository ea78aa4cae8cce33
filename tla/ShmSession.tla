----------------------------- MODULE ShmSession -----------------------------
(***************************************************************************)
(* A session over one shared memory object: the radio's serving thread and *)
(* its main thread (ShmServer), the client's thread and its user           *)
(* (ShmClient), the deaths of both processes.                              *)
(***************************************************************************)
EXTENDS ShmServer, ShmClient

sessionVars == <<memVars, serverVars, clientVars>>

Init == MemInit /\ ServerInit /\ ClientInit

\* The client is killed and started again; the object stays as it is.
ClientCrash ==
    /\ crashes < MaxCrashes
    /\ Goto("client", "prompt")
    /\ cmd' = "none"
    /\ arg' = 0
    /\ crashes' = crashes + 1
    /\ UNCHANGED <<shared, msg, str, uses, radio, working, req, stop, performed>>

Serve == ServerStep /\ UNCHANGED clientVars
Started == Start /\ UNCHANGED clientVars
Stop == (StopWorking \/ StopSetState) /\ UNCHANGED clientVars
Crash == (ServerCrash /\ UNCHANGED clientVars) \/ ClientCrash
UserTypes == Prompt /\ UNCHANGED serverVars
UserAnswers == (SetNumber \/ SendStr) /\ UNCHANGED serverVars
ClientRuns == ClientStep /\ UNCHANGED serverVars

Next == Serve \/ Started \/ Stop \/ Crash \/ UserTypes \/ UserAnswers \/ ClientRuns

Spec == Init /\ [][Next]_sessionVars

\* The threads run and their loops sleep no longer than they say; somebody
\* starts the radio, and Stop() is not left half done.  Nothing makes the
\* user type a command, or the number or string a command waits for (the
\* client owns the memory as long as that takes); nor need the main thread
\* stop, or a process die.
FairSpec ==
    /\ Spec
    /\ WF_sessionVars(Serve)
    /\ WF_sessionVars(Started)
    /\ WF_sessionVars(StopSetState /\ UNCHANGED clientVars)
    /\ WF_sessionVars(ClientRuns)

-----------------------------------------------------------------------------
(* Properties.                                                              *)

Texts == {"num", "string", "ping", "status", "ok", "not ok", "not found", "list"}

DataType == [text : Texts, num : Int, id : 0..MaxRequests]

MessageType == [text : Texts \cup {"none"}, num : Int, id : 0..MaxRequests, rest : Nat]

TagType == {NoTag} \cup [cmd : Commands, id : 1..MaxRequests]

(* Type correctness: among others, no chunk is sent beyond the last one, no *)
(* request is served that the client did not make, and a received text      *)
(* holds no chunk that was never sent.                                      *)
TypeOK ==
    /\ owner \in Sides
    /\ tag \in TagType
    /\ left \in Nat
    /\ data \in DataType
    /\ pc \in [Sides -> ServerPc \cup ClientPc]
    /\ pc.server \in ServerPc
    /\ pc.client \in ClientPc
    /\ msg \in [Sides -> MessageType]
    /\ str \in [Sides -> Seq(DataType)]
    /\ frequency \in Int
    /\ power \in Int
    /\ faults \in Seq(Int)
    /\ working \in BOOLEAN
    /\ req \in TagType
    /\ stop \in {"none", "half", "done"}
    /\ performed \in [1..MaxRequests -> 0..2]
    /\ crashes \in 0..MaxCrashes
    /\ cmd \in Commands \cup {"none"}
    /\ arg \in Int
    /\ uses \in 0..MaxRequests

\* The places from which a side reads or writes the record as its owner.
ServerHolds == pc.server \in {"dispatch", "handle", "recheck", "assign", "fill", "give",
                              "final", "ack"}
ClientHolds == pc.client \in {"tag", "number", "text", "request", "read", "fill", "give",
                              "final", "ack"}

(* shrData::state says "who owns memory": a side that is in the middle of   *)
(* reading or writing the record is its owner, so the two never are at once *)
(* and what a handler read cannot change under it.                          *)
MutualExclusion ==
    /\ ServerHolds => owner = "server"
    /\ ClientHolds => owner = "client"

(* The radio never works at a frequency below its minimum, although the     *)
(* number is tested and stored by two reads of memory the client writes.    *)
FrequencyInRange == frequency >= MinFrequency

(* The same of the power, which is read up to three times.                  *)
PowerInRange == power >= 0

(* A command the client is done with was performed, and only once.          *)
PerformedOnce ==
    /\ \A i \in 1..MaxRequests : performed[i] <= 1
    /\ \A i \in 1..uses : pc.client = "prompt" => performed[i] = 1

(* Every call of the client comes back to its user, whatever becomes of the *)
(* server: the client reads a command again, or the number or the string of *)
(* the one it runs, or it has ended.  That the user then types something is *)
(* not asked.                                                               *)
ClientReturns == pc.client \notin AtInput ~> pc.client \in AtInput \cup {"ended"}

(* A handler that was looked up comes back to the loop.                     *)
ServerReturns == pc.server = "dispatch" ~> pc.server \in {"loop", "off"}

(* While the server serves, the client gets the memory again and again: the *)
(* two sides never wait for each other for ever.                            *)
ClientGetsTurn == []<>(owner = "client")

(* A Stop() that finds the loop running ends it, although half of it can    *)
(* set a handler going on a request that is being written.                  *)
StopEndsLoop ==
    (stop # "none" /\ ~working /\ pc.server \notin {"off", "starting"})
    ~> pc.server \in {"stopped", "off"}

-----------------------------------------------------------------------------
(* The inductive invariants.                                                *)

\* A side inside the loop of SendStreamCore has a chunk to send.
SendingInv == \A p \in Sides :
    pc[p] \in {"fill", "give", "sent"} => msg[p].rest >= 1 /\ msg[p].text # "none"

\* A client that is writing a request runs a command its user typed.
CommandInv ==
    pc.client \in {"tag", "number", "text", "request"} => cmd \in Commands /\ uses >= 1

TypeInv == TypeOK /\ SendingInv /\ CommandInv

\* Nobody moves the flag without owning the memory: there is no Stop(), and
\* if await loops can run out then no command takes the memory back.
Disciplined == ~CanStop /\ (Timeouts => Commands \cap ForNumber = {})

OwnerInv ==
    /\ MutualExclusion
    /\ stop = "none"
    /\ pc.client # "takeback"
    /\ Timeouts => pc.client # "await"

\* A number that passed its test is still in range when it is stored.
RangeInv ==
    /\ FrequencyInRange
    /\ PowerInRange
    /\ pc.server = "assign" =>
          /\ req.cmd = "setfreq" => data.num >= MinFrequency
          /\ req.cmd = "setpwr" => data.num >= 0
    /\ pc.server = "recheck" => req.cmd = "setpwr"

DisciplinedInv == TypeInv /\ OwnerInv /\ RangeInv

\* Both sides answer in time, nobody stops or dies, and no text is longer
\* than a chunk: a list of faults is, as soon as a fault was set.
Punctual ==
    /\ ~Timeouts /\ ~CanStop /\ MaxCrashes = 0
    /\ "exit" \notin Commands
    /\ "setflt" \in Commands => "listflt" \notin Commands
    /\ StreamSizes \subseteq {1}

\* Where the two sides are, whose turn it is, and whether the last command
\* was performed.
Served == uses = 0 \/ performed[uses] = 1

Stage(servers, clients, turn, done) ==
    /\ pc.server \in servers
    /\ pc.client \in clients
    /\ owner = turn
    /\ Served <=> done

\* The stages of a command: starting, idle, writing it, waiting for it; then
\* four of an answer, two of a number and two of a string.
StageInv ==
    \/ Stage({"off", "starting", "grant"}, {"prompt"}, "server", TRUE)
    \/ Stage({"loop", "look", "check"}, {"prompt"}, "client", TRUE)
    \/ Stage({"loop", "look", "check"}, {"tag", "number", "text", "request", "fill", "give"},
             "client", FALSE)
    \/ Stage({"loop", "look", "check", "dispatch", "handle", "recheck", "assign"},
             {"recv", "await", "sent"}, "server", FALSE)
    \/ Stage({"fill", "give"}, {"recv"}, "server", TRUE)
    \/ Stage({"sent"}, {"recv", "ack"}, "client", TRUE)
    \/ Stage({"sent", "final"}, {"check", "prompt"}, "server", TRUE)
    \/ Stage({"loop", "look"}, {"check"}, "client", TRUE)
    \/ Stage({"final"}, {"await"}, "server", TRUE)
    \/ Stage({"loop", "look"}, {"await", "read"}, "client", TRUE)
    \/ Stage({"listen", "recv"}, {"sent", "final"}, "client", TRUE)
    \/ Stage({"listen", "recv", "ack"}, {"prompt"}, "server", TRUE)

\* Every command before the last one was performed, none after it.
CountInv == \A i \in 1..MaxRequests :
    /\ performed[i] \in {0, 1}
    /\ i < uses => performed[i] = 1
    /\ i > uses => performed[i] = 0

\* What the places of the client say of its command.
PlaceInv ==
    /\ pc.client # "prompt" => cmd \in Commands /\ uses >= 1
    /\ pc.client \in {"recv", "ack", "check"} => cmd \notin ForNumber \cup {"toserv"}
    /\ pc.client \in {"await", "read"} => cmd \in ForNumber
    /\ pc.client \in {"text", "fill", "give", "sent", "final"} => cmd = "toserv"
    /\ pc.client = "request" => cmd # "toserv"
    /\ pc.client = "number" => cmd \in WithNumber

\* What the server serves is the command of the client.
RequestInv ==
    /\ pc.client \notin {"prompt", "tag"} /\ ~Served => tag = [cmd |-> cmd, id |-> uses]
    /\ pc.server \in {"handle", "recheck", "assign"} => req = tag

\* Texts are of one chunk, and nobody stops the server.
ChunkInv ==
    /\ left <= 1
    /\ \A p \in Sides : pc[p] \in {"fill", "give", "sent"} => msg[p].rest = 1
    /\ "setflt" \notin Commands => faults = <<>>
    /\ working
    /\ stop = "none"

HandshakeInv == StageInv /\ CountInv /\ PlaceInv /\ RequestInv /\ ChunkInv

PunctualInv == DisciplinedInv /\ HandshakeInv

\* The number of a command is in the memory until it is performed, the answer
\* from then on, and the client receives what the server sends.
ContentInv ==
    /\ pc.client \in {"tag", "number"} => arg = 0
    /\ pc.client \in {"request", "recv", "await"} /\ ~Served =>
          IF cmd \in WithNumber THEN arg \in Numbers /\ data.num = arg ELSE arg = 0
    /\ pc.server = "recheck" => data.num <= 0
    /\ pc.server \in {"give", "sent"} /\ pc.client \in {"recv", "ack"} => data = Chunk(msg.server)
    /\ pc.client \in {"await", "read"} /\ Served =>
          /\ data.text = "num"
          /\ data.num = IF cmd = "getfreq" THEN frequency ELSE power
    /\ pc.client = "recv" => str.client = <<>>
    /\ pc.client \in {"ack", "check"} => str.client = <<Chunk(msg.server)>>

-----------------------------------------------------------------------------
(* The session implements RadioService.                                     *)

Meaning(d) == [text |-> d.text, num |-> IF d.text = "num" THEN d.num ELSE 0]

InCall == pc.client \in {"recv", "ack", "check", "await", "read"}

\* The variables of the service.
FaultBag == [n \in Numbers |-> Cardinality({i \in 1..Len(faults) : faults[i] = n})]

CallNow == IF InCall THEN [cmd |-> cmd, num |-> arg] ELSE [cmd |-> "none", num |-> 0]

OutcomeNow ==
    IF InCall /\ performed[uses] = 1
    THEN IF cmd \in ForNumber
         THEN Meaning([text |-> "num", num |-> IF cmd = "getfreq" THEN frequency ELSE power])
         ELSE Meaning(msg.server)
    ELSE Meaning([text |-> "none"])

ToldNow == IF InCall \/ str.client = <<>> THEN Meaning([text |-> "none"]) ELSE Meaning(Last(str.client))

Service == INSTANCE RadioService WITH
    faults <- FaultBag, call <- CallNow, outcome <- OutcomeNow, told <- ToldNow

(* While both sides are punctual, nobody stops or dies, and no text is      *)
(* longer than a chunk, the session is the atomic radio of RadioService.    *)
ImplementsService == Service!Spec
=============================================================================
