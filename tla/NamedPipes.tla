------------------------------ MODULE NamedPipes ------------------------------
(***************************************************************************)
(* ClientApp and ServerApp over NamedPipeTransport: the server of fault,   *)
(* and the clients of radio and configuration, each a process that starts  *)
(* (the constructor makes the pipes that are missing), may be killed, and, *)
(* if it is a client, may end and destroy its transport, which unlinks     *)
(* both pipes.                                                             *)
(*                                                                         *)
(* Neither side looks behind the first packet of what it has read where it *)
(* matters: a request carries its byte or none is wanted, and of an answer *)
(* only the text of Get Alarms would be longer.                            *)
(***************************************************************************)
EXTENDS NamedPipeTransport, SequencesExt

CONSTANTS
    Server,         \* the process that runs ServerApp; the others run ClientApp
    Commands,       \* the requests the users make
    Bytes,          \* the bytes they type
    MaxRequests,    \* requests, all in all (bound)
    MaxStarts,      \* starts of processes, all in all (bound)
    MaxEnds         \* processes killed and clients that leave, all in all (bound)

ASSUME ServerAssumption == Server \in Procs
\* fault.cpp, line 54, gives the server two names.
ASSUME WiringAssumption == ReadPipe[Server] # WritePipe[Server]
\* A byte is a uint8_t.
ASSUME BytesAssumption == Bytes \subseteq 0..255
ASSUME BoundsAssumption == MaxRequests \in Nat /\ MaxStarts \in Nat /\ MaxEnds \in Nat

VARIABLES
    place,      \* where each process is
    asked,      \* the request each client is at
    told,       \* what the last call of each client came to
    frequency, power, alarms,   \* the server's fields
    reply,      \* the packet the server is about to write
    requests,   \* requests made so far; they are numbered
    handled,    \* history: how often each request was handled, 2 for twice or more
    used,       \* history: the clients that were ever started
    trouble,    \* history: what has disturbed a single client and its server
    ended,      \* history: how each process came to its last end
    starts, ends

device == <<frequency, power, alarms>>
history == <<used, trouble, ended, starts, ends>>
vars == <<files, io, place, asked, told, device, reply, requests, handled, history>>

Clients == Procs \ {Server}
Types == {"KEEP_ALIVE", "GET_STATUS", "SET_FREQUENCY", "SET_POWER", "GET_FREQUENCY",
          "GET_POWER", "RAISE_ALARM", "CLEAR_ALARM", "GET_ALARMS"}
Valued == {"SET_FREQUENCY", "SET_POWER", "RAISE_ALARM", "CLEAR_ALARM"}

ASSUME CommandsAssumption == Commands \subseteq Types

OK == <<79, 75>>
NOK == <<78, 79, 75>>
Ids == 0..MaxRequests
NoPacket == [type |-> "none", data |-> <<>>, id |-> 0]
NoRequest == [type |-> "none", byte |-> 0, id |-> 0]
Untold == <<"none">>

\* A request carries a byte exactly if its type wants one.
Requests == {m \in [type : Types, data : {<<>>} \cup {<<b>> : b \in Bytes}, id : Ids] :
                (m.data # <<>>) <=> (m.type \in Valued)}
Values == Bytes \cup {0}

\* alarms_list, in the order of the server's std::set.
AlarmList(s) ==
    CHOOSE list \in [1..Cardinality(s) -> s] :
        \A i, j \in DOMAIN list : i < j => list[i] < list[j]

\* No client gives the server a reason to answer NOK.
ReplyData(type) ==
    CASE type = "KEEP_ALIVE" -> {<<>>}
      [] type \in {"GET_FREQUENCY", "GET_POWER"} -> {<<v>> : v \in Values}
      [] type = "GET_ALARMS" -> {AlarmList(s) : s \in SUBSET Bytes}
      [] OTHER -> {OK}
Replies == UNION {[type : {t}, data : ReplyData(t), id : Ids] : t \in Types}
Outcomes == {Untold, <<"done">>, <<"failed">>} \cup {<<"value", v>> : v \in Values}
                \cup {<<"alarms", ToSet(d)>> : d \in {<<>>} \cup ReplyData("GET_ALARMS")}

Constructing == {"find1", "make1", "find2", "make2"}
Calling == {"writing", "written", "reading"}
Places == {"down", "ready", "handled", "unlinking"} \cup Constructing \cup Calling

(* Type correctness. *)
TypeOK ==
    /\ TransportType(Requests \cup Replies)
    /\ place \in [Procs -> Places]
    /\ asked \in [Clients -> [type : Types, byte : Values, id : Ids] \cup {NoRequest}]
    /\ told \in [Clients -> Outcomes]
    /\ frequency \in Values /\ power \in Values /\ alarms \subseteq Bytes
    /\ reply \in Replies \cup {NoPacket}
    /\ requests \in Ids
    /\ handled \in [1..MaxRequests -> 0..2]
    /\ used \subseteq Clients
    /\ trouble \subseteq {"second", "raced", "killed", "unlinked"}
    /\ ended \in [Procs -> {"none", "raced", "empty", "absent", "sigpipe", "killed", "left"}]
    /\ starts \in 0..MaxStarts /\ ends \in 0..MaxEnds

Init ==
    /\ TransportInit
    /\ place = [p \in Procs |-> "down"]
    /\ asked = [c \in Clients |-> NoRequest]
    /\ told = [c \in Clients |-> Untold]
    /\ frequency = 0 /\ power = 0 /\ alarms = {}
    /\ reply = NoPacket
    /\ requests = 0
    /\ handled = [i \in 1..MaxRequests |-> 0]
    /\ used = {} /\ trouble = {}
    /\ ended = [p \in Procs |-> "none"]
    /\ starts = 0 /\ ends = 0

Go(p, to) == place' = [place EXCEPT ![p] = to]
At(p, here) == place[p] = here

\* A process ends, for whatever reason; what it had open is closed.
End(p, why) ==
    /\ Release(p)
    /\ Go(p, "down")
    /\ ended' = [ended EXCEPT ![p] = why]
    /\ UNCHANGED <<asked, told, device, reply, requests, handled, used, starts>>

-----------------------------------------------------------------------------
(* Construction: each pipe is looked for and made if it is missing.         *)

Start(p) ==
    /\ At(p, "down")
    /\ starts < MaxStarts
    /\ starts' = starts + 1
    /\ Go(p, "find1")
    /\ used' = used \cup ({p} \cap Clients)
    /\ trouble' = trouble \cup (IF p \in Clients /\ used \ {p} # {} THEN {"second"} ELSE {})
    /\ IF p = Server
       THEN frequency' = 0 /\ power' = 0 /\ alarms' = {}
       ELSE UNCHANGED device
    /\ UNCHANGED <<files, io, asked, told, reply, requests, handled, ended, ends>>

PipeOf(p) == IF place[p] \in {"find1", "make1"} THEN ReadPipe[p] ELSE WritePipe[p]

\* Mutant: only the pipe to read is made.
AfterOnlyRead(p) == "ready"

After(p) == IF place[p] \in {"find1", "make1"} THEN "find2" ELSE "ready"

Find(p) ==
    /\ place[p] \in {"find1", "find2"}
    /\ Go(p, IF node[PipeOf(p)] # None THEN After(p)
             ELSE IF At(p, "find1") THEN "make1" ELSE "make2")
    /\ UNCHANGED <<files, io, asked, told, device, reply, requests, handled, history>>

Make(p) ==
    /\ place[p] \in {"make1", "make2"}
    /\ Mkfifo(PipeOf(p))
    /\ Go(p, After(p))
    /\ UNCHANGED <<asked, told, device, reply, requests, handled, history>>

\* Somebody was faster: the constructor throws, and nobody catches it.
MakeFails(p) ==
    /\ place[p] \in {"make1", "make2"}
    /\ node[PipeOf(p)] # None
    /\ End(p, "raced")
    /\ trouble' = trouble \cup {"raced"}
    /\ UNCHANGED ends

-----------------------------------------------------------------------------
(* ClientApp: one call writes a request and reads to the end of the answer. *)

\* Mutant: a byte is sent along with every request.
RequestWithByte(c) == [type |-> asked[c].type, data |-> <<asked[c].byte>>, id |-> asked[c].id]

RequestOf(c) == [type |-> asked[c].type, id |-> asked[c].id,
                 data |-> IF asked[c].type \in Valued THEN <<asked[c].byte>> ELSE <<>>]

Ask(c) ==
    /\ At(c, "ready")
    /\ requests < MaxRequests
    /\ requests' = requests + 1
    /\ \E type \in Commands : \E byte \in IF type \in Valued THEN Bytes ELSE {0} :
           asked' = [asked EXCEPT ![c] = [type |-> type, byte |-> byte, id |-> requests']]
    /\ OpenWrite(c)
    /\ Go(c, "writing")
    /\ UNCHANGED <<told, device, reply, handled, history>>

\* Mutant: Set Power does not read its answer.
AfterSendingUnread(c) == IF asked[c].type = "SET_POWER" THEN "ready" ELSE "written"

AfterSending(c) == "written"

Send(c) ==
    /\ At(c, "writing")
    /\ WriteAndClose(c, RequestOf(c))
    /\ Go(c, AfterSending(c))
    /\ UNCHANGED <<asked, told, device, reply, requests, handled, history>>

Await(c) ==
    /\ At(c, "written")
    /\ OpenRead(c)
    /\ Go(c, "reading")
    /\ UNCHANGED <<asked, told, device, reply, requests, handled, history>>

\* What the client makes of the answer to a request of this type.  To Keep Alive
\* it wants an 'O', as to a command.
Outcome(type, m) ==
    LET Sure == m.type = type
        Filled == Sure /\ m.data # <<>>
        Success == Filled /\ m.data[1] = OK[1]
        Checked(good, result) == IF good THEN result ELSE <<"failed">>
    IN  CASE type \in {"SET_FREQUENCY", "SET_POWER"} -> <<"done">>
          [] type = "GET_STATUS" -> Checked(Sure, <<"done">>)
          [] type \in {"GET_FREQUENCY", "GET_POWER"} -> Checked(Filled, <<"value", m.data[1]>>)
          [] type = "GET_ALARMS" -> Checked(Sure, <<"alarms", ToSet(m.data)>>)
          [] OTHER -> Checked(Success, <<"done">>)

Understand(c) ==
    /\ At(c, "reading")
    /\ CloseRead(c)
    /\ Arrived(c) # <<>>
    /\ told' = [told EXCEPT ![c] = Outcome(asked[c].type, Head(Arrived(c)))]
    /\ Go(c, "ready")
    /\ UNCHANGED <<asked, device, reply, requests, handled, history>>

\* The exceptions of a call are caught nowhere.
CallThrows(c) ==
    /\ \/ At(c, "written") /\ ~CanOpenRead(c) /\ End(c, "absent")
       \/ At(c, "reading") /\ AtEof(c) /\ Arrived(c) = <<>> /\ End(c, "empty")
    /\ UNCHANGED <<trouble, ends>>

-----------------------------------------------------------------------------
(* ServerApp: run() reads a request, handles it and writes the answer.      *)

\* A pipe that is not there is an exception, which run() catches: it comes
\* back after its sleep.
Listen ==
    /\ At(Server, "ready")
    /\ OpenRead(Server)
    /\ Go(Server, "reading")
    /\ UNCHANGED <<asked, told, device, reply, requests, handled, history>>

Answer(m) ==
    [type |-> m.type, id |-> m.id,
     data |-> CASE m.type = "KEEP_ALIVE" -> <<>>
                [] m.type = "GET_STATUS" -> OK
                [] m.type = "GET_FREQUENCY" -> <<frequency>>
                [] m.type = "GET_POWER" -> <<power>>
                [] m.type = "GET_ALARMS" -> AlarmList(alarms)
                [] OTHER -> IF m.data # <<>> THEN OK ELSE NOK]

\* Mutant: Set Power was copied from Set Frequency.
SetsFrequency(m) == m.type \in {"SET_FREQUENCY", "SET_POWER"} /\ m.data # <<>>

Sets(m) == m.type = "SET_FREQUENCY" /\ m.data # <<>>

\* Mutant: Keep Alive is not answered.
AfterHandlingSilent(m) == IF m.type = "KEEP_ALIVE" THEN "ready" ELSE "handled"

\* A type that is none of these would not be answered; no client sends one.
AfterHandling(m) == IF m.type \in Types THEN "handled" ELSE "ready"

Handle ==
    LET m == Head(Arrived(Server))
    IN  /\ At(Server, "reading")
        /\ CloseRead(Server)
        /\ Arrived(Server) # <<>>
        /\ frequency' = IF Sets(m) THEN m.data[1] ELSE frequency
        /\ power' = IF m.type = "SET_POWER" /\ m.data # <<>> THEN m.data[1] ELSE power
        /\ alarms' = IF m.type = "RAISE_ALARM" THEN alarms \cup ToSet(m.data)
                     ELSE IF m.type = "CLEAR_ALARM" THEN alarms \ ToSet(m.data) ELSE alarms
        /\ reply' = Answer(m)
        /\ handled' = [handled EXCEPT ![m.id] = IF @ = 2 THEN 2 ELSE @ + 1]
        /\ Go(Server, AfterHandling(m))
        /\ UNCHANGED <<asked, told, requests, history>>

\* deserialize throws, run() goes on.
EmptyRequest ==
    /\ At(Server, "reading")
    /\ CloseRead(Server)
    /\ Arrived(Server) = <<>>
    /\ Go(Server, "ready")
    /\ UNCHANGED <<asked, told, device, reply, requests, handled, history>>

Respond ==
    /\ At(Server, "handled")
    /\ OpenWrite(Server)
    /\ Go(Server, "writing")
    /\ UNCHANGED <<asked, told, device, reply, requests, handled, history>>

Responded ==
    /\ At(Server, "writing")
    /\ WriteAndClose(Server, reply)
    /\ Go(Server, "ready")
    /\ UNCHANGED <<asked, told, device, reply, requests, handled, history>>

-----------------------------------------------------------------------------
(* Ends.                                                                    *)

Kill(p) ==
    /\ ~At(p, "down")
    /\ ends < MaxEnds
    /\ ends' = ends + 1
    /\ End(p, "killed")
    /\ trouble' = trouble \cup {"killed"}

SigPipe(p) ==
    /\ Broken(p)
    /\ End(p, "sigpipe")
    /\ UNCHANGED <<trouble, ends>>

\* A client whose user chose 0 is destroyed with its transport, which unlinks
\* both names, whoever uses them.
Leave(c) ==
    /\ At(c, "ready")
    /\ ends < MaxEnds
    /\ ends' = ends + 1
    /\ Unlink(ReadPipe[c])
    /\ Go(c, "unlinking")
    /\ trouble' = trouble \cup {"unlinked"}
    /\ UNCHANGED <<asked, told, device, reply, requests, handled, used, ended, starts>>

Left(c) ==
    /\ At(c, "unlinking")
    /\ Unlink(WritePipe[c])
    /\ Go(c, "down")
    /\ ended' = [ended EXCEPT ![c] = "left"]
    /\ UNCHANGED <<asked, told, device, reply, requests, handled, used, trouble, starts, ends>>

-----------------------------------------------------------------------------
TakePackets(p) ==
    /\ At(p, "reading")
    /\ Take(p)
    /\ UNCHANGED <<place, asked, told, device, reply, requests, handled, history>>

ClientStep(c) == Send(c) \/ Await(c) \/ Understand(c) \/ CallThrows(c) \/ Left(c)
ServerStep == Listen \/ Handle \/ EmptyRequest \/ Respond \/ Responded
Runs(p) ==
    \/ Find(p) \/ Make(p) \/ MakeFails(p) \/ TakePackets(p) \/ SigPipe(p)
    \/ p \in Clients /\ ClientStep(p)
    \/ p = Server /\ ServerStep

Next ==
    \/ \E p \in Procs : Start(p) \/ Kill(p) \/ Runs(p)
    \/ \E c \in Clients : Ask(c) \/ Leave(c)

Spec == Init /\ [][Next]_vars

\* A process that is up and not blocked goes on; nobody must start one, and no
\* user must type.
FairSpec == Spec /\ \A p \in Procs : WF_vars(Runs(p))

-----------------------------------------------------------------------------
(* Safety.                                                                  *)

(* NamedPipeTransport's write makes no regular file, unless somebody's       *)
(* destructor has unlinked a pipe: who is constructed finds both pipes, in   *)
(* whatever order the constructors ran.                                      *)
FilesOnlyAfterUnlink ==
    (\E n \in Nodes : IsFile(n)) => "unlinked" \in trouble

(* A client is never ended by an answer that is empty (ClientApp does not    *)
(* catch what deserialize throws), by a pipe that is missing, or a server by *)
(* SIGPIPE, unless there was a second client, a killing, or an unlink.       *)
EndsExplained ==
    \A p \in Procs :
        /\ ended[p] = "empty" => trouble \cap {"second", "killed", "unlinked"} # {}
        /\ ended[p] = "absent" => "unlinked" \in trouble
        /\ ended[p] = "sigpipe" => "killed" \in trouble

(* Through pipes a request is handled once at most, whatever the clients do  *)
(* to each other and whoever is killed.  (A regular file in a pipe's place   *)
(* is read again and again.)                                                 *)
HandledOnce ==
    "unlinked" \in trouble \/ \A i \in 1..requests : handled[i] <= 1

-----------------------------------------------------------------------------
(* What it promises a single client.                                        *)

Busy == \E c \in used : place[c] \in Calling
TheClient == CHOOSE c \in used : TRUE
ItsRequest == asked[TheClient]

\* The refinement mapping.
CallNow == IF Busy THEN [type |-> ItsRequest.type, byte |-> ItsRequest.byte]
           ELSE [type |-> "none", byte |-> 0]
EffectNow == IF Busy /\ ItsRequest.id \in 1..requests /\ handled[ItsRequest.id] > 0
             THEN Outcome(ItsRequest.type, reply) ELSE Untold
ToldNow == IF used = {} THEN Untold ELSE told[TheClient]

\* The one exception: the server answers Keep Alive without the 'O'.
Device == INSTANCE PipeDevice WITH
    Failing <- {"KEEP_ALIVE"},
    call <- CallNow, effect <- EffectNow, told <- ToldNow, disturbed <- trouble # {}

(* A client that is alone with the server sees an atomic device: each call   *)
(* of ClientApp takes effect once, and gets the answer to itself; only Keep  *)
(* Alive may fail, where ClientApp.cpp expects "OK".                         *)
ImplementsDevice == Device!Spec

-----------------------------------------------------------------------------
(* Liveness, under FairSpec.                                                *)

(* A request written while the server is up is answered, as long as nothing  *)
(* disturbs the two (ClientApp.cpp: every call waits for its answer).        *)
Answered ==
    \A c \in Clients :
        (place[c] \in Calling /\ ~At(Server, "down")) ~> (At(c, "ready") \/ trouble # {})

(* The server never waits for ever for a reader of its answer, not even with *)
(* two clients who take each other's answers, unless one is killed or        *)
(* unlinks the pipes.                                                        *)
ServerGetsRid ==
    At(Server, "writing")
        ~> (~At(Server, "writing") \/ trouble \cap {"killed", "unlinked"} # {})
===============================================================================
