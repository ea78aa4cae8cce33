--------------------------- MODULE NamedPipesProofs ---------------------------
(***************************************************************************)
(* For any processes, pipes, requests and restarts: the types; that no     *)
(* regular file comes into the place of a pipe before somebody unlinks     *)
(* one; that a request is handled once at most; that whoever ends by an    *)
(* empty answer, a missing pipe or SIGPIPE does so because of a second     *)
(* client, a killing or an unlink; and that a client alone with its server *)
(* sees the device of PipeDevice.                                          *)
(***************************************************************************)
EXTENDS NamedPipes, NamedPipeTransportProofs, FiniteSetTheorems

-----------------------------------------------------------------------------
(* The invariants.  TypeInv is inductive; each of the others is, together   *)
(* with those before it.                                                    *)

Packets == Requests \cup Replies
Inbound == node[ReadPipe[Server]]

\* A process has a pipe open exactly in its calls of read and write.
PlaceTellsMode ==
    \A p \in Procs :
        /\ IsReader(p) <=> place[p] = "reading"
        /\ IsWriter(p) <=> place[p] = "writing"

\* A client in a call has a request, and a server that answers an answer.
CallsWellFormed ==
    /\ \A c \in Clients : place[c] \in Calling =>
          /\ asked[c].type \in Types
          /\ asked[c].type \in Valued => asked[c].byte \in Bytes
    /\ place[Server] \in {"handled", "writing"} => reply \in Replies

\* What the server reads are requests: it does not read its own answers.
ServerReadsRequests ==
    /\ Inbound # None => data[Inbound] \in Some(Requests)
    /\ got[Server] \in Some(Requests)
    /\ IsReader(Server) => data[fd[Server]] \in Some(Requests)
    /\ IsWriter(Server) => fd[Server] # Inbound

TypeInv == TypeOK /\ NodesAreMade /\ PlaceTellsMode /\ CallsWellFormed /\ ServerReadsRequests

\* Until a pipe is unlinked, a constructor leaves each pipe it has been through
\* under its name, and it stays there; so the server reads the pipe of that name.
PipesThere ==
    /\ \A p \in Procs : place[p] = "unlinking" => "unlinked" \in trouble
    /\ "unlinked" \notin trouble =>
        \A p \in Procs :
            /\ place[p] \notin {"down", "find1", "make1"} => node[ReadPipe[p]] # None
            /\ place[p] \notin {"down"} \cup Constructing => node[WritePipe[p]] # None
            /\ IsReader(p) => fd[p] = node[ReadPipe[p]]

PipesInv == TypeInv /\ PipesThere /\ FilesOnlyAfterUnlink

Unhandled(i) == i \in 1..requests /\ handled[i] = 0
InPipe(m) == Inbound # None /\ data[Inbound] = <<m>>
InHands(m) == got[Server] = <<m>>

\* Until a pipe is unlinked, a request that is about to be written, in the
\* server's pipe or in its hands is there alone, and was not handled.
RequestsAreOne ==
    "unlinked" \notin trouble =>
        /\ \A i \in 1..MaxRequests : i > requests => handled[i] = 0
        /\ \A c \in Clients : place[c] = "writing" =>
              /\ Unhandled(asked[c].id)
              /\ \A d \in Clients :
                    place[d] = "writing" /\ asked[d].id = asked[c].id => d = c
              /\ \A m \in Requests : InPipe(m) \/ InHands(m) => m.id # asked[c].id
        /\ \A m \in Requests : InPipe(m) \/ InHands(m) => Unhandled(m.id)
        /\ \A m, n \in Requests : InPipe(m) /\ InHands(n) => m.id # n.id

RequestsInv == PipesInv /\ RequestsAreOne /\ HandledOnce

\* A FIFO that may be written has a reader, until one is killed.
WriterHasReader ==
    "killed" \notin trouble =>
        \A p \in Procs : mode[p] = "writes" /\ ~IsFile(fd[p]) =>
            \E r \in Procs : IsReader(r) /\ fd[r] = fd[p]

\* Until there is a second client, only one was ever started.
OneClient ==
    /\ \A c \in Clients : place[c] # "down" => c \in used
    /\ "second" \notin trouble => \A c, d \in used : c = d

\* Then, as a reader goes on when a writer comes, at most one of two reads.
OneReads ==
    trouble \cap {"second", "unlinked"} = {} =>
        \A p, q \in Procs : mode[p] = "reads" /\ mode[q] = "reads" => p = q

\* A reader has a packet, or there is one in its pipe, or a writer who owes one.
ReaderIsServed ==
    trouble \cap {"second", "killed", "unlinked"} = {} =>
        \A p \in Procs : mode[p] = "reads" =>
            \/ got[p] # <<>> \/ data[fd[p]] # <<>>
            \/ \E w \in Procs : IsWriter(w) /\ fd[w] = fd[p]

EndsInv ==
    /\ PipesInv /\ WriterHasReader /\ OneClient /\ OneReads /\ ReaderIsServed
    /\ EndsExplained

-----------------------------------------------------------------------------
(* The packets.                                                             *)

(* The server is no client, and the names of its pipes are two.             *)
LEMMA ServerFacts ==
    /\ Server \in Procs /\ Server \notin Clients
    /\ Clients \subseteq Procs /\ \A p \in Procs : p = Server \/ p \in Clients
    /\ ReadPipe[Server] \in Names /\ WritePipe[Server] \in Names
    /\ \A p \in Procs : PipeOf(p) \in Names
  BY ServerAssumption, PipesAreNames DEF Clients, PipeOf

(* What a client in a call writes is a request.                             *)
LEMMA RequestOfType ==
    ASSUME TypeInv, NEW c \in Clients, place[c] \in Calling
    PROVE  RequestOf(c) \in Requests /\ RequestOf(c).id = asked[c].id
<1>1. /\ asked[c].type \in Types
      /\ asked[c].type \in Valued => asked[c].byte \in Bytes
  BY DEF TypeInv, CallsWellFormed
<1>2. asked[c].id \in Ids
  <2>1. asked[c] \in [type : Types, byte : Values, id : Ids] \cup {NoRequest}
    BY DEF TypeInv, TypeOK
  <2>2. 0 \in Ids
    BY BoundsAssumption DEF Ids
  <2>3. QED
    BY <2>1, <2>2 DEF NoRequest
<1>3. QED
  BY <1>1, <1>2 DEF RequestOf, Requests

(* A request by its fields.                                                 *)
LEMMA RequestFields ==
    ASSUME NEW m \in Requests
    PROVE  /\ m.type \in Types /\ m.id \in Ids
           /\ m.data = <<>> \/ (m.data # <<>> /\ m.data[1] \in Bytes /\ m.data = <<m.data[1]>>)
           /\ m.data # <<>> <=> m.type \in Valued
  BY DEF Requests

(* What the server answers to a request is one of its answers.              *)
LEMMA AnswerType ==
    ASSUME TypeOK, NEW m \in Requests
    PROVE  Answer(m) \in Replies
<1>1. m.type \in Types /\ m.id \in Ids /\ (m.data # <<>> <=> m.type \in Valued)
  BY RequestFields
<1>2. frequency \in Values /\ power \in Values /\ alarms \in SUBSET Bytes
  BY DEF TypeOK
<1>3. Answer(m).data \in ReplyData(m.type)
  <2>1. CASE m.type \in {"KEEP_ALIVE", "GET_STATUS"}
    BY <2>1 DEF Answer, ReplyData
  <2>2. CASE m.type \in {"GET_FREQUENCY", "GET_POWER"}
    BY <1>2, <2>2 DEF Answer, ReplyData
  <2>3. CASE m.type = "GET_ALARMS"
    BY <1>2, <2>3 DEF Answer, ReplyData
  <2>4. CASE m.type \in Valued
    BY <1>1, <2>4 DEF Answer, ReplyData, Valued
  <2>5. QED
    BY <1>1, <2>1, <2>2, <2>3, <2>4 DEF Types, Valued
<1>4. Answer(m) \in [type : {m.type}, data : ReplyData(m.type), id : Ids]
  BY <1>1, <1>3 DEF Answer
<1>5. QED
  BY <1>1, <1>4 DEF Replies

(* What a packet says to a client that asked for its type.                  *)
LEMMA PacketData ==
    ASSUME NEW m \in Packets
    PROVE  /\ m.type \in {"GET_FREQUENCY", "GET_POWER"} /\ m.data # <<>> => m.data[1] \in Values
           /\ m.type = "GET_ALARMS" => m.data \in {<<>>} \cup ReplyData("GET_ALARMS")
<1>1. CASE m \in Requests
  BY <1>1, RequestFields DEF Valued
<1>2. CASE m \in Replies
  <2>1. PICK t \in Types : m \in [type : {t}, data : ReplyData(t), id : Ids]
    BY <1>2 DEF Replies
  <2>2. m.type = t /\ m.data \in ReplyData(t)
    BY <2>1
  <2>3. CASE t \in {"GET_FREQUENCY", "GET_POWER"}
    BY <2>2, <2>3 DEF ReplyData
  <2>4. QED
    BY <2>2, <2>3
<1>3. QED
  BY <1>1, <1>2 DEF Packets

(* So every call comes to one of its outcomes.                              *)
LEMMA OutcomeType ==
    ASSUME NEW type \in Types, NEW m \in Packets
    PROVE  Outcome(type, m) \in Outcomes
<1>1. <<"done">> \in Outcomes /\ <<"failed">> \in Outcomes
  BY DEF Outcomes
<1>2. CASE type \in {"SET_FREQUENCY", "SET_POWER", "GET_STATUS", "KEEP_ALIVE",
                     "RAISE_ALARM", "CLEAR_ALARM"}
  BY <1>1, <1>2 DEF Outcome
<1>3. CASE type \in {"GET_FREQUENCY", "GET_POWER"}
  <2>1. CASE m.type = type /\ m.data # <<>>
    <3>1. Outcome(type, m) = <<"value", m.data[1]>>
      BY <1>3, <2>1 DEF Outcome
    <3>2. m.data[1] \in Values
      BY <1>3, <2>1, PacketData
    <3>3. QED
      BY <3>1, <3>2 DEF Outcomes
  <2>2. CASE ~(m.type = type /\ m.data # <<>>)
    BY <1>1, <1>3, <2>2 DEF Outcome
  <2>3. QED
    BY <2>1, <2>2
<1>4. CASE type = "GET_ALARMS"
  <2>1. CASE m.type = type
    <3>1. Outcome(type, m) = <<"alarms", ToSet(m.data)>>
      BY <1>4, <2>1 DEF Outcome
    <3>2. m.data \in {<<>>} \cup ReplyData("GET_ALARMS")
      BY <1>4, <2>1, PacketData
    <3>3. QED
      BY <3>1, <3>2 DEF Outcomes
  <2>2. CASE m.type # type
    BY <1>1, <1>4, <2>2 DEF Outcome
  <2>3. QED
    BY <2>1, <2>2
<1>5. QED
  BY <1>2, <1>3, <1>4 DEF Types

-----------------------------------------------------------------------------
(* TypeInv, part by part.                                                   *)

\* The types of what is not the transport's.
AppType ==
    /\ place \in [Procs -> Places]
    /\ asked \in [Clients -> [type : Types, byte : Values, id : Ids] \cup {NoRequest}]
    /\ told \in [Clients -> Outcomes]
    /\ frequency \in Values /\ power \in Values /\ alarms \subseteq Bytes
    /\ reply \in Replies \cup {NoPacket}
    /\ requests \in Ids
    /\ handled \in [1..MaxRequests -> 0..2]
    /\ used \subseteq Clients
    /\ trouble \subseteq {"second", "raced", "killed", "unlinked"}
    /\ ended \in [Procs -> {"none", "raced", "empty", "absent", "sigpipe", "killed", "left"}]
    /\ starts \in 0..MaxStarts /\ ends \in 0..MaxEnds

(* The parts of TypeInv.                                                    *)
LEMMA TypeInvParts ==
    /\ TypeInv <=> /\ TransportInv(Packets) /\ AppType
                   /\ PlaceTellsMode /\ CallsWellFormed /\ ServerReadsRequests
    /\ TypeInv' <=> /\ TransportInv(Packets)' /\ AppType'
                    /\ PlaceTellsMode' /\ CallsWellFormed' /\ ServerReadsRequests'
  BY DEF TypeInv, TypeOK, TransportInv, AppType, Packets

(* What TypeInv says of one process and its mode.                           *)
LEMMA ModeOf ==
    ASSUME TypeInv, NEW p \in Procs
    PROVE  /\ mode[p] = "closed" <=> place[p] \notin {"reading", "writing"}
           /\ IsReader(p) <=> place[p] = "reading"
           /\ IsWriter(p) <=> place[p] = "writing"
           /\ mode[p] # "closed" => fd[p] \in Nodes /\ fd[p] # None
           /\ mode[p] \in Modes
<1>1. mode[p] \in Modes
  BY DEF TypeInv, TypeOK, TransportType, Modes
<1>2. /\ IsReader(p) <=> place[p] = "reading"
      /\ IsWriter(p) <=> place[p] = "writing"
  BY DEF TypeInv, PlaceTellsMode
<1>3. mode[p] # "closed" => fd[p] \in Nodes /\ fd[p] # None
  BY NodesAssumption DEF TypeInv, NodesAreMade, Nodes, None
<1>4. QED
  BY <1>1, <1>2, <1>3, ModeIs

(* What a step of p leaves to show of the places.                           *)
LEMMA GoKeepsPlaces ==
    ASSUME TypeInv, NEW p \in Procs, NEW to \in Places, Go(p, to),
           \A q \in Procs \ {p} : Same(q),
           IsReader(p)' <=> to = "reading", IsWriter(p)' <=> to = "writing"
    PROVE  place' \in [Procs -> Places] /\ PlaceTellsMode'
<1>1. /\ place' \in [Procs -> Places] /\ place'[p] = to
      /\ \A q \in Procs \ {p} : place'[q] = place[q]
  BY DEF Go, TypeInv, TypeOK
<1>2. QED
  BY <1>1 DEF TypeInv, PlaceTellsMode, Same

(* ... and of the calls, if it does not begin one.                          *)
LEMMA GoKeepsCalls ==
    ASSUME TypeInv, NEW p \in Procs, NEW to \in Places, Go(p, to), UNCHANGED <<asked, reply>>,
           p \in Clients /\ to \in Calling => place[p] \in Calling,
           p = Server /\ to \in {"handled", "writing"} => place[p] \in {"handled", "writing"}
    PROVE  CallsWellFormed'
<1>1. place'[p] = to /\ \A q \in Procs \ {p} : place'[q] = place[q]
  BY DEF Go, TypeInv, TypeOK
<1>2. ASSUME NEW c \in Clients, place'[c] \in Calling
      PROVE  place[c] \in Calling
  BY <1>1, <1>2, ServerFacts
<1>3. place'[Server] \in {"handled", "writing"} => place[Server] \in {"handled", "writing"}
  BY <1>1, ServerFacts
<1>4. QED
  BY <1>2, <1>3 DEF TypeInv, CallsWellFormed

(* The server's pipe gets nothing, and who reads or writes another is told. *)
LEMMA InboundShrinks ==
    ASSUME TypeInv,
           \A n \in Nodes : data'[n] \in {data[n], <<>>},
           node'[ReadPipe[Server]] \in Nodes \cup {None},
           node'[ReadPipe[Server]] \in {Inbound, None} \/ data'[node'[ReadPipe[Server]]] = <<>>,
           got'[Server] \in {got[Server], <<>>},
           IsReader(Server)' =>
               \/ IsReader(Server) /\ fd'[Server] = fd[Server]
               \/ fd'[Server] = Inbound /\ Inbound # None,
           IsWriter(Server)' => fd'[Server] # node'[ReadPipe[Server]]
    PROVE  ServerReadsRequests'
<1>1. <<>> \in Some(Requests)
  BY SomeFacts
<1>2. Inbound \in Nodes \cup {None}
  BY ServerFacts DEF TypeInv, TypeOK, TransportType, Inbound
<1>3. IsReader(Server) => fd[Server] \in Nodes
  BY ModeOf, ServerFacts
<1>4. /\ Inbound # None => data[Inbound] \in Some(Requests)
      /\ got[Server] \in Some(Requests)
      /\ IsReader(Server) => data[fd[Server]] \in Some(Requests)
  BY DEF TypeInv, ServerReadsRequests
<1>5. Inbound' = node'[ReadPipe[Server]] /\ Some(Requests)' = Some(Requests) /\ None' = None
  BY DEF Inbound, Some, Requests, None
<1>6. Inbound' # None => data'[Inbound'] \in Some(Requests)
  BY <1>1, <1>2, <1>4, <1>5
<1>7. IsReader(Server)' => data'[fd'[Server]] \in Some(Requests)
  BY <1>1, <1>2, <1>3, <1>4
<1>8. QED
  BY <1>1, <1>4, <1>5, <1>6, <1>7 DEF ServerReadsRequests

(* As a writer the server keeps to another name's pipe.                     *)
LEMMA WritesElsewhere ==
    ASSUME TypeInv, IsWriter(Server), NEW n, n \in {Inbound, None} \/ n # fd[Server]
    PROVE  fd[Server] # n
  BY ModeOf, ServerFacts DEF TypeInv, ServerReadsRequests

-----------------------------------------------------------------------------
(* TypeInv is preserved, by each group of steps.                            *)

(* Steps that leave the transport alone.                                    *)
LEMMA IdleKeepsTypes ==
    ASSUME TypeInv, NEW p \in Procs, Start(p) \/ Find(p)
    PROVE  TypeInv'
<1>1. UNCHANGED <<files, io, asked, told, reply, requests, handled, ended, ends>>
  BY DEF Start, Find, history
<1>2. TransportInv(Packets)' /\ \A q \in Procs : Same(q)
  BY <1>1, TypeInvParts, TransportIdle
<1>3. PICK to \in Places \ ({"handled", "reading", "writing", "written"}) :
         Go(p, to) /\ place[p] \notin {"reading", "writing"}
  BY DEF Start, Find, At, After, Places, Constructing, Calling
<1>4. PlaceTellsMode' /\ place' \in [Procs -> Places]
  BY <1>2, <1>3, GoKeepsPlaces, ModeOf DEF Same
<1>5. CallsWellFormed'
  BY <1>1, <1>3, GoKeepsCalls DEF Calling
<1>6. ServerReadsRequests'
  BY <1>1 DEF files, io, TypeInv, ServerReadsRequests, Inbound, IsReader, IsWriter, Some,
     Requests, None
<1>7. AppType'
  <2>1. CASE Start(p)
    <3>1. starts' \in 0..MaxStarts
      BY <2>1, BoundsAssumption DEF Start, TypeInv, TypeOK
    <3>2. used' \subseteq Clients /\ trouble' \subseteq {"second", "raced", "killed", "unlinked"}
      BY <2>1 DEF Start, TypeInv, TypeOK
    <3>3. frequency' \in Values /\ power' \in Values /\ alarms' \subseteq Bytes
      BY <2>1 DEF Start, TypeInv, TypeOK, Values, device
    <3>4. QED
      BY <1>1, <1>4, <3>1, <3>2, <3>3, TypeInvParts DEF AppType
  <2>2. CASE Find(p)
    BY <1>4, <2>2, TypeInvParts DEF Find, AppType, history, device
  <2>3. QED
    BY <2>1, <2>2
<1>8. QED
  BY <1>2, <1>4, <1>5, <1>6, <1>7, TypeInvParts

(* A pipe is made.                                                          *)
LEMMA MakeKeepsTypes ==
    ASSUME TypeInv, NEW p \in Procs, Make(p)
    PROVE  TypeInv'
<1>1. /\ place[p] \in {"make1", "make2"} /\ Go(p, After(p)) /\ After(p) \in {"find2", "ready"}
      /\ Mkfifo(PipeOf(p)) /\ PipeOf(p) \in Names
      /\ UNCHANGED <<asked, told, device, reply, requests, handled, history>>
  BY ServerFacts DEF Make, After
<1>2. /\ TransportInv(Packets)' /\ UNCHANGED <<data, mode, fd, got>>
      /\ data[node'[PipeOf(p)]] = <<>>
      /\ \A q \in Procs : mode[q] # "closed" => fd[q] # node'[PipeOf(p)]
      /\ \A y \in Names \ {PipeOf(p)} : node'[y] = node[y]
  BY <1>1, MkfifoFacts, TypeInvParts DEF io
<1>3. \A q \in Procs : Same(q)
  BY <1>2 DEF Same, IsReader, IsWriter
<1>4. PlaceTellsMode' /\ place' \in [Procs -> Places]
  BY <1>1, <1>3, GoKeepsPlaces, ModeOf DEF Same, Places, Constructing
<1>5. CallsWellFormed'
  BY <1>1, GoKeepsCalls DEF Calling, Places, Constructing
<1>6. ServerReadsRequests'
  <2>1. node'[ReadPipe[Server]] \in Nodes \cup {None}
    BY <1>2, ServerFacts DEF TransportInv, TransportType, Nodes, Names, None
  <2>2. node'[ReadPipe[Server]] = Inbound \/ data'[node'[ReadPipe[Server]]] = <<>>
    BY <1>2, ServerFacts DEF Inbound
  <2>3. IsWriter(Server)' => fd'[Server] # node'[ReadPipe[Server]]
    <3>1. SUFFICES ASSUME IsWriter(Server) PROVE fd[Server] # node'[ReadPipe[Server]]
      BY <1>2, <1>3, ServerFacts DEF Same
    <3>2. mode[Server] # "closed"
      BY <3>1 DEF IsWriter
    <3>3. QED
      BY <1>2, <3>1, <3>2, ServerFacts, WritesElsewhere DEF Inbound
  <2>4. IsReader(Server)' => IsReader(Server) /\ fd'[Server] = fd[Server]
    BY <1>2, <1>3, ServerFacts DEF Same
  <2>5. QED
    BY <1>2, <2>1, <2>2, <2>3, <2>4, InboundShrinks
<1>7. AppType'
  BY <1>1, <1>4, TypeInvParts DEF AppType, history, device
<1>8. QED
  BY <1>2, <1>4, <1>5, <1>6, <1>7, TypeInvParts

(* A pipe is opened to read.                                                *)
LEMMA OpenReadKeepsTypes ==
    ASSUME TypeInv, NEW p \in Procs,
           (p \in Clients /\ Await(p)) \/ (p = Server /\ Listen)
    PROVE  TypeInv'
<1>1. /\ place[p] \in {"written", "ready"} /\ Go(p, "reading") /\ OpenRead(p)
      /\ p \in Clients => place[p] = "written"
      /\ UNCHANGED <<asked, told, device, reply, requests, handled, history>>
  BY ServerFacts DEF Await, Listen, At
<1>2. /\ TransportInv(Packets)' /\ UNCHANGED <<node, kind, data, got>>
      /\ fd'[p] = node[ReadPipe[p]] /\ fd'[p] \in Nodes
      /\ IsReader(p)' /\ ~IsWriter(p)'
      /\ \A q \in Procs \ {p} : Same(q)
  BY <1>1, ModeOf, OpenReadFacts, TypeInvParts
<1>3. PlaceTellsMode' /\ place' \in [Procs -> Places]
  BY <1>1, <1>2, GoKeepsPlaces DEF Places, Calling
<1>4. CallsWellFormed'
  BY <1>1, GoKeepsCalls, ServerFacts DEF Calling, Places
<1>5. ServerReadsRequests'
  <2>1. node'[ReadPipe[Server]] = Inbound /\ Inbound \in Nodes \cup {None}
    BY <1>2, ServerFacts DEF Inbound, TypeInv, TypeOK, TransportType
  <2>2. IsWriter(Server)' => fd'[Server] # node'[ReadPipe[Server]]
    BY <1>2, <2>1, ServerFacts, WritesElsewhere DEF Same
  <2>3. ASSUME IsReader(Server)'
        PROVE  \/ IsReader(Server) /\ fd'[Server] = fd[Server]
               \/ fd'[Server] = Inbound /\ Inbound # None
    <3>1. CASE p = Server
      BY <1>2, <3>1, NodesAssumption DEF Inbound, Nodes, None
    <3>2. CASE p # Server
      BY <1>2, <2>3, <3>2, ServerFacts DEF Same
    <3>3. QED
      BY <3>1, <3>2
  <2>4. QED
    BY <1>2, <2>1, <2>2, <2>3, InboundShrinks
<1>6. AppType'
  BY <1>1, <1>3, TypeInvParts DEF AppType, history, device
<1>7. QED
  BY <1>2, <1>3, <1>4, <1>5, <1>6, TypeInvParts

(* A client asks.                                                           *)
LEMMA AskedType ==
    ASSUME TypeInv, NEW c \in Clients, Ask(c)
    PROVE  /\ requests' = requests + 1 /\ requests' \in 1..MaxRequests
           /\ asked' \in [Clients -> [type : Types, byte : Values, id : Ids] \cup {NoRequest}]
           /\ asked'[c].type \in Types /\ asked'[c].id = requests'
           /\ asked'[c].type \in Valued => asked'[c].byte \in Bytes
           /\ \A d \in Clients \ {c} : asked'[d] = asked[d]
<1>1. PICK type \in Commands, byte \in Values :
         /\ type \in Valued => byte \in Bytes
         /\ asked' = [asked EXCEPT ![c] = [type |-> type, byte |-> byte, id |-> requests']]
  BY DEF Ask, Values
<1>2. type \in Types /\ byte \in Values /\ (type \in Valued => byte \in Bytes)
  BY <1>1, CommandsAssumption
<1>3. requests' = requests + 1 /\ requests' \in 1..MaxRequests /\ requests' \in Ids
  BY BoundsAssumption DEF Ask, TypeInv, TypeOK, Ids
<1>4. asked \in [Clients -> [type : Types, byte : Values, id : Ids] \cup {NoRequest}]
  BY DEF TypeInv, TypeOK
<1>5. [type |-> type, byte |-> byte, id |-> requests'] \in [type : Types, byte : Values, id : Ids]
  BY <1>2, <1>3
<1>6. QED
  BY <1>1, <1>2, <1>3, <1>4, <1>5

(* A pipe is opened to write.                                               *)
LEMMA OpenWriteKeepsTypes ==
    ASSUME TypeInv, NEW p \in Procs,
           (p \in Clients /\ Ask(p)) \/ (p = Server /\ Respond)
    PROVE  TypeInv'
<1>1. /\ place[p] \in {"ready", "handled"} /\ Go(p, "writing") /\ OpenWrite(p)
      /\ p = Server => place[p] = "handled"
      /\ UNCHANGED <<told, device, reply, handled, history>>
  BY ServerFacts DEF Ask, Respond, At
<1>2. /\ TransportInv(Packets)' /\ got' = got
      /\ fd'[p] = node'[WritePipe[p]] /\ fd'[p] \in Nodes
      /\ node[WritePipe[p]] # None => UNCHANGED <<node, kind>>
      /\ node[WritePipe[p]] = None => kind[fd'[p]] = "none"
      /\ \A y \in Names \ {WritePipe[p]} : node'[y] = node[y]
      /\ \A m \in Nodes : data'[m] = data[m] \/ (IsFile(m) /\ data'[m] = <<>>)
      /\ IsWriter(p)' /\ ~IsReader(p)'
      /\ \A q \in Procs \ {p} : Same(q)
  BY <1>1, ModeOf, OpenWriteFacts, TypeInvParts
<1>3. PlaceTellsMode' /\ place' \in [Procs -> Places]
  BY <1>1, <1>2, GoKeepsPlaces DEF Places, Calling
<1>4. place'[p] = "writing" /\ \A q \in Procs \ {p} : place'[q] = place[q]
  BY <1>1 DEF Go, TypeInv, TypeOK
<1>5. /\ requests' \in Ids /\ CallsWellFormed'
      /\ asked' \in [Clients -> [type : Types, byte : Values, id : Ids] \cup {NoRequest}]
  <2>1. CASE p \in Clients /\ Ask(p)
    <3>1. /\ requests' \in 1..MaxRequests
          /\ asked' \in [Clients -> [type : Types, byte : Values, id : Ids] \cup {NoRequest}]
          /\ asked'[p].type \in Types
          /\ asked'[p].type \in Valued => asked'[p].byte \in Bytes
          /\ \A d \in Clients \ {p} : asked'[d] = asked[d]
      BY <2>1, AskedType
    <3>2. requests' \in Ids
      BY <3>1, BoundsAssumption DEF Ids
    <3>3. CallsWellFormed'
      BY <1>1, <1>4, <2>1, <3>1, ServerFacts DEF TypeInv, CallsWellFormed
    <3>4. QED
      BY <3>1, <3>2, <3>3
  <2>2. CASE p = Server /\ Respond
    <3>1. UNCHANGED <<asked, requests, reply>>
      BY <2>2 DEF Respond
    <3>2. CallsWellFormed'
      BY <1>1, <2>2, <3>1, GoKeepsCalls, ServerFacts DEF Places, Calling
    <3>3. QED
      BY <3>1, <3>2 DEF TypeInv, TypeOK
  <2>3. QED
    BY <2>1, <2>2
<1>6. ServerReadsRequests'
  <2>1. node'[ReadPipe[Server]] \in Nodes \cup {None}
    BY <1>2, ServerFacts DEF TransportInv, TransportType, Nodes, Names, None
  <2>2. node'[ReadPipe[Server]] = Inbound \/
           (ReadPipe[Server] = WritePipe[p] /\ node'[ReadPipe[Server]] = fd'[p] /\ kind[fd'[p]] = "none")
    BY <1>2, ServerFacts DEF Inbound
  <2>3. kind[fd'[p]] = "none" => data'[fd'[p]] = <<>>
    BY <1>2 DEF TypeInv, NodesAreMade
  <2>4. ASSUME IsWriter(Server)'
        PROVE  fd'[Server] # node'[ReadPipe[Server]]
    <3>1. CASE p = Server
      <4>1. fd'[p] # None
        BY <1>2, NodesAssumption DEF Nodes, None
      <4>2. \A x, y \in Names : node'[x] = node'[y] /\ node'[x] # None => x = y
        BY <1>2 DEF TransportInv, NodesAreMade, Names, None
      <4>3. QED
        BY <1>2, <3>1, <4>1, <4>2, ServerFacts, WiringAssumption
    <3>2. CASE p # Server
      <4>1. IsWriter(Server) /\ fd'[Server] = fd[Server]
        BY <1>2, <2>4, <3>2, ServerFacts DEF Same
      <4>2. kind[fd[Server]] # "none"
        BY <4>1, ServerFacts DEF IsWriter, TypeInv, NodesAreMade
      <4>3. QED
        BY <2>2, <4>1, <4>2, WritesElsewhere
    <3>3. QED
      BY <3>1, <3>2
  <2>5. IsReader(Server)' => IsReader(Server) /\ fd'[Server] = fd[Server]
    BY <1>2, ServerFacts DEF Same
  <2>6. QED
    BY <1>2, <2>1, <2>2, <2>3, <2>4, <2>5, InboundShrinks
<1>7. AppType'
  BY <1>1, <1>3, <1>5, TypeInvParts DEF AppType, history, device
<1>8. QED
  BY <1>2, <1>3, <1>5, <1>6, <1>7, TypeInvParts

(* A packet is written.                                                     *)
LEMMA WriteKeepsTypes ==
    ASSUME TypeInv, NEW p \in Procs,
           (p \in Clients /\ Send(p)) \/ (p = Server /\ Responded)
    PROVE  TypeInv'
<1>1. /\ place[p] = "writing"
      /\ UNCHANGED <<asked, told, device, reply, requests, handled, history>>
  BY DEF Send, Responded, At
<1>2. PICK packet \in Packets, to \in {"written", "ready"} :
         /\ WriteAndClose(p, packet) /\ Go(p, to)
         /\ p \in Clients => packet \in Requests
         /\ p = Server => to = "ready"
  <2>1. CASE p \in Clients /\ Send(p)
    <3>1. WriteAndClose(p, RequestOf(p)) /\ Go(p, "written")
      BY <2>1 DEF Send, AfterSending
    <3>2. RequestOf(p) \in Requests
      BY <1>1, <2>1, RequestOfType DEF Calling
    <3>3. QED
      BY <2>1, <3>1, <3>2, ServerFacts DEF Packets
  <2>2. CASE p = Server /\ Responded
    <3>1. WriteAndClose(p, reply) /\ Go(p, "ready")
      BY <2>2 DEF Responded
    <3>2. reply \in Replies
      BY <1>1, <2>2 DEF TypeInv, CallsWellFormed
    <3>3. QED
      BY <2>2, <3>1, <3>2, ServerFacts DEF Packets
  <2>3. QED
    BY <2>1, <2>2
<1>3. /\ TransportInv(Packets)' /\ UNCHANGED <<node, kind, got>>
      /\ fd[p] \in Nodes /\ IsWriter(p) /\ ~IsReader(p)' /\ ~IsWriter(p)'
      /\ data'[fd[p]] = <<packet>> \/ data'[fd[p]] = data[fd[p]]
      /\ \A n \in Nodes \ {fd[p]} : data'[n] = data[n]
      /\ \A q \in Procs \ {p} : Same(q)
  BY <1>2, WriteFacts, TypeInvParts
<1>4. PlaceTellsMode' /\ place' \in [Procs -> Places]
  BY <1>2, <1>3, GoKeepsPlaces DEF Places, Calling
<1>5. CallsWellFormed'
  BY <1>1, <1>2, GoKeepsCalls DEF Calling, Places
<1>6. ServerReadsRequests'
  <2>1. /\ Inbound # None => data[Inbound] \in Some(Requests)
        /\ got[Server] \in Some(Requests)
        /\ IsReader(Server) => data[fd[Server]] \in Some(Requests)
        /\ IsWriter(Server) => fd[Server] # Inbound
    BY DEF TypeInv, ServerReadsRequests
  <2>2. /\ Inbound' = Inbound /\ Inbound \in Nodes \cup {None}
        /\ Some(Requests)' = Some(Requests) /\ None' = None
    BY <1>3, ServerFacts DEF Inbound, Some, Requests, None, TypeInv, TypeOK, TransportType
  <2>3. CASE p = Server
    BY <1>3, <2>1, <2>2, <2>3 DEF ServerReadsRequests
  <2>4. CASE p # Server
    <3>1. <<packet>> \in Some(Requests)
      BY <1>2, <2>4, ServerFacts, SomeFacts
    <3>2. Inbound # None => data'[Inbound] \in Some(Requests)
      BY <1>3, <2>1, <2>2, <3>1
    <3>3. Same(Server) /\ (IsReader(Server) => fd[Server] \in Nodes)
      BY <1>3, <2>4, ServerFacts, ModeOf
    <3>4. IsReader(Server)' => data'[fd'[Server]] \in Some(Requests)
      BY <1>3, <2>1, <3>1, <3>3 DEF Same
    <3>5. IsWriter(Server)' => fd'[Server] # Inbound
      BY <2>1, <3>3 DEF Same
    <3>6. QED
      BY <1>3, <2>1, <2>2, <3>2, <3>4, <3>5 DEF ServerReadsRequests
  <2>5. QED
    BY <2>3, <2>4
<1>7. AppType'
  BY <1>1, <1>4, TypeInvParts DEF AppType, history, device
<1>8. QED
  BY <1>3, <1>4, <1>5, <1>6, <1>7, TypeInvParts

(* A packet is taken.                                                       *)
LEMMA TakeKeepsTypes ==
    ASSUME TypeInv, NEW p \in Procs, TakePackets(p)
    PROVE  TypeInv'
<1>1. Take(p) /\ UNCHANGED <<place, asked, told, device, reply, requests, handled, history>>
  BY DEF TakePackets
<1>2. /\ TransportInv(Packets)' /\ UNCHANGED <<node, kind, mode, fd>>
      /\ fd[p] \in Nodes /\ IsReader(p)
      /\ got'[p] \in {got[p], data[fd[p]]}
      /\ data'[fd[p]] = <<>>
      /\ \A n \in Nodes \ {fd[p]} : data'[n] = data[n]
      /\ \A q \in Procs \ {p} : got'[q] = got[q]
  BY <1>1, TakeFacts, TypeInvParts
<1>3. PlaceTellsMode'
  BY <1>1, <1>2 DEF TypeInv, PlaceTellsMode, IsReader, IsWriter
<1>4. CallsWellFormed'
  BY <1>1 DEF TypeInv, CallsWellFormed
<1>5. ServerReadsRequests'
  <2>1. /\ Inbound # None => data[Inbound] \in Some(Requests)
        /\ got[Server] \in Some(Requests)
        /\ IsReader(Server) => data[fd[Server]] \in Some(Requests)
        /\ IsWriter(Server) => fd[Server] # Inbound
    BY DEF TypeInv, ServerReadsRequests
  <2>2. /\ Inbound' = Inbound /\ Inbound \in Nodes \cup {None}
        /\ Some(Requests)' = Some(Requests) /\ None' = None
        /\ (IsReader(Server)' <=> IsReader(Server)) /\ (IsWriter(Server)' <=> IsWriter(Server))
    BY <1>2, ServerFacts DEF Inbound, Some, Requests, None, TypeInv, TypeOK, TransportType,
       IsReader, IsWriter
  <2>3. got'[Server] \in Some(Requests)
    BY <1>2, <2>1, ServerFacts
  <2>4. \A n \in Nodes : data[n] \in Some(Requests) => data'[n] \in Some(Requests)
    BY <1>2, SomeFacts
  <2>5. IsReader(Server) => fd[Server] \in Nodes
    BY ServerFacts, ModeOf
  <2>6. QED
    BY <1>2, <2>1, <2>2, <2>3, <2>4, <2>5 DEF ServerReadsRequests
<1>6. AppType'
  BY <1>1, TypeInvParts DEF AppType, history, device
<1>7. QED
  BY <1>2, <1>3, <1>4, <1>5, <1>6, TypeInvParts

(* What has arrived at the end of a read are packets, and at the server     *)
(* requests.                                                                *)
LEMMA ArrivedType ==
    ASSUME TypeInv, NEW p \in Procs, place[p] = "reading"
    PROVE  /\ Arrived(p) # <<>> => Head(Arrived(p)) \in Packets /\ Arrived(p) = <<Head(Arrived(p))>>
           /\ p = Server /\ Arrived(p) # <<>> => Head(Arrived(p)) \in Requests
<1>1. IsReader(p) /\ fd[p] \in Nodes
  BY ModeOf DEF IsReader
<1>2. Arrived(p) \in Some(Packets)
  BY <1>1 DEF Arrived, TypeInv, TypeOK, TransportType, Packets
<1>3. p = Server => Arrived(p) \in Some(Requests)
  BY <1>1 DEF Arrived, TypeInv, ServerReadsRequests
<1>4. QED
  BY <1>2, <1>3, SomeFacts

(* A reader has come to the end.                                            *)
LEMMA CloseReadKeepsTypes ==
    ASSUME TypeInv, NEW p \in Procs,
           (p \in Clients /\ Understand(p)) \/ (p = Server /\ (Handle \/ EmptyRequest))
    PROVE  TypeInv'
<1>1. PICK to \in {"ready", "handled"} :
         /\ CloseRead(p) /\ Go(p, to) /\ place[p] = "reading"
         /\ to = "handled" => p = Server /\ Handle
         /\ UNCHANGED <<asked, requests, history>>
  BY ServerFacts DEF Understand, Handle, EmptyRequest, At, AfterHandling
<1>2. /\ TransportInv(Packets)' /\ UNCHANGED <<node, kind, data>>
      /\ ~IsReader(p)' /\ ~IsWriter(p)' /\ got'[p] = <<>>
      /\ \A q \in Procs \ {p} : got'[q] = got[q] /\ Same(q)
  BY <1>1, CloseReadFacts, TypeInvParts
<1>3. PlaceTellsMode' /\ place' \in [Procs -> Places]
  BY <1>1, <1>2, GoKeepsPlaces DEF Places
<1>4. ServerReadsRequests'
  <2>1. node'[ReadPipe[Server]] = Inbound /\ Inbound \in Nodes \cup {None}
    BY <1>2, ServerFacts DEF Inbound, TypeInv, TypeOK, TransportType
  <2>2. IsWriter(Server)' => fd'[Server] # node'[ReadPipe[Server]]
    BY <1>2, <2>1, ServerFacts, WritesElsewhere DEF Same
  <2>3. IsReader(Server)' => IsReader(Server) /\ fd'[Server] = fd[Server]
    BY <1>2, ServerFacts DEF Same
  <2>4. got'[Server] \in {got[Server], <<>>}
    BY <1>2, ServerFacts
  <2>5. QED
    BY <1>2, <2>1, <2>2, <2>3, <2>4, InboundShrinks
<1>5. CASE p \in Clients /\ Understand(p)
  <2>1. UNCHANGED <<reply, device, handled>> /\ Arrived(p) # <<>> /\ to = "ready"
        /\ told' = [told EXCEPT ![p] = Outcome(asked[p].type, Head(Arrived(p)))]
    BY <1>1, <1>5, ServerFacts DEF Understand
  <2>2. asked[p].type \in Types /\ Head(Arrived(p)) \in Packets
    BY <1>1, <1>5, <2>1, ArrivedType DEF TypeInv, CallsWellFormed, Calling
  <2>3. told' \in [Clients -> Outcomes]
    BY <2>1, <2>2, OutcomeType, TypeInvParts DEF AppType
  <2>4. AppType'
    BY <1>1, <1>3, <2>1, <2>3, TypeInvParts DEF AppType, history, device
  <2>5. CallsWellFormed'
    BY <1>1, <2>1, GoKeepsCalls DEF Calling, Places
  <2>6. QED
    BY <1>2, <1>3, <1>4, <2>4, <2>5, TypeInvParts
<1>6. CASE p = Server /\ Handle
  <2> DEFINE m == Head(Arrived(Server))
  <2>1. /\ frequency' = IF Sets(m) THEN m.data[1] ELSE frequency
        /\ power' = IF m.type = "SET_POWER" /\ m.data # <<>> THEN m.data[1] ELSE power
        /\ alarms' = IF m.type = "RAISE_ALARM" THEN alarms \cup ToSet(m.data)
                     ELSE IF m.type = "CLEAR_ALARM" THEN alarms \ ToSet(m.data) ELSE alarms
        /\ reply' = Answer(m)
        /\ handled' = [handled EXCEPT ![m.id] = IF @ = 2 THEN 2 ELSE @ + 1]
        /\ told' = told
    BY <1>6 DEF Handle
  <2>2. m \in Requests
    BY <1>1, <1>6, ArrivedType DEF Handle
  <2> HIDE DEF m
  <2>3. m.data = <<>> \/ (m.data # <<>> /\ m.data[1] \in Bytes /\ m.data = <<m.data[1]>>)
    BY <2>2, RequestFields
  <2>4. ToSet(m.data) \subseteq Bytes
    BY <2>3 DEF ToSet
  <2>5. frequency' \in Values /\ power' \in Values /\ alarms' \subseteq Bytes
    BY <2>1, <2>3, <2>4, TypeInvParts DEF AppType, Sets, Values
  <2>6. reply' \in Replies
    BY <2>1, <2>2, AnswerType DEF TypeInv
  <2>7. handled' \in [1..MaxRequests -> 0..2]
    <3>1. handled \in [1..MaxRequests -> 0..2]
      BY TypeInvParts DEF AppType
    <3>2. \A k \in 0..2 : (IF k = 2 THEN 2 ELSE k + 1) \in 0..2
      OBVIOUS
    <3>3. DOMAIN handled' = 1..MaxRequests /\ \A i \in 1..MaxRequests : handled'[i] \in 0..2
      BY <2>1, <3>1, <3>2
    <3>4. QED
      BY <2>1, <3>1, <3>3
  <2>8. AppType'
    BY <1>1, <1>3, <2>1, <2>5, <2>6, <2>7, TypeInvParts DEF AppType, history
  <2>9. CallsWellFormed'
    <3>1. \A c \in Clients : place'[c] = place[c] /\ asked'[c] = asked[c]
      BY <1>1, <1>6, ServerFacts DEF Go, TypeInv, TypeOK
    <3>2. QED
      BY <2>6, <3>1 DEF TypeInv, CallsWellFormed
  <2>10. QED
    BY <1>2, <1>3, <1>4, <2>8, <2>9, TypeInvParts
<1>7. CASE p = Server /\ EmptyRequest
  <2>1. UNCHANGED <<told, reply, device, handled>>
    BY <1>7 DEF EmptyRequest
  <2>2. Go(p, "ready")
    BY <1>7 DEF EmptyRequest
  <2>3. AppType'
    BY <1>1, <1>3, <2>1, TypeInvParts DEF AppType, history, device
  <2>4. CallsWellFormed'
    BY <1>1, <2>1, <2>2, GoKeepsCalls DEF Calling, Places
  <2>5. QED
    BY <1>2, <1>3, <1>4, <2>3, <2>4, TypeInvParts
<1>8. QED
  BY <1>5, <1>6, <1>7

\* The steps by which a process ends, other than by leaving.
Ends(p) == Kill(p) \/ MakeFails(p) \/ SigPipe(p) \/ (p \in Clients /\ CallThrows(p))

(* Why a process ends, and what it takes along.                             *)
LEMMA EndFacts ==
    ASSUME TypeInv, NEW p \in Procs, Ends(p)
    PROVE  \E why \in {"raced", "empty", "absent", "sigpipe", "killed"} :
             /\ End(p, why)
             /\ why = "killed" => trouble' = trouble \cup {"killed"}
             /\ why = "raced" => trouble' = trouble \cup {"raced"} /\ place[p] \in {"make1", "make2"}
             /\ why \notin {"killed", "raced"} => trouble' = trouble
             /\ why = "absent" => place[p] = "written" /\ node[ReadPipe[p]] = None
             /\ why = "empty" => place[p] = "reading" /\ AtEof(p) /\ Arrived(p) = <<>>
             /\ why = "sigpipe" => Broken(p)
             /\ ends' \in 0..MaxEnds
<1>1. ends \in 0..MaxEnds
  BY DEF TypeInv, TypeOK
<1>2. CASE Kill(p)
  BY <1>1, <1>2, BoundsAssumption DEF Kill
<1>3. CASE MakeFails(p)
  BY <1>1, <1>3 DEF MakeFails
<1>4. CASE SigPipe(p)
  BY <1>1, <1>4 DEF SigPipe
<1>5. CASE p \in Clients /\ CallThrows(p)
  BY <1>1, <1>5 DEF CallThrows, At, CanOpenRead
<1>6. QED
  BY <1>2, <1>3, <1>4, <1>5 DEF Ends

(* A process ends.                                                          *)
LEMMA EndKeepsTypes ==
    ASSUME TypeInv, NEW p \in Procs, Ends(p)
    PROVE  TypeInv'
<1>1. PICK why \in {"raced", "empty", "absent", "sigpipe", "killed"} :
         /\ End(p, why) /\ ends' \in 0..MaxEnds
         /\ trouble' \subseteq {"second", "raced", "killed", "unlinked"}
  <2>1. trouble \subseteq {"second", "raced", "killed", "unlinked"}
    BY DEF TypeInv, TypeOK
  <2>2. PICK why \in {"raced", "empty", "absent", "sigpipe", "killed"} :
           /\ End(p, why) /\ ends' \in 0..MaxEnds
           /\ why = "killed" => trouble' = trouble \cup {"killed"}
           /\ why = "raced" => trouble' = trouble \cup {"raced"}
           /\ why \notin {"killed", "raced"} => trouble' = trouble
    BY EndFacts
  <2>3. QED
    BY <2>1, <2>2
<1>2. /\ Release(p) /\ Go(p, "down") /\ ended' = [ended EXCEPT ![p] = why]
      /\ UNCHANGED <<asked, told, device, reply, requests, handled, used, starts>>
  BY <1>1 DEF End
<1>3. /\ TransportInv(Packets)' /\ UNCHANGED <<node, kind>>
      /\ ~IsReader(p)' /\ ~IsWriter(p)' /\ got'[p] = <<>>
      /\ \A q \in Procs \ {p} : got'[q] = got[q] /\ Same(q)
      /\ \A n \in Nodes : data'[n] \in {data[n], <<>>}
  BY <1>2, ReleaseFacts, TypeInvParts
<1>4. PlaceTellsMode' /\ place' \in [Procs -> Places]
  BY <1>2, <1>3, GoKeepsPlaces DEF Places
<1>5. CallsWellFormed'
  BY <1>2, GoKeepsCalls DEF Calling, Places
<1>6. ServerReadsRequests'
  <2>1. node'[ReadPipe[Server]] = Inbound /\ Inbound \in Nodes \cup {None}
    BY <1>3, ServerFacts DEF Inbound, TypeInv, TypeOK, TransportType
  <2>2. IsWriter(Server)' => fd'[Server] # node'[ReadPipe[Server]]
    BY <1>3, <2>1, ServerFacts, WritesElsewhere DEF Same
  <2>3. IsReader(Server)' => IsReader(Server) /\ fd'[Server] = fd[Server]
    BY <1>3, ServerFacts DEF Same
  <2>4. got'[Server] \in {got[Server], <<>>}
    BY <1>3, ServerFacts
  <2>5. QED
    BY <1>3, <2>1, <2>2, <2>3, <2>4, InboundShrinks
<1>7. ended' \in [Procs -> {"none", "raced", "empty", "absent", "sigpipe", "killed", "left"}]
  BY <1>2 DEF TypeInv, TypeOK
<1>8. AppType'
  BY <1>1, <1>2, <1>4, <1>7, TypeInvParts DEF AppType, device
<1>9. QED
  BY <1>3, <1>4, <1>5, <1>6, <1>8, TypeInvParts

(* A client leaves, and unlinks both names.                                 *)
LEMMA LeavingKeepsTypes ==
    ASSUME TypeInv, NEW p \in Clients, Leave(p) \/ Left(p)
    PROVE  TypeInv'
<1>1. PICK x \in Names, to \in {"unlinking", "down"} :
         /\ Unlink(x) /\ Go(p, to) /\ place[p] \in {"ready", "unlinking"}
         /\ UNCHANGED <<asked, told, device, reply, requests, handled, used, starts>>
  BY ServerFacts, PipesAreNames DEF Leave, Left, At
<1>2. /\ TransportInv(Packets)' /\ UNCHANGED <<kind, data, mode, fd, got>>
      /\ node'[x] = None /\ \A y \in Names \ {x} : node'[y] = node[y]
  BY <1>1, UnlinkFacts, TypeInvParts DEF io
<1>3. \A q \in Procs : Same(q)
  BY <1>2 DEF Same, IsReader, IsWriter
<1>4. PlaceTellsMode' /\ place' \in [Procs -> Places]
  BY <1>1, <1>3, GoKeepsPlaces, ModeOf, ServerFacts DEF Same, Places
<1>5. CallsWellFormed'
  BY <1>1, GoKeepsCalls, ServerFacts DEF Calling, Places
<1>6. ServerReadsRequests'
  <2>1. node'[ReadPipe[Server]] \in {Inbound, None} /\ Inbound \in Nodes \cup {None}
    BY <1>2, ServerFacts DEF Inbound, TypeInv, TypeOK, TransportType
  <2>2. IsWriter(Server)' => fd'[Server] # node'[ReadPipe[Server]]
    BY <1>3, <2>1, ServerFacts, WritesElsewhere DEF Same
  <2>3. IsReader(Server)' => IsReader(Server) /\ fd'[Server] = fd[Server]
    BY <1>3, ServerFacts DEF Same
  <2>4. QED
    BY <1>2, <2>1, <2>2, <2>3, InboundShrinks
<1>7. /\ ended' \in [Procs -> {"none", "raced", "empty", "absent", "sigpipe", "killed", "left"}]
      /\ trouble' \subseteq {"second", "raced", "killed", "unlinked"}
      /\ ends' \in 0..MaxEnds
  <2>1. /\ ended \in [Procs -> {"none", "raced", "empty", "absent", "sigpipe", "killed", "left"}]
        /\ trouble \subseteq {"second", "raced", "killed", "unlinked"}
        /\ ends \in 0..MaxEnds
    BY DEF TypeInv, TypeOK
  <2>2. CASE Leave(p)
    BY <2>1, <2>2, BoundsAssumption DEF Leave
  <2>3. CASE Left(p)
    BY <2>1, <2>3 DEF Left
  <2>4. QED
    BY <2>2, <2>3
<1>8. AppType'
  BY <1>1, <1>4, <1>7, TypeInvParts DEF AppType, device
<1>9. QED
  BY <1>2, <1>4, <1>5, <1>6, <1>8, TypeInvParts

-----------------------------------------------------------------------------
(* The steps of the whole system, in these groups.                          *)
LEMMA StepsAre ==
    ASSUME Next
    PROVE  \E p \in Procs :
             \/ Start(p) \/ Find(p)
             \/ Make(p)
             \/ (p \in Clients /\ Await(p)) \/ (p = Server /\ Listen)
             \/ (p \in Clients /\ Ask(p)) \/ (p = Server /\ Respond)
             \/ (p \in Clients /\ Send(p)) \/ (p = Server /\ Responded)
             \/ TakePackets(p)
             \/ (p \in Clients /\ Understand(p)) \/ (p = Server /\ (Handle \/ EmptyRequest))
             \/ Ends(p)
             \/ (p \in Clients /\ (Leave(p) \/ Left(p)))
<1>1. CASE \E p \in Procs : Start(p) \/ Kill(p) \/ Runs(p)
  BY <1>1 DEF Runs, ClientStep, ServerStep, Ends
<1>2. CASE \E c \in Clients : Ask(c) \/ Leave(c)
  BY <1>2, ServerFacts
<1>3. QED
  BY <1>1, <1>2 DEF Next

(* TypeInv is inductive.                                                    *)
LEMMA NextKeepsTypes ==
    ASSUME TypeInv, [Next]_vars
    PROVE  TypeInv'
<1>1. CASE UNCHANGED vars
  <2>1. UNCHANGED <<files, io, place, asked, told, device, reply, requests, handled, history>>
    BY <1>1 DEF vars
  <2>2. TransportInv(Packets)' /\ \A q \in Procs : Same(q)
    BY <2>1, TypeInvParts, TransportIdle
  <2>3. PlaceTellsMode' /\ CallsWellFormed'
    BY <2>1, <2>2 DEF TypeInv, PlaceTellsMode, CallsWellFormed, Same
  <2>4. ServerReadsRequests'
    BY <2>1 DEF files, io, TypeInv, ServerReadsRequests, Inbound, IsReader, IsWriter, Some,
       Requests, None
  <2>5. AppType'
    BY <2>1, TypeInvParts DEF AppType, device, history
  <2>6. QED
    BY <2>2, <2>3, <2>4, <2>5, TypeInvParts
<1>2. CASE Next
  BY <1>2, StepsAre, IdleKeepsTypes, MakeKeepsTypes, OpenReadKeepsTypes, OpenWriteKeepsTypes,
     WriteKeepsTypes, TakeKeepsTypes, CloseReadKeepsTypes, EndKeepsTypes, LeavingKeepsTypes
<1>3. QED
  BY <1>1, <1>2

(* It holds at first.                                                       *)
LEMMA InitGivesTypes ==
    ASSUME Init
    PROVE  TypeInv
<1>1. TransportInv(Packets)
  BY TransportStarts DEF Init
<1>2. AppType
  BY BoundsAssumption DEF Init, AppType, Places, Outcomes, Values, Ids
<1>3. PlaceTellsMode /\ CallsWellFormed /\ ServerReadsRequests
  BY ServerFacts, SomeFacts DEF Init, TransportInit, PlaceTellsMode, CallsWellFormed,
     ServerReadsRequests, IsReader, IsWriter, Inbound, Calling
<1>4. QED
  BY <1>1, <1>2, <1>3, TypeInvParts

(* Type correctness: whatever is in a pipe is a request or an answer, the   *)
(* server only ever reads requests, and every call of a client comes to one *)
(* of the outcomes that its type allows.                                    *)
THEOREM TypeCorrect == Spec => []TypeOK
<1>1. Init => TypeInv
  BY InitGivesTypes
<1>2. TypeInv /\ [Next]_vars => TypeInv'
  BY NextKeepsTypes
<1>3. TypeInv => TypeOK
  BY DEF TypeInv
<1>4. QED
  BY <1>1, <1>2, <1>3, PTL DEF Spec

-----------------------------------------------------------------------------
(* Pipes stay under their names.                                            *)

\* No name is lost, and none becomes a file.
NamesStay ==
    /\ \A x \in Names : node[x] # None => node'[x] = node[x]
    /\ \A n \in Nodes : kind'[n] = "file" => kind[n] = "file"

(* As long as names stay, who has its pipes keeps them.                     *)
LEMMA StayingKeepsPipes ==
    ASSUME PipesInv, NEW p \in Procs, NEW to \in Places \ {"unlinking"}, Go(p, to),
           trouble \subseteq trouble',
           \A q \in Procs \ {p} : Same(q),
           "unlinked" \notin trouble =>
               /\ NamesStay
               /\ to \notin {"down", "find1", "make1"} => node'[ReadPipe[p]] # None
               /\ to \notin {"down"} \cup Constructing => node'[WritePipe[p]] # None
               /\ IsReader(p)' => fd'[p] = node'[ReadPipe[p]]
    PROVE  PipesThere' /\ FilesOnlyAfterUnlink'
<1>1. place'[p] = to /\ \A q \in Procs \ {p} : place'[q] = place[q]
  BY DEF Go, PipesInv, TypeInv, TypeOK
<1>2. FilesOnlyAfterUnlink'
  BY DEF PipesInv, FilesOnlyAfterUnlink, NamesStay, IsFile, Nodes
<1>3. \A q \in Procs : place'[q] = "unlinking" => "unlinked" \in trouble'
  BY <1>1 DEF PipesInv, PipesThere
<1>4. ASSUME "unlinked" \notin trouble', NEW q \in Procs \ {p}
      PROVE  /\ place'[q] \notin {"down", "find1", "make1"} => node'[ReadPipe[q]] # None
             /\ place'[q] \notin {"down"} \cup Constructing => node'[WritePipe[q]] # None
             /\ IsReader(q)' => fd'[q] = node'[ReadPipe[q]]
  <2>1. /\ place[q] \notin {"down", "find1", "make1"} => node[ReadPipe[q]] # None
        /\ place[q] \notin {"down"} \cup Constructing => node[WritePipe[q]] # None
        /\ IsReader(q) => fd[q] = node[ReadPipe[q]]
    BY <1>4 DEF PipesInv, PipesThere
  <2>2. /\ node[ReadPipe[q]] # None => node'[ReadPipe[q]] = node[ReadPipe[q]]
        /\ node[WritePipe[q]] # None => node'[WritePipe[q]] = node[WritePipe[q]]
    BY <1>4, PipesAreNames DEF NamesStay
  <2>3. IsReader(q)' => IsReader(q) /\ place[q] = "reading" /\ fd'[q] = fd[q]
    BY ModeOf DEF Same, PipesInv
  <2>4. QED
    BY <1>1, <2>1, <2>2, <2>3
<1>5. PipesThere'
  BY <1>1, <1>3, <1>4 DEF PipesThere, Constructing, None
<1>6. QED
  BY <1>2, <1>5

(* What a process inside its constructor has found.                         *)
LEMMA FoundPipes ==
    ASSUME PipesInv, NEW p \in Procs, "unlinked" \notin trouble
    PROVE  /\ place[p] \notin {"down", "find1", "make1"} => node[ReadPipe[p]] # None
           /\ place[p] \in {"ready", "handled"} \cup Calling => node[WritePipe[p]] # None
  BY DEF PipesInv, PipesThere, Calling, Constructing

(* Steps of a constructor.                                                  *)
LEMMA ConstructionKeepsPipes ==
    ASSUME PipesInv, NEW p \in Procs, Start(p) \/ Find(p) \/ Make(p)
    PROVE  PipesThere' /\ FilesOnlyAfterUnlink'
<1>1. CASE Start(p)
  <2>1. Go(p, "find1") /\ UNCHANGED <<node, kind, mode, fd>> /\ trouble \subseteq trouble'
    BY <1>1 DEF Start, files, io
  <2>2. NamesStay /\ \A q \in Procs : Same(q)
    BY <2>1 DEF NamesStay, Same, IsReader, IsWriter
  <2>3. ~IsReader(p)'
    BY <1>1, <2>2, ModeOf DEF Start, At, Same, PipesInv
  <2>4. QED
    BY <2>1, <2>2, <2>3, StayingKeepsPipes DEF Places, Constructing
<1>2. CASE Find(p)
  <2>1. /\ Go(p, IF node[PipeOf(p)] # None THEN After(p)
                 ELSE IF At(p, "find1") THEN "make1" ELSE "make2")
        /\ place[p] \in {"find1", "find2"}
        /\ UNCHANGED <<node, kind, mode, fd, trouble>>
    BY <1>2 DEF Find, files, io, history
  <2>2. NamesStay /\ \A q \in Procs : Same(q)
    BY <2>1 DEF NamesStay, Same, IsReader, IsWriter
  <2>3. ~IsReader(p)'
    BY <2>1, <2>2, ModeOf DEF Same, PipesInv
  <2>4. "unlinked" \notin trouble /\ place[p] = "find2" => node[ReadPipe[p]] # None
    BY FoundPipes
  <2>5. PICK to \in Places \ {"unlinking"} :
           /\ Go(p, to)
           /\ "unlinked" \notin trouble =>
               /\ to \notin {"down", "find1", "make1"} => node[ReadPipe[p]] # None
               /\ to \notin {"down"} \cup Constructing => node[WritePipe[p]] # None
    BY <2>1, <2>4 DEF After, PipeOf, At, Places, Constructing
  <2>6. QED
    BY <2>1, <2>2, <2>3, <2>5, StayingKeepsPipes
<1>3. CASE Make(p)
  <2>1. /\ Go(p, After(p)) /\ place[p] \in {"make1", "make2"} /\ trouble' = trouble
        /\ Mkfifo(PipeOf(p)) /\ PipeOf(p) \in Names
    BY <1>3, ServerFacts DEF Make, history
  <2>2. /\ UNCHANGED <<mode, fd>> /\ node[PipeOf(p)] = None /\ node'[PipeOf(p)] # None
        /\ \A y \in Names \ {PipeOf(p)} : node'[y] = node[y]
        /\ \A n \in Nodes : kind'[n] = "file" => kind[n] = "file"
    BY <2>1, MkfifoFacts, TypeInvParts DEF PipesInv, io, IsFile
  <2>3. NamesStay /\ \A q \in Procs : Same(q)
    BY <2>2 DEF NamesStay, Same, IsReader, IsWriter
  <2>4. ~IsReader(p)'
    BY <2>1, <2>3, ModeOf DEF Same, PipesInv
  <2>5. "unlinked" \notin trouble /\ place[p] = "make2" => node'[ReadPipe[p]] # None
    BY <2>3, FoundPipes, PipesAreNames DEF NamesStay
  <2>6. PICK to \in Places \ {"unlinking"} :
           /\ Go(p, to)
           /\ "unlinked" \notin trouble =>
               /\ to \notin {"down", "find1", "make1"} => node'[ReadPipe[p]] # None
               /\ to \notin {"down"} \cup Constructing => node'[WritePipe[p]] # None
    BY <2>1, <2>2, <2>5 DEF After, PipeOf, Places, Constructing
  <2>7. QED
    BY <2>1, <2>3, <2>4, <2>6, StayingKeepsPipes
<1>4. QED
  BY <1>1, <1>2, <1>3

(* Steps of a process that has its transport, which leave the names alone.  *)
LEMMA RunningKeepsPipes ==
    ASSUME PipesInv, NEW p \in Procs, NEW to \in {"ready", "handled"} \cup Calling, Go(p, to),
           place[p] \in {"ready", "handled"} \cup Calling, UNCHANGED trouble,
           \A q \in Procs \ {p} : Same(q),
           "unlinked" \notin trouble => UNCHANGED <<node, kind>>,
           IsReader(p)' => fd'[p] = node'[ReadPipe[p]]
    PROVE  PipesThere' /\ FilesOnlyAfterUnlink'
<1>1. "unlinked" \notin trouble => node[ReadPipe[p]] # None /\ node[WritePipe[p]] # None
  BY FoundPipes DEF Calling
<1>2. to \in Places \ {"unlinking"}
  BY DEF Places, Calling
<1>3. "unlinked" \notin trouble => NamesStay
  BY DEF NamesStay
<1>4. QED
  BY <1>1, <1>2, <1>3, StayingKeepsPipes

(* PipesInv is inductive, given the types.                                  *)
LEMMA NextKeepsPipes ==
    ASSUME PipesInv, [Next]_vars
    PROVE  PipesInv'
<1>1. TypeInv /\ TypeInv' /\ TransportInv(Packets)
  BY NextKeepsTypes, TypeInvParts DEF PipesInv
<1>2. CASE UNCHANGED vars
  BY <1>1, <1>2 DEF vars, files, io, history, PipesInv, PipesThere, FilesOnlyAfterUnlink,
     IsFile, IsReader, Nodes, None, Constructing
<1>3. ASSUME NEW p \in Procs,
             (p \in Clients /\ Await(p)) \/ (p = Server /\ Listen)
      PROVE  PipesThere' /\ FilesOnlyAfterUnlink'
  <2>1. OpenRead(p) /\ Go(p, "reading") /\ place[p] \in {"written", "ready"} /\ trouble' = trouble
    BY <1>3 DEF Await, Listen, At, history
  <2>2. /\ UNCHANGED <<node, kind>> /\ fd'[p] = node[ReadPipe[p]]
        /\ \A q \in Procs \ {p} : Same(q)
    BY <1>1, <2>1, ModeOf, OpenReadFacts
  <2>3. QED
    BY <2>1, <2>2, RunningKeepsPipes DEF Calling
<1>4. ASSUME NEW p \in Procs, (p \in Clients /\ Ask(p)) \/ (p = Server /\ Respond)
      PROVE  PipesThere' /\ FilesOnlyAfterUnlink'
  <2>1. OpenWrite(p) /\ Go(p, "writing") /\ place[p] \in {"ready", "handled"} /\ trouble' = trouble
    BY <1>4 DEF Ask, Respond, At, history
  <2>2. /\ node[WritePipe[p]] # None => UNCHANGED <<node, kind>>
        /\ ~IsReader(p)' /\ \A q \in Procs \ {p} : Same(q)
    BY <1>1, <2>1, ModeOf, OpenWriteFacts
  <2>3. "unlinked" \notin trouble => node[WritePipe[p]] # None
    BY <2>1, FoundPipes
  <2>4. QED
    BY <2>1, <2>2, <2>3, RunningKeepsPipes DEF Calling
<1>5. ASSUME NEW p \in Procs, (p \in Clients /\ Send(p)) \/ (p = Server /\ Responded)
      PROVE  PipesThere' /\ FilesOnlyAfterUnlink'
  <2>1. PICK to \in {"written", "ready"} : Go(p, to) /\ place[p] = "writing" /\ trouble' = trouble
    BY <1>5 DEF Send, Responded, AfterSending, At, history
  <2>2. UNCHANGED <<node, kind>> /\ ~IsReader(p)' /\ \A q \in Procs \ {p} : Same(q)
    <3>1. Close(p) /\ UNCHANGED <<node, kind>>
      BY <1>5 DEF Send, Responded, WriteAndClose
    <3>2. QED
      BY <1>1, <3>1, CloseFacts DEF TransportInv
  <2>3. QED
    BY <2>1, <2>2, RunningKeepsPipes DEF Calling
<1>6. ASSUME NEW p \in Procs, TakePackets(p)
      PROVE  PipesThere' /\ FilesOnlyAfterUnlink'
  <2>1. UNCHANGED <<node, kind, mode, fd, place, trouble>>
    BY <1>6 DEF TakePackets, Take, history
  <2>2. QED
    BY <2>1 DEF PipesInv, PipesThere, FilesOnlyAfterUnlink, IsFile, IsReader, Nodes, None, Constructing
<1>7. ASSUME NEW p \in Procs,
             (p \in Clients /\ Understand(p)) \/ (p = Server /\ (Handle \/ EmptyRequest))
      PROVE  PipesThere' /\ FilesOnlyAfterUnlink'
  <2>1. PICK to \in {"ready", "handled"} :
           Go(p, to) /\ CloseRead(p) /\ place[p] = "reading" /\ trouble' = trouble
    BY <1>7 DEF Understand, Handle, EmptyRequest, AfterHandling, At, history
  <2>2. UNCHANGED <<node, kind>> /\ ~IsReader(p)' /\ \A q \in Procs \ {p} : Same(q)
    BY <1>1, <2>1, CloseReadFacts
  <2>3. QED
    BY <2>1, <2>2, RunningKeepsPipes DEF Calling
<1>8. ASSUME NEW p \in Procs, Ends(p)
      PROVE  PipesThere' /\ FilesOnlyAfterUnlink'
  <2>1. Release(p) /\ Go(p, "down") /\ trouble \subseteq trouble'
    BY <1>1, <1>8, EndFacts DEF End
  <2>2. UNCHANGED <<node, kind>> /\ ~IsReader(p)' /\ \A q \in Procs \ {p} : Same(q)
    BY <1>1, <2>1, ReleaseFacts
  <2>3. NamesStay
    BY <2>2 DEF NamesStay
  <2>4. QED
    BY <2>1, <2>2, <2>3, StayingKeepsPipes DEF Places
<1>9. ASSUME NEW p \in Clients, Leave(p) \/ Left(p)
      PROVE  PipesThere' /\ FilesOnlyAfterUnlink'
  <2>1. "unlinked" \in trouble'
    BY <1>9, ServerFacts DEF Leave, Left, At, PipesInv, PipesThere
  <2>2. QED
    BY <2>1 DEF PipesThere, FilesOnlyAfterUnlink
<1>10. ASSUME Next
       PROVE  PipesThere' /\ FilesOnlyAfterUnlink'
  BY <1>3, <1>4, <1>5, <1>6, <1>7, <1>8, <1>9, <1>10, StepsAre, ConstructionKeepsPipes
<1>11. QED
  BY <1>1, <1>2, <1>10 DEF PipesInv

(* It holds at first.                                                       *)
LEMMA InitGivesPipes ==
    ASSUME Init
    PROVE  PipesInv
<1>1. TypeInv
  BY InitGivesTypes
<1>2. QED
  BY <1>1, ModeOf DEF Init, TransportInit, PipesInv, PipesThere, FilesOnlyAfterUnlink, IsFile

(* In no interleaving of any number of constructors, calls, ends and        *)
(* restarts does NamedPipeTransport::write make a regular file, unless a    *)
(* destructor has unlinked a pipe.                                          *)
THEOREM PipesStay == Spec => []FilesOnlyAfterUnlink
<1>1. Init => PipesInv
  BY InitGivesPipes
<1>2. PipesInv /\ [Next]_vars => PipesInv'
  BY NextKeepsPipes
<1>3. PipesInv => FilesOnlyAfterUnlink
  BY DEF PipesInv
<1>4. QED
  BY <1>1, <1>2, <1>3, PTL DEF Spec

-----------------------------------------------------------------------------
(* Requests are handled once.                                               *)

(* A step that asks, writes and handles nothing keeps requests apart, if    *)
(* the server's pipe and hands do not come to hold more than they did.      *)
LEMMA FewerKeepsRequests ==
    ASSUME RequestsInv, trouble \subseteq trouble', UNCHANGED <<requests, handled>>,
           \A c \in Clients : place'[c] = "writing" =>
               place[c] = "writing" /\ asked'[c] = asked[c],
           "unlinked" \notin trouble' =>
               /\ \A m \in Requests : InPipe(m)' \/ InHands(m)' => InPipe(m) \/ InHands(m)
               /\ \A m, n \in Requests : InPipe(m)' /\ InHands(n)' => m.id # n.id
    PROVE  RequestsAreOne' /\ HandledOnce'
<1>1. HandledOnce'
  BY DEF RequestsInv, HandledOnce
<1>2. CASE "unlinked" \in trouble'
  BY <1>1, <1>2 DEF RequestsAreOne
<1>3. CASE "unlinked" \notin trouble'
  <2>1. "unlinked" \notin trouble
    BY <1>3
  <2>2. \A i \in 1..MaxRequests : i > requests => handled[i] = 0
    BY <2>1 DEF RequestsInv, RequestsAreOne
  <2>3. ASSUME NEW c \in Clients, place'[c] = "writing"
        PROVE  /\ Unhandled(asked'[c].id)
               /\ \A d \in Clients : place'[d] = "writing" /\ asked'[d].id = asked'[c].id => d = c
               /\ \A m \in Requests : InPipe(m)' \/ InHands(m)' => m.id # asked'[c].id
    BY <1>3, <2>1, <2>3 DEF RequestsInv, RequestsAreOne
  <2>4. \A m \in Requests : InPipe(m)' \/ InHands(m)' => Unhandled(m.id)
    BY <1>3, <2>1 DEF RequestsInv, RequestsAreOne
  <2>5. \A i : Unhandled(i)' <=> Unhandled(i)
    BY DEF Unhandled
  <2>6. QED
    BY <1>1, <1>3, <2>2, <2>3, <2>4, <2>5 DEF RequestsAreOne
<1>4. QED
  BY <1>2, <1>3

(* In particular if what is in the pipe is no more, and the server has read *)
(* no more.                                                                 *)
LEMMA NoMoreKeepsRequests ==
    ASSUME RequestsInv, trouble \subseteq trouble', UNCHANGED <<requests, handled>>,
           \A c \in Clients : place'[c] = "writing" =>
               place[c] = "writing" /\ asked'[c] = asked[c],
           "unlinked" \notin trouble' =>
               /\ node'[ReadPipe[Server]] = Inbound \/ data'[node'[ReadPipe[Server]]] = <<>>
               /\ Inbound # None => data'[Inbound] \in {data[Inbound], <<>>}
               /\ got'[Server] \in {got[Server], <<>>}
    PROVE  RequestsAreOne' /\ HandledOnce'
<1>1. ASSUME "unlinked" \notin trouble', NEW m
      PROVE  (InPipe(m)' => InPipe(m)) /\ (InHands(m)' => InHands(m))
  BY <1>1 DEF InPipe, InHands, Inbound, None
<1>2. "unlinked" \notin trouble =>
        \A m, n \in Requests : InPipe(m) /\ InHands(n) => m.id # n.id
  BY DEF RequestsInv, RequestsAreOne
<1>3. QED
  BY <1>1, <1>2, FewerKeepsRequests

(* Until a pipe is unlinked nothing is read from a file, and the server     *)
(* reads its own pipe.                                                      *)
LEMMA NoFilesYet ==
    ASSUME PipesInv, "unlinked" \notin trouble
    PROVE  /\ \A n \in Nodes : ~IsFile(n)
           /\ IsReader(Server) => fd[Server] = Inbound /\ Inbound # None
           /\ \A p \in Procs : IsReader(p) => fd[p] = node[ReadPipe[p]]
<1>1. IsReader(Server) => fd[Server] = Inbound
  BY ServerFacts DEF PipesInv, PipesThere, Inbound
<1>2. IsReader(Server) => fd[Server] # None
  BY ServerFacts, ModeOf DEF PipesInv, IsReader
<1>3. QED
  BY <1>1, <1>2 DEF PipesInv, PipesThere, FilesOnlyAfterUnlink

(* A client asks.                                                           *)
LEMMA AskKeepsRequests ==
    ASSUME RequestsInv, NEW c \in Clients, Ask(c)
    PROVE  RequestsAreOne' /\ HandledOnce'
<1>1. TypeInv /\ PipesInv /\ TransportInv(Packets)
  BY TypeInvParts DEF RequestsInv, PipesInv
<1>2. /\ OpenWrite(c) /\ Go(c, "writing") /\ place[c] = "ready"
      /\ UNCHANGED <<handled, trouble>>
  BY DEF Ask, At, history
<1>3. PICK k \in 1..MaxRequests :
         /\ requests' = k /\ k = requests + 1
         /\ asked'[c].id = k /\ \A d \in Clients \ {c} : asked'[d] = asked[d]
  BY <1>1, AskedType
<1>4. requests \in Nat /\ MaxRequests \in Nat
  BY <1>1, BoundsAssumption DEF TypeInv, TypeOK, Ids
<1>5. CASE "unlinked" \in trouble
  BY <1>2, <1>5 DEF RequestsAreOne, HandledOnce
<1>6. CASE "unlinked" \notin trouble
  <2>1. node[WritePipe[c]] # None
    BY <1>1, <1>2, <1>6, FoundPipes, ServerFacts
  <2>2. /\ UNCHANGED <<node, kind, got>>
        /\ \A m \in Nodes : data'[m] = data[m] \/ (IsFile(m) /\ data'[m] = <<>>)
    BY <1>1, <1>2, <2>1, ModeOf, OpenWriteFacts, ServerFacts
  <2>3. \A m \in Nodes : data'[m] = data[m]
    BY <1>1, <1>6, <2>2, NoFilesYet
  <2>4. Inbound \in Nodes \cup {None}
    BY <1>1, ServerFacts DEF TypeInv, TypeOK, TransportType, Inbound
  <2>5. \A m : (InPipe(m)' <=> InPipe(m)) /\ (InHands(m)' <=> InHands(m))
    BY <2>2, <2>3, <2>4 DEF InPipe, InHands, Inbound, None
  <2>6. \A d \in Clients \ {c} : place'[d] = place[d]
    BY <1>1, <1>2 DEF Go, TypeInv, TypeOK
  <2>7. /\ \A i \in 1..MaxRequests : i > requests => handled[i] = 0
        /\ \A d \in Clients : place[d] = "writing" =>
              /\ Unhandled(asked[d].id)
              /\ \A e \in Clients : place[e] = "writing" /\ asked[e].id = asked[d].id => e = d
              /\ \A m \in Requests : InPipe(m) \/ InHands(m) => m.id # asked[d].id
        /\ \A m \in Requests : InPipe(m) \/ InHands(m) => Unhandled(m.id)
        /\ \A m, n \in Requests : InPipe(m) /\ InHands(n) => m.id # n.id
    BY <1>6 DEF RequestsInv, RequestsAreOne
  <2>8. \A i : Unhandled(i) => Unhandled(i)' /\ i # k
    BY <1>2, <1>3, <1>4 DEF Unhandled
  <2>9. handled[k] = 0 /\ Unhandled(k)'
    <3>1. handled[k] = 0
      BY <1>3, <1>4, <2>7
    <3>2. QED
      BY <1>2, <1>3, <3>1 DEF Unhandled
  <2>10. \A i \in 1..MaxRequests : i > k => handled'[i] = 0
    BY <1>2, <1>3, <1>4, <2>7
  <2>11. \A m \in Requests : InPipe(m)' \/ InHands(m)' => Unhandled(m.id)' /\ m.id # k
    BY <2>5, <2>7, <2>8
  <2>12. ASSUME NEW d \in Clients, place'[d] = "writing", NEW i, i = asked'[d].id
         PROVE  /\ Unhandled(i)'
                /\ \A e \in Clients : place'[e] = "writing" /\ asked'[e].id = i => e = d
                /\ \A m \in Requests : InPipe(m)' \/ InHands(m)' => m.id # i
    <3>1. \A e \in Clients \ {c} : place'[e] = "writing" => asked'[e].id # k
      BY <1>3, <2>6, <2>7, <2>8
    <3>2. CASE d = c
      BY <1>3, <2>9, <2>11, <2>12, <3>1, <3>2
    <3>3. CASE d # c
      <4>1. place[d] = "writing" /\ i = asked[d].id
        BY <1>3, <2>6, <2>12, <3>3
      <4>2. Unhandled(i) /\ Unhandled(i)' /\ i # k
        BY <2>7, <2>8, <4>1
      <4>3. \A e \in Clients : place'[e] = "writing" /\ asked'[e].id = i => e = d
        BY <1>3, <2>6, <2>7, <4>1, <4>2
      <4>4. QED
        BY <2>5, <2>7, <4>1, <4>2, <4>3
    <3>4. QED
      BY <3>2, <3>3
  <2>13. HandledOnce'
    <3>1. \A i \in 1..requests : handled[i] <= 1
      BY <1>6 DEF RequestsInv, HandledOnce
    <3>2. \A i \in 1..requests' : handled'[i] <= 1
      BY <1>2, <1>3, <1>4, <2>9, <3>1
    <3>3. QED
      BY <3>2 DEF HandledOnce
  <2>14. QED
    BY <1>3, <2>5, <2>7, <2>10, <2>11, <2>12, <2>13 DEF RequestsAreOne
<1>7. QED
  BY <1>5, <1>6

(* A client's request comes into the pipe, or is lost.                      *)
LEMMA SendKeepsRequests ==
    ASSUME RequestsInv, NEW c \in Clients, Send(c)
    PROVE  RequestsAreOne' /\ HandledOnce'
<1>1. TypeInv /\ PipesInv /\ TransportInv(Packets)
  BY TypeInvParts DEF RequestsInv, PipesInv
<1>2. /\ WriteAndClose(c, RequestOf(c)) /\ Go(c, "written") /\ place[c] = "writing"
      /\ UNCHANGED <<asked, requests, handled, trouble>>
  BY DEF Send, At, AfterSending, history
<1>3. RequestOf(c) \in Requests /\ RequestOf(c).id = asked[c].id
  BY <1>1, <1>2, RequestOfType DEF Calling
<1>4. /\ UNCHANGED <<node, got>> /\ fd[c] \in Nodes
      /\ data'[fd[c]] = <<RequestOf(c)>> \/ data'[fd[c]] = data[fd[c]]
      /\ \A n \in Nodes \ {fd[c]} : data'[n] = data[n]
  BY <1>1, <1>2, <1>3, WriteFacts, ServerFacts DEF Packets
<1>5. place'[c] = "written" /\ \A d \in Clients \ {c} : place'[d] = place[d]
  BY <1>1, <1>2, ServerFacts DEF Go, TypeInv, TypeOK
<1>6. CASE "unlinked" \in trouble
  BY <1>2, <1>6 DEF RequestsAreOne, HandledOnce
<1>7. CASE "unlinked" \notin trouble
  <2>1. /\ \A i \in 1..MaxRequests : i > requests => handled[i] = 0
        /\ \A d \in Clients : place[d] = "writing" =>
              /\ Unhandled(asked[d].id)
              /\ \A e \in Clients : place[e] = "writing" /\ asked[e].id = asked[d].id => e = d
              /\ \A m \in Requests : InPipe(m) \/ InHands(m) => m.id # asked[d].id
        /\ \A m \in Requests : InPipe(m) \/ InHands(m) => Unhandled(m.id)
        /\ \A m, n \in Requests : InPipe(m) /\ InHands(n) => m.id # n.id
    BY <1>7 DEF RequestsInv, RequestsAreOne
  <2>2. Inbound \in Nodes \cup {None}
    BY <1>1, ServerFacts DEF TypeInv, TypeOK, TransportType, Inbound
  <2>3. \A m : (InPipe(m)' => InPipe(m) \/ m = RequestOf(c)) /\ (InHands(m)' <=> InHands(m))
    BY <1>4, <2>2 DEF InPipe, InHands, Inbound, None
  <2>4. \A i : Unhandled(i)' <=> Unhandled(i)
    BY <1>2 DEF Unhandled
  <2>5. /\ Unhandled(asked[c].id)
        /\ \A e \in Clients \ {c} : place[e] = "writing" => asked[e].id # asked[c].id
        /\ \A m \in Requests : InPipe(m) \/ InHands(m) => m.id # asked[c].id
    BY <1>2, <2>1
  <2>6. \A d \in Clients : place'[d] = "writing" => d # c /\ place[d] = "writing"
    BY <1>5
  <2>7. \A m \in Requests : InPipe(m)' \/ InHands(m)' => Unhandled(m.id)
    BY <1>3, <2>1, <2>3, <2>5
  <2>8. \A m, n \in Requests : InPipe(m)' /\ InHands(n)' => m.id # n.id
    BY <1>3, <2>1, <2>3, <2>5
  <2>9. ASSUME NEW d \in Clients, place'[d] = "writing"
        PROVE  /\ Unhandled(asked[d].id)
               /\ \A e \in Clients : place'[e] = "writing" /\ asked[e].id = asked[d].id => e = d
               /\ \A m \in Requests : InPipe(m)' \/ InHands(m)' => m.id # asked[d].id
    BY <1>3, <2>1, <2>3, <2>5, <2>6, <2>9
  <2>10. HandledOnce'
    BY <1>2 DEF RequestsInv, HandledOnce
  <2>11. QED
    BY <1>2, <2>1, <2>4, <2>7, <2>8, <2>9, <2>10 DEF RequestsAreOne
<1>8. QED
  BY <1>6, <1>7

(* The server handles what it has in its hands, and only that.              *)
LEMMA HandleKeepsRequests ==
    ASSUME RequestsInv, Handle
    PROVE  RequestsAreOne' /\ HandledOnce'
<1>1. TypeInv /\ PipesInv /\ TransportInv(Packets)
  BY TypeInvParts DEF RequestsInv, PipesInv
<1> DEFINE m == Head(Arrived(Server))
<1>2. /\ place[Server] = "reading" /\ CloseRead(Server) /\ Arrived(Server) # <<>>
      /\ Go(Server, AfterHandling(m))
      /\ handled' = [handled EXCEPT ![m.id] = IF @ = 2 THEN 2 ELSE @ + 1]
      /\ UNCHANGED <<asked, requests, trouble>>
  BY DEF Handle, At, history
<1>3. m \in Requests /\ Arrived(Server) = <<m>>
  BY <1>1, <1>2, ArrivedType, ServerFacts
<1> HIDE DEF m
<1>4. UNCHANGED <<node, data>> /\ got'[Server] = <<>>
  BY <1>1, <1>2, CloseReadFacts, ServerFacts
<1>5. CASE "unlinked" \in trouble
  BY <1>2, <1>5 DEF RequestsAreOne, HandledOnce
<1>6. CASE "unlinked" \notin trouble
  <2>1. /\ \A i \in 1..MaxRequests : i > requests => handled[i] = 0
        /\ \A d \in Clients : place[d] = "writing" =>
              /\ Unhandled(asked[d].id)
              /\ \A e \in Clients : place[e] = "writing" /\ asked[e].id = asked[d].id => e = d
              /\ \A n \in Requests : InPipe(n) \/ InHands(n) => n.id # asked[d].id
        /\ \A n \in Requests : InPipe(n) \/ InHands(n) => Unhandled(n.id)
        /\ \A k, n \in Requests : InPipe(k) /\ InHands(n) => k.id # n.id
    BY <1>6 DEF RequestsInv, RequestsAreOne
  <2>2. InHands(m)
    <3>1. fd[Server] \in Nodes
      BY <1>1, <1>2, ModeOf, ServerFacts
    <3>2. QED
      BY <1>1, <1>3, <1>6, <3>1, NoFilesYet DEF Arrived, InHands
  <2>3. m.id \in 1..requests /\ handled[m.id] = 0
    BY <1>3, <2>1, <2>2 DEF Unhandled
  <2>4. requests \in 0..MaxRequests /\ MaxRequests \in Nat /\ handled \in [1..MaxRequests -> 0..2]
    BY <1>1, BoundsAssumption DEF TypeInv, TypeOK, Ids
  <2>5. m.id \in 1..MaxRequests
    BY <2>3, <2>4
  <2>6. handled'[m.id] = 1 /\ \A i \in 1..MaxRequests \ {m.id} : handled'[i] = handled[i]
    BY <1>2, <2>3, <2>4, <2>5
  <2>7. \A i : Unhandled(i) /\ i # m.id => Unhandled(i)'
    BY <1>2, <2>4, <2>6 DEF Unhandled
  <2>8. \A n : (InPipe(n)' <=> InPipe(n)) /\ ~InHands(n)'
    BY <1>4 DEF InPipe, InHands, Inbound, None
  <2>9. \A d \in Clients : place'[d] = place[d]
    BY <1>1, <1>2, ServerFacts DEF Go, TypeInv, TypeOK
  <2>10. \A i \in 1..MaxRequests : i > requests => handled'[i] = 0
    BY <2>1, <2>3, <2>4, <2>6
  <2>11. \A n \in Requests : InPipe(n)' \/ InHands(n)' => Unhandled(n.id)'
    BY <1>3, <2>1, <2>2, <2>7, <2>8
  <2>12. ASSUME NEW d \in Clients, place'[d] = "writing"
         PROVE  /\ Unhandled(asked[d].id)'
                /\ \A e \in Clients : place'[e] = "writing" /\ asked[e].id = asked[d].id => e = d
                /\ \A n \in Requests : InPipe(n)' \/ InHands(n)' => n.id # asked[d].id
    <3>1. place[d] = "writing" /\ Unhandled(asked[d].id) /\ asked[d].id # m.id
      BY <1>3, <2>1, <2>2, <2>9, <2>12
    <3>2. Unhandled(asked[d].id)'
      BY <1>2, <2>4, <2>6, <3>1 DEF Unhandled
    <3>3. QED
      BY <2>1, <2>8, <2>9, <3>1, <3>2
  <2>13. HandledOnce'
    <3>1. \A i \in 1..requests : handled[i] <= 1
      BY <1>6 DEF RequestsInv, HandledOnce
    <3>2. \A i \in 1..requests : handled'[i] <= 1
      BY <2>4, <2>6, <3>1
    <3>3. QED
      BY <1>2, <3>2 DEF HandledOnce
  <2>14. QED
    BY <1>2, <2>8, <2>10, <2>11, <2>12, <2>13 DEF RequestsAreOne
<1>7. QED
  BY <1>5, <1>6

(* A packet is taken out of a pipe: by the server, into its hands.          *)
LEMMA TakeKeepsRequests ==
    ASSUME RequestsInv, NEW p \in Procs, TakePackets(p)
    PROVE  RequestsAreOne' /\ HandledOnce'
<1>1. TypeInv /\ PipesInv /\ TransportInv(Packets)
  BY TypeInvParts DEF RequestsInv, PipesInv
<1>2. Take(p) /\ UNCHANGED <<place, asked, requests, handled, trouble>>
  BY DEF TakePackets, history
<1>3. /\ UNCHANGED node /\ fd[p] \in Nodes /\ IsReader(p)
      /\ got'[p] \in {got[p], data[fd[p]]}
      /\ data'[fd[p]] = <<>>
      /\ \A n \in Nodes \ {fd[p]} : data'[n] = data[n]
      /\ \A q \in Procs \ {p} : got'[q] = got[q]
  BY <1>1, <1>2, TakeFacts
<1>4. Inbound \in Nodes \cup {None}
  BY <1>1, ServerFacts DEF TypeInv, TypeOK, TransportType, Inbound
<1>5. CASE p # Server
  <2>1. Inbound # None => data'[Inbound] \in {data[Inbound], <<>>}
    BY <1>3, <1>4
  <2>2. got'[Server] = got[Server] /\ node'[ReadPipe[Server]] = Inbound
    BY <1>3, <1>5, ServerFacts DEF Inbound
  <2>3. QED
    BY <1>2, <2>1, <2>2, NoMoreKeepsRequests
<1>6. CASE p = Server
  <2>1. ASSUME "unlinked" \notin trouble'
        PROVE  /\ \A m \in Requests : InPipe(m)' \/ InHands(m)' => InPipe(m) \/ InHands(m)
               /\ \A m, n \in Requests : InPipe(m)' /\ InHands(n)' => m.id # n.id
    <3>1. fd[Server] = Inbound /\ Inbound # None
      BY <1>1, <1>2, <1>3, <1>6, <2>1, NoFilesYet
    <3>2. \A m : ~InPipe(m)' /\ (InHands(m)' => InHands(m) \/ InPipe(m))
      BY <1>3, <1>6, <3>1 DEF InPipe, InHands, Inbound, None
    <3>3. QED
      BY <3>2
  <2>2. QED
    BY <1>2, <2>1, FewerKeepsRequests
<1>7. QED
  BY <1>5, <1>6

(* So it is with a step of one process that is not a client's to ask.       *)
LEMMA StepKeepsRequests ==
    ASSUME RequestsInv, NEW p \in Procs, NEW to, Go(p, to), p \in Clients => to # "writing",
           trouble \subseteq trouble', UNCHANGED <<asked, requests, handled>>,
           "unlinked" \notin trouble' =>
               /\ node'[ReadPipe[Server]] = Inbound \/ data'[node'[ReadPipe[Server]]] = <<>>
               /\ Inbound # None => data'[Inbound] \in {data[Inbound], <<>>}
               /\ got'[Server] \in {got[Server], <<>>}
    PROVE  RequestsAreOne' /\ HandledOnce'
<1>1. place'[p] = to /\ \A q \in Procs \ {p} : place'[q] = place[q]
  BY DEF Go, RequestsInv, PipesInv, TypeInv, TypeOK
<1>2. \A c \in Clients : place'[c] = "writing" => place[c] = "writing"
  BY <1>1, ServerFacts
<1>3. QED
  BY <1>2, NoMoreKeepsRequests

(* Steps that construct, and steps of a process that ends.                  *)
LEMMA ComingAndGoingKeepRequests ==
    ASSUME RequestsInv, NEW p \in Procs,
           \/ Start(p) \/ Find(p) \/ Make(p) \/ Ends(p)
           \/ p \in Clients /\ (Leave(p) \/ Left(p))
    PROVE  RequestsAreOne' /\ HandledOnce'
<1>1. TypeInv /\ PipesInv /\ TransportInv(Packets)
  BY TypeInvParts DEF RequestsInv, PipesInv
<1>2. Inbound \in Nodes \cup {None} /\ Inbound = node[ReadPipe[Server]]
  BY <1>1, ServerFacts DEF TypeInv, TypeOK, TransportType, Inbound
<1>3. CASE Start(p) \/ Find(p)
  <2>1. PICK to \in Places \ {"writing"} : Go(p, to)
    BY <1>3 DEF Start, Find, After, Places, Constructing
  <2>2. /\ UNCHANGED <<asked, requests, handled, node, data, got>>
        /\ trouble \subseteq trouble'
    BY <1>3 DEF Start, Find, files, io, history
  <2>3. QED
    BY <1>2, <2>1, <2>2, StepKeepsRequests
<1>4. CASE Make(p)
  <2>1. Mkfifo(PipeOf(p)) /\ PipeOf(p) \in Names
    BY <1>4, ServerFacts DEF Make
  <2>2. /\ UNCHANGED <<data, got>> /\ data[node'[PipeOf(p)]] = <<>>
        /\ \A y \in Names \ {PipeOf(p)} : node'[y] = node[y]
    BY <1>1, <2>1, MkfifoFacts DEF io
  <2>3. node'[ReadPipe[Server]] = Inbound \/ data'[node'[ReadPipe[Server]]] = <<>>
    BY <1>2, <2>2, ServerFacts
  <2>4. UNCHANGED <<asked, requests, handled, trouble>> /\ Go(p, After(p)) /\ After(p) # "writing"
    BY <1>4 DEF Make, After, history
  <2>5. QED
    BY <2>2, <2>3, <2>4, StepKeepsRequests
<1>5. CASE Ends(p)
  <2>1. /\ Release(p) /\ Go(p, "down") /\ trouble \subseteq trouble'
        /\ UNCHANGED <<asked, requests, handled>>
    BY <1>1, <1>5, EndFacts DEF End
  <2>2. /\ UNCHANGED node /\ got'[p] = <<>> /\ \A q \in Procs \ {p} : got'[q] = got[q]
        /\ \A n \in Nodes : data'[n] = data[n] \/ data'[n] = <<>>
    BY <1>1, <2>1, ReleaseFacts
  <2>3. got'[Server] \in {got[Server], <<>>}
    BY <2>2, ServerFacts
  <2>4. QED
    BY <1>2, <2>1, <2>2, <2>3, StepKeepsRequests
<1>6. CASE p \in Clients /\ (Leave(p) \/ Left(p))
  <2>1. PICK to \in {"unlinking", "down"} : Go(p, to)
    BY <1>6 DEF Leave, Left
  <2>2. UNCHANGED <<asked, requests, handled>> /\ trouble \subseteq trouble'
    BY <1>6 DEF Leave, Left
  <2>3. "unlinked" \in trouble'
    BY <1>1, <1>6, ServerFacts DEF Leave, Left, At, PipesInv, PipesThere
  <2>4. QED
    BY <2>1, <2>2, <2>3, StepKeepsRequests
<1>7. QED
  BY <1>3, <1>4, <1>5, <1>6

(* The other steps of calls, and those by which the server answers.         *)
LEMMA AnsweringKeepsRequests ==
    ASSUME RequestsInv, NEW p \in Procs,
           \/ p \in Clients /\ (Await(p) \/ Understand(p))
           \/ p = Server /\ (Listen \/ Respond \/ Responded \/ EmptyRequest)
    PROVE  RequestsAreOne' /\ HandledOnce'
<1>1. TypeInv /\ PipesInv /\ TransportInv(Packets)
  BY TypeInvParts DEF RequestsInv, PipesInv
<1>2. Inbound \in Nodes \cup {None} /\ Inbound = node[ReadPipe[Server]]
  BY <1>1, ServerFacts DEF TypeInv, TypeOK, TransportType, Inbound
<1>3. UNCHANGED <<asked, requests, handled, trouble>>
  BY DEF Await, Understand, Listen, Respond, Responded, EmptyRequest, history
<1>4. CASE (p \in Clients /\ Await(p)) \/ (p = Server /\ Listen)
  <2>1. OpenRead(p) /\ Go(p, "reading") /\ place[p] \in {"written", "ready"}
    BY <1>4 DEF Await, Listen, At
  <2>2. UNCHANGED <<node, data, got>>
    BY <2>1 DEF OpenRead, OpenToRead, files
  <2>3. QED
    BY <1>2, <1>3, <2>1, <2>2, StepKeepsRequests
<1>5. CASE p = Server /\ Respond
  <2>1. OpenWrite(p) /\ Go(p, "writing") /\ place[p] = "handled"
    BY <1>5 DEF Respond, At
  <2>2. /\ got' = got
        /\ node[WritePipe[p]] # None => UNCHANGED node
        /\ \A m \in Nodes : data'[m] = data[m] \/ data'[m] = <<>>
    BY <1>1, <2>1, ModeOf, OpenWriteFacts
  <2>3. "unlinked" \notin trouble => UNCHANGED node
    BY <1>1, <2>1, <2>2, FoundPipes
  <2>4. QED
    BY <1>2, <1>3, <1>5, <2>1, <2>2, <2>3, ServerFacts, StepKeepsRequests
<1>6. CASE p = Server /\ Responded
  <2>1. WriteAndClose(p, reply) /\ Go(p, "ready") /\ place[p] = "writing"
    BY <1>6 DEF Responded, At
  <2>2. reply \in Packets
    BY <1>1, <1>6, <2>1 DEF TypeInv, CallsWellFormed, Packets
  <2>3. /\ UNCHANGED <<node, got>> /\ IsWriter(p)
        /\ \A n \in Nodes \ {fd[p]} : data'[n] = data[n]
    BY <1>1, <2>1, <2>2, WriteFacts
  <2>4. fd[p] # Inbound
    BY <1>1, <1>6, <2>3 DEF TypeInv, ServerReadsRequests
  <2>5. QED
    BY <1>2, <1>3, <2>1, <2>3, <2>4, StepKeepsRequests
<1>7. CASE (p \in Clients /\ Understand(p)) \/ (p = Server /\ EmptyRequest)
  <2>1. CloseRead(p) /\ Go(p, "ready")
    BY <1>7 DEF Understand, EmptyRequest
  <2>2. /\ UNCHANGED <<node, data>>
        /\ got'[p] = <<>> /\ \A q \in Procs \ {p} : got'[q] = got[q]
    BY <1>1, <2>1, CloseReadFacts
  <2>3. got'[Server] \in {got[Server], <<>>}
    BY <2>2, ServerFacts
  <2>4. QED
    BY <1>2, <1>3, <2>1, <2>2, <2>3, StepKeepsRequests
<1>8. QED
  BY <1>4, <1>5, <1>6, <1>7, ServerFacts

(* RequestsInv is inductive.                                                *)
LEMMA NextKeepsRequests ==
    ASSUME RequestsInv, [Next]_vars
    PROVE  RequestsInv'
<1>1. PipesInv'
  BY NextKeepsPipes DEF RequestsInv
<1>2. CASE UNCHANGED vars
  <2>1. UNCHANGED <<node, data, got, place, asked, requests, handled, trouble>>
    BY <1>2 DEF vars, files, io, history
  <2>2. node'[ReadPipe[Server]] = Inbound
    BY <2>1 DEF Inbound
  <2>3. QED
    BY <1>1, <2>1, <2>2, NoMoreKeepsRequests DEF RequestsInv
<1>3. CASE Next
  <2>1. RequestsAreOne' /\ HandledOnce'
    BY <1>3, StepsAre, AskKeepsRequests, SendKeepsRequests, HandleKeepsRequests,
       TakeKeepsRequests, ComingAndGoingKeepRequests, AnsweringKeepsRequests
  <2>2. QED
    BY <1>1, <2>1 DEF RequestsInv
<1>4. QED
  BY <1>2, <1>3

(* It holds at first.                                                       *)
LEMMA InitGivesRequests ==
    ASSUME Init
    PROVE  RequestsInv
<1>1. PipesInv
  BY InitGivesPipes
<1>2. Inbound = None /\ got[Server] = <<>>
  BY ServerFacts DEF Init, TransportInit, Inbound
<1>3. RequestsAreOne
  <2>1. \A m : ~InPipe(m) /\ ~InHands(m)
    BY <1>2 DEF InPipe, InHands
  <2>2. QED
    BY <2>1, BoundsAssumption, ServerFacts DEF Init, RequestsAreOne
<1>4. HandledOnce
  BY DEF Init, HandledOnce
<1>5. QED
  BY <1>1, <1>3, <1>4 DEF RequestsInv

(* Whatever the clients, however many there are, do to each other, and      *)
(* whoever is killed in between: until somebody unlinks a pipe, no request  *)
(* comes to handleRequest twice.                                            *)
THEOREM HandledAtMostOnce == Spec => []HandledOnce
<1>1. Init => RequestsInv
  BY InitGivesRequests
<1>2. RequestsInv /\ [Next]_vars => RequestsInv'
  BY NextKeepsRequests
<1>3. RequestsInv => HandledOnce
  BY DEF RequestsInv
<1>4. QED
  BY <1>1, <1>2, <1>3, PTL DEF Spec

-----------------------------------------------------------------------------
(* Why processes end.                                                       *)

(* The steps of the whole system, by what they do to pipes.                 *)
LEMMA StepsOnPipes ==
    ASSUME TypeInv, Next
    PROVE  /\ trouble \subseteq trouble'
           /\ \E p \in Procs :
                 \/ KindsStay /\ UNCHANGED <<data, io>>
                 \/ OpenRead(p) /\ place[p] \in {"written", "ready"}
                 \/ OpenWrite(p) /\ place[p] \in {"ready", "handled"}
                 \/ \E packet \in Packets : WriteAndClose(p, packet)
                 \/ Take(p)
                 \/ CloseRead(p)
                 \/ Ends(p)
<1>1. TransportInv(Packets)
  BY TypeInvParts
<1>2. ASSUME NEW p \in Procs, Start(p) \/ Find(p)
      PROVE  trouble \subseteq trouble' /\ KindsStay /\ UNCHANGED <<data, io>>
  BY <1>2 DEF Start, Find, files, io, history, KindsStay
<1>3. ASSUME NEW p \in Procs, Make(p)
      PROVE  trouble \subseteq trouble' /\ KindsStay /\ UNCHANGED <<data, io>>
  <2>1. Mkfifo(PipeOf(p)) /\ PipeOf(p) \in Names /\ trouble' = trouble
    BY <1>3, ServerFacts DEF Make, history
  <2>2. QED
    BY <1>1, <2>1, MkfifoFacts
<1>4. ASSUME NEW p \in Procs, (p \in Clients /\ Await(p)) \/ (p = Server /\ Listen)
      PROVE  trouble' = trouble /\ OpenRead(p) /\ place[p] \in {"written", "ready"}
  BY <1>4 DEF Await, Listen, At, history
<1>5. ASSUME NEW p \in Procs, (p \in Clients /\ Ask(p)) \/ (p = Server /\ Respond)
      PROVE  trouble' = trouble /\ OpenWrite(p) /\ place[p] \in {"ready", "handled"}
  BY <1>5 DEF Ask, Respond, At, history
<1>6. ASSUME NEW p \in Procs, (p \in Clients /\ Send(p)) \/ (p = Server /\ Responded)
      PROVE  trouble' = trouble /\ \E packet \in Packets : WriteAndClose(p, packet)
  <2>1. CASE p \in Clients /\ Send(p)
    <3>1. WriteAndClose(p, RequestOf(p)) /\ trouble' = trouble /\ place[p] = "writing"
      BY <2>1 DEF Send, At, history
    <3>2. RequestOf(p) \in Requests
      BY <2>1, <3>1, RequestOfType DEF Calling
    <3>3. QED
      BY <3>1, <3>2 DEF Packets
  <2>2. CASE p = Server /\ Responded
    BY <2>2 DEF Responded, At, history, TypeInv, CallsWellFormed, Packets
  <2>3. QED
    BY <1>6, <2>1, <2>2
<1>7. ASSUME NEW p \in Procs, TakePackets(p)
      PROVE  trouble' = trouble /\ Take(p)
  BY <1>7 DEF TakePackets, history
<1>8. ASSUME NEW p \in Procs,
             (p \in Clients /\ Understand(p)) \/ (p = Server /\ (Handle \/ EmptyRequest))
      PROVE  trouble' = trouble /\ CloseRead(p)
  BY <1>8 DEF Understand, Handle, EmptyRequest, history
<1>9. ASSUME NEW p \in Procs, Ends(p)
      PROVE  trouble \subseteq trouble'
  BY <1>9, EndFacts
<1>10. ASSUME NEW p \in Clients, Leave(p) \/ Left(p)
       PROVE  trouble \subseteq trouble' /\ KindsStay /\ UNCHANGED <<data, io>>
  BY <1>10 DEF Leave, Left, Unlink, KindsStay
<1>11. QED
  BY <1>2, <1>3, <1>4, <1>5, <1>6, <1>7, <1>8, <1>9, <1>10, StepsAre

(* Who ends without being killed has nothing open, or is at the end of what *)
(* it read, or would write to a pipe without readers.                       *)
LEMMA UnkilledEnds ==
    ASSUME TypeInv, NEW p \in Procs, Ends(p), "killed" \notin trouble'
    PROVE  /\ Release(p)
           /\ IsReader(p) => IsFile(fd[p]) \/ \A w \in Procs : IsWriter(w) => fd[w] # fd[p]
           /\ IsWriter(p) => ~IsFile(fd[p]) /\ \A r \in Procs : IsReader(r) => fd[r] # fd[p]
<1>1. PICK why \in {"raced", "empty", "absent", "sigpipe", "killed"} :
         /\ End(p, why)
         /\ why = "killed" => trouble' = trouble \cup {"killed"}
         /\ why = "raced" => place[p] \in {"make1", "make2"}
         /\ why = "absent" => place[p] = "written"
         /\ why = "empty" => place[p] = "reading" /\ AtEof(p)
         /\ why = "sigpipe" => Broken(p)
  BY EndFacts
<1>2. Release(p) /\ why # "killed"
  BY <1>1 DEF End
<1>3. CASE why \in {"raced", "absent"}
  BY <1>1, <1>2, <1>3, ModeOf
<1>4. CASE why = "empty"
  <2>1. AtEof(p) /\ ~IsWriter(p)
    BY <1>1, <1>4, ModeOf
  <2>2. IsFile(fd[p]) \/ \A w \in Procs : IsWriter(w) => fd[w] # fd[p]
    BY <2>1, EndsOf DEF AtEof
  <2>3. QED
    BY <1>2, <2>1, <2>2
<1>5. CASE why = "sigpipe"
  <2>1. Broken(p)
    BY <1>1, <1>5
  <2>2. ~IsReader(p) /\ ~IsFile(fd[p]) /\ \A r \in Procs : IsReader(r) => fd[r] # fd[p]
    BY <2>1, EndsOf DEF Broken, IsReader
  <2>3. QED
    BY <1>2, <2>2
<1>6. QED
  BY <1>1, <1>2, <1>3, <1>4, <1>5

(* What is open stays a pipe, or a file.                                    *)
LEMMA OpenStaysFile ==
    ASSUME TypeInv, KindsStay, NEW p \in Procs, mode[p] # "closed"
    PROVE  kind'[fd[p]] = "file" <=> IsFile(fd[p])
  BY DEF TypeInv, NodesAreMade, KindsStay, IsFile

(* A process that closes does not leave a writer without a reader, unless   *)
(* it was the reader.                                                       *)
LEMMA ClosingKeepsReaders ==
    ASSUME TypeInv, WriterHasReader, trouble \subseteq trouble', UNCHANGED kind,
           NEW p \in Procs,
           "killed" \notin trouble' =>
               /\ ~IsReader(p)' /\ ~IsWriter(p)'
               /\ \A q \in Procs \ {p} : mode'[q] = mode[q] /\ Same(q)
               /\ IsReader(p) => IsFile(fd[p]) \/ \A w \in Procs : IsWriter(w) => fd[w] # fd[p]
    PROVE  WriterHasReader'
<1>1. ASSUME "killed" \notin trouble', NEW q \in Procs, mode'[q] = "writes", kind'[fd'[q]] # "file"
      PROVE  \E r \in Procs : IsReader(r)' /\ fd'[r] = fd'[q]
  <2>1. q # p /\ mode[q] = "writes" /\ fd'[q] = fd[q] /\ ~IsFile(fd[q])
    BY <1>1 DEF IsWriter, Same, IsFile
  <2>2. PICK r \in Procs : IsReader(r) /\ fd[r] = fd[q]
    BY <1>1, <2>1 DEF WriterHasReader
  <2>3. r # p
    BY <1>1, <2>1, <2>2 DEF IsWriter
  <2>4. IsReader(r)' /\ fd'[r] = fd[r]
    BY <1>1, <2>2, <2>3 DEF Same
  <2>5. QED
    BY <2>1, <2>2, <2>4
<1>2. QED
  BY <1>1 DEF WriterHasReader, IsFile

(* WriterHasReader is preserved.                                            *)
LEMMA NextKeepsReaders ==
    ASSUME TypeInv, WriterHasReader, Next
    PROVE  WriterHasReader'
<1>1. TransportInv(Packets)
  BY TypeInvParts
<1>2. trouble \subseteq trouble'
  BY StepsOnPipes
<1>3. CASE KindsStay /\ UNCHANGED <<data, io>>
  <2>1. UNCHANGED <<mode, fd>>
    BY <1>3 DEF io
  <2>2. ASSUME "killed" \notin trouble', NEW q \in Procs, mode[q] = "writes", kind'[fd[q]] # "file"
        PROVE  \E r \in Procs : IsReader(r) /\ fd[r] = fd[q]
    BY <1>2, <1>3, <2>2, OpenStaysFile DEF WriterHasReader
  <2>3. QED
    BY <2>1, <2>2 DEF WriterHasReader, IsFile, IsReader
<1>4. ASSUME NEW p \in Procs, OpenRead(p), place[p] \in {"written", "ready"}
      PROVE  WriterHasReader'
  <2>1. /\ UNCHANGED kind /\ IsReader(p)' /\ ~IsWriter(p)' /\ mode[p] = "closed"
        /\ \A q \in Procs \ {p} : Same(q)
        /\ \A q \in Procs : mode'[q] = "writes" =>
               mode[q] = "writes" \/ (IsWriter(q) /\ fd[q] = fd'[p])
    BY <1>1, <1>4, ModeOf, OpenReadFacts
  <2>2. ASSUME "killed" \notin trouble', NEW q \in Procs, mode'[q] = "writes", kind'[fd'[q]] # "file"
        PROVE  \E r \in Procs : IsReader(r)' /\ fd'[r] = fd'[q]
    <3>1. q # p /\ fd'[q] = fd[q]
      BY <2>1, <2>2 DEF IsWriter, Same
    <3>2. CASE IsWriter(q) /\ fd[q] = fd'[p]
      BY <2>1, <3>1, <3>2
    <3>3. CASE mode[q] = "writes"
      <4>1. PICK r \in Procs : IsReader(r) /\ fd[r] = fd[q]
        BY <1>2, <2>1, <2>2, <3>1, <3>3 DEF WriterHasReader, IsFile
      <4>2. IsReader(r)' /\ fd'[r] = fd[r]
        BY <2>1, <4>1 DEF Same, IsReader
      <4>3. QED
        BY <3>1, <4>1, <4>2
    <3>4. QED
      BY <2>1, <2>2, <3>2, <3>3
  <2>3. QED
    BY <2>2 DEF WriterHasReader, IsFile
<1>5. ASSUME NEW p \in Procs, OpenWrite(p), place[p] \in {"ready", "handled"}
      PROVE  WriterHasReader'
  <2>1. /\ KindsStay /\ mode[p] = "closed"
        /\ mode'[p] = "writes" =>
              kind'[fd'[p]] = "file" \/ \E r \in Procs : IsReader(r) /\ fd[r] = fd'[p]
        /\ \A q \in Procs \ {p} : Same(q)
        /\ \A q \in Procs : mode'[q] = "writes" => q = p \/ mode[q] = "writes"
    BY <1>1, <1>5, ModeOf, OpenWriteFacts
  <2>2. ASSUME "killed" \notin trouble', NEW q \in Procs, mode'[q] = "writes", kind'[fd'[q]] # "file"
        PROVE  \E r \in Procs : IsReader(r)' /\ fd'[r] = fd'[q]
    <3>1. PICK r \in Procs : IsReader(r) /\ fd[r] = fd'[q]
      <4>1. CASE q = p
        BY <2>1, <2>2, <4>1
      <4>2. CASE q # p
        <5>1. mode[q] = "writes" /\ fd'[q] = fd[q]
          BY <2>1, <2>2, <4>2 DEF Same
        <5>2. ~IsFile(fd[q])
          BY <2>1, <2>2, <5>1, OpenStaysFile
        <5>3. QED
          BY <1>2, <2>2, <5>1, <5>2 DEF WriterHasReader
      <4>3. QED
        BY <4>1, <4>2
    <3>2. IsReader(r)' /\ fd'[r] = fd[r]
      BY <2>1, <3>1 DEF Same, IsReader
    <3>3. QED
      BY <3>1, <3>2
  <2>3. QED
    BY <2>2 DEF WriterHasReader, IsFile
<1>6. ASSUME NEW p \in Procs, NEW packet \in Packets, WriteAndClose(p, packet)
      PROVE  WriterHasReader'
  <2>1. /\ UNCHANGED kind /\ IsWriter(p) /\ ~IsReader(p)' /\ ~IsWriter(p)'
        /\ \A q \in Procs \ {p} : mode'[q] = mode[q] /\ Same(q)
    BY <1>1, <1>6, WriteFacts
  <2>2. ~IsReader(p)
    BY <2>1 DEF IsReader, IsWriter
  <2>3. QED
    BY <1>2, <2>1, <2>2, ClosingKeepsReaders
<1>7. ASSUME NEW p \in Procs, Take(p)
      PROVE  WriterHasReader'
  <2>1. UNCHANGED <<kind, mode, fd>>
    BY <1>7 DEF Take
  <2>2. QED
    BY <1>2, <2>1 DEF WriterHasReader, IsFile, IsReader
<1>8. ASSUME NEW p \in Procs, CloseRead(p)
      PROVE  WriterHasReader'
  BY <1>1, <1>2, <1>8, CloseReadFacts, ClosingKeepsReaders
<1>9. ASSUME NEW p \in Procs, Ends(p)
      PROVE  WriterHasReader'
  <2>1. Release(p)
    BY <1>9, EndFacts DEF End
  <2>2. /\ UNCHANGED kind /\ ~IsReader(p)' /\ ~IsWriter(p)'
        /\ \A q \in Procs \ {p} : mode'[q] = mode[q] /\ Same(q)
    BY <1>1, <2>1, ReleaseFacts
  <2>3. QED
    BY <1>2, <1>9, <2>2, UnkilledEnds, ClosingKeepsReaders
<1>10. QED
  BY <1>3, <1>4, <1>5, <1>6, <1>7, <1>8, <1>9, StepsOnPipes

(* OneClient is preserved.                                                  *)
LEMMA NextKeepsOneClient ==
    ASSUME TypeInv, OneClient, Next
    PROVE  OneClient'
<1>1. ASSUME NEW p \in Procs, Start(p)
      PROVE  OneClient'
  <2>1. /\ Go(p, "find1")
        /\ used' = used \cup ({p} \cap Clients)
        /\ trouble' = trouble \cup (IF p \in Clients /\ used \ {p} # {} THEN {"second"} ELSE {})
    BY <1>1 DEF Start
  <2>2. \A q \in Procs \ {p} : place'[q] = place[q]
    BY <2>1 DEF Go, TypeInv, TypeOK
  <2>3. \A c \in Clients : place'[c] # "down" => c \in used'
    BY <2>1, <2>2, ServerFacts DEF OneClient
  <2>4. "second" \notin trouble' => \A c, d \in used' : c = d
    BY <2>1 DEF OneClient
  <2>5. QED
    BY <2>3, <2>4 DEF OneClient
<1>2. ASSUME UNCHANGED used, trouble \subseteq trouble',
             \A c \in Clients : place'[c] # "down" => place[c] # "down"
      PROVE  OneClient'
  BY <1>2 DEF OneClient
<1>3. ASSUME NEW p \in Procs, NEW to, Go(p, to), UNCHANGED used, trouble \subseteq trouble',
             to = "down" \/ place[p] # "down"
      PROVE  OneClient'
  <2>1. place'[p] = to /\ \A q \in Procs \ {p} : place'[q] = place[q]
    BY <1>3 DEF Go, TypeInv, TypeOK
  <2>2. QED
    BY <1>2, <1>3, <2>1, ServerFacts
<1>4. trouble \subseteq trouble'
  BY StepsOnPipes
<1>5. ASSUME NEW p \in Procs, Find(p) \/ Make(p)
      PROVE  OneClient'
  BY <1>3, <1>4, <1>5 DEF Find, Make, At, history
<1>6. ASSUME NEW p \in Procs,
             \/ p \in Clients /\ (Await(p) \/ Ask(p) \/ Send(p) \/ Understand(p))
             \/ p = Server /\ (Listen \/ Respond \/ Responded \/ Handle \/ EmptyRequest)
      PROVE  OneClient'
  <2>1. place[p] # "down" /\ UNCHANGED used
    BY <1>6 DEF Await, Ask, Send, Understand, Listen, Respond, Responded, Handle, EmptyRequest,
       At, history
  <2>2. PICK to : Go(p, to)
    BY <1>6 DEF Await, Ask, Send, Understand, Listen, Respond, Responded, Handle, EmptyRequest
  <2>3. QED
    BY <1>3, <1>4, <2>1, <2>2
<1>7. ASSUME NEW p \in Procs, TakePackets(p)
      PROVE  OneClient'
  BY <1>2, <1>4, <1>7 DEF TakePackets, history
<1>8. ASSUME NEW p \in Procs, Ends(p) \/ (p \in Clients /\ (Leave(p) \/ Left(p)))
      PROVE  OneClient'
  <2>1. CASE Ends(p)
    BY <1>3, <1>4, <2>1, EndFacts DEF End
  <2>2. CASE p \in Clients /\ (Leave(p) \/ Left(p))
    BY <1>3, <1>4, <2>2 DEF Leave, Left, At
  <2>3. QED
    BY <1>8, <2>1, <2>2
<1>9. QED
  BY <1>1, <1>5, <1>6, <1>7, <1>8, StepsAre

(* A single client and its server are two processes.                        *)
LEMMA NoThirdProcess ==
    ASSUME OneClient, "second" \notin trouble,
           NEW a \in Procs, NEW b \in Procs, NEW c \in Procs, a # b, b # c, a # c,
           place[a] # "down", place[b] # "down", place[c] # "down"
    PROVE  FALSE
<1>1. \A p \in Procs : p # Server /\ place[p] # "down" => p \in used
  BY ServerFacts DEF OneClient
<1>2. QED
  BY <1>1 DEF OneClient

(* OneReads is preserved: a third process would have had to write, or to    *)
(* come.                                                                    *)
LEMMA NextKeepsOneReads ==
    ASSUME PipesInv, OneClient, OneReads, Next
    PROVE  OneReads'
<1>1. TypeInv /\ TransportInv(Packets) /\ trouble \subseteq trouble'
  BY StepsOnPipes, TypeInvParts DEF PipesInv
<1>2. ASSUME \A q \in Procs : mode'[q] = "reads" => mode[q] = "reads"
      PROVE  OneReads'
  BY <1>1, <1>2 DEF OneReads
<1>3. ASSUME NEW p \in Procs, OpenRead(p), place[p] \in {"written", "ready"}
      PROVE  OneReads'
  <2>1. /\ UNCHANGED kind /\ fd'[p] \in Nodes /\ mode[p] = "closed"
        /\ mode'[p] = "reads" =>
               IsFile(fd'[p]) \/ \E w \in Procs : IsWriter(w) /\ fd[w] = fd'[p]
        /\ \A q \in Procs : mode'[q] = "reads" => q = p \/ mode[q] = "reads"
    BY <1>1, <1>3, ModeOf, OpenReadFacts
  <2>2. ASSUME trouble' \cap {"second", "unlinked"} = {}, mode'[p] = "reads",
               NEW b \in Procs, mode[b] = "reads"
        PROVE  FALSE
    <3>1. PICK w \in Procs : IsWriter(w)
      BY <1>1, <2>1, <2>2, NoFilesYet
    <3>2. place[w] = "writing" /\ place[b] = "reading"
      BY <1>1, <2>2, <3>1, ModeOf DEF IsReader
    <3>3. QED
      BY <1>1, <1>3, <2>2, <3>2, NoThirdProcess
  <2>3. ASSUME trouble' \cap {"second", "unlinked"} = {},
               NEW a \in Procs, NEW b \in Procs, mode'[a] = "reads", mode'[b] = "reads"
        PROVE  a = b
    <3>1. CASE mode[a] = "reads" /\ mode[b] = "reads"
      BY <1>1, <2>3, <3>1 DEF OneReads
    <3>2. CASE a = p /\ mode[b] = "reads"
      BY <2>2, <2>3, <3>2
    <3>3. CASE b = p /\ mode[a] = "reads"
      BY <2>2, <2>3, <3>3
    <3>4. QED
      BY <2>1, <2>3, <3>1, <3>2, <3>3
  <2>4. QED
    BY <2>3 DEF OneReads
<1>4. ASSUME NEW p \in Procs, OpenWrite(p), place[p] \in {"ready", "handled"}
      PROVE  OneReads'
  <2>1. /\ mode[p] = "closed" /\ IsWriter(p)'
        /\ \A q \in Procs : mode'[q] = "reads" => mode[q] = "reads" \/ IsReader(q)
    BY <1>1, <1>4, ModeOf, OpenWriteFacts
  <2>2. \A q \in Procs : mode'[q] = "reads" => q # p /\ place[q] = "reading"
    BY <1>1, <2>1, ModeOf DEF IsReader, IsWriter
  <2>3. ASSUME trouble' \cap {"second", "unlinked"} = {},
               NEW a \in Procs, NEW b \in Procs, mode'[a] = "reads", mode'[b] = "reads"
        PROVE  a = b
    BY <1>1, <1>4, <2>2, <2>3, NoThirdProcess
  <2>4. QED
    BY <2>3 DEF OneReads
<1>5. ASSUME NEW p \in Procs, ~IsReader(p)', \A q \in Procs \ {p} : mode'[q] = mode[q]
      PROVE  OneReads'
  BY <1>2, <1>5 DEF IsReader
<1>6. ASSUME NEW p \in Procs, NEW packet \in Packets, WriteAndClose(p, packet)
      PROVE  OneReads'
  BY <1>1, <1>5, <1>6, WriteFacts
<1>7. ASSUME NEW p \in Procs, CloseRead(p)
      PROVE  OneReads'
  BY <1>1, <1>5, <1>7, CloseReadFacts
<1>8. ASSUME NEW p \in Procs, Ends(p)
      PROVE  OneReads'
  <2>1. Release(p)
    BY <1>1, <1>8, EndFacts DEF End
  <2>2. QED
    BY <1>1, <1>5, <2>1, ReleaseFacts
<1>9. CASE UNCHANGED mode
  BY <1>2, <1>9
<1>10. ASSUME NEW p \in Procs, Take(p)
       PROVE  UNCHANGED mode
  BY <1>10 DEF Take
<1>11. QED
  BY <1>1, <1>3, <1>4, <1>6, <1>7, <1>8, <1>9, <1>10, StepsOnPipes DEF io

(* What is left to a reader when another process closes, and has not taken  *)
(* the reader's packets along: if it owed one, that is in the pipe now.     *)
LEMMA ClosingKeepsServed ==
    ASSUME ReaderIsServed, trouble \subseteq trouble', NEW p \in Procs,
           trouble' \cap {"second", "killed", "unlinked"} = {} =>
               /\ ~IsReader(p)'
               /\ \A q \in Procs \ {p} : mode'[q] = mode[q] /\ got'[q] = got[q] /\ Same(q)
               /\ \A q \in Procs \ {p} : mode[q] = "reads" =>
                     /\ data[fd[q]] # <<>> => data'[fd[q]] # <<>>
                     /\ IsWriter(p) /\ fd[p] = fd[q] => data'[fd[q]] # <<>>
    PROVE  ReaderIsServed'
<1>1. ASSUME trouble' \cap {"second", "killed", "unlinked"} = {},
             NEW q \in Procs, mode'[q] = "reads"
      PROVE  \/ got'[q] # <<>> \/ data'[fd'[q]] # <<>>
             \/ \E w \in Procs : IsWriter(w)' /\ fd'[w] = fd'[q]
  <2>1. q # p /\ mode[q] = "reads" /\ fd'[q] = fd[q] /\ got'[q] = got[q]
    BY <1>1 DEF IsReader, Same
  <2>2. \/ got[q] # <<>> \/ data[fd[q]] # <<>>
        \/ \E w \in Procs : IsWriter(w) /\ fd[w] = fd[q]
    BY <1>1, <2>1 DEF ReaderIsServed
  <2>3. CASE data[fd[q]] # <<>>
    BY <1>1, <2>1, <2>3
  <2>4. ASSUME NEW w \in Procs, IsWriter(w), fd[w] = fd[q]
        PROVE  data'[fd'[q]] # <<>> \/ (IsWriter(w)' /\ fd'[w] = fd'[q])
    BY <1>1, <2>1, <2>4 DEF Same
  <2>5. QED
    BY <2>1, <2>2, <2>3, <2>4
<1>2. QED
  BY <1>1 DEF ReaderIsServed

(* ReaderIsServed is preserved.                                             *)
LEMMA NextKeepsServed ==
    ASSUME PipesInv, PipesInv', OneReads, ReaderIsServed, Next
    PROVE  ReaderIsServed'
<1>1. TypeInv /\ TransportInv(Packets) /\ trouble \subseteq trouble'
  BY StepsOnPipes, TypeInvParts DEF PipesInv
<1> DEFINE Calm == trouble' \cap {"second", "killed", "unlinked"} = {}
<1>2. Calm => "unlinked" \notin trouble /\ \A n \in Nodes : ~IsFile(n) /\ kind'[n] # "file"
  BY <1>1 DEF PipesInv, FilesOnlyAfterUnlink, IsFile, Nodes
<1>3. CASE UNCHANGED <<data, io>>
  BY <1>1, <1>3 DEF ReaderIsServed, io, IsWriter
<1>4. ASSUME NEW p \in Procs, OpenRead(p), place[p] \in {"written", "ready"}
      PROVE  ReaderIsServed'
  <2>1. /\ UNCHANGED <<data, got>> /\ fd'[p] \in Nodes /\ mode[p] = "closed"
        /\ mode'[p] = "reads" =>
               IsFile(fd'[p]) \/ \E w \in Procs : IsWriter(w) /\ fd[w] = fd'[p]
        /\ \A q \in Procs \ {p} : Same(q)
        /\ \A q \in Procs : mode'[q] = "reads" => q = p \/ mode[q] = "reads"
    BY <1>1, <1>4, ModeOf, OpenReadFacts
  <2>2. \A w \in Procs : IsWriter(w) => IsWriter(w)' /\ fd'[w] = fd[w]
    BY <2>1 DEF IsWriter, Same
  <2>3. ASSUME Calm, NEW q \in Procs, mode'[q] = "reads"
        PROVE  \/ got'[q] # <<>> \/ data'[fd'[q]] # <<>>
               \/ \E w \in Procs : IsWriter(w)' /\ fd'[w] = fd'[q]
    <3>1. CASE q = p
      BY <1>2, <2>1, <2>2, <2>3, <3>1
    <3>2. CASE q # p
      <4>1. mode[q] = "reads" /\ fd'[q] = fd[q]
        BY <2>1, <2>3, <3>2 DEF Same
      <4>2. \/ got[q] # <<>> \/ data[fd[q]] # <<>>
            \/ \E w \in Procs : IsWriter(w) /\ fd[w] = fd[q]
        BY <1>1, <2>3, <4>1 DEF ReaderIsServed
      <4>3. QED
        BY <2>1, <2>2, <4>1, <4>2
    <3>3. QED
      BY <3>1, <3>2
  <2>4. QED
    BY <2>3 DEF ReaderIsServed
<1>5. ASSUME NEW p \in Procs, OpenWrite(p), place[p] \in {"ready", "handled"}
      PROVE  ReaderIsServed'
  <2>1. /\ got' = got /\ IsWriter(p)' /\ mode[p] = "closed"
        /\ \A m \in Nodes : data'[m] = data[m] \/ (IsFile(m) /\ data'[m] = <<>>)
        /\ \A q \in Procs \ {p} : Same(q)
        /\ \A q \in Procs : mode'[q] = "reads" =>
               mode[q] = "reads" \/ (IsReader(q) /\ fd[q] = fd'[p])
    BY <1>1, <1>5, ModeOf, OpenWriteFacts
  <2>2. \A w \in Procs : IsWriter(w) => IsWriter(w)' /\ fd'[w] = fd[w]
    BY <2>1 DEF IsWriter, Same
  <2>3. ASSUME Calm, NEW q \in Procs, mode'[q] = "reads"
        PROVE  \/ got'[q] # <<>> \/ data'[fd'[q]] # <<>>
               \/ \E w \in Procs : IsWriter(w)' /\ fd'[w] = fd'[q]
    <3>1. q # p /\ fd'[q] = fd[q]
      BY <2>1, <2>3 DEF IsWriter, Same
    <3>2. CASE fd[q] = fd'[p]
      BY <2>1, <3>1, <3>2
    <3>3. CASE mode[q] = "reads"
      <4>1. \/ got[q] # <<>> \/ data[fd[q]] # <<>>
            \/ \E w \in Procs : IsWriter(w) /\ fd[w] = fd[q]
        BY <1>1, <2>3, <3>3 DEF ReaderIsServed
      <4>2. fd[q] \in Nodes
        BY <1>1, <3>3, ModeOf
      <4>3. data'[fd[q]] = data[fd[q]]
        BY <1>2, <2>1, <2>3, <4>2
      <4>4. QED
        BY <2>1, <2>2, <3>1, <4>1, <4>3
    <3>4. QED
      BY <2>1, <2>3, <3>2, <3>3
  <2>4. QED
    BY <2>3 DEF ReaderIsServed
<1>6. ASSUME NEW p \in Procs, NEW packet \in Packets, WriteAndClose(p, packet)
      PROVE  ReaderIsServed'
  <2>1. /\ got' = got /\ fd[p] \in Nodes /\ ~IsReader(p)' /\ data'[fd[p]] # <<>>
        /\ \A n \in Nodes \ {fd[p]} : data'[n] = data[n]
        /\ \A q \in Procs \ {p} : mode'[q] = mode[q] /\ Same(q)
    BY <1>1, <1>6, WriteFacts
  <2>2. \A q \in Procs : mode[q] = "reads" => fd[q] \in Nodes
    BY <1>1, ModeOf
  <2>3. QED
    BY <1>1, <2>1, <2>2, ClosingKeepsServed
<1>7. ASSUME NEW p \in Procs, Take(p)
      PROVE  ReaderIsServed'
  <2>1. got'[p] # <<>> /\ UNCHANGED mode /\ mode[p] = "reads"
    BY <1>1, <1>7, TakeFacts DEF Take
  <2>2. Calm => \A q \in Procs : mode'[q] = "reads" => q = p
    BY <1>1, <2>1 DEF OneReads
  <2>3. QED
    BY <2>1, <2>2 DEF ReaderIsServed
<1>8. ASSUME NEW p \in Procs, CloseRead(p)
      PROVE  ReaderIsServed'
  <2>1. /\ data' = data /\ ~IsReader(p)' /\ mode[p] = "reads"
        /\ \A q \in Procs \ {p} : mode'[q] = mode[q] /\ got'[q] = got[q] /\ Same(q)
    BY <1>1, <1>8, CloseReadFacts
  <2>2. ~IsWriter(p)
    BY <2>1 DEF IsWriter
  <2>3. QED
    BY <1>1, <2>1, <2>2, ClosingKeepsServed
<1>9. ASSUME NEW p \in Procs, Ends(p)
      PROVE  ReaderIsServed'
  <2>1. Release(p)
    BY <1>1, <1>9, EndFacts DEF End
  <2>2. /\ ~IsReader(p)'
        /\ \A q \in Procs \ {p} : mode'[q] = mode[q] /\ got'[q] = got[q] /\ Same(q)
        /\ \A q \in Procs \ {p} : mode[q] # "closed" => data'[fd[q]] = data[fd[q]]
    BY <1>1, <2>1, ReleaseFacts
  <2>3. Calm => \A q \in Procs : mode[q] = "reads" => ~(IsWriter(p) /\ fd[p] = fd[q])
    BY <1>1, <1>9, UnkilledEnds DEF IsReader
  <2>4. QED
    BY <1>1, <2>2, <2>3, ClosingKeepsServed
<1>10. QED
  BY <1>1, <1>3, <1>4, <1>5, <1>6, <1>7, <1>8, <1>9, StepsOnPipes

(* Every end has its reason.                                                *)
LEMMA NextKeepsReasons ==
    ASSUME EndsInv, Next
    PROVE  EndsExplained'
<1>1. TypeInv /\ PipesInv /\ trouble \subseteq trouble'
  BY StepsOnPipes DEF EndsInv, PipesInv
<1>2. CASE UNCHANGED ended
  BY <1>1, <1>2 DEF EndsInv, EndsExplained
<1>3. ASSUME NEW p \in Procs, NEW why, ended' = [ended EXCEPT ![p] = why],
             why = "empty" => trouble \cap {"second", "killed", "unlinked"} # {},
             why = "absent" => "unlinked" \in trouble,
             why = "sigpipe" => "killed" \in trouble
      PROVE  EndsExplained'
  <2>1. ended'[p] = why /\ \A q \in Procs \ {p} : ended'[q] = ended[q]
    BY <1>1, <1>3 DEF TypeInv, TypeOK
  <2>2. QED
    BY <1>1, <1>3, <2>1 DEF EndsInv, EndsExplained
<1>4. ASSUME NEW p \in Procs, Ends(p)
      PROVE  EndsExplained'
  <2>1. PICK why \in {"raced", "empty", "absent", "sigpipe", "killed"} :
           /\ End(p, why)
           /\ why = "absent" => place[p] = "written" /\ node[ReadPipe[p]] = None
           /\ why = "empty" => place[p] = "reading" /\ AtEof(p) /\ Arrived(p) = <<>>
           /\ why = "sigpipe" => Broken(p)
    BY <1>1, <1>4, EndFacts
  <2>2. why = "absent" => "unlinked" \in trouble
    BY <1>1, <2>1, FoundPipes
  <2>3. ASSUME why = "empty", trouble \cap {"second", "killed", "unlinked"} = {}
        PROVE  FALSE
    <3>1. AtEof(p) /\ Arrived(p) = <<>> /\ mode[p] = "reads"
      BY <2>1, <2>3 DEF AtEof
    <3>2. ~IsFile(fd[p])
      BY <1>1, <2>3, <3>1, ModeOf, NoFilesYet
    <3>3. got[p] = <<>> /\ data[fd[p]] = <<>> /\ Writers(fd[p]) = {}
      BY <3>1, <3>2 DEF AtEof, Arrived
    <3>4. PICK w \in Procs : IsWriter(w) /\ fd[w] = fd[p]
      BY <2>3, <3>1, <3>3 DEF EndsInv, ReaderIsServed
    <3>5. QED
      BY <3>3, <3>4, EndsOf
  <2>4. ASSUME why = "sigpipe", "killed" \notin trouble
        PROVE  FALSE
    <3>1. mode[p] = "writes" /\ ~IsFile(fd[p]) /\ Readers(fd[p]) = {}
      BY <2>1, <2>4 DEF Broken
    <3>2. PICK r \in Procs : IsReader(r) /\ fd[r] = fd[p]
      BY <2>4, <3>1 DEF EndsInv, WriterHasReader
    <3>3. QED
      BY <3>1, <3>2, EndsOf
  <2>5. QED
    BY <1>3, <2>1, <2>2, <2>3, <2>4 DEF End
<1>5. ASSUME NEW p \in Clients, Left(p)
      PROVE  EndsExplained'
  BY <1>3, <1>5, ServerFacts DEF Left
<1>6. ASSUME NEW p \in Procs,
             \/ Start(p) \/ Find(p) \/ Make(p) \/ TakePackets(p)
             \/ p \in Clients /\ (Await(p) \/ Ask(p) \/ Send(p) \/ Understand(p) \/ Leave(p))
             \/ p = Server /\ (Listen \/ Respond \/ Responded \/ Handle \/ EmptyRequest)
      PROVE  UNCHANGED ended
  BY <1>6 DEF Start, Find, Make, TakePackets, Await, Ask, Send, Understand, Leave, Listen,
     Respond, Responded, Handle, EmptyRequest, history
<1>7. QED
  BY <1>2, <1>4, <1>5, <1>6, StepsAre

(* EndsInv is inductive.                                                    *)
LEMMA NextKeepsEnds ==
    ASSUME EndsInv, [Next]_vars
    PROVE  EndsInv'
<1>1. PipesInv /\ PipesInv'
  BY NextKeepsPipes DEF EndsInv
<1>2. CASE UNCHANGED vars
  <2>1. UNCHANGED <<kind, data, mode, fd, got, place, used, trouble, ended>>
    BY <1>2 DEF vars, files, io, history
  <2>2. WriterHasReader' /\ OneReads' /\ ReaderIsServed'
    BY <2>1 DEF EndsInv, WriterHasReader, OneReads, ReaderIsServed, IsFile, IsReader, IsWriter
  <2>3. OneClient' /\ EndsExplained'
    BY <2>1 DEF EndsInv, OneClient, EndsExplained
  <2>4. QED
    BY <1>1, <2>2, <2>3 DEF EndsInv
<1>3. CASE Next
  <2>1. TypeInv /\ WriterHasReader /\ OneClient /\ OneReads /\ ReaderIsServed
    BY DEF EndsInv, PipesInv
  <2>2. WriterHasReader' /\ OneClient' /\ OneReads' /\ ReaderIsServed'
    BY <1>1, <1>3, <2>1, NextKeepsReaders, NextKeepsOneClient, NextKeepsOneReads,
       NextKeepsServed
  <2>3. EndsExplained'
    BY <1>3, NextKeepsReasons
  <2>4. QED
    BY <1>1, <2>2, <2>3 DEF EndsInv
<1>4. QED
  BY <1>2, <1>3

(* It holds at first.                                                       *)
LEMMA InitGivesEnds ==
    ASSUME Init
    PROVE  EndsInv
<1>1. PipesInv
  BY InitGivesPipes
<1>2. \A p \in Procs : mode[p] = "closed" /\ place[p] = "down" /\ ended[p] = "none"
  BY DEF Init, TransportInit
<1>3. WriterHasReader /\ OneReads /\ ReaderIsServed
  BY <1>2 DEF WriterHasReader, OneReads, ReaderIsServed
<1>4. OneClient /\ EndsExplained
  BY <1>2, ServerFacts DEF Init, OneClient, EndsExplained
<1>5. QED
  BY <1>1, <1>3, <1>4 DEF EndsInv

(* With one client that is not killed and keeps its pipes, no call ends in  *)
(* an empty answer, for want of a pipe, or by SIGPIPE, however often the    *)
(* processes are started, and wherever the server is in between.            *)
THEOREM EndsAreExplained == Spec => []EndsExplained
<1>1. Init => EndsInv
  BY InitGivesEnds
<1>2. EndsInv /\ [Next]_vars => EndsInv'
  BY NextKeepsEnds
<1>3. EndsInv => EndsExplained
  BY DEF EndsInv
<1>4. QED
  BY <1>1, <1>2, <1>3, PTL DEF Spec
-----------------------------------------------------------------------------
(* The alarms in a packet.                                                  *)

(* The list of a set of bytes holds them all.                               *)
LEMMA ListHoldsAll ==
    ASSUME NEW s \in SUBSET (0..255)
    PROVE  ToSet(AlarmList(s)) = s
<1> DEFINE Below(x) == {y \in s : y <= x}
           n == Cardinality(s)
           rank == [x \in s |-> Cardinality(Below(x))]
<1>1. IsFiniteSet(s) /\ n \in Nat /\ \A x \in s : x \in Nat
  <2>1. IsFiniteSet(0..255)
    <3>1. 0 \in Int /\ 255 \in Int
      OBVIOUS
    <3>2. QED
      BY <3>1, FS_Interval
  <2>2. IsFiniteSet(s)
    BY <2>1, FS_Subset
  <2>3. \A x \in s : x \in 0..255
    OBVIOUS
  <2>4. QED
    BY <2>2, <2>3, FS_CardinalityType
<1>2. ASSUME NEW x \in s
      PROVE  IsFiniteSet(Below(x)) /\ rank[x] \in 1..n
  <2>1. IsFiniteSet(Below(x)) /\ Cardinality(Below(x)) <= n /\ Below(x) # {}
    BY <1>1, FS_Subset
  <2>2. Cardinality(Below(x)) \in Nat /\ Cardinality(Below(x)) # 0
    BY <2>1, FS_CardinalityType, FS_EmptySet
  <2>3. QED
    BY <1>1, <2>1, <2>2
<1>3. ASSUME NEW x \in s, NEW y \in s, x < y
      PROVE  rank[x] < rank[y]
  <2>1. Below(x) \subseteq Below(y) /\ y \in Below(y) /\ y \notin Below(x)
    <3>1. x \in Nat /\ y \in Nat /\ ~(y <= x) /\ y <= y
      BY <1>1, <1>3
    <3>2. \A z \in s : z <= x => z <= y
      BY <1>1, <1>3, <3>1
    <3>3. QED
      BY <3>1, <3>2
  <2>2. Cardinality(Below(x)) <= Cardinality(Below(y))
        /\ Cardinality(Below(x)) # Cardinality(Below(y))
    BY <1>2, <2>1, FS_Subset
  <2>3. QED
    BY <1>2, <2>2
<1>4. IsFiniteSet(1..n) /\ Cardinality(1..n) = n
  BY <1>1, FS_Interval
<1> HIDE DEF rank, n
<1>5. rank \in Injection(s, 1..n)
  <2>1. rank \in [s -> 1..n]
    BY <1>2 DEF rank
  <2>2. \A x, y \in s : rank[x] = rank[y] => x = y
    <3>1. ASSUME NEW x \in s, NEW y \in s, rank[x] = rank[y]
          PROVE  x = y
      <4>1. x \in Nat /\ y \in Nat /\ rank[x] \in 1..n
        BY <1>1, <1>2
      <4>2. ~(x < y)
        BY <1>3, <3>1, <4>1
      <4>3. ~(y < x)
        BY <1>3, <3>1, <4>1
      <4>4. QED
        BY <4>1, <4>2, <4>3
    <3>2. QED
      BY <3>1
  <2>3. QED
    BY <2>1, <2>2 DEF Injection, IsInjective
<1>6. rank \in Surjection(s, 1..n)
  BY <1>4, <1>5, FS_Injection DEF n
<1> DEFINE list == [i \in 1..n |-> CHOOSE x \in s : rank[x] = i]
<1>7. \A i \in 1..n : list[i] \in s /\ rank[list[i]] = i
  BY <1>6 DEF Surjection
<1>8. /\ list \in [1..n -> s]
      /\ \A i, j \in DOMAIN list : i < j => list[i] < list[j]
  <2>1. list \in [1..n -> s]
    BY <1>7
  <2>2. ASSUME NEW i \in 1..n, NEW j \in 1..n, i < j
        PROVE  list[i] < list[j]
    <3>1. list[i] \in Nat /\ list[j] \in Nat /\ rank[list[i]] < rank[list[j]]
      BY <1>1, <1>7, <2>2
    <3>2. ~(list[j] < list[i]) /\ list[i] # list[j]
      BY <1>1, <1>3, <1>7, <2>2, <3>1
    <3>3. QED
      BY <3>1, <3>2
  <2>3. QED
    BY <2>1, <2>2
<1> DEFINE found == AlarmList(s)
<1>9. /\ found \in [1..n -> s]
      /\ \A i, j \in 1..n : i < j => found[i] < found[j]
  BY <1>8 DEF AlarmList, n
<1> HIDE DEF found, list
<1>10. found \in Injection(1..n, s)
  <2>1. ASSUME NEW i \in 1..n, NEW j \in 1..n, found[i] = found[j]
        PROVE  i = j
    <3>1. found[i] \in Nat /\ i \in Nat /\ j \in Nat
      <4>1. found[i] \in s
        BY <1>9
      <4>2. found[i] \in Nat
        BY <1>1, <4>1
      <4>3. i \in Nat /\ j \in Nat
        BY <1>1
      <4>4. QED
        BY <4>2, <4>3
    <3>2. ~(i < j) /\ ~(j < i)
      BY <1>9, <2>1, <3>1
    <3>3. QED
      BY <3>1, <3>2
  <2>2. QED
    BY <1>9, <2>1 DEF Injection, IsInjective
<1>11. found \in Surjection(1..n, s)
  BY <1>1, <1>4, <1>10, FS_Injection DEF n
<1>12. QED
  <2>1. DOMAIN found = 1..n /\ \A i \in 1..n : found[i] \in s
    BY <1>9
  <2>2. \A x \in s : \E i \in 1..n : found[i] = x
    BY <1>11 DEF Surjection
  <2>3. {found[i] : i \in DOMAIN found} = s
    <3>1. \A x \in {found[i] : i \in DOMAIN found} : x \in s
      BY <2>1
    <3>2. \A x \in s : x \in {found[i] : i \in DOMAIN found}
      BY <2>1, <2>2
    <3>3. QED
      BY <3>1, <3>2
  <2>4. QED
    BY <2>3 DEF ToSet, found

-----------------------------------------------------------------------------
(* A client that is alone with its server, undisturbed.                     *)

Alone == trouble = {}
Outbound == node[WritePipe[Server]]

\* Who was started is there; who was not has changed nothing.
PresenceInv ==
    Alone =>
        /\ \A c \in used : place[c] # "down"
        /\ \A c \in Clients \ used : told[c] = Untold
        /\ place[Server] = "down" => frequency = 0 /\ power = 0 /\ alarms = {}
        /\ \A c \in Clients : place[c] \in Calling => asked[c].id \in 1..requests

\* Whoever writes, writes to the pipe of its name; and when it goes on, a client
\* is at the pipe that the server has the other end of.
PipesMeet ==
    Alone =>
        /\ \A p \in Procs : IsWriter(p) => fd[p] = node[WritePipe[p]]
        /\ \A c \in Clients : mode[c] = "writes" => fd[c] = Inbound
        /\ \A c \in Clients : mode[c] = "reads" => fd[c] = Outbound

Asks(c) == place[c] \in {"written", "reading"} /\ handled[asked[c].id] = 0
Waits(c) == place[c] \in {"written", "reading"} /\ handled[asked[c].id] > 0
Answering == place[Server] \in {"handled", "writing"}

\* What is in the pipe that the server reads, and in the one it writes.
ToServer == IF Inbound = None THEN <<>> ELSE data[Inbound]
ToClient == IF Outbound = None THEN <<>> ELSE data[Outbound]

Carries(s) == \E c \in Clients : Asks(c) /\ s = <<RequestOf(c)>>
Brings(s) == s = <<reply>> /\ ~Answering /\ \E c \in Clients : Waits(c)

\* What comes to the server is the client's request, and is not handled yet;
\* what comes to the client is the answer that the server has made to it.
UnderWay ==
    Alone =>
        /\ ToServer # <<>> => Carries(ToServer)
        /\ got[Server] # <<>> => Carries(got[Server])
        /\ ToClient # <<>> => Brings(ToClient)
        /\ \A c \in Clients : got[c] # <<>> => Brings(got[c])
        /\ Answering => \E c \in Clients : Waits(c)

AloneInv == EndsInv /\ RequestsInv /\ PresenceInv /\ PipesMeet /\ UnderWay

(* Nobody ends, and nobody leaves.                                          *)
LEMMA AloneSteps ==
    ASSUME EndsInv, EndsInv', Next, trouble' = {}
    PROVE  /\ trouble = {}
           /\ \E p \in Procs :
                \/ Start(p) \/ Find(p) \/ Make(p) \/ TakePackets(p)
                \/ p \in Clients /\ (Await(p) \/ Ask(p) \/ Send(p) \/ Understand(p))
                \/ p = Server /\ (Listen \/ Respond \/ Responded \/ Handle \/ EmptyRequest)
<1>1. TypeInv /\ PipesInv /\ trouble = {}
  BY StepsOnPipes DEF EndsInv, PipesInv
<1>2. ASSUME NEW p \in Procs, Ends(p)
      PROVE  FALSE
  <2>1. PICK why \in {"raced", "empty", "absent", "sigpipe", "killed"} :
           /\ End(p, why)
           /\ why = "killed" => trouble' = trouble \cup {"killed"}
           /\ why = "raced" => trouble' = trouble \cup {"raced"}
    BY <1>1, <1>2, EndFacts
  <2>2. ended'[p] = why
    BY <1>1, <2>1 DEF End, TypeInv, TypeOK
  <2>3. QED
    BY <2>1, <2>2 DEF EndsInv, EndsExplained
<1>3. ASSUME NEW p \in Clients, Leave(p) \/ Left(p)
      PROVE  FALSE
  <2>1. ~Leave(p)
    BY DEF Leave
  <2>2. ~Left(p)
    BY <1>1, ServerFacts DEF Left, At, PipesInv, PipesThere
  <2>3. QED
    BY <1>3, <2>1, <2>2
<1>4. QED
  BY <1>1, <1>2, <1>3, StepsAre

(* What is known of the two.                                                *)
LEMMA AloneFacts ==
    ASSUME EndsInv, trouble = {}
    PROVE  /\ TypeInv /\ PipesInv /\ TransportInv(Packets)
           /\ \A n \in Nodes : ~IsFile(n)
           /\ \A p \in Procs : IsReader(p) => fd[p] = node[ReadPipe[p]]
           /\ \A p \in Procs : IsReader(p) \/ IsWriter(p) => fd[p] \in Nodes /\ fd[p] # None
           /\ Inbound \in Nodes \cup {None} /\ Outbound \in Nodes \cup {None}
           /\ Inbound = Outbound => Inbound = None
           /\ \A n \in Nodes : n # None
           /\ \A c, d \in Clients : place[c] # "down" /\ place[d] # "down" => c = d
<1>1. TypeInv /\ PipesInv /\ TransportInv(Packets)
  BY TypeInvParts DEF EndsInv, PipesInv
<1>2. \A p \in Procs : IsReader(p) \/ IsWriter(p) => fd[p] \in Nodes /\ fd[p] # None
  BY <1>1, ModeOf
<1>3. Inbound \in Nodes \cup {None} /\ Outbound \in Nodes \cup {None}
  <2>1. node \in [Names -> Nodes \cup {None}]
    BY <1>1 DEF TypeInv, TypeOK, TransportType
  <2>2. QED
    BY <2>1, ServerFacts DEF Inbound, Outbound
<1>4. Inbound = Outbound => Inbound = None
  BY <1>1, ServerFacts, WiringAssumption DEF TypeInv, NodesAreMade, Inbound, Outbound
<1>5. \A c, d \in Clients : place[c] # "down" /\ place[d] # "down" => c = d
  BY DEF EndsInv, OneClient
<1>6. \A n \in Nodes : n # None
  BY DEF Nodes, None
<1>7. QED
  BY <1>1, <1>2, <1>3, <1>4, <1>5, <1>6, NoFilesYet

(* A constructor adds pipes that are empty.                                 *)
LEMMA Constructs ==
    ASSUME EndsInv, trouble = {}, NEW p \in Procs, Start(p) \/ Find(p) \/ Make(p)
    PROVE  /\ UNCHANGED <<data, mode, fd, got, asked, told, reply, requests, handled>>
           /\ \A x \in Names : node[x] # None => node'[x] = node[x]
           /\ \A x \in Names : node[x] = None /\ node'[x] # None => data'[node'[x]] = <<>>
           /\ place[p] \in {"down"} \cup Constructing /\ place'[p] \in {"ready"} \cup Constructing
           /\ \A q \in Procs \ {p} : place'[q] = place[q]
<1>1. TypeInv /\ TransportInv(Packets)
  BY AloneFacts
<1>2. UNCHANGED <<data, mode, fd, got, asked, told, reply, requests, handled>>
  BY DEF Start, Find, Make, Mkfifo, files, io
<1>3. /\ place[p] \in {"down"} \cup Constructing /\ place'[p] \in {"ready"} \cup Constructing
      /\ \A q \in Procs \ {p} : place'[q] = place[q]
  <2>1. PICK to \in {"ready"} \cup Constructing :
           Go(p, to) /\ place[p] \in {"down"} \cup Constructing
    BY DEF Start, Find, Make, At, After, Constructing
  <2>2. QED
    BY <1>1, <2>1 DEF Go, TypeInv, TypeOK
<1>4. CASE Make(p)
  <2>1. Mkfifo(PipeOf(p)) /\ PipeOf(p) \in Names
    BY <1>4, ServerFacts DEF Make
  <2>2. /\ node[PipeOf(p)] = None /\ data[node'[PipeOf(p)]] = <<>>
        /\ \A y \in Names \ {PipeOf(p)} : node'[y] = node[y]
    BY <1>1, <2>1, MkfifoFacts
  <2>3. QED
    BY <1>2, <1>3, <2>2
<1>5. CASE Start(p) \/ Find(p)
  <2>1. node' = node
    BY <1>5 DEF Start, Find, files
  <2>2. QED
    BY <1>2, <1>3, <2>1
<1>6. QED
  BY <1>4, <1>5

(* Whoever opens a pipe finds it, and changes nothing in it.                *)
LEMMA Opens ==
    ASSUME EndsInv, EndsInv', trouble = {}, trouble' = {}, NEW p \in Procs,
           \/ OpenRead(p) /\ place[p] \in {"written", "ready"}
           \/ OpenWrite(p) /\ place[p] \in {"ready", "handled"}
    PROVE  /\ UNCHANGED <<node, data, got>> /\ mode[p] = "closed"
           /\ \A q \in Procs \ {p} : Same(q)
           /\ OpenRead(p) =>
                /\ IsReader(p)' /\ ~IsWriter(p)' /\ fd'[p] = node[ReadPipe[p]]
                /\ mode'[p] = "reads" => \E w \in Procs : IsWriter(w) /\ fd[w] = fd'[p]
                /\ \A q \in Procs : mode'[q] = "reads" => q = p \/ mode[q] = "reads"
                /\ \A q \in Procs : mode'[q] = "writes" => mode[q] = "writes" \/ fd[q] = fd'[p]
           /\ OpenWrite(p) /\ ~OpenRead(p) =>
                /\ IsWriter(p)' /\ ~IsReader(p)' /\ fd'[p] = node[WritePipe[p]]
                /\ mode'[p] = "writes" => \E r \in Procs : IsReader(r) /\ fd[r] = fd'[p]
                /\ \A q \in Procs : mode'[q] = "writes" => q = p \/ mode[q] = "writes"
                /\ \A q \in Procs : mode'[q] = "reads" => mode[q] = "reads" \/ fd[q] = fd'[p]
<1>1. /\ TypeInv /\ PipesInv /\ TransportInv(Packets) /\ mode[p] = "closed"
      /\ \A n \in Nodes : ~IsFile(n) /\ ~IsFile(n)'
  BY AloneFacts, ModeOf DEF EndsInv, PipesInv, FilesOnlyAfterUnlink
<1>2. CASE OpenRead(p)
  BY <1>1, <1>2, OpenReadFacts
<1>3. CASE OpenWrite(p) /\ ~OpenRead(p)
  <2>1. node[WritePipe[p]] # None
    BY <1>1, <1>3, FoundPipes
  <2>2. /\ UNCHANGED <<node, kind>> /\ got' = got
        /\ \A m \in Nodes : data'[m] = data[m]
        /\ TransportInv(Packets)'
        /\ \A q \in Procs \ {p} : Same(q)
        /\ IsWriter(p)' /\ ~IsReader(p)' /\ fd'[p] = node[WritePipe[p]] /\ fd'[p] \in Nodes
        /\ mode'[p] = "writes" =>
               kind'[fd'[p]] = "file" \/ \E r \in Procs : IsReader(r) /\ fd[r] = fd'[p]
        /\ \A q \in Procs : mode'[q] = "writes" => q = p \/ mode[q] = "writes"
        /\ \A q \in Procs : mode'[q] = "reads" => mode[q] = "reads" \/ fd[q] = fd'[p]
    BY <1>1, <1>3, <2>1, OpenWriteFacts
  <2>3. data' = data
    <3>1. data \in [Nodes -> Some(Packets)]
      BY <1>1 DEF TransportInv, TransportType
    <3>2. data' \in [Nodes -> Some(Packets)']
      BY <2>2 DEF TransportInv, TransportType
    <3>3. QED
      BY <2>2, <3>1, <3>2
  <2>4. mode'[p] = "writes" => \E r \in Procs : IsReader(r) /\ fd[r] = fd'[p]
    BY <1>1, <2>2 DEF IsFile
  <2>5. QED
    BY <1>1, <1>3, <2>2, <2>3, <2>4
<1>4. QED
  BY <1>2, <1>3

(* What mode says.                                                          *)
LEMMA ModeSays ==
    /\ \A q \in Procs : (mode[q] = "reads" => IsReader(q)) /\ (mode[q] = "writes" => IsWriter(q))
    /\ \A q \in Procs : mode[q] = "closed" => ~IsReader(q) /\ ~IsWriter(q)
    /\ \A q \in Procs : mode'[q] = "reads" => IsReader(q)'
    /\ \A q \in Procs : mode'[q] = "writes" => IsWriter(q)'
  BY DEF IsReader, IsWriter

(* The steps after which fewer pipes are open.                              *)
LEMMA Closes ==
    ASSUME EndsInv, trouble = {}, NEW p \in Procs,
           \/ CloseRead(p)
           \/ \E packet \in Packets : WriteAndClose(p, packet)
    PROVE  /\ UNCHANGED node /\ ~IsReader(p)' /\ ~IsWriter(p)' /\ fd[p] \in Nodes
           /\ \A q \in Procs \ {p} : mode'[q] = mode[q] /\ got'[q] = got[q] /\ Same(q)
  BY AloneFacts, WriteFacts, CloseReadFacts

(* The steps of each kind.                                                  *)
LEMMA AloneOnPipes ==
    ASSUME EndsInv, EndsInv', Next, trouble' = {}
    PROVE  /\ trouble = {}
           /\ \E p \in Procs :
                \/ Start(p) \/ Find(p) \/ Make(p) \/ Take(p)
                \/ OpenRead(p) /\ place[p] \in {"written", "ready"}
                \/ OpenWrite(p) /\ place[p] \in {"ready", "handled"}
                \/ CloseRead(p)
                \/ \E packet \in Packets : WriteAndClose(p, packet)
<1>1. trouble = {} /\ TypeInv
  BY AloneSteps, AloneFacts
<1>2. ASSUME NEW p \in Procs, (p \in Clients /\ Send(p)) \/ (p = Server /\ Responded)
      PROVE  \E packet \in Packets : WriteAndClose(p, packet)
  <2>1. CASE p \in Clients /\ Send(p)
    <3>1. WriteAndClose(p, RequestOf(p)) /\ place[p] = "writing"
      BY <2>1 DEF Send, At
    <3>2. RequestOf(p) \in Requests
      BY <1>1, <2>1, <3>1, RequestOfType DEF Calling
    <3>3. QED
      BY <3>1, <3>2 DEF Packets
  <2>2. CASE p = Server /\ Responded
    BY <1>1, <2>2 DEF Responded, At, TypeInv, CallsWellFormed, Packets
  <2>3. QED
    BY <1>2, <2>1, <2>2
<1>3. ASSUME NEW p \in Procs, (p \in Clients /\ Understand(p)) \/ Handle \/ EmptyRequest
      PROVE  \E q \in Procs : CloseRead(q)
  BY <1>3, ServerFacts DEF Understand, Handle, EmptyRequest
<1>4. ASSUME NEW p \in Procs,
             (p \in Clients /\ (Await(p) \/ Ask(p))) \/ Listen \/ Respond \/ TakePackets(p)
      PROVE  \E q \in Procs :
                \/ Take(q) \/ (OpenRead(q) /\ place[q] \in {"written", "ready"})
                \/ (OpenWrite(q) /\ place[q] \in {"ready", "handled"})
  BY <1>4, ServerFacts DEF Await, Ask, Listen, Respond, TakePackets, At
<1>5. PICK p \in Procs :
        \/ Start(p) \/ Find(p) \/ Make(p) \/ TakePackets(p)
        \/ p \in Clients /\ (Await(p) \/ Ask(p) \/ Send(p) \/ Understand(p))
        \/ p = Server /\ (Listen \/ Respond \/ Responded \/ Handle \/ EmptyRequest)
  BY AloneSteps
<1>6. CASE Start(p) \/ Find(p) \/ Make(p)
  BY <1>1, <1>6
<1>7. CASE (p \in Clients /\ Send(p)) \/ (p = Server /\ Responded)
  BY <1>1, <1>2, <1>7
<1>8. CASE (p \in Clients /\ Understand(p)) \/ Handle \/ EmptyRequest
  BY <1>1, <1>3, <1>8
<1>9. CASE (p \in Clients /\ (Await(p) \/ Ask(p))) \/ Listen \/ Respond \/ TakePackets(p)
  BY <1>1, <1>4, <1>9
<1>10. QED
  BY <1>5, <1>6, <1>7, <1>8, <1>9

(* PipesMeet is preserved: who goes on met the other of the two.            *)
LEMMA NextKeepsMeeting ==
    ASSUME EndsInv, EndsInv', PipesMeet, Next
    PROVE  PipesMeet'
<1> SUFFICES ASSUME trouble' = {}
             PROVE  /\ \A q \in Procs : IsWriter(q)' => fd'[q] = node'[WritePipe[q]]
                    /\ \A c \in Clients : mode'[c] = "writes" => fd'[c] = node'[ReadPipe[Server]]
                    /\ \A c \in Clients : mode'[c] = "reads" => fd'[c] = node'[WritePipe[Server]]
  BY DEF PipesMeet, Alone, Inbound, Outbound
<1>1. /\ trouble = {} /\ TypeInv /\ PipesInv
      /\ \A p \in Procs : IsReader(p) => fd[p] = node[ReadPipe[p]]
      /\ \A p \in Procs : IsReader(p) \/ IsWriter(p) => fd[p] # None
      /\ \A c, d \in Clients : place[c] # "down" /\ place[d] # "down" => c = d
  BY AloneSteps, AloneFacts
<1>2. /\ \A p \in Procs : IsWriter(p) => fd[p] = node[WritePipe[p]]
      /\ \A c \in Clients : mode[c] = "writes" => fd[c] = node[ReadPipe[Server]]
      /\ \A c \in Clients : mode[c] = "reads" => fd[c] = node[WritePipe[Server]]
  BY <1>1 DEF PipesMeet, Alone, Inbound, Outbound
<1>3. ASSUME NEW p \in Procs, NEW q \in Procs, p # q, place[p] # "down", place[q] # "down"
      PROVE  (p \in Clients => q = Server) /\ (q \in Clients => p = Server)
  BY <1>1, <1>3, ServerFacts
<1>4. ASSUME UNCHANGED <<mode, fd>>, \A x \in Names : node[x] # None => node'[x] = node[x]
      PROVE  /\ \A q \in Procs : IsWriter(q)' => fd'[q] = node'[WritePipe[q]]
             /\ \A c \in Clients : mode'[c] = "writes" => fd'[c] = node'[ReadPipe[Server]]
             /\ \A c \in Clients : mode'[c] = "reads" => fd'[c] = node'[WritePipe[Server]]
  <2>1. \A q \in Procs : IsWriter(q)' => IsWriter(q)
    BY <1>4 DEF IsWriter
  <2>2. \A q \in Procs : WritePipe[q] \in Names
    BY PipesAreNames
  <2>3. QED
    BY <1>1, <1>2, <1>4, <2>1, <2>2, ServerFacts, ModeSays
<1>5. ASSUME NEW p \in Procs, Start(p) \/ Find(p) \/ Make(p)
      PROVE  UNCHANGED <<mode, fd>> /\ \A x \in Names : node[x] # None => node'[x] = node[x]
  BY <1>1, <1>5, Constructs
<1>6. ASSUME NEW p \in Procs, Take(p)
      PROVE  UNCHANGED <<mode, fd>> /\ \A x \in Names : node[x] # None => node'[x] = node[x]
  BY <1>6 DEF Take
<1>7. ASSUME NEW p \in Procs, OpenRead(p),
             \/ place[p] \in {"written", "ready"}
             \/ OpenWrite(p) /\ place[p] \in {"ready", "handled"}
      PROVE  /\ \A q \in Procs : IsWriter(q)' => fd'[q] = node'[WritePipe[q]]
             /\ \A c \in Clients : mode'[c] = "writes" => fd'[c] = node'[ReadPipe[Server]]
             /\ \A c \in Clients : mode'[c] = "reads" => fd'[c] = node'[WritePipe[Server]]
  <2>1. /\ node' = node /\ mode[p] = "closed" /\ \A q \in Procs \ {p} : Same(q)
        /\ IsReader(p)' /\ ~IsWriter(p)' /\ fd'[p] = node[ReadPipe[p]]
        /\ mode'[p] = "reads" => \E w \in Procs : IsWriter(w) /\ fd[w] = fd'[p]
        /\ \A q \in Procs : mode'[q] = "reads" => q = p \/ mode[q] = "reads"
        /\ \A q \in Procs : mode'[q] = "writes" => mode[q] = "writes" \/ fd[q] = fd'[p]
    BY <1>1, <1>7, Opens
  <2>2. ASSUME NEW q \in Procs, IsWriter(q)'
        PROVE  q # p /\ IsWriter(q) /\ fd'[q] = fd[q] /\ fd'[q] = node'[WritePipe[q]]
    BY <1>2, <2>1, <2>2 DEF Same
  <2>3. ASSUME NEW c \in Clients, mode'[c] = "writes"
        PROVE  fd'[c] = node'[ReadPipe[Server]]
    <3>1. c \in Procs /\ c # p /\ IsWriter(c) /\ fd'[c] = fd[c]
      BY <2>2, <2>3, ModeSays, ServerFacts
    <3>2. place[c] = "writing"
      BY <1>1, <3>1, ModeOf
    <3>3. p = Server
      BY <1>3, <1>7, <3>1, <3>2
    <3>4. QED
      BY <1>2, <2>1, <2>3, <3>1, <3>3
  <2>4. ASSUME NEW c \in Clients, mode'[c] = "reads"
        PROVE  fd'[c] = node'[WritePipe[Server]]
    <3>1. CASE c = p
      <4>1. PICK w \in Procs : IsWriter(w) /\ fd[w] = fd'[p]
        BY <2>1, <2>4, <3>1
      <4>2. w # p /\ place[w] = "writing"
        BY <1>1, <2>1, <4>1, ModeOf, ModeSays
      <4>3. w = Server
        BY <1>3, <1>7, <2>4, <3>1, <4>1, <4>2
      <4>4. QED
        BY <1>2, <2>1, <3>1, <4>1, <4>3
    <3>2. CASE c # p
      BY <1>2, <2>1, <2>4, <3>2, ServerFacts DEF Same
    <3>3. QED
      BY <3>1, <3>2
  <2>5. QED
    BY <2>2, <2>3, <2>4
<1>8. ASSUME NEW p \in Procs, OpenWrite(p), ~OpenRead(p), place[p] \in {"ready", "handled"}
      PROVE  /\ \A q \in Procs : IsWriter(q)' => fd'[q] = node'[WritePipe[q]]
             /\ \A c \in Clients : mode'[c] = "writes" => fd'[c] = node'[ReadPipe[Server]]
             /\ \A c \in Clients : mode'[c] = "reads" => fd'[c] = node'[WritePipe[Server]]
  <2>1. /\ node' = node /\ mode[p] = "closed" /\ \A q \in Procs \ {p} : Same(q)
        /\ IsWriter(p)' /\ ~IsReader(p)' /\ fd'[p] = node[WritePipe[p]]
        /\ mode'[p] = "writes" => \E r \in Procs : IsReader(r) /\ fd[r] = fd'[p]
        /\ \A q \in Procs : mode'[q] = "writes" => q = p \/ mode[q] = "writes"
        /\ \A q \in Procs : mode'[q] = "reads" => mode[q] = "reads" \/ fd[q] = fd'[p]
    BY <1>1, <1>8, Opens
  <2>2. ASSUME NEW q \in Procs, IsWriter(q)'
        PROVE  fd'[q] = node'[WritePipe[q]]
    BY <1>2, <2>1, <2>2 DEF Same
  <2>3. ASSUME NEW c \in Clients, mode'[c] = "writes"
        PROVE  fd'[c] = node'[ReadPipe[Server]]
    <3>1. CASE c = p
      <4>1. PICK r \in Procs : IsReader(r) /\ fd[r] = fd'[p]
        BY <2>1, <2>3, <3>1
      <4>2. r # p /\ place[r] = "reading"
        BY <1>1, <2>1, <4>1, ModeOf, ModeSays
      <4>3. r = Server
        BY <1>3, <1>8, <2>3, <3>1, <4>1, <4>2
      <4>4. QED
        BY <1>1, <2>1, <3>1, <4>1, <4>3
    <3>2. CASE c # p
      BY <1>2, <2>1, <2>3, <3>2, ServerFacts DEF Same
    <3>3. QED
      BY <3>1, <3>2
  <2>4. ASSUME NEW c \in Clients, mode'[c] = "reads"
        PROVE  fd'[c] = node'[WritePipe[Server]]
    <3>1. c \in Procs /\ c # p /\ IsReader(c) /\ fd'[c] = fd[c]
      BY <2>1, <2>4, ModeSays, ServerFacts DEF Same
    <3>2. place[c] = "reading"
      BY <1>1, <3>1, ModeOf
    <3>3. p = Server
      BY <1>3, <1>8, <3>1, <3>2
    <3>4. QED
      BY <1>2, <2>1, <2>4, <3>1, <3>3
  <2>5. QED
    BY <2>2, <2>3, <2>4
<1>9. ASSUME NEW p \in Procs, CloseRead(p) \/ \E packet \in Packets : WriteAndClose(p, packet)
      PROVE  /\ \A q \in Procs : IsWriter(q)' => fd'[q] = node'[WritePipe[q]]
             /\ \A c \in Clients : mode'[c] = "writes" => fd'[c] = node'[ReadPipe[Server]]
             /\ \A c \in Clients : mode'[c] = "reads" => fd'[c] = node'[WritePipe[Server]]
  <2>1. /\ UNCHANGED node /\ ~IsReader(p)' /\ ~IsWriter(p)'
        /\ \A q \in Procs \ {p} : mode'[q] = mode[q] /\ Same(q)
    BY <1>1, <1>9, Closes
  <2>2. \A q \in Procs : mode'[q] = "reads" \/ mode'[q] = "writes" => q # p
    BY <2>1, ModeSays
  <2>3. QED
    BY <1>2, <2>1, <2>2, ServerFacts DEF Same
<1>10. PICK p \in Procs :
         \/ Start(p) \/ Find(p) \/ Make(p) \/ Take(p)
         \/ OpenRead(p) /\ place[p] \in {"written", "ready"}
         \/ OpenWrite(p) /\ place[p] \in {"ready", "handled"}
         \/ CloseRead(p)
         \/ \E packet \in Packets : WriteAndClose(p, packet)
  BY AloneOnPipes
<1>11. CASE Start(p) \/ Find(p) \/ Make(p) \/ Take(p)
  BY <1>4, <1>5, <1>6, <1>11
<1>12. CASE /\ OpenRead(p)
            /\ \/ place[p] \in {"written", "ready"}
               \/ OpenWrite(p) /\ place[p] \in {"ready", "handled"}
  BY <1>7, <1>12
<1>13. CASE OpenWrite(p) /\ ~OpenRead(p) /\ place[p] \in {"ready", "handled"}
  BY <1>8, <1>13
<1>14. CASE CloseRead(p) \/ \E packet \in Packets : WriteAndClose(p, packet)
  BY <1>9, <1>14
<1>15. QED
  BY <1>10, <1>11, <1>12, <1>13, <1>14

(* A step of a process that is there and stays keeps PresenceInv, if it     *)
(* leaves what is not its own alone.                                        *)
LEMMA StayingKeepsPresence ==
    ASSUME EndsInv, PresenceInv, trouble = {}, NEW p \in Procs, NEW to, Go(p, to),
           place[p] # "down", to # "down", UNCHANGED used,
           p # Server => UNCHANGED device,
           \A c \in Clients \ {p} : told'[c] = told[c],
           \A c \in Clients : place'[c] \in Calling => asked'[c].id \in 1..requests'
    PROVE  PresenceInv'
<1>1. place'[p] = to /\ \A q \in Procs \ {p} : place'[q] = place[q]
  BY DEF Go, EndsInv, PipesInv, TypeInv, TypeOK
<1>2. /\ \A c \in used : place[c] # "down"
      /\ \A c \in Clients \ used : told[c] = Untold
      /\ place[Server] = "down" => frequency = 0 /\ power = 0 /\ alarms = {}
  BY DEF PresenceInv, Alone
<1>3. used \subseteq Clients /\ \A c \in Clients : place[c] # "down" => c \in used
  BY DEF EndsInv, OneClient, PipesInv, TypeInv, TypeOK
<1>4. \A c \in used' : place'[c] # "down"
  BY <1>1, <1>2, <1>3, ServerFacts
<1>5. \A c \in Clients \ used' : told'[c] = Untold
  BY <1>2, <1>3
<1>6. place'[Server] = "down" => frequency' = 0 /\ power' = 0 /\ alarms' = {}
  BY <1>1, <1>2, ServerFacts DEF device
<1>7. QED
  BY <1>4, <1>5, <1>6 DEF PresenceInv

(* PresenceInv is preserved.                                                *)
LEMMA NextKeepsPresence ==
    ASSUME EndsInv, EndsInv', PresenceInv, Next
    PROVE  PresenceInv'
<1> SUFFICES ASSUME trouble' = {}
             PROVE  PresenceInv'
  BY DEF PresenceInv, Alone
<1>1. trouble = {} /\ TypeInv /\ TypeInv' /\ requests \in Nat /\ place \in [Procs -> Places]
  BY AloneSteps, AloneFacts, BoundsAssumption DEF EndsInv, PipesInv, TypeInv, TypeOK, Ids
<1>2. \A c \in Clients : place[c] \in Calling => asked[c].id \in 1..requests
  BY <1>1 DEF PresenceInv, Alone
<1>3. ASSUME NEW p \in Procs, NEW to, Go(p, to), UNCHANGED <<asked, requests>>,
             to \in Calling => p = Server \/ place[p] \in Calling
      PROVE  \A c \in Clients : place'[c] \in Calling => asked'[c].id \in 1..requests'
  <2>1. place'[p] = to /\ \A q \in Procs \ {p} : place'[q] = place[q]
    BY <1>1, <1>3 DEF Go
  <2>2. QED
    BY <1>2, <1>3, <2>1, ServerFacts
<1>4. ASSUME NEW p \in Procs, Start(p)
      PROVE  PresenceInv'
  <2>1. /\ used' = used \cup ({p} \cap Clients) /\ UNCHANGED <<told, asked, requests>>
        /\ place'[p] = "find1" /\ \A q \in Procs \ {p} : place'[q] = place[q]
        /\ p # Server => UNCHANGED device
    BY <1>1, <1>4 DEF Start, Go
  <2>2. /\ \A c \in used : place[c] # "down"
        /\ \A c \in Clients \ used : told[c] = Untold
        /\ place[Server] = "down" => frequency = 0 /\ power = 0 /\ alarms = {}
        /\ used \subseteq Clients
    BY <1>1 DEF PresenceInv, Alone, TypeInv, TypeOK
  <2>3. \A c \in used' : place'[c] # "down"
    BY <2>1, <2>2, ServerFacts
  <2>4. \A c \in Clients \ used' : told'[c] = Untold
    BY <2>1, <2>2
  <2>5. place'[Server] = "down" => frequency' = 0 /\ power' = 0 /\ alarms' = {}
    BY <2>1, <2>2, ServerFacts DEF device
  <2>6. \A c \in Clients : place'[c] \in Calling => asked'[c].id \in 1..requests'
    BY <1>2, <2>1, ServerFacts DEF Calling
  <2>7. QED
    BY <2>3, <2>4, <2>5, <2>6 DEF PresenceInv
<1>5. ASSUME NEW p \in Procs, Find(p) \/ Make(p)
      PROVE  PresenceInv'
  <2>1. PICK to \in {"ready"} \cup Constructing :
           Go(p, to) /\ place[p] \in Constructing /\ UNCHANGED <<used, device, told, asked, requests>>
    BY <1>5 DEF Find, Make, At, After, Constructing, history
  <2>2. to # "down" /\ to \notin Calling /\ place[p] # "down"
    BY <2>1 DEF Constructing, Calling
  <2>3. QED
    BY <1>1, <1>3, <2>1, <2>2, StayingKeepsPresence
<1>6. ASSUME NEW p \in Procs, TakePackets(p)
      PROVE  PresenceInv'
  <2>1. UNCHANGED <<place, asked, told, device, requests, used>>
    BY <1>6 DEF TakePackets, history
  <2>2. QED
    BY <1>1, <2>1 DEF PresenceInv, Alone, device
<1>7. ASSUME NEW p \in Clients, Ask(p)
      PROVE  PresenceInv'
  <2>1. /\ Go(p, "writing") /\ place[p] = "ready" /\ UNCHANGED <<used, device, told>>
        /\ p \in Procs
    BY <1>7, ServerFacts DEF Ask, At, history
  <2>2. PICK k \in 1..MaxRequests :
           /\ requests' = k /\ k = requests + 1
           /\ asked'[p].id = k /\ \A d \in Clients \ {p} : asked'[d] = asked[d]
    BY <1>1, <1>7, AskedType
  <2>3. \A q \in Procs \ {p} : place'[q] = place[q]
    BY <1>1, <2>1 DEF Go
  <2>4. \A c \in Clients : place'[c] \in Calling => asked'[c].id \in 1..requests'
    BY <1>1, <1>2, <2>2, <2>3, ServerFacts
  <2>5. QED
    BY <1>1, <2>1, <2>4, StayingKeepsPresence
<1>8. ASSUME NEW p \in Procs,
             \/ p \in Clients /\ (Await(p) \/ Send(p) \/ Understand(p))
             \/ p = Server /\ (Listen \/ Respond \/ Responded \/ EmptyRequest)
      PROVE  PresenceInv'
  <2>1. PICK to \in {"ready", "written", "reading", "writing"} :
           /\ Go(p, to) /\ place[p] \in {"ready", "handled"} \cup Calling
           /\ UNCHANGED <<used, asked, requests, device>>
           /\ \A c \in Clients \ {p} : told'[c] = told[c]
           /\ to \in Calling => p = Server \/ place[p] \in Calling
    BY <1>1, <1>8 DEF Await, Send, AfterSending, Understand, Listen, Respond, Responded, EmptyRequest,
       At, Calling, history, TypeInv, TypeOK
  <2>2. to # "down" /\ place[p] # "down"
    BY <2>1 DEF Calling
  <2>3. QED
    BY <1>1, <1>3, <2>1, <2>2, StayingKeepsPresence
<1>9. CASE Handle
  <2>1. PICK to \in {"handled", "ready"} :
           Go(Server, to) /\ place[Server] = "reading" /\ UNCHANGED <<used, asked, requests, told>>
    BY <1>9 DEF Handle, AfterHandling, At, history
  <2>2. to # "down" /\ to \notin Calling /\ Server \in Procs
    BY <2>1, ServerFacts DEF Calling
  <2>3. QED
    BY <1>1, <1>3, <2>1, <2>2, StayingKeepsPresence
<1>10. QED
  BY <1>4, <1>5, <1>6, <1>7, <1>8, <1>9, AloneSteps

(* There is one request, and it is either not handled or answered; what is  *)
(* in the pipes tells which.                                                *)
LEMMA OneAtATime ==
    ASSUME EndsInv, UnderWay, trouble = {}, NEW c \in Clients, place[c] # "down"
    PROVE  /\ ~Waits(c) => /\ ToClient = <<>> /\ \A d \in Clients : got[d] = <<>>
                           /\ ~Answering
           /\ ~Asks(c) => ToServer = <<>> /\ got[Server] = <<>>
           /\ Answering => Waits(c) /\ ToClient = <<>> /\ \A d \in Clients : got[d] = <<>>
<1>1. /\ ToServer # <<>> => Carries(ToServer)
      /\ got[Server] # <<>> => Carries(got[Server])
      /\ ToClient # <<>> => Brings(ToClient)
      /\ \A d \in Clients : got[d] # <<>> => Brings(got[d])
      /\ Answering => \E d \in Clients : Waits(d)
  BY DEF UnderWay, Alone
<1>2. \A d \in Clients : Asks(d) \/ Waits(d) => d = c
  BY AloneFacts DEF Asks, Waits
<1>3. \A s : (Carries(s) => Asks(c)) /\ (Brings(s) => Waits(c) /\ ~Answering)
  BY <1>2 DEF Carries, Brings
<1>4. QED
  BY <1>1, <1>2, <1>3

(* Once nothing is under way, UnderWay says nothing.                        *)
LEMMA NothingUnderWay ==
    ASSUME ToServer' = <<>>, ToClient' = <<>>, \A q \in Procs : got'[q] = <<>>, ~Answering'
    PROVE  UnderWay'
  BY ServerFacts DEF UnderWay

(* A step that leaves the request and its answer alone, and adds nothing to *)
(* what is in the pipes and has been read of them.                          *)
LEMMA FewerUnderWay ==
    ASSUME UnderWay, trouble = {}, UNCHANGED <<asked, reply>>,
           \A c \in Clients : (Asks(c) => Asks(c)') /\ (Waits(c) => Waits(c)'),
           Answering' <=> Answering,
           ToServer' \in {ToServer, <<>>}, ToClient' \in {ToClient, <<>>},
           got'[Server] \in {got[Server], ToServer, <<>>},
           \A c \in Clients : got'[c] \in {got[c], ToClient, <<>>}
    PROVE  UnderWay'
<1>1. /\ ToServer # <<>> => Carries(ToServer)
      /\ got[Server] # <<>> => Carries(got[Server])
      /\ ToClient # <<>> => Brings(ToClient)
      /\ \A d \in Clients : got[d] # <<>> => Brings(got[d])
      /\ Answering => \E d \in Clients : Waits(d)
  BY DEF UnderWay, Alone
<1>2. ASSUME NEW s, NEW t, t = s, Carries(s)
      PROVE  \E c \in Clients : Asks(c)' /\ t = <<RequestOf(c)'>>
  <2>1. PICK c \in Clients : Asks(c) /\ s = <<RequestOf(c)>>
    BY <1>2 DEF Carries
  <2>2. RequestOf(c)' = RequestOf(c)
    BY DEF RequestOf
  <2>3. QED
    BY <1>2, <2>1, <2>2
<1>3. ASSUME NEW s, NEW t, t = s, Brings(s)
      PROVE  t = <<reply'>> /\ ~Answering' /\ \E c \in Clients : Waits(c)'
  BY <1>3 DEF Brings
<1>4. /\ ToServer' # <<>> => Carries(ToServer)'
      /\ got'[Server] # <<>> => Carries(got[Server])'
  <2>1. ToServer' # <<>> => \E c \in Clients : Asks(c)' /\ ToServer' = <<RequestOf(c)'>>
    BY <1>1, <1>2
  <2>2. got'[Server] # <<>> => \E c \in Clients : Asks(c)' /\ got'[Server] = <<RequestOf(c)'>>
    BY <1>1, <1>2
  <2>3. QED
    BY <2>1, <2>2 DEF Carries
<1>5. /\ ToClient' # <<>> => Brings(ToClient)'
      /\ \A d \in Clients : got'[d] # <<>> => Brings(got[d])'
  BY <1>1, <1>3 DEF Brings
<1>6. Answering' => \E d \in Clients : Waits(d)'
  BY <1>1
<1>7. QED
  BY <1>4, <1>5, <1>6 DEF UnderWay

(* A step of p that asks, handles and answers nothing.                      *)
LEMMA ElsewhereUnderWay ==
    ASSUME EndsInv, NEW p \in Procs, NEW to, Go(p, to), UNCHANGED <<asked, handled>>,
           p \in Clients /\ place[p] \in {"written", "reading"} => to \in {"written", "reading"},
           p = Server => (place[p] \in {"handled", "writing"} <=> to \in {"handled", "writing"})
    PROVE  /\ \A c \in Clients : (Asks(c) => Asks(c)') /\ (Waits(c) => Waits(c)')
           /\ Answering' <=> Answering
<1>1. place'[p] = to /\ \A q \in Procs \ {p} : place'[q] = place[q]
  BY DEF Go, EndsInv, PipesInv, TypeInv, TypeOK
<1>2. \A c \in Clients : place[c] \in {"written", "reading"} => place'[c] \in {"written", "reading"}
  BY <1>1, ServerFacts
<1>3. Answering' <=> Answering
  BY <1>1, ServerFacts DEF Answering
<1>4. \A c \in Clients : (Asks(c) => Asks(c)') /\ (Waits(c) => Waits(c)')
  BY <1>2 DEF Asks, Waits
<1>5. QED
  BY <1>3, <1>4

(* UnderWay is preserved: what is sent, taken, handled and answered is the  *)
(* one request and its answer.                                              *)
LEMMA NextKeepsUnderWay ==
    ASSUME AloneInv, EndsInv', Next
    PROVE  UnderWay'
<1> SUFFICES ASSUME trouble' = {}
             PROVE  UnderWay'
  BY DEF UnderWay, Alone
<1>1. /\ trouble = {} /\ EndsInv /\ UnderWay /\ TypeInv /\ PipesInv /\ TransportInv(Packets)
      /\ \A n \in Nodes : ~IsFile(n) /\ n # None
      /\ Inbound \in Nodes \cup {None} /\ Outbound \in Nodes \cup {None}
      /\ Inbound = Outbound => Inbound = None
      /\ \A p \in Procs : IsReader(p) => fd[p] = node[ReadPipe[p]]
      /\ \A p \in Procs : IsReader(p) \/ IsWriter(p) => fd[p] \in Nodes /\ fd[p] # None
      /\ \A c, d \in Clients : place[c] # "down" /\ place[d] # "down" => c = d
  BY AloneSteps, AloneFacts DEF AloneInv
<1>2. /\ IsWriter(Server) => fd[Server] = Outbound
      /\ \A c \in Clients : mode[c] = "writes" => fd[c] = Inbound
      /\ \A c \in Clients : mode[c] = "reads" => fd[c] = Outbound
      /\ IsReader(Server) => fd[Server] = Inbound
  BY <1>1, ServerFacts DEF AloneInv, PipesMeet, Alone, Inbound, Outbound
<1>3. place \in [Procs -> Places] /\ \A q \in Procs : got[q] # <<>> => place[q] = "reading"
  BY <1>1, ModeOf, ModeSays DEF TypeInv, TypeOK, NodesAreMade
<1>4. ASSUME UNCHANGED <<node, data>>
      PROVE  ToServer' = ToServer /\ ToClient' = ToClient
  BY <1>4 DEF ToServer, ToClient, Inbound, Outbound
<1>5. ASSUME NEW p \in Procs, Start(p) \/ Find(p) \/ Make(p)
      PROVE  UnderWay'
  <2>1. /\ UNCHANGED <<data, mode, fd, got, asked, told, reply, requests, handled>>
        /\ \A x \in Names : node[x] # None => node'[x] = node[x]
        /\ \A x \in Names : node[x] = None /\ node'[x] # None => data'[node'[x]] = <<>>
        /\ place[p] \in {"down"} \cup Constructing /\ place'[p] \in {"ready"} \cup Constructing
        /\ \A q \in Procs \ {p} : place'[q] = place[q]
    BY <1>1, <1>5, Constructs
  <2>2. ToServer' \in {ToServer, <<>>} /\ ToClient' \in {ToClient, <<>>}
    BY <2>1, ServerFacts DEF ToServer, ToClient, Inbound, Outbound
  <2>3. \A c \in Clients : (Asks(c) => Asks(c)') /\ (Waits(c) => Waits(c)')
    BY <2>1, ServerFacts DEF Asks, Waits, Constructing
  <2>4. Answering' <=> Answering
    BY <2>1, ServerFacts DEF Answering, Constructing
  <2>5. QED
    BY <1>1, <2>1, <2>2, <2>3, <2>4, FewerUnderWay
<1>6. ASSUME NEW p \in Procs, TakePackets(p)
      PROVE  UnderWay'
  <2>1. Take(p) /\ UNCHANGED <<place, asked, reply, handled>> /\ mode[p] = "reads"
    BY <1>6 DEF TakePackets, Take
  <2>2. /\ UNCHANGED node /\ fd[p] \in Nodes /\ IsReader(p)
        /\ got'[p] \in {got[p], data[fd[p]]}
        /\ data'[fd[p]] = <<>>
        /\ \A n \in Nodes \ {fd[p]} : data'[n] = data[n]
        /\ \A q \in Procs \ {p} : got'[q] = got[q]
    BY <1>1, <2>1, TakeFacts
  <2>3. ToServer' \in {ToServer, <<>>} /\ ToClient' \in {ToClient, <<>>}
    BY <1>1, <2>2 DEF ToServer, ToClient, Inbound, Outbound
  <2>4. data[fd[p]] = IF p = Server THEN ToServer ELSE ToClient
    BY <1>1, <1>2, <2>1, <2>2, ServerFacts DEF ToServer, ToClient
  <2>5. /\ got'[Server] \in {got[Server], ToServer, <<>>}
        /\ \A c \in Clients : got'[c] \in {got[c], ToClient, <<>>}
    BY <2>2, <2>4, ServerFacts
  <2>6. /\ \A c \in Clients : (Asks(c) => Asks(c)') /\ (Waits(c) => Waits(c)')
        /\ Answering' <=> Answering
    BY <2>1 DEF Asks, Waits, Answering
  <2>7. QED
    BY <1>1, <2>1, <2>3, <2>5, <2>6, FewerUnderWay
<1>7. ASSUME NEW p \in Procs, (p \in Clients /\ Await(p)) \/ (p = Server /\ (Listen \/ Respond))
      PROVE  UnderWay'
  <2>1. UNCHANGED <<node, data, got>>
    <3>1. \/ OpenRead(p) /\ place[p] \in {"written", "ready"}
          \/ OpenWrite(p) /\ place[p] \in {"ready", "handled"}
      BY <1>7 DEF Await, Listen, Respond, At
    <3>2. QED
      BY <1>1, <3>1, Opens
  <2>2. UNCHANGED <<asked, reply, handled>>
    BY <1>7 DEF Await, Listen, Respond
  <2>3. PICK to \in {"reading", "writing"} :
          /\ Go(p, to)
          /\ p \in Clients /\ place[p] \in {"written", "reading"} => to \in {"written", "reading"}
          /\ p = Server => (place[p] \in {"handled", "writing"} <=> to \in {"handled", "writing"})
    BY <1>7, ServerFacts DEF Await, Listen, Respond, At
  <2>4. /\ \A c \in Clients : (Asks(c) => Asks(c)') /\ (Waits(c) => Waits(c)')
        /\ Answering' <=> Answering
    BY <1>1, <2>2, <2>3, ElsewhereUnderWay
  <2>5. QED
    BY <1>1, <1>4, <2>1, <2>2, <2>4, FewerUnderWay
<1>8. CASE EmptyRequest
  <2>1. /\ CloseRead(Server) /\ Go(Server, "ready") /\ place[Server] = "reading"
        /\ UNCHANGED <<asked, reply, handled>>
    BY <1>8 DEF EmptyRequest, At
  <2>2. /\ UNCHANGED <<node, data>> /\ got'[Server] = <<>>
        /\ \A q \in Procs \ {Server} : got'[q] = got[q]
    BY <1>1, <2>1, CloseReadFacts, ServerFacts
  <2>3. /\ \A c \in Clients : (Asks(c) => Asks(c)') /\ (Waits(c) => Waits(c)')
        /\ Answering' <=> Answering
    BY <1>1, <2>1, ServerFacts, ElsewhereUnderWay
  <2>4. QED
    BY <1>1, <1>4, <2>1, <2>2, <2>3, ServerFacts, FewerUnderWay
<1>9. ASSUME NEW c \in Clients, Ask(c)
      PROVE  UnderWay'
  <2>1. OpenWrite(c) /\ place[c] = "ready" /\ Go(c, "writing") /\ c \in Procs /\ c # Server
    BY <1>9, ServerFacts DEF Ask, At
  <2>2. UNCHANGED <<node, data, got>>
    BY <1>1, <2>1, Opens
  <2>3. /\ ToServer = <<>> /\ ToClient = <<>> /\ ~Answering
        /\ got[Server] = <<>> /\ \A d \in Clients : got[d] = <<>>
    BY <1>1, <2>1, OneAtATime DEF Asks, Waits
  <2>4. ~Answering'
    BY <1>3, <2>1, <2>3, ServerFacts DEF Go, Answering
  <2>5. QED
    BY <1>4, <2>2, <2>3, <2>4, ServerFacts, NothingUnderWay
<1>10. ASSUME NEW c \in Clients, Send(c)
       PROVE  UnderWay'
  <2>1. /\ WriteAndClose(c, RequestOf(c)) /\ place[c] = "writing" /\ Go(c, "written")
        /\ c \in Procs /\ c # Server /\ UNCHANGED <<asked, reply, handled, trouble>>
    BY <1>10, ServerFacts DEF Send, AfterSending, At, history
  <2>2. RequestOf(c) \in Requests /\ RequestOf(c)' = RequestOf(c)
    BY <1>1, <2>1, RequestOfType DEF Calling, RequestOf
  <2>3. /\ UNCHANGED <<node, got>> /\ fd[c] = Inbound /\ fd[c] \in Nodes
        /\ data'[fd[c]] = <<RequestOf(c)>> \/ data'[fd[c]] = data[fd[c]]
        /\ data'[fd[c]] # <<>>
        /\ \A n \in Nodes \ {fd[c]} : data'[n] = data[n]
    <3>1. mode[c] = "writes"
      BY <2>1 DEF WriteAndClose
    <3>2. QED
      BY <1>1, <1>2, <2>1, <2>2, <3>1, WriteFacts DEF Packets
  <2>4. /\ ToServer = <<>> /\ ToClient = <<>> /\ ~Answering
        /\ got[Server] = <<>> /\ \A d \in Clients : got[d] = <<>>
    BY <1>1, <2>1, OneAtATime DEF Asks, Waits
  <2>5. ToServer' = <<RequestOf(c)>> /\ ToClient' = ToClient
    BY <1>1, <2>3, <2>4 DEF ToServer, ToClient, Inbound, Outbound
  <2>6. Asks(c)'
    <3>1. handled[asked[c].id] = 0
      BY <1>1, <2>1 DEF AloneInv, RequestsInv, RequestsAreOne, Unhandled
    <3>2. place'[c] = "written"
      BY <1>3, <2>1 DEF Go
    <3>3. QED
      BY <2>1, <3>1, <3>2 DEF Asks
  <2>7. ~Answering'
    BY <1>3, <2>1, <2>4, ServerFacts DEF Go, Answering
  <2>8. Carries(ToServer)'
    BY <2>2, <2>5, <2>6 DEF Carries
  <2>9. QED
    BY <2>3, <2>4, <2>5, <2>7, <2>8 DEF UnderWay
<1>11. ASSUME NEW c \in Clients, Understand(c)
       PROVE  UnderWay'
  <2>1. /\ CloseRead(c) /\ place[c] = "reading" /\ Go(c, "ready") /\ Arrived(c) # <<>>
        /\ c \in Procs /\ c # Server
    BY <1>11, ServerFacts DEF Understand, At
  <2>2. /\ UNCHANGED <<node, data>> /\ fd[c] \in Nodes /\ mode[c] = "reads"
        /\ IsFile(fd[c]) \/ data[fd[c]] = <<>>
        /\ got'[c] = <<>> /\ \A q \in Procs \ {c} : got'[q] = got[q]
    BY <1>1, <2>1, CloseReadFacts
  <2>3. got[c] # <<>> /\ ToClient = <<>>
    BY <1>1, <1>2, <2>1, <2>2 DEF Arrived, ToClient
  <2>4. Brings(got[c])
    BY <1>1, <2>3 DEF UnderWay, Alone
  <2>5. Waits(c) /\ ~Answering
    BY <1>1, <2>1, <2>4 DEF Brings, Waits
  <2>6. ToServer = <<>> /\ got[Server] = <<>>
    BY <1>1, <2>1, <2>5, OneAtATime DEF Asks, Waits
  <2>7. \A d \in Clients \ {c} : got[d] = <<>>
    BY <1>1, <1>3, <2>1, ServerFacts
  <2>8. ~Answering'
    BY <1>3, <2>1, <2>5, ServerFacts DEF Go, Answering
  <2>9. QED
    BY <1>4, <2>2, <2>3, <2>6, <2>7, <2>8, ServerFacts, NothingUnderWay
<1>12. CASE Handle
  <2>1. /\ CloseRead(Server) /\ place[Server] = "reading" /\ Arrived(Server) # <<>>
        /\ Go(Server, AfterHandling(Head(Arrived(Server)))) /\ UNCHANGED asked
        /\ handled' = [handled EXCEPT ![Head(Arrived(Server)).id] = IF @ = 2 THEN 2 ELSE @ + 1]
        /\ Server \in Procs
    BY <1>12, ServerFacts DEF Handle, At
  <2>2. /\ UNCHANGED <<node, data>> /\ fd[Server] \in Nodes /\ mode[Server] = "reads"
        /\ IsFile(fd[Server]) \/ data[fd[Server]] = <<>>
        /\ got'[Server] = <<>> /\ \A q \in Procs \ {Server} : got'[q] = got[q]
    BY <1>1, <2>1, CloseReadFacts
  <2>3. Arrived(Server) = got[Server] /\ ToServer = <<>>
    <3>1. fd[Server] = Inbound /\ Inbound \in Nodes
      BY <1>2, <2>1, <2>2, ModeSays
    <3>2. QED
      BY <1>1, <2>2, <3>1 DEF Arrived, ToServer
  <2>4. PICK c \in Clients : Asks(c) /\ got[Server] = <<RequestOf(c)>>
    BY <1>1, <2>1, <2>3 DEF UnderWay, Alone, Carries
  <2>5. ToClient = <<>> /\ \A d \in Clients : got[d] = <<>>
    BY <1>1, <2>4, OneAtATime DEF Asks, Waits
  <2>6. asked[c].id \in 1..MaxRequests /\ RequestOf(c).id = asked[c].id /\ c # Server /\ c \in Procs
    <3>1. asked[c].id \in 1..requests /\ requests \in 0..MaxRequests
      BY <1>1, <2>4 DEF AloneInv, PresenceInv, Alone, Asks, Calling, TypeInv, TypeOK, Ids
    <3>2. RequestOf(c).id = asked[c].id
      BY DEF RequestOf
    <3>3. QED
      BY <3>1, <3>2, ServerFacts, BoundsAssumption
  <2>7. handled'[asked[c].id] > 0
    <3>1. Head(Arrived(Server)) = RequestOf(c)
      BY <2>3, <2>4
    <3>2. handled \in [1..MaxRequests -> 0..2] /\ handled[asked[c].id] = 0
      BY <1>1, <2>4 DEF TypeInv, TypeOK, Asks
    <3>3. QED
      BY <2>1, <2>6, <3>1, <3>2
  <2>8. Waits(c)'
    <3>1. place'[c] = place[c]
      BY <1>3, <2>1, <2>6 DEF Go
    <3>2. QED
      BY <2>1, <2>4, <2>7, <3>1 DEF Waits, Asks
  <2>9. QED
    BY <1>4, <2>2, <2>3, <2>5, <2>8, ServerFacts DEF UnderWay
<1>13. CASE Responded
  <2>1. /\ WriteAndClose(Server, reply) /\ place[Server] = "writing" /\ Go(Server, "ready")
        /\ Server \in Procs /\ UNCHANGED <<asked, reply, handled>> /\ reply \in Packets
    BY <1>1, <1>13, ServerFacts DEF Responded, At, TypeInv, CallsWellFormed, Packets
  <2>2. /\ UNCHANGED <<node, got>> /\ fd[Server] = Outbound /\ fd[Server] \in Nodes
        /\ data'[fd[Server]] = <<reply>> \/ data'[fd[Server]] = data[fd[Server]]
        /\ data'[fd[Server]] # <<>>
        /\ \A n \in Nodes \ {fd[Server]} : data'[n] = data[n]
    BY <1>1, <1>2, <2>1, WriteFacts
  <2>3. PICK c \in Clients : Waits(c)
    BY <1>1, <2>1 DEF UnderWay, Alone, Answering
  <2>4. /\ ToServer = <<>> /\ ToClient = <<>>
        /\ got[Server] = <<>> /\ \A d \in Clients : got[d] = <<>>
    BY <1>1, <2>1, <2>3, OneAtATime DEF Asks, Waits, Answering
  <2>5. ToClient' = <<reply>> /\ ToServer' = ToServer
    BY <1>1, <2>2, <2>4 DEF ToServer, ToClient, Inbound, Outbound
  <2>6. ~Answering' /\ place'[c] = place[c]
    BY <1>3, <2>1, ServerFacts DEF Go, Answering
  <2>7. Waits(c)'
    BY <2>1, <2>3, <2>6 DEF Waits
  <2>8. Brings(ToClient)'
    BY <2>1, <2>5, <2>6, <2>7 DEF Brings
  <2>9. QED
    BY <2>2, <2>4, <2>5, <2>6, <2>8, ServerFacts DEF UnderWay
<1>14. PICK p \in Procs :
         \/ Start(p) \/ Find(p) \/ Make(p) \/ TakePackets(p)
         \/ p \in Clients /\ (Await(p) \/ Ask(p) \/ Send(p) \/ Understand(p))
         \/ p = Server /\ (Listen \/ Respond \/ Responded \/ Handle \/ EmptyRequest)
  BY <1>1, AloneSteps
<1>15. QED
  BY <1>5, <1>6, <1>7, <1>8, <1>9, <1>10, <1>11, <1>12, <1>13, <1>14

(* AloneInv is inductive.                                                   *)
LEMMA NextKeepsAlone ==
    ASSUME AloneInv, [Next]_vars
    PROVE  AloneInv'
<1>1. EndsInv' /\ RequestsInv'
  BY NextKeepsEnds, NextKeepsRequests DEF AloneInv
<1>2. CASE UNCHANGED vars
  <2>1. UNCHANGED <<node, data, mode, fd, got, place, asked, told, frequency, power, alarms,
                    reply, requests, handled, used, trouble>>
    BY <1>2 DEF vars, files, io, device, history
  <2>2. PresenceInv'
    BY <2>1 DEF AloneInv, PresenceInv, Alone
  <2>3. PipesMeet'
    BY <2>1 DEF AloneInv, PipesMeet, Alone, Inbound, Outbound, IsWriter
  <2>4. UnderWay'
    <3>1. CASE trouble # {}
      BY <2>1, <3>1 DEF UnderWay, Alone
    <3>2. CASE trouble = {}
      <4>1. /\ \A c \in Clients : (Asks(c) => Asks(c)') /\ (Waits(c) => Waits(c)')
            /\ Answering' <=> Answering
        BY <2>1 DEF Asks, Waits, Answering
      <4>2. ToServer' = ToServer /\ ToClient' = ToClient
        BY <2>1 DEF ToServer, ToClient, Inbound, Outbound
      <4>3. QED
        BY <2>1, <3>2, <4>1, <4>2, FewerUnderWay DEF AloneInv
    <3>3. QED
      BY <3>1, <3>2
  <2>5. QED
    BY <1>1, <2>2, <2>3, <2>4 DEF AloneInv
<1>3. CASE Next
  BY <1>1, <1>3, NextKeepsPresence, NextKeepsMeeting, NextKeepsUnderWay DEF AloneInv
<1>4. QED
  BY <1>2, <1>3

(* It holds at first.                                                       *)
LEMMA InitGivesAlone ==
    ASSUME Init
    PROVE  AloneInv
<1>1. EndsInv /\ RequestsInv
  BY InitGivesEnds, InitGivesRequests
<1>2. \A p \in Procs : mode[p] = "closed" /\ place[p] = "down" /\ got[p] = <<>>
  BY DEF Init, TransportInit
<1>3. PresenceInv
  BY <1>2, ServerFacts DEF Init, PresenceInv, Calling
<1>4. PipesMeet
  BY <1>2, ModeSays, ServerFacts DEF PipesMeet
<1>5. UnderWay
  <2>1. Inbound = None /\ Outbound = None
    BY ServerFacts DEF Init, TransportInit, Inbound, Outbound
  <2>2. QED
    BY <1>2, <2>1, ServerFacts DEF UnderWay, ToServer, ToClient, Answering
<1>6. QED
  BY <1>1, <1>3, <1>4, <1>5 DEF AloneInv

-----------------------------------------------------------------------------
(* What the client sees is the device of PipeDevice.                        *)

(* A client that is there is the client.                                    *)
LEMMA TheOne ==
    ASSUME AloneInv, trouble = {}, NEW c \in Clients, place[c] # "down"
    PROVE  /\ used = {c} /\ TheClient = c
           /\ Busy <=> place[c] \in Calling
           /\ place[c] \in Calling => asked[c].id \in 1..requests
<1>1. used = {c}
  BY AloneFacts DEF AloneInv, PresenceInv, Alone, EndsInv, OneClient, PipesInv, TypeInv, TypeOK
<1>2. TheClient = c
  BY <1>1 DEF TheClient
<1>3. Busy <=> place[c] \in Calling
  BY <1>1 DEF Busy
<1>4. QED
  BY <1>1, <1>2, <1>3 DEF AloneInv, PresenceInv, Alone

(* No outcome is no outcome.                                                *)
LEMMA OutcomeIsOne ==
    ASSUME NEW type \in Types, NEW m
    PROVE  Outcome(type, m) # Untold
<1>1. CASE type \in {"SET_FREQUENCY", "SET_POWER"}
  BY <1>1 DEF Outcome, Untold
<1>2. CASE type = "GET_STATUS"
  BY <1>2 DEF Outcome, Untold
<1>3. CASE type \in {"GET_FREQUENCY", "GET_POWER"}
  BY <1>3 DEF Outcome, Untold
<1>4. CASE type = "GET_ALARMS"
  BY <1>4 DEF Outcome, Untold
<1>5. CASE type \in {"KEEP_ALIVE", "RAISE_ALARM", "CLEAR_ALARM"}
  BY <1>5 DEF Outcome, Untold
<1>6. QED
  BY <1>1, <1>2, <1>3, <1>4, <1>5 DEF Types

(* What a client makes of the server's answer to its own request; that to   *)
(* Keep Alive brings no 'O'.                                                *)
LEMMA AnswerSays ==
    ASSUME TypeInv, NEW c \in Clients, place[c] \in Calling
    PROVE  Outcome(asked[c].type, Answer(RequestOf(c))) =
             CASE asked[c].type = "GET_FREQUENCY" -> <<"value", frequency>>
               [] asked[c].type = "GET_POWER" -> <<"value", power>>
               [] asked[c].type = "GET_ALARMS" -> <<"alarms", alarms>>
               [] asked[c].type = "KEEP_ALIVE" -> <<"failed">>
               [] OTHER -> <<"done">>
<1> DEFINE t == asked[c].type
           a == Answer(RequestOf(c))
<1>1. t \in Types
  BY DEF TypeInv, CallsWellFormed
<1>2. a.type = t /\ RequestOf(c).type = t
  BY DEF Answer, RequestOf
<1>3. t \in Valued => RequestOf(c).data # <<>>
  BY DEF RequestOf
<1>4. /\ t = "KEEP_ALIVE" => a.data = <<>>
      /\ t = "GET_FREQUENCY" => a.data = <<frequency>>
      /\ t = "GET_POWER" => a.data = <<power>>
      /\ t = "GET_ALARMS" => a.data = AlarmList(alarms)
      /\ t = "GET_STATUS" \/ t \in Valued => a.data = OK
  BY <1>2, <1>3 DEF Answer, Valued
<1> HIDE DEF t, a
<1>5. OK # <<>> /\ OK[1] = 79
  BY DEF OK
<1>6. CASE t \in {"SET_FREQUENCY", "SET_POWER"}
  <2>1. Outcome(t, a) = <<"done">>
    BY <1>6 DEF Outcome
  <2>2. QED
    BY <1>6, <2>1 DEF t, a
<1>7. CASE t = "GET_STATUS"
  <2>1. Outcome(t, a) = <<"done">>
    BY <1>2, <1>7 DEF Outcome
  <2>2. QED
    BY <1>7, <2>1 DEF t, a
<1>8. CASE t = "GET_FREQUENCY"
  <2>1. Outcome(t, a) = <<"value", frequency>>
    BY <1>2, <1>4, <1>8 DEF Outcome
  <2>2. QED
    BY <1>8, <2>1 DEF t, a
<1>9. CASE t = "GET_POWER"
  <2>1. Outcome(t, a) = <<"value", power>>
    BY <1>2, <1>4, <1>9 DEF Outcome
  <2>2. QED
    BY <1>9, <2>1 DEF t, a
<1>10. CASE t = "GET_ALARMS"
  <2>1. ToSet(AlarmList(alarms)) = alarms
    <3>1. alarms \in SUBSET (0..255)
      BY BytesAssumption DEF TypeInv, TypeOK
    <3>2. QED
      BY <3>1, ListHoldsAll
  <2>2. Outcome(t, a) = <<"alarms", alarms>>
    BY <1>2, <1>4, <1>10, <2>1 DEF Outcome
  <2>3. QED
    BY <1>10, <2>2 DEF t, a
<1>11. CASE t = "KEEP_ALIVE"
  <2>1. Outcome(t, a) = <<"failed">>
    BY <1>2, <1>4, <1>11 DEF Outcome
  <2>2. QED
    BY <1>11, <2>1 DEF t, a
<1>12. CASE t \in {"RAISE_ALARM", "CLEAR_ALARM"}
  <2>1. Outcome(t, a) = <<"done">>
    BY <1>2, <1>4, <1>5, <1>12 DEF Outcome, Valued
  <2>2. QED
    BY <1>12, <2>1 DEF t, a
<1>13. QED
  BY <1>1, <1>6, <1>7, <1>8, <1>9, <1>10, <1>11, <1>12 DEF Types

(* Init maps to the device's.                                               *)
LEMMA InitImplements ==
    ASSUME Init
    PROVE  Device!Init
<1>1. ~Busy /\ used = {} /\ trouble = {}
  BY DEF Init, Busy
<1>2. CallNow = Device!NoCall /\ EffectNow = Device!NoEffect /\ ToldNow = Device!NoEffect
  BY <1>1 DEF CallNow, EffectNow, ToldNow, Device!NoCall, Device!NoEffect, Untold
<1>3. QED
  BY <1>1, <1>2 DEF Init, Device!Init

(* A step that begins, handles and ends no call is none of the device.      *)
LEMMA NoCallStutters ==
    ASSUME AloneInv, trouble = {}, trouble' = {},
           UNCHANGED <<frequency, power, alarms, asked, told, reply, requests, handled, used>>,
           \A c \in Clients : place'[c] \in Calling <=> place[c] \in Calling
    PROVE  UNCHANGED Device!vars
<1>1. used \subseteq Clients
  BY DEF AloneInv, EndsInv, PipesInv, TypeInv, TypeOK
<1>2. (Busy' <=> Busy) /\ TheClient' = TheClient /\ ItsRequest' = ItsRequest
  BY <1>1 DEF Busy, TheClient, ItsRequest
<1>3. CallNow' = CallNow
  BY <1>2 DEF CallNow
<1>4. EffectNow' = EffectNow
  BY <1>2 DEF EffectNow
<1>5. ToldNow' = ToldNow
  BY <1>2 DEF ToldNow
<1>6. QED
  BY <1>3, <1>4, <1>5 DEF Device!vars

(* A request is a call of the device.                                       *)
LEMMA AskCalls ==
    ASSUME AloneInv, AloneInv', trouble = {}, trouble' = {}, NEW c \in Clients, Ask(c)
    PROVE  Device!Call
<1>1. TypeInv /\ c \in Procs /\ requests \in 0..MaxRequests
  BY AloneFacts, ServerFacts DEF AloneInv, TypeInv, TypeOK, Ids
<1>2. /\ place[c] = "ready" /\ Go(c, "writing") /\ requests < MaxRequests
      /\ UNCHANGED <<told, frequency, power, alarms, reply, handled, used>>
  BY DEF Ask, At, device, history
<1>3. place'[c] = "writing"
  BY <1>1, <1>2 DEF Go, TypeInv, TypeOK
<1>4. PICK type \in Commands, byte \in Bytes \cup {0} :
         asked' = [asked EXCEPT ![c] = [type |-> type, byte |-> byte, id |-> requests']]
  BY DEF Ask
<1>5. asked'[c] = [type |-> type, byte |-> byte, id |-> requests']
  BY <1>1, <1>4 DEF TypeInv, TypeOK
<1>6. used = {c} /\ TheClient = c /\ ~Busy
  BY <1>2, TheOne DEF Calling
<1>7. TheClient' = c /\ Busy'
  BY <1>2, <1>3, <1>6 DEF TheClient, Busy, Calling
<1>8. handled[requests'] = 0
  <2>1. /\ \A i \in 1..MaxRequests : i > requests => handled[i] = 0
        /\ requests' = requests + 1
    BY DEF AloneInv, RequestsInv, RequestsAreOne, Ask
  <2>2. requests' \in 1..MaxRequests /\ requests' > requests
    BY <1>1, <1>2, <2>1, BoundsAssumption
  <2>3. QED
    BY <2>1, <2>2
<1>9. CallNow = Device!NoCall /\ EffectNow = Untold /\ ToldNow = told[c]
  BY <1>6 DEF CallNow, EffectNow, ToldNow, Device!NoCall
<1>10. CallNow' = [type |-> type, byte |-> byte]
  BY <1>5, <1>7 DEF CallNow, ItsRequest
<1>11. EffectNow' = Untold
  <2>1. handled'[asked'[c].id] = 0
    BY <1>2, <1>5, <1>8
  <2>2. QED
    BY <1>7, <2>1 DEF EffectNow, ItsRequest, Untold
<1>12. ToldNow' = told[c]
  BY <1>2, <1>6, <1>7 DEF ToldNow
<1>13. QED
  BY <1>2, <1>4, <1>9, <1>10, <1>11, <1>12 DEF Device!Call

(* That it is handled is its effect.                                        *)
LEMMA HandlePerforms ==
    ASSUME AloneInv, AloneInv', trouble = {}, trouble' = {}, Handle
    PROVE  Device!Perform
<1> DEFINE m == Head(Arrived(Server))
<1>1. /\ TypeInv /\ PipesInv /\ TransportInv(Packets) /\ Server \in Procs
      /\ \A n \in Nodes : ~IsFile(n)
  BY AloneFacts, ServerFacts DEF AloneInv
<1>2. /\ place[Server] = "reading" /\ CloseRead(Server) /\ Arrived(Server) # <<>>
      /\ frequency' = IF Sets(m) THEN m.data[1] ELSE frequency
      /\ power' = IF m.type = "SET_POWER" /\ m.data # <<>> THEN m.data[1] ELSE power
      /\ alarms' = IF m.type = "RAISE_ALARM" THEN alarms \cup ToSet(m.data)
                   ELSE IF m.type = "CLEAR_ALARM" THEN alarms \ ToSet(m.data) ELSE alarms
      /\ reply' = Answer(m)
      /\ handled' = [handled EXCEPT ![m.id] = IF @ = 2 THEN 2 ELSE @ + 1]
      /\ Go(Server, AfterHandling(m))
      /\ UNCHANGED <<asked, told, requests, used>>
  BY DEF Handle, At, history
<1> HIDE DEF m
<1>3. Arrived(Server) = got[Server]
  <2>1. fd[Server] \in Nodes /\ (IsFile(fd[Server]) \/ data[fd[Server]] = <<>>)
    BY <1>1, <1>2, CloseReadFacts
  <2>2. QED
    BY <1>1, <2>1 DEF Arrived
<1>4. PICK c \in Clients : Asks(c) /\ got[Server] = <<RequestOf(c)>>
  BY <1>2, <1>3 DEF AloneInv, UnderWay, Alone, Carries
<1> DEFINE t == asked[c].type
           b == asked[c].byte
<1>5. m = RequestOf(c)
  BY <1>3, <1>4 DEF m
<1>6. /\ place[c] \in Calling /\ c \in Procs /\ c # Server
      /\ used = {c} /\ TheClient = c /\ Busy /\ asked[c].id \in 1..requests
      /\ handled[asked[c].id] = 0
  BY <1>4, TheOne, ServerFacts DEF Asks, Calling
<1>7. place'[c] = place[c] /\ TheClient' = c /\ Busy'
  <2>1. place'[c] = place[c]
    BY <1>1, <1>2, <1>6 DEF Go, TypeInv, TypeOK
  <2>2. QED
    BY <1>2, <1>6, <2>1 DEF TheClient, Busy
<1>8. handled'[asked[c].id] > 0
  <2>1. requests \in 0..MaxRequests /\ handled \in [1..MaxRequests -> 0..2]
    BY <1>1 DEF TypeInv, TypeOK, Ids
  <2>2. m.id = asked[c].id
    BY <1>5 DEF RequestOf
  <2>3. asked[c].id \in 1..MaxRequests
    BY <1>6, <2>1, BoundsAssumption
  <2>4. QED
    BY <1>2, <1>6, <2>1, <2>2, <2>3
<1>9. CallNow = [type |-> t, byte |-> b] /\ EffectNow = Untold /\ ToldNow = told[c]
  <2>1. ItsRequest = asked[c]
    BY <1>6 DEF ItsRequest
  <2>2. ~(handled[ItsRequest.id] > 0)
    BY <1>6, <2>1
  <2>3. QED
    BY <1>6, <2>1, <2>2 DEF CallNow, EffectNow, ToldNow
<1>10. /\ CallNow' = CallNow /\ ToldNow' = ToldNow
       /\ EffectNow' = Outcome(t, Answer(RequestOf(c)))
  <2>1. ItsRequest' = asked[c] /\ ItsRequest = asked[c]
    BY <1>2, <1>6, <1>7 DEF ItsRequest
  <2>2. CallNow' = CallNow
    BY <1>6, <1>7, <2>1 DEF CallNow
  <2>3. ToldNow' = ToldNow
    BY <1>2, <1>6, <1>7 DEF ToldNow
  <2>4. EffectNow' = Outcome(t, reply')
    BY <1>2, <1>6, <1>7, <1>8, <2>1 DEF EffectNow, Outcome
  <2>5. QED
    BY <1>2, <1>5, <2>2, <2>3, <2>4
<1>11. /\ t \in Types /\ m.type = t
       /\ m.data = IF t \in Valued THEN <<b>> ELSE <<>>
  BY <1>1, <1>5, <1>6 DEF RequestOf, TypeInv, CallsWellFormed
<1>12. t \in Valued => m.data # <<>> /\ m.data[1] = b /\ ToSet(m.data) = {b}
  BY <1>11 DEF ToSet
<1>13. Outcome(t, Answer(RequestOf(c))) =
         CASE t = "GET_FREQUENCY" -> <<"value", frequency>>
           [] t = "GET_POWER" -> <<"value", power>>
           [] t = "GET_ALARMS" -> <<"alarms", alarms>>
           [] t = "KEEP_ALIVE" -> <<"failed">>
           [] OTHER -> <<"done">>
  BY <1>1, <1>6, AnswerSays
<1>14. /\ frequency' = IF t = "SET_FREQUENCY" THEN b ELSE frequency
       /\ power' = IF t = "SET_POWER" THEN b ELSE power
       /\ alarms' = CASE t = "RAISE_ALARM" -> alarms \cup {b}
                      [] t = "CLEAR_ALARM" -> alarms \ {b}
                      [] OTHER -> alarms
  BY <1>2, <1>11, <1>12 DEF Sets, Valued
<1>15. CallNow # Device!NoCall /\ CallNow.type = t /\ CallNow.byte = b
  <2>1. t # "none"
    BY <1>11 DEF Types
  <2>2. QED
    BY <1>9, <2>1 DEF Device!NoCall
<1> HIDE DEF t, b
<1>16. /\ frequency' = IF CallNow.type = "SET_FREQUENCY" THEN CallNow.byte ELSE frequency
       /\ power' = IF CallNow.type = "SET_POWER" THEN CallNow.byte ELSE power
       /\ alarms' = CASE CallNow.type = "RAISE_ALARM" -> alarms \cup {CallNow.byte}
                      [] CallNow.type = "CLEAR_ALARM" -> alarms \ {CallNow.byte}
                      [] OTHER -> alarms
  BY <1>14, <1>15
<1>17. EffectNow' = CASE CallNow.type = "GET_FREQUENCY" -> <<"value", frequency>>
                      [] CallNow.type = "GET_POWER" -> <<"value", power>>
                      [] CallNow.type = "GET_ALARMS" -> <<"alarms", alarms>>
                      [] CallNow.type = "KEEP_ALIVE" -> <<"failed">>
                      [] OTHER -> <<"done">>
  BY <1>10, <1>13, <1>15
<1>18. \/ EffectNow' = Device!Promised
       \/ CallNow.type \in {"KEEP_ALIVE"} /\ EffectNow' = <<"failed">>
  <2>1. CASE CallNow.type = "KEEP_ALIVE"
    BY <1>17, <2>1
  <2>2. CASE CallNow.type # "KEEP_ALIVE"
    BY <1>17, <2>2 DEF Device!Promised, Device!Done
  <2>3. QED
    BY <2>1, <2>2
<1>19. QED
  BY <1>9, <1>10, <1>15, <1>16, <1>18
     DEF Device!Perform, Device!NoEffect, Untold

(* A client that has its answer returns from the device.                    *)
LEMMA UnderstandReturns ==
    ASSUME AloneInv, AloneInv', trouble = {}, trouble' = {}, NEW c \in Clients, Understand(c)
    PROVE  Device!Return
<1>1. /\ TypeInv /\ PipesInv /\ TransportInv(Packets) /\ c \in Procs
      /\ \A n \in Nodes : ~IsFile(n)
  BY AloneFacts, ServerFacts DEF AloneInv
<1>2. /\ place[c] = "reading" /\ CloseRead(c) /\ Arrived(c) # <<>>
      /\ told' = [told EXCEPT ![c] = Outcome(asked[c].type, Head(Arrived(c)))]
      /\ Go(c, "ready")
      /\ UNCHANGED <<asked, frequency, power, alarms, reply, requests, handled, used>>
  BY DEF Understand, At, device, history
<1>3. Arrived(c) = got[c]
  <2>1. fd[c] \in Nodes /\ (IsFile(fd[c]) \/ data[fd[c]] = <<>>)
    BY <1>1, <1>2, CloseReadFacts
  <2>2. QED
    BY <1>1, <2>1 DEF Arrived
<1>4. PICK d \in Clients : Waits(d) /\ got[c] = <<reply>>
  BY <1>2, <1>3 DEF AloneInv, UnderWay, Alone, Brings
<1>5. d = c
  BY <1>2, <1>4, AloneFacts DEF AloneInv, Waits
<1>6. /\ place[c] \in Calling /\ used = {c} /\ TheClient = c /\ Busy
      /\ asked[c].id \in 1..requests
  BY <1>2, TheOne DEF Calling
<1>7. TheClient' = c /\ ~Busy'
  <2>1. place'[c] = "ready"
    BY <1>1, <1>2 DEF Go, TypeInv, TypeOK
  <2>2. QED
    BY <1>2, <1>6, <2>1 DEF TheClient, Busy, Calling
<1>8. EffectNow = Outcome(asked[c].type, reply)
  BY <1>4, <1>5, <1>6 DEF EffectNow, ItsRequest, Waits
<1>9. EffectNow # Untold
  BY <1>1, <1>6, <1>8, OutcomeIsOne DEF TypeInv, CallsWellFormed
<1>10. ToldNow' = EffectNow
  <2>1. Head(Arrived(c)) = reply
    BY <1>3, <1>4
  <2>2. told'[c] = Outcome(asked[c].type, reply)
    BY <1>1, <1>2, <2>1 DEF TypeInv, TypeOK
  <2>3. QED
    BY <1>2, <1>6, <1>7, <1>8, <2>2 DEF ToldNow
<1>11. CallNow' = Device!NoCall /\ EffectNow' = Untold
  BY <1>7 DEF CallNow, EffectNow, Device!NoCall
<1>12. QED
  BY <1>2, <1>9, <1>10, <1>11 DEF Device!Return, Device!NoEffect, Untold

(* The other steps of the two are none of the device.                       *)
LEMMA OtherStepsStutter ==
    ASSUME AloneInv, AloneInv', trouble = {}, trouble' = {}, NEW p \in Procs,
           \/ Start(p) \/ Find(p) \/ Make(p) \/ TakePackets(p)
           \/ p \in Clients /\ (Await(p) \/ Send(p))
           \/ p = Server /\ (Listen \/ Respond \/ Responded \/ EmptyRequest)
    PROVE  UNCHANGED Device!vars
<1>1. TypeInv /\ Server \notin Clients
  BY AloneFacts, ServerFacts DEF AloneInv
<1>2. CASE Start(p)
  <2>1. /\ place[p] = "down" /\ place'[p] = "find1"
        /\ \A q \in Procs \ {p} : place'[q] = place[q]
        /\ UNCHANGED <<asked, told, reply, requests, handled>>
    BY <1>1, <1>2 DEF Start, At, Go, TypeInv, TypeOK
  <2>2. UNCHANGED <<frequency, power, alarms>>
    <3>1. CASE p = Server
      <4>1. frequency = 0 /\ power = 0 /\ alarms = {}
        BY <2>1, <3>1 DEF AloneInv, PresenceInv, Alone
      <4>2. QED
        BY <1>2, <3>1, <4>1 DEF Start
    <3>2. CASE p # Server
      BY <1>2, <3>2 DEF Start, device
    <3>3. QED
      BY <3>1, <3>2
  <2>3. \A c \in Clients : place'[c] \in Calling <=> place[c] \in Calling
    BY <2>1, ServerFacts DEF Calling
  <2>4. CASE p = Server
    <3>1. used' = used
      BY <1>1, <1>2, <2>4 DEF Start, TypeInv, TypeOK
    <3>2. QED
      BY <2>1, <2>2, <2>3, <3>1, NoCallStutters
  <2>5. CASE p \in Clients
    <3>1. /\ used' = used \cup {p}
          /\ (IF used \ {p} # {} THEN {"second"} ELSE {}) \subseteq trouble'
      BY <1>2, <2>5 DEF Start
    <3>2. used \ {p} = {}
      BY <3>1
    <3>3. p \notin used
      BY <2>1 DEF AloneInv, PresenceInv, Alone
    <3>4. used = {} /\ used' = {p}
      BY <3>1, <3>2, <3>3
    <3>5. ~Busy /\ ~Busy' /\ TheClient' = p
      BY <2>1, <3>4 DEF Busy, TheClient, Calling
    <3>6. told'[p] = Untold
      BY <2>1, <2>5, <3>3 DEF AloneInv, PresenceInv, Alone
    <3>7. ToldNow = Untold /\ ToldNow' = Untold
      BY <3>4, <3>5, <3>6 DEF ToldNow, Untold
    <3>8. CallNow' = CallNow /\ EffectNow' = EffectNow
      BY <3>5 DEF CallNow, EffectNow, Untold
    <3>9. QED
      BY <2>2, <3>7, <3>8 DEF Device!vars
  <2>6. QED
    BY <2>4, <2>5, ServerFacts
<1>3. ASSUME NEW to, Go(p, to), p \in Clients => (to \in Calling <=> place[p] \in Calling),
             UNCHANGED <<asked, told, device, reply, requests, handled, history>>
      PROVE  UNCHANGED Device!vars
  <2>1. \A c \in Clients : place'[c] \in Calling <=> place[c] \in Calling
    BY <1>1, <1>3 DEF Go, TypeInv, TypeOK, Clients
  <2>2. QED
    BY <1>3, <2>1, NoCallStutters DEF device, history
<1>4. CASE Find(p) \/ Make(p)
  <2>1. PICK to \in {"find2", "ready", "make1", "make2"} :
           /\ Go(p, to) /\ place[p] \in Constructing
           /\ UNCHANGED <<asked, told, device, reply, requests, handled, history>>
    BY <1>4 DEF Find, Make, After, Constructing
  <2>2. QED
    BY <1>3, <2>1 DEF Calling, Constructing
<1>5. CASE TakePackets(p)
  BY <1>5, NoCallStutters DEF TakePackets, device, history
<1>6. CASE p \in Clients /\ (Await(p) \/ Send(p))
  <2>1. PICK to \in {"reading", "written"} :
           /\ Go(p, to) /\ place[p] \in {"written", "writing"}
           /\ UNCHANGED <<asked, told, device, reply, requests, handled, history>>
    BY <1>6 DEF Await, Send, At, AfterSending
  <2>2. QED
    BY <1>3, <2>1 DEF Calling
<1>7. CASE p = Server /\ (Listen \/ Respond \/ Responded \/ EmptyRequest)
  <2>1. PICK to \in {"reading", "writing", "ready"} :
           /\ Go(p, to)
           /\ UNCHANGED <<asked, told, device, reply, requests, handled, history>>
    BY <1>7 DEF Listen, Respond, Responded, EmptyRequest
  <2>2. QED
    BY <1>1, <1>3, <1>7, <2>1
<1>8. QED
  BY <1>2, <1>4, <1>5, <1>6, <1>7

(* Every step is one of the device, or none of it.                          *)
LEMMA NextImplements ==
    ASSUME AloneInv, AloneInv', [Next]_vars
    PROVE  [Device!Next]_Device!vars
<1>1. CASE UNCHANGED vars
  <2>1. UNCHANGED <<place, asked, told, frequency, power, alarms, reply, requests, handled,
                    used, trouble>>
    BY <1>1 DEF vars, device, history
  <2>2. Busy' = Busy /\ TheClient' = TheClient /\ ItsRequest' = ItsRequest
    BY <2>1 DEF Busy, TheClient, ItsRequest
  <2>3. CallNow' = CallNow /\ ToldNow' = ToldNow
    BY <2>1, <2>2 DEF CallNow, ToldNow
  <2>4. EffectNow' = EffectNow
    BY <2>1, <2>2 DEF EffectNow
  <2>5. QED
    BY <2>1, <2>3, <2>4 DEF Device!vars
<1>2. CASE Next /\ trouble' # {}
  BY <1>2 DEF Device!Next, Device!Disturb
<1>3. CASE Next /\ trouble' = {}
  <2>1. EndsInv /\ EndsInv'
    BY DEF AloneInv
  <2>2. trouble = {}
    BY <1>3, <2>1, AloneSteps
  <2>3. PICK p \in Procs :
          \/ Start(p) \/ Find(p) \/ Make(p) \/ TakePackets(p)
          \/ p \in Clients /\ (Await(p) \/ Ask(p) \/ Send(p) \/ Understand(p))
          \/ p = Server /\ (Listen \/ Respond \/ Responded \/ Handle \/ EmptyRequest)
    BY <1>3, <2>1, AloneSteps
  <2>4. CASE p \in Clients /\ Ask(p)
    BY <1>3, <2>2, <2>4, AskCalls DEF Device!Next
  <2>5. CASE p \in Clients /\ Understand(p)
    BY <1>3, <2>2, <2>5, UnderstandReturns DEF Device!Next
  <2>6. CASE Handle
    BY <1>3, <2>2, <2>6, HandlePerforms DEF Device!Next
  <2>7. CASE \/ Start(p) \/ Find(p) \/ Make(p) \/ TakePackets(p)
             \/ p \in Clients /\ (Await(p) \/ Send(p))
             \/ p = Server /\ (Listen \/ Respond \/ Responded \/ EmptyRequest)
    BY <1>3, <2>2, <2>7, OtherStepsStutter
  <2>8. QED
    BY <2>3, <2>4, <2>5, <2>6, <2>7
<1>4. QED
  BY <1>1, <1>2, <1>3

(* As long as nothing disturbs a single client and its server, ClientApp's  *)
(* calls are those of a device: each takes effect once, while it lasts, and *)
(* comes to what that effect came to, in whatever order the two were        *)
(* started and whoever of them made the pipes.                              *)
THEOREM Implements == Spec => ImplementsDevice
<1>1. Init => AloneInv /\ Device!Init
  BY InitGivesAlone, InitImplements
<1>2. AloneInv /\ [Next]_vars => AloneInv'
  BY NextKeepsAlone
<1>3. AloneInv /\ AloneInv' /\ [Next]_vars => [Device!Next]_Device!vars
  BY NextImplements
<1>4. QED
  BY <1>1, <1>2, <1>3, PTL DEF Spec, ImplementsDevice, Device!Spec
===============================================================================
