-------------------------------- MODULE Sockets --------------------------------
(***************************************************************************)
(* Server of socket-lib, run by the threads of configuration, and the      *)
(* Transports of radio and fault.  A user's thread connects, and only then *)
(* asks for a command; it sends one request, reads one answer and closes.  *)
(*                                                                         *)
(* configuration starts a thread on Server::Run and calls it on the main   *)
(* thread too; fault does the same with its Transport, whose `command' the *)
(* two threads share.                                                      *)
(***************************************************************************)
EXTENDS SocketConnections, Vectors

CONSTANTS
    Users,      \* the threads that run Transport::Run
    Process,    \* the process each user's Transport is in
    Menu,       \* what users choose (MenuItems)
    Values,     \* the numbers they type
    Garbage,    \* what a command that was never set may be
    Mortal      \* the processes that may be killed (bound)

VARIABLES
    frequency, power, emergencies,  \* the server's fields
    thread,     \* where each acceptor is
    fd,         \* the number new_fd of each acceptor
    request, response,  \* of each acceptor
    user,       \* where each user is
    conn,       \* the connection each user has, or had
    asked,      \* the request it has made, and sent
    command,    \* the last choice, one for all users of a process
    told,       \* what each user was shown last, a set of none or one
    effects,    \* history: the outcome of the request of each connection, likewise
    trouble,    \* history: what has disturbed clients and server
    tempted,    \* history: a user chose 0 or no command
    ended       \* history: how each process ended

device == <<frequency, power, emergencies>>
server == <<thread, fd, request, response>>
clients == <<user, conn, asked, command, told>>
history == <<effects, trouble, tempted, ended>>
vars == <<connections, device, server, clients, history>>

Server == "configuration"
Processes == {Server} \cup {Process[u] : u \in Users}
Valued == {"SET_FREQUENCY", "SET_POWER", "RAISE_EMERGENCY", "CLEAR_EMERGENCY"}
Plain == {"ALIVE", "STATUS", "GET_FREQUENCY", "GET_POWER", "GET_EMERGENCIES"}
MenuItems == Valued \cup Plain \cup {"0", "invalid"}

ASSUME UsersAssumption ==
    /\ Garbage \subseteq Valued \cup Plain \cup {"EXIT", "OTHER"}
    /\ Menu \subseteq MenuItems /\ Mortal \subseteq Processes
    /\ Server \notin {Process[u] : u \in Users}

Frequency0 == "50"
Power0 == "100"
\* What HandleCommand makes of a choice; of one that is not on the menu it
\* returns a message whose command was never set.
MessagesOf(c, k) ==
    [menu : {c}, id : {k},
     command : CASE c = "0" -> {"EXIT"} [] c = "invalid" -> Garbage [] OTHER -> {c},
     data : IF c \in Valued THEN {<<v>> : v \in Values} ELSE {<<>>}]
Messages == UNION {MessagesOf(c, k) : c \in MenuItems, k \in Conns}
\* A request that waits for its number.
Draft(c, k) == [menu |-> c, command |-> c, data |-> <<>>, id |-> k]
Drafts == {Draft(c, k) : c \in Valued, k \in Conns}
NoMessage == [menu |-> "none", command |-> "none", data |-> <<>>, id |-> NoConn]

Numbers == Values \cup {Frequency0, Power0}
Outcomes == {<<"OK">>, <<"GOOD">>, <<"ERROR">>} \cup {<<n>> : n \in Numbers}
                \cup Seq(Values)
Replies == [data : Outcomes, id : Conns]
NoReply == [data |-> <<>>, id |-> NoConn]

InRun == {"accepting", "accepted", "reading", "handling", "replying", "answered", "closed",
          "unwinding"}

(* Type correctness. *)
TypeOK ==
    /\ ConnectionsType(Messages, Replies)
    /\ frequency \in Numbers /\ power \in Numbers
    /\ emergencies \in Seq(Values)
    /\ thread \in [Acceptors -> InRun \cup {"idle", "broken", "gone"}]
    /\ fd \in [Acceptors -> Fds]
    /\ request \in [Acceptors -> Messages \cup {NoMessage}]
    /\ response \in [Acceptors -> Replies \cup {NoReply}]
    /\ user \in [Users -> {"connecting", "asking", "typed", "typing", "ready", "awaiting",
                         "left", "gone"}]
    /\ conn \in [Users -> Conns \cup {NoConn}]
    /\ asked \in [Users -> Messages \cup Drafts \cup {NoMessage}]
    /\ command \in [{Process[u] : u \in Users} -> Menu \cup {"none"}]
    /\ told \in [Users -> SUBSET [menu : Menu, data : Outcomes]]
    /\ effects \in [Conns -> SUBSET Outcomes]
    /\ \A u \in Users : Cardinality(told[u]) <= 1
    /\ \A k \in Conns : Cardinality(effects[k]) <= 1
    /\ trouble \subseteq {"acceptors", "transport", "killed"}
    /\ tempted \in BOOLEAN
    /\ ended \in [Processes -> {"none", "exit", "crash", "refused", "unsent", "killed"}]

Init ==
    /\ ConnectionsInit
    /\ frequency = Frequency0 /\ power = Power0 /\ emergencies = <<>>
    /\ thread = [a \in Acceptors |-> "idle"]
    /\ fd = [a \in Acceptors |-> 1]
    /\ request = [a \in Acceptors |-> NoMessage]
    /\ response = [a \in Acceptors |-> NoReply]
    /\ user = [u \in Users |-> "connecting"]
    /\ conn = [u \in Users |-> NoConn]
    /\ asked = [u \in Users |-> NoMessage]
    /\ command = [p \in {Process[u] : u \in Users} |-> "none"]
    /\ told = [u \in Users |-> {}]
    /\ effects = [k \in Conns |-> {}]
    /\ trouble = {} /\ tempted = FALSE
    /\ ended = [p \in Processes |-> "none"]

-----------------------------------------------------------------------------
(* The clients.                                                             *)

At(u, place) == user[u] = place
Going(u, place) == user' = [user EXCEPT ![u] = place]

\* A process ends with all its users' threads; what they had open is closed.
EndClient(p, why) ==
    /\ Hangup({conn[u] : u \in {v \in Users : Process[v] = p}})
    /\ user' = [u \in Users |-> IF Process[u] = p THEN "gone" ELSE user[u]]
    /\ ended' = [ended EXCEPT ![p] = why]
    /\ UNCHANGED <<device, server, conn, asked, command, told, effects, tempted>>

\* Another thread is in Run of the same Transport.
ComesSecond(u) ==
    trouble' = trouble \cup
        (IF \E v \in Users \ {u} : Process[v] = Process[u] /\ conn[v] # NoConn
         THEN {"transport"} ELSE {})

MakeConnection(u) ==
    /\ At(u, "connecting")
    /\ \E k \in Conns : Connect(k) /\ conn' = [conn EXCEPT ![u] = k]
    /\ Going(u, "asking")
    /\ ComesSecond(u)
    /\ UNCHANGED <<device, server, asked, command, told, effects, tempted, ended>>

\* The exception of the constructor is caught nowhere.
Refused(u) ==
    /\ At(u, "connecting") /\ ~listening
    /\ EndClient(Process[u], "refused")
    /\ ComesSecond(u)

Choose(u) ==
    /\ At(u, "asking")
    /\ \E c \in Menu :
          /\ command' = [command EXCEPT ![Process[u]] = c]
          /\ tempted' = (tempted \/ c \in {"0", "invalid"})
    /\ Going(u, "typed")
    /\ UNCHANGED <<connections, device, server, conn, asked, told, effects, trouble, ended>>

Choice(u) == command[Process[u]]

\* Mutant: no number is asked for.
HandleCommandUnasked(u) ==
    /\ At(u, "typed") /\ Choice(u) # "0"
    /\ asked' = [asked EXCEPT ![u] = Draft(Choice(u), conn[u])]
    /\ Going(u, "ready")
    /\ UNCHANGED <<connections, device, server, conn, command, told, history>>

\* The request is made; some ask for a number.
HandleCommand(u) ==
    /\ At(u, "typed") /\ Choice(u) # "0"
    /\ \/ /\ Choice(u) \in Valued
          /\ asked' = [asked EXCEPT ![u] = Draft(Choice(u), conn[u])]
          /\ Going(u, "typing")
       \/ /\ Choice(u) \notin Valued
          /\ \E m \in MessagesOf(Choice(u), conn[u]) : asked' = [asked EXCEPT ![u] = m]
          /\ Going(u, "ready")
    /\ UNCHANGED <<connections, device, server, conn, command, told, history>>

\* The user types the number, while a thread of the server may be in read().
TypeNumber(u) ==
    /\ At(u, "typing")
    /\ \E v \in Values : asked' = [asked EXCEPT ![u].data = <<v>>]
    /\ Going(u, "ready")
    /\ UNCHANGED <<connections, device, server, conn, command, told, history>>

SendRequest(u) ==
    /\ At(u, "ready")
    /\ Request(conn[u], asked[u])
    /\ Going(u, "awaiting")
    /\ UNCHANGED <<device, server, conn, asked, command, told, history>>

\* EXIT is not answered: Run returns.
SendExit(u) ==
    /\ At(u, "typed") /\ Choice(u) = "0"
    /\ \E m \in MessagesOf("0", conn[u]) : RequestAndHangup(conn[u], m)
    /\ Going(u, "left")
    /\ UNCHANGED <<device, server, conn, asked, command, told, history>>

\* The write fails: a request is given up, EXIT is outside the try block.
SendFails(u) ==
    /\ ~Served(conn[u])
    /\ \/ /\ At(u, "typed") /\ Choice(u) = "0"
          /\ EndClient(Process[u], "unsent")
       \/ /\ At(u, "ready")
          /\ Hangup({conn[u]})
          /\ Going(u, "connecting")
          /\ UNCHANGED <<device, server, conn, asked, command, told, effects, tempted, ended>>
    /\ UNCHANGED trouble

\* ProcessServerResponse shows the answer as `command' asks, read once more.
Tell(u, data) == told' = [told EXCEPT ![u] = {[menu |-> Choice(u), data |-> data]}]

Receive(u) ==
    /\ At(u, "awaiting")
    /\ TakeAnswer(conn[u])
    /\ Tell(u, Head(outbox[conn[u]]).data)
    /\ Going(u, "connecting")
    /\ UNCHANGED <<device, server, conn, asked, command, history>>

\* The server closed the connection without an answer.  read() fails, or comes
\* to the end; the end is shown like an answer without data.
Miss(u) ==
    /\ At(u, "awaiting")
    /\ ~Answers(conn[u]) /\ ~Served(conn[u])
    /\ Hangup({conn[u]})
    /\ Tell(u, <<>>) \/ told' = told
    /\ Going(u, "connecting")
    /\ UNCHANGED <<device, server, conn, asked, command, history>>

-----------------------------------------------------------------------------
(* The server.                                                              *)

On(a, place) == thread[a] = place
Moves(a, place) == thread' = [thread EXCEPT ![a] = place]

EndServer(why) ==
    /\ StopListening
    /\ thread' = [a \in Acceptors |-> "gone"]
    /\ ended' = [ended EXCEPT ![Server] = why]
    /\ UNCHANGED <<device, fd, request, response, clients, effects, tempted>>

EnterRun(a) ==
    /\ On(a, "idle")
    /\ Moves(a, "accepting")
    /\ trouble' = trouble \cup
        (IF \E b \in Acceptors \ {a} : ~On(b, "idle") THEN {"acceptors"} ELSE {})
    /\ UNCHANGED <<connections, device, fd, request, response, clients, effects, tempted, ended>>

\* Mutant: the Socket is copied, and the copy closes the descriptor.
AcceptCopied(a) ==
    /\ On(a, "accepting")
    /\ backlog # <<>> /\ backlog' = Tail(backlog)
    /\ Moves(a, "accepted")
    /\ UNCHANGED <<listening, table, file, client, inbox, outbox>>
    /\ UNCHANGED <<device, fd, request, response, clients, history>>

Accept(a) ==
    /\ On(a, "accepting")
    /\ \E n \in Fds : AcceptAs(n) /\ fd' = [fd EXCEPT ![a] = n]
    /\ Moves(a, "accepted")
    /\ UNCHANGED <<device, request, response, clients, history>>

Read(a) ==
    /\ On(a, "accepted")
    /\ BeginRead(a, fd[a])
    /\ Moves(a, "reading")
    /\ UNCHANGED <<device, fd, request, response, clients, history>>

Got(a) ==
    /\ On(a, "reading") /\ Unread(file[a])
    /\ request' = [request EXCEPT ![a] = Head(inbox[file[a]])]
    /\ EndRead(a)
    /\ Moves(a, "handling")
    /\ UNCHANGED <<device, fd, response, clients, history>>

\* Nothing came before the client was gone: Deserialize throws.
GotNothing(a) ==
    /\ On(a, "reading") /\ ~Unread(file[a]) /\ client[file[a]] # "open"
    /\ EndRead(a)
    /\ Moves(a, "unwinding")
    /\ UNCHANGED <<device, fd, request, response, clients, history>>

\* The descriptor is no longer open.
BadDescriptor(a) ==
    /\ thread[a] \in {"accepted", "replying"} /\ table[fd[a]] = NoConn
    /\ Moves(a, "unwinding")
    /\ UNCHANGED <<connections, device, fd, request, response, clients, history>>

Carries(m, c) == m.command = c /\ m.data # <<>>

Answer(m) ==
    CASE m.command = "STATUS" -> <<"GOOD">>
      [] m.command = "GET_FREQUENCY" -> <<frequency>>
      [] m.command = "GET_POWER" -> <<power>>
      [] m.command = "GET_EMERGENCIES" -> emergencies
      [] m.command = "OTHER" -> <<"ERROR">>
      [] OTHER -> <<"OK">>

\* Mutant: an emergency that is raised twice is kept once.
EmergenciesOnce(m) ==
    IF Carries(m, "RAISE_EMERGENCY") /\ emergencies = <<>>
    THEN Append(emergencies, m.data[1]) ELSE emergencies

Emergencies(m) ==
    IF Carries(m, "RAISE_EMERGENCY") THEN Append(emergencies, m.data[1])
    ELSE IF Carries(m, "CLEAR_EMERGENCY")
    THEN Without(emergencies, m.data[1])
    ELSE emergencies

\* Two threads are at the vector, one of them to change it.
UsesEmergencies(a) ==
    /\ On(a, "handling")
    /\ request[a].command = "GET_EMERGENCIES" \/ Carries(request[a], "RAISE_EMERGENCY")
         \/ Carries(request[a], "CLEAR_EMERGENCY")
Racing(a) ==
    /\ UsesEmergencies(a)
    /\ \E b \in Acceptors \ {a} : /\ UsesEmergencies(b)
                                  /\ {request[a].command, request[b].command}
                                        # {"GET_EMERGENCIES"}

\* In a race a change may be lost.
Handle(a) ==
    LET m == request[a]
    IN  /\ On(a, "handling") /\ m.command # "EXIT"
        /\ frequency' = IF Carries(m, "SET_FREQUENCY") THEN m.data[1] ELSE frequency
        /\ power' = IF Carries(m, "SET_POWER") THEN m.data[1] ELSE power
        /\ emergencies' \in {Emergencies(m)} \cup (IF Racing(a) THEN {emergencies} ELSE {})
        /\ response' = [response EXCEPT ![a] = [data |-> Answer(m), id |-> m.id]]
        /\ effects' = [effects EXCEPT ![m.id] = {Answer(m)}]
        /\ request' = [request EXCEPT ![a] = NoMessage]
        /\ Moves(a, "replying")
        /\ UNCHANGED <<connections, fd, clients, trouble, tempted, ended>>

HandleExit(a) ==
    /\ On(a, "handling") /\ request[a].command = "EXIT"
    /\ EndServer("exit")
    /\ UNCHANGED trouble

Crash(a) == Racing(a) /\ EndServer("crash") /\ UNCHANGED trouble

\* Mutant: the answer stays in a buffer, and the connection open.
ReplyBuffered(a) ==
    /\ On(a, "replying") /\ table[fd[a]] # NoConn
    /\ Moves(a, "accepting")
    /\ UNCHANGED <<connections, device, fd, request, response, clients, history>>

Reply(a) ==
    /\ On(a, "replying") /\ table[fd[a]] # NoConn
    /\ WriteTo(table[fd[a]], response[a])
    /\ response' = [response EXCEPT ![a] = NoReply]
    /\ Moves(a, "answered")
    /\ UNCHANGED <<device, fd, request, clients, history>>

\* close(new_fd), and again as new_socket is destroyed.
Close(a) ==
    /\ On(a, "answered")
    /\ CloseNumber(fd[a])
    /\ Moves(a, "closed")
    /\ UNCHANGED <<device, fd, request, response, clients, history>>

Destroy(a) ==
    /\ On(a, "closed")
    /\ CloseNumber(fd[a])
    /\ Moves(a, "accepting")
    /\ fd' = [fd EXCEPT ![a] = 1]
    /\ UNCHANGED <<device, request, response, clients, history>>

\* The exception leaves Accept_client and ends the loop of Run.
Unwind(a) ==
    /\ On(a, "unwinding")
    /\ CloseNumber(fd[a])
    /\ Moves(a, "broken")
    /\ fd' = [fd EXCEPT ![a] = 1]
    /\ UNCHANGED <<device, request, response, clients, history>>

-----------------------------------------------------------------------------
Kill(p) ==
    /\ ended[p] = "none"
    /\ IF p = Server THEN EndServer("killed") ELSE EndClient(p, "killed")
    /\ trouble' = trouble \cup {"killed"}

Types(u) == Choose(u) \/ TypeNumber(u)
Called(u) ==
    \/ HandleCommand(u) \/ SendRequest(u) \/ SendExit(u) \/ SendFails(u)
    \/ Receive(u) \/ Miss(u)
Serve(a) ==
    \/ Accept(a) \/ Read(a) \/ Got(a) \/ GotNothing(a) \/ BadDescriptor(a)
    \/ Handle(a) \/ HandleExit(a) \/ Crash(a)
    \/ Reply(a) \/ Close(a) \/ Destroy(a) \/ Unwind(a)

Next ==
    \/ \E u \in Users : MakeConnection(u) \/ Refused(u) \/ Types(u) \/ Called(u)
    \/ \E a \in Acceptors : EnterRun(a) \/ Serve(a)
    \/ \E p \in Mortal : Kill(p)

Spec == Init /\ [][Next]_vars

\* Calls that do not block return, an accept() or read() that finds something
\* returns; no user must type a choice or a number, and no second thread must
\* enter the loop.
FairSpec ==
    /\ Spec
    /\ \A u \in Users : WF_vars(Called(u))
    /\ \A a \in Acceptors : WF_vars(Serve(a))

-----------------------------------------------------------------------------
(* Safety.                                                                  *)

(* One client cannot end another, or the server, in passing.  A client ends  *)
(* by an exception only when the server is gone; the server exits only if a  *)
(* user chose 0 or nothing on the menu, and crashes only with two threads in *)
(* its loop; and a loop breaks only after a client was killed, or with two.  *)
EndsExplained ==
    /\ \A p \in Processes : ended[p] \in {"refused", "unsent"} => ~listening \/ trouble # {}
    /\ ended[Server] = "exit" => tempted
    /\ ended[Server] = "crash" => "acceptors" \in trouble
    /\ (\E a \in Acceptors : On(a, "broken")) => trouble \cap {"acceptors", "killed"} # {}

-----------------------------------------------------------------------------
(* What it promises its users.                                              *)

Device == INSTANCE SocketDevice WITH
    Calls <- Messages,
    call <- [u \in Users |-> IF At(u, "awaiting") THEN {asked[u]} ELSE {}],
    effect <- [u \in Users |-> IF At(u, "awaiting") THEN effects[conn[u]] ELSE {}],
    over <- ~listening,
    disturbed <- trouble # {}

(* While one thread runs the server's loop and each Transport has one user,  *)
(* the server is an atomic device to all of them: each request takes effect  *)
(* once, and its answer is shown to the user who sent it.                    *)
ImplementsDevice == Device!Spec

-----------------------------------------------------------------------------
(* Liveness, under FairSpec.                                                *)

(* As long as nobody sits at the menu, or at the question for a number, for  *)
(* ever (who is connected and does not type keeps a thread of the server in  *)
(* read), every request comes to an end: answered, failed, or shown as       *)
(* empty; whatever two threads do to each other's descriptors, unless no     *)
(* thread is left in the loop.                                               *)
Answered ==
    (\A u \in Users : []<>(user[u] \notin {"asking", "typing"})) =>
        \A u \in Users :
            At(u, "awaiting") ~> (~At(u, "awaiting") \/ \A a \in Acceptors : thread[a] \notin InRun)
===============================================================================
