--------------------------- MODULE SocketConnections ---------------------------
(***************************************************************************)
(* TCP connections to one listening process, as far as Socket.h uses them: *)
(* each carries one request and its answer.  The server's end of a         *)
(* connection is a file, which the process knows by number: numbers are    *)
(* used again, and the file lives until no number and no read() in         *)
(* progress holds it.                                                      *)
(***************************************************************************)
EXTENDS Naturals, Sequences, FiniteSets

CONSTANTS
    Acceptors,  \* the threads that run Server::Run
    MaxConns    \* connections, all in all (bound)

ASSUME ConnectionsAssumption == IsFiniteSet(Acceptors) /\ MaxConns \in Nat

VARIABLES
    listening,  \* the server process is there
    backlog,    \* connections nobody has accepted yet
    table,      \* the connection that each number stands for
    file,       \* the connection each thread is in read() of
    client,     \* the client's end of each connection
    inbox, outbox   \* what the server, and the client, have not read

connections == <<listening, backlog, table, file, client, inbox, outbox>>

Conns == 1..MaxConns
NoConn == 0
\* Threads hold one number each; more are never in use.
Fds == 1..Cardinality(Acceptors)

ConnectionsType(Requests, Replies) ==
    /\ listening \in BOOLEAN
    /\ backlog \in Seq(Conns)
    /\ table \in [Fds -> Conns \cup {NoConn}]
    /\ file \in [Acceptors -> Conns \cup {NoConn}]
    /\ client \in [Conns -> {"none", "open", "closed"}]
    /\ inbox \in [Conns -> Seq(Requests)] /\ outbox \in [Conns -> Seq(Replies)]
    /\ \A k \in Conns : Len(inbox[k]) <= 1

ConnectionsInit ==
    /\ listening = TRUE
    /\ backlog = <<>>
    /\ table = [n \in Fds |-> NoConn]
    /\ file = [a \in Acceptors |-> NoConn]
    /\ client = [k \in Conns |-> "none"]
    /\ inbox = [k \in Conns |-> <<>>]
    /\ outbox = [k \in Conns |-> <<>>]

Queued(k) == \E i \in 1..Len(backlog) : backlog[i] = k
Made(k) == client[k] # "none"
Unread(k) == inbox[k] # <<>>
Answers(k) == outbox[k] # <<>>

\* Somebody holds the server's end.
Served(k) ==
    /\ listening
    /\ Queued(k) \/ (\E n \in Fds : table[n] = k) \/ (\E a \in Acceptors : file[a] = k)

-----------------------------------------------------------------------------
(* The client's calls.                                                      *)

Connect(k) ==
    /\ listening
    /\ ~Made(k) /\ \A j \in 1..(k - 1) : Made(j)
    /\ client' = [client EXCEPT ![k] = "open"]
    /\ backlog' = Append(backlog, k)
    /\ UNCHANGED <<listening, table, file, inbox, outbox>>

Request(k, m) ==
    /\ inbox' = [inbox EXCEPT ![k] = <<m>>]
    /\ UNCHANGED <<listening, backlog, table, file, client, outbox>>

\* A set of connections is closed, or what a process had open.
Hangup(S) ==
    /\ client' = [k \in Conns |-> IF k \in S THEN "closed" ELSE client[k]]
    /\ outbox' = [k \in Conns |-> IF k \in S THEN <<>> ELSE outbox[k]]
    /\ UNCHANGED <<listening, backlog, table, file, inbox>>

\* The last message of a client, and its close.
RequestAndHangup(k, m) ==
    /\ inbox' = [inbox EXCEPT ![k] = <<m>>]
    /\ client' = [client EXCEPT ![k] = "closed"]
    /\ UNCHANGED <<listening, backlog, table, file, outbox>>

\* The answer is taken and the connection closed.
TakeAnswer(k) ==
    /\ Answers(k)
    /\ outbox' = [outbox EXCEPT ![k] = <<>>]
    /\ client' = [client EXCEPT ![k] = "closed"]
    /\ UNCHANGED <<listening, backlog, table, file, inbox>>

-----------------------------------------------------------------------------
(* The server's calls.                                                      *)

LowestFree(n) == table[n] = NoConn /\ \A i \in 1..(n - 1) : table[i] # NoConn

AcceptAs(n) ==
    /\ backlog # <<>>
    /\ LowestFree(n)
    /\ table' = [table EXCEPT ![n] = Head(backlog)]
    /\ backlog' = Tail(backlog)
    /\ UNCHANGED <<listening, file, client, inbox, outbox>>

\* read() finds the file when it is called, and keeps it until it returns.
BeginRead(a, n) ==
    /\ table[n] # NoConn
    /\ file' = [file EXCEPT ![a] = table[n]]
    /\ UNCHANGED <<listening, backlog, table, client, inbox, outbox>>

EndRead(a) ==
    /\ inbox' = [inbox EXCEPT ![file[a]] = <<>>]
    /\ file' = [file EXCEPT ![a] = NoConn]
    /\ UNCHANGED <<listening, backlog, table, client, outbox>>

\* If the client is gone the write is lost.  (A second one would raise SIGPIPE;
\* it takes two threads in the loop to write twice.)
WriteTo(k, m) ==
    /\ outbox' = [outbox EXCEPT ![k] = IF client[k] = "open" THEN Append(@, m) ELSE @]
    /\ UNCHANGED <<listening, backlog, table, file, client, inbox>>

\* close() of a number that stands for nothing has no effect.
CloseNumber(n) ==
    /\ table' = [table EXCEPT ![n] = NoConn]
    /\ UNCHANGED <<listening, backlog, file, client, inbox, outbox>>

\* The server process ends.
StopListening ==
    /\ listening /\ listening' = FALSE
    /\ backlog' = <<>>
    /\ table' = [n \in Fds |-> NoConn]
    /\ file' = [a \in Acceptors |-> NoConn]
    /\ UNCHANGED <<client, inbox, outbox>>
===============================================================================
