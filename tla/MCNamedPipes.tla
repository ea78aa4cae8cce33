---------------------------- MODULE MCNamedPipes ----------------------------
(* Instances of NamedPipes for TLC: fault's server and the two clients.     *)
EXTENDS NamedPipes

\* As the three daemons construct them: all read one pipe and write the other.
MCRequestPipe == [p \in Procs |-> "/tmp/fifo_request"]
MCResponsePipe == [p \in Procs |-> "/tmp/fifo_response"]

\* The server reads what the clients write, and they read what it writes.
MCRead == [p \in Procs |-> IF p = Server THEN "/tmp/fifo_request" ELSE "/tmp/fifo_response"]
MCWrite == [p \in Procs |-> IF p = Server THEN "/tmp/fifo_response" ELSE "/tmp/fifo_request"]
===============================================================================
