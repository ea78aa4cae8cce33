-------------------------- MODULE NamedPipeTransport --------------------------
(***************************************************************************)
(* NamedPipeTransport: two pipes in the file system, one to read and one   *)
(* to write, both opened anew for every packet.                            *)
(*                                                                         *)
(* The pipes are those of Linux.  open() of a FIFO blocks until the other  *)
(* end is opened too; who waits in open() counts as an end already, and    *)
(* goes on once a partner has come, whether or not it is still there.      *)
(* read() waits while the FIFO is empty and somebody may still write, so   *)
(* reading to the end means to wait for every writer.  A packet is written *)
(* whole (it is shorter than PIPE_BUF), and closed at once.                *)
(* std::ofstream makes a regular file of a name that is not there; such a  *)
(* file never blocks, keeps what was written, and is emptied by the next   *)
(* open for writing.                                                       *)
(*                                                                         *)
(* read() takes all that is in the FIFO, so the packets behind the first   *)
(* share its fate, and deserialize() looks at the first only: a FIFO and a *)
(* reader's string are their first packet here, or nothing.                *)
(***************************************************************************)
EXTENDS Naturals, Sequences

CONSTANTS
    Procs,          \* the processes
    ReadPipe,       \* read_pipe_ of each
    WritePipe,      \* write_pipe_ of each
    MaxNodes        \* FIFOs and files made, all in all (bound)

ASSUME NodesAssumption == MaxNodes \in Nat

VARIABLES
    node,   \* the FIFO or file each name stands for, None if it is free
    kind,   \* what was made under each number
    data,   \* the first packet in it, if any
    mode,   \* what each process does with a pipe
    fd,     \* the FIFO or file it has open or waits to open
    got     \* the first packet it has read of it

files == <<node, kind, data>>
io == <<mode, fd, got>>

None == 0
Nodes == 1..MaxNodes
Names == {ReadPipe[p] : p \in Procs} \cup {WritePipe[p] : p \in Procs}
IsFile(n) == kind[n] = "file"
Some(Packets) == {<<>>} \cup {<<m>> : m \in Packets}

Readers(n) == {p \in Procs : mode[p] \in {"wants writer", "reads"} /\ fd[p] = n}
Writers(n) == {p \in Procs : mode[p] \in {"wants reader", "writes"} /\ fd[p] = n}

TransportType(Packets) ==
    /\ node \in [Names -> Nodes \cup {None}]
    /\ kind \in [Nodes -> {"none", "fifo", "file"}]
    /\ data \in [Nodes -> Some(Packets)]
    /\ mode \in [Procs -> {"closed", "wants writer", "reads", "wants reader", "writes"}]
    /\ fd \in [Procs -> Nodes \cup {None}]
    /\ got \in [Procs -> Some(Packets)]

TransportInit ==
    /\ node = [x \in Names |-> None]
    /\ kind = [n \in Nodes |-> "none"]
    /\ data = [n \in Nodes |-> <<>>]
    /\ mode = [p \in Procs |-> "closed"]
    /\ fd = [p \in Procs |-> None]
    /\ got = [p \in Procs |-> <<>>]

-----------------------------------------------------------------------------
(* The file system.                                                         *)

Unused == {n \in Nodes : kind[n] = "none"}
NewNode == CHOOSE n \in Unused : TRUE

Create(name, what) ==
    /\ Unused # {}
    /\ kind' = [kind EXCEPT ![NewNode] = what]
    /\ node' = [node EXCEPT ![name] = NewNode]

\* mkfifo() fails if somebody was faster.
Mkfifo(name) ==
    /\ node[name] = None
    /\ Create(name, "fifo")
    /\ UNCHANGED <<data, io>>

\* Who has it open keeps it.
Unlink(name) ==
    /\ node' = [node EXCEPT ![name] = None]
    /\ UNCHANGED <<kind, data, io>>

\* p opens n, or waits for a partner; the partners that waited go on.
OpenToRead(p, n) ==
    /\ fd' = [fd EXCEPT ![p] = n]
    /\ mode' = [q \in Procs |->
                  IF q = p THEN IF IsFile(n) \/ Writers(n) # {} THEN "reads" ELSE "wants writer"
                  ELSE IF q \in Writers(n) THEN "writes" ELSE mode[q]]
    /\ UNCHANGED got

OpenToWrite(p, n, file) ==
    /\ fd' = [fd EXCEPT ![p] = n]
    /\ mode' = [q \in Procs |->
                  IF q = p THEN IF file \/ Readers(n) # {} THEN "writes" ELSE "wants reader"
                  ELSE IF q \in Readers(n) THEN "reads" ELSE mode[q]]
    /\ UNCHANGED got

Close(p) ==
    /\ mode' = [mode EXCEPT ![p] = "closed"]
    /\ fd' = [fd EXCEPT ![p] = None]

\* The process p has ended.  What is in a FIFO that nobody has open is lost.
Release(p) ==
    /\ Close(p)
    /\ got' = [got EXCEPT ![p] = <<>>]
    /\ data' = [n \in Nodes |-> IF ~IsFile(n) /\ Readers(n) \cup Writers(n) = {p}
                                THEN <<>> ELSE data[n]]
    /\ UNCHANGED <<node, kind>>

-----------------------------------------------------------------------------
(* NamedPipeTransport::write.                                               *)

OpenWrite(p) ==
    LET n == node[WritePipe[p]]
    IN  \/ /\ n # None
           /\ OpenToWrite(p, n, IsFile(n))
           /\ data' = IF IsFile(n) THEN [data EXCEPT ![n] = <<>>] ELSE data
           /\ UNCHANGED <<node, kind>>
        \/ /\ n = None
           /\ Create(WritePipe[p], "file")
           /\ OpenToWrite(p, NewNode, TRUE)
           /\ UNCHANGED data

\* Nobody can be waited for between the two, so they are one step.  In a file
\* every writer begins at the start.
WriteAndClose(p, packet) ==
    LET n == fd[p]
    IN  /\ mode[p] = "writes"
        /\ IsFile(n) \/ Readers(n) # {}
        /\ data' = [data EXCEPT ![n] = IF IsFile(n) \/ @ = <<>> THEN <<packet>> ELSE @]
        /\ Close(p)
        /\ UNCHANGED <<node, kind, got>>

\* The readers have died since: the write would raise SIGPIPE.
Broken(p) == mode[p] = "writes" /\ ~IsFile(fd[p]) /\ Readers(fd[p]) = {}

-----------------------------------------------------------------------------
(* NamedPipeTransport::read.                                                *)

CanOpenRead(p) == node[ReadPipe[p]] # None

OpenRead(p) ==
    /\ CanOpenRead(p)
    /\ OpenToRead(p, node[ReadPipe[p]])
    /\ UNCHANGED files

\* What there is in the FIFO is this reader's now.
Take(p) ==
    LET n == fd[p]
    IN  /\ mode[p] = "reads" /\ ~IsFile(n) /\ data[n] # <<>>
        /\ got' = [got EXCEPT ![p] = IF @ = <<>> THEN data[n] ELSE @]
        /\ data' = [data EXCEPT ![n] = <<>>]
        /\ UNCHANGED <<node, kind, mode, fd>>

\* Mutant: read() does not wait for the end.
AtEofAtOnce(p) == mode[p] = "reads" /\ (IsFile(fd[p]) \/ data[fd[p]] = <<>>)

AtEof(p) ==
    LET n == fd[p]
    IN  mode[p] = "reads" /\ (IsFile(n) \/ (data[n] = <<>> /\ Writers(n) = {}))

\* What a read() that is at its end returns.
Arrived(p) == IF IsFile(fd[p]) THEN data[fd[p]] ELSE got[p]

\* Mutant: the string is a member, and read() does not clear it.
CloseReadKeeping(p) ==
    /\ AtEof(p)
    /\ Close(p)
    /\ UNCHANGED <<files, got>>

CloseRead(p) ==
    /\ AtEof(p)
    /\ Close(p)
    /\ got' = [got EXCEPT ![p] = <<>>]
    /\ UNCHANGED files
===============================================================================
