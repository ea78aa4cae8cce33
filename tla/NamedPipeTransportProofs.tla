----------------------- MODULE NamedPipeTransportProofs -----------------------
(***************************************************************************)
(* What the operations of NamedPipeTransport do, whoever calls them: which *)
(* names, ends of pipes and packets each leaves alone.  The arguments      *)
(* about ClientApp and ServerApp in NamedPipesProofs rest on these.        *)
(***************************************************************************)
EXTENDS NamedPipeTransport, TLAPS

Modes == {"closed", "wants writer", "reads", "wants reader", "writes"}

IsReader(p) == mode[p] \in {"wants writer", "reads"}
IsWriter(p) == mode[p] \in {"wants reader", "writes"}

\* A FIFO or file stands for one name at most; what was never made is open to
\* nobody and empty; and what a reader has read is forgotten when it closes.
NodesAreMade ==
    /\ \A x \in Names : node[x] # None => kind[node[x]] # "none"
    /\ \A x, y \in Names : node[x] = node[y] /\ node[x] # None => x = y
    /\ \A p \in Procs : mode[p] # "closed" => fd[p] \in Nodes /\ kind[fd[p]] # "none"
    /\ \A n \in Nodes : kind[n] = "none" => data[n] = <<>>
    /\ \A p \in Procs : got[p] # <<>> => mode[p] = "reads"

TransportInv(Packets) == TransportType(Packets) /\ NodesAreMade

\* What was made stays what it is.
KindsStay == \A n \in Nodes : kind[n] # "none" => kind'[n] = kind[n]

\* Whether q has something open, for what and which, is as before.
Same(q) ==
    /\ fd'[q] = fd[q]
    /\ IsReader(q)' <=> IsReader(q)
    /\ IsWriter(q)' <=> IsWriter(q)

-----------------------------------------------------------------------------
(* Words for the same.                                                      *)

(* Readers and writers, by what a process does.                             *)
LEMMA EndsOf ==
    /\ \A n, q : q \in Readers(n) <=> (q \in Procs /\ IsReader(q) /\ fd[q] = n)
    /\ \A n, q : q \in Writers(n) <=> (q \in Procs /\ IsWriter(q) /\ fd[q] = n)
  BY DEF Readers, Writers, IsReader, IsWriter

(* A process reads, writes, or has nothing open.                            *)
LEMMA ModeIs ==
    ASSUME NEW p \in Procs, mode[p] \in Modes
    PROVE  /\ ~(IsReader(p) /\ IsWriter(p))
           /\ mode[p] = "closed" <=> ~IsReader(p) /\ ~IsWriter(p)
  BY DEF IsReader, IsWriter, Modes

(* Nothing, or one packet.                                                  *)
LEMMA SomeFacts ==
    ASSUME NEW Packets
    PROVE  /\ <<>> \in Some(Packets)
           /\ \A m \in Packets : <<m>> \in Some(Packets) /\ <<m>> # <<>>
           /\ \A s \in Some(Packets) : s # <<>> => Head(s) \in Packets /\ s = <<Head(s)>>
           /\ \A m : <<m>> \in Some(Packets) => m \in Packets
  BY DEF Some

(* The names that a process reads and writes are names.                     *)
LEMMA PipesAreNames ==
    ASSUME NEW p \in Procs
    PROVE  ReadPipe[p] \in Names /\ WritePipe[p] \in Names
  BY DEF Names

(* TransportInv depends on the state of the transport only.                 *)
LEMMA TransportIdle ==
    ASSUME NEW Packets, TransportInv(Packets), UNCHANGED <<files, io>>
    PROVE  TransportInv(Packets)' /\ KindsStay /\ \A q \in Procs : Same(q)
  BY DEF files, io, TransportInv, TransportType, NodesAreMade, Names, Nodes, None, Some,
         KindsStay, Same, IsReader, IsWriter

(* It holds at first.                                                       *)
LEMMA TransportStarts ==
    ASSUME NEW Packets, TransportInit
    PROVE  TransportInv(Packets)
  BY SomeFacts DEF TransportInit, TransportInv, TransportType, NodesAreMade, Names, Nodes, None

-----------------------------------------------------------------------------
(* The file system.                                                         *)

(* The number taken for a new FIFO or file is free.                         *)
LEMMA NewNodeIsUnused ==
    ASSUME Unused # {}
    PROVE  NewNode \in Nodes /\ kind[NewNode] = "none" /\ NewNode # None
<1>1. NewNode \in Unused
  BY DEF NewNode
<1>2. QED
  BY <1>1, NodesAssumption DEF Unused, Nodes, None

(* What is made under a name is empty, and all else is left alone.          *)
LEMMA CreateFacts ==
    ASSUME NEW Packets, TransportInv(Packets), NEW x \in Names, NEW what \in {"fifo", "file"},
           Create(x, what)
    PROVE  /\ node' \in [Names -> Nodes \cup {None}]
           /\ kind' \in [Nodes -> {"none", "fifo", "file"}]
           /\ node'[x] = NewNode /\ NewNode \in Nodes /\ NewNode # None
           /\ kind[NewNode] = "none" /\ kind'[NewNode] = what /\ data[NewNode] = <<>>
           /\ \A n \in Nodes \ {NewNode} : kind'[n] = kind[n]
           /\ \A y \in Names \ {x} : node'[y] = node[y] /\ node[y] # NewNode
           /\ \A p \in Procs : mode[p] # "closed" => fd[p] # NewNode
           /\ KindsStay
<1>1. /\ NewNode \in Nodes /\ kind[NewNode] = "none" /\ NewNode # None
      /\ kind' = [kind EXCEPT ![NewNode] = what] /\ node' = [node EXCEPT ![x] = NewNode]
  BY NewNodeIsUnused DEF Create
<1>2. /\ node' \in [Names -> Nodes \cup {None}]
      /\ kind' \in [Nodes -> {"none", "fifo", "file"}]
      /\ kind'[NewNode] = what /\ node'[x] = NewNode
      /\ \A n \in Nodes \ {NewNode} : kind'[n] = kind[n]
      /\ \A y \in Names \ {x} : node'[y] = node[y]
  BY <1>1 DEF TransportInv, TransportType
<1>3. /\ data[NewNode] = <<>>
      /\ \A y \in Names : node[y] # NewNode
      /\ \A p \in Procs : mode[p] # "closed" => fd[p] # NewNode
  BY <1>1 DEF TransportInv, NodesAreMade
<1>4. QED
  BY <1>1, <1>2, <1>3 DEF KindsStay

(* So after it, too, every name has a node to itself.                       *)
LEMMA CreateKeepsNodes ==
    ASSUME NEW Packets, TransportInv(Packets), NEW x \in Names, NEW what \in {"fifo", "file"},
           Create(x, what)
    PROVE  /\ \A y \in Names : node'[y] # None => kind'[node'[y]] # "none"
           /\ \A y, z \in Names : node'[y] = node'[z] /\ node'[y] # None => y = z
           /\ \A n \in Nodes : kind'[n] = "none" => data[n] = <<>>
           /\ \A p \in Procs : mode[p] # "closed" => kind'[fd[p]] # "none"
<1>1. /\ node'[x] = NewNode /\ NewNode \in Nodes
      /\ kind'[NewNode] # "none" /\ data[NewNode] = <<>>
      /\ \A n \in Nodes \ {NewNode} : kind'[n] = kind[n]
      /\ \A y \in Names \ {x} : node'[y] = node[y] /\ node[y] # NewNode
      /\ \A p \in Procs : mode[p] # "closed" => fd[p] # NewNode
  BY CreateFacts
<1>2. ASSUME NEW y \in Names \ {x}, node[y] # None
      PROVE  kind'[node[y]] # "none"
  <2>1. node[y] \in Nodes \ {NewNode}
    BY <1>1, <1>2 DEF TransportInv, TransportType
  <2>2. QED
    BY <1>1, <1>2, <2>1 DEF TransportInv, NodesAreMade
<1>3. \A y \in Names : node'[y] # None => kind'[node'[y]] # "none"
  BY <1>1, <1>2
<1>4. \A y, z \in Names : node'[y] = node'[z] /\ node'[y] # None => y = z
  BY <1>1 DEF TransportInv, NodesAreMade
<1>5. \A n \in Nodes : kind'[n] = "none" => data[n] = <<>>
  BY <1>1 DEF TransportInv, NodesAreMade
<1>6. \A p \in Procs : mode[p] # "closed" => kind'[fd[p]] # "none"
  BY <1>1 DEF TransportInv, NodesAreMade
<1>7. QED
  BY <1>3, <1>4, <1>5, <1>6

(* mkfifo() makes an empty pipe under a free name.                          *)
LEMMA MkfifoFacts ==
    ASSUME NEW Packets, TransportInv(Packets), NEW x \in Names, Mkfifo(x)
    PROVE  /\ TransportInv(Packets)'
           /\ UNCHANGED <<data, io>> /\ KindsStay
           /\ node[x] = None /\ node'[x] # None
           /\ data[node'[x]] = <<>>
           /\ \A p \in Procs : mode[p] # "closed" => fd[p] # node'[x]
           /\ \A y \in Names \ {x} : node'[y] = node[y]
           /\ \A n \in Nodes : IsFile(n)' => IsFile(n)
<1>1. node[x] = None /\ Create(x, "fifo") /\ UNCHANGED <<data, io>>
  BY DEF Mkfifo
<1>2. Names' = Names /\ Nodes' = Nodes /\ Some(Packets)' = Some(Packets)
  BY DEF Names, Nodes, Some
<1>3. /\ \A y \in Names : node'[y] # None => kind'[node'[y]] # "none"
      /\ \A y, z \in Names : node'[y] = node'[z] /\ node'[y] # None => y = z
      /\ \A n \in Nodes : kind'[n] = "none" => data[n] = <<>>
      /\ \A p \in Procs : mode[p] # "closed" => kind'[fd[p]] # "none"
  BY <1>1, CreateKeepsNodes
<1>4. NodesAreMade'
  BY <1>1, <1>2, <1>3 DEF NodesAreMade, TransportInv, io, None
<1>5. /\ node' \in [Names -> Nodes \cup {None}]
      /\ kind' \in [Nodes -> {"none", "fifo", "file"}]
      /\ node'[x] # None /\ data[node'[x]] = <<>>
      /\ \A p \in Procs : mode[p] # "closed" => fd[p] # node'[x]
      /\ \A y \in Names \ {x} : node'[y] = node[y]
      /\ \A n \in Nodes : kind'[n] = "file" => kind[n] = "file"
      /\ KindsStay
  BY <1>1, CreateFacts
<1>6. TransportType(Packets)'
  BY <1>1, <1>2, <1>5 DEF TransportInv, TransportType, io, None
<1>7. QED
  BY <1>1, <1>4, <1>5, <1>6 DEF TransportInv, IsFile

(* unlink() frees a name; who has the pipe open keeps it.                   *)
LEMMA UnlinkFacts ==
    ASSUME NEW Packets, TransportInv(Packets), NEW x \in Names, Unlink(x)
    PROVE  /\ TransportInv(Packets)'
           /\ UNCHANGED <<kind, data, io>>
           /\ node'[x] = None
           /\ \A y \in Names \ {x} : node'[y] = node[y]
<1>1. node' = [node EXCEPT ![x] = None] /\ UNCHANGED <<kind, data, io>>
  BY DEF Unlink
<1>2. Names' = Names /\ Nodes' = Nodes /\ Some(Packets)' = Some(Packets)
  BY DEF Names, Nodes, Some
<1>3. /\ node' \in [Names -> Nodes \cup {None}] /\ node'[x] = None
      /\ \A y \in Names \ {x} : node'[y] = node[y]
  BY <1>1 DEF TransportInv, TransportType
<1>4. NodesAreMade'
  BY <1>1, <1>2, <1>3 DEF NodesAreMade, TransportInv, io, None
<1>5. TransportType(Packets)'
  BY <1>1, <1>2, <1>3 DEF TransportInv, TransportType, io, None
<1>6. QED
  BY <1>1, <1>3, <1>4, <1>5 DEF TransportInv

-----------------------------------------------------------------------------
(* Opening.                                                                 *)

(* p opens n to read, or waits for a writer; the writers that waited go on. *)
LEMMA OpenToReadFacts ==
    ASSUME NEW Packets, TransportType(Packets), NEW p \in Procs, NEW n \in Nodes,
           mode[p] = "closed", OpenToRead(p, n)
    PROVE  /\ mode' \in [Procs -> Modes] /\ fd' \in [Procs -> Nodes \cup {None}] /\ got' = got
           /\ fd'[p] = n /\ IsReader(p)' /\ ~IsWriter(p)'
           /\ mode'[p] = "reads" => IsFile(n) \/ \E w \in Procs : IsWriter(w) /\ fd[w] = n
           /\ \A q \in Procs \ {p} : Same(q)
           /\ \A q \in Procs : mode'[q] = "reads" => q = p \/ mode[q] = "reads"
           /\ \A q \in Procs : mode[q] = "reads" => mode'[q] = "reads"
           /\ \A q \in Procs : mode'[q] = "writes" =>
                  mode[q] = "writes" \/ (IsWriter(q) /\ fd[q] = n)
<1>1. /\ fd' = [fd EXCEPT ![p] = n] /\ got' = got
      /\ mode' = [q \in Procs |->
                  IF q = p THEN IF IsFile(n) \/ Writers(n) # {} THEN "reads" ELSE "wants writer"
                  ELSE IF q \in Writers(n) THEN "writes" ELSE mode[q]]
  BY DEF OpenToRead
<1>2. \A q \in Procs : q \in Writers(n) <=> (IsWriter(q) /\ fd[q] = n)
  BY EndsOf
<1>3. Writers(n) \subseteq Procs
  BY DEF Writers
<1>4. /\ mode \in [Procs -> Modes]
      /\ fd \in [Procs -> Nodes \cup {None}]
  BY DEF TransportType, Modes
<1>5. mode' \in [Procs -> Modes] /\ fd' \in [Procs -> Nodes \cup {None}] /\ fd'[p] = n
  BY <1>1, <1>4 DEF Modes
<1>6. IsReader(p)' /\ ~IsWriter(p)'
  BY <1>1 DEF IsReader, IsWriter
<1>7. mode'[p] = "reads" => IsFile(n) \/ \E w \in Procs : IsWriter(w) /\ fd[w] = n
  BY <1>1, <1>2, <1>3
<1>8. \A q \in Procs \ {p} : Same(q)
  BY <1>1, <1>2, <1>4 DEF Same, IsReader, IsWriter
<1>9. /\ \A q \in Procs : mode'[q] = "reads" => q = p \/ mode[q] = "reads"
      /\ \A q \in Procs : mode'[q] = "writes" => mode[q] = "writes" \/ (IsWriter(q) /\ fd[q] = n)
  BY <1>1, <1>2
<1>10. \A q \in Procs : mode[q] = "reads" => mode'[q] = "reads"
  BY <1>1, <1>2 DEF IsWriter
<1>11. QED
  BY <1>1, <1>5, <1>6, <1>7, <1>8, <1>9, <1>10

(* p opens n to write, or waits for a reader; the readers that waited go on.*)
LEMMA OpenToWriteFacts ==
    ASSUME NEW Packets, TransportType(Packets), NEW p \in Procs, NEW n \in Nodes,
           NEW file \in BOOLEAN, mode[p] = "closed", OpenToWrite(p, n, file)
    PROVE  /\ mode' \in [Procs -> Modes] /\ fd' \in [Procs -> Nodes \cup {None}] /\ got' = got
           /\ fd'[p] = n /\ IsWriter(p)' /\ ~IsReader(p)'
           /\ mode'[p] = "writes" => file \/ \E r \in Procs : IsReader(r) /\ fd[r] = n
           /\ \A q \in Procs \ {p} : Same(q)
           /\ \A q \in Procs : mode'[q] = "writes" => q = p \/ mode[q] = "writes"
           /\ \A q \in Procs : mode[q] = "reads" => mode'[q] = "reads"
           /\ \A q \in Procs : mode'[q] = "reads" =>
                  mode[q] = "reads" \/ (IsReader(q) /\ fd[q] = n)
<1>1. /\ fd' = [fd EXCEPT ![p] = n] /\ got' = got
      /\ mode' = [q \in Procs |->
                  IF q = p THEN IF file \/ Readers(n) # {} THEN "writes" ELSE "wants reader"
                  ELSE IF q \in Readers(n) THEN "reads" ELSE mode[q]]
  BY DEF OpenToWrite
<1>2. \A q \in Procs : q \in Readers(n) <=> (IsReader(q) /\ fd[q] = n)
  BY EndsOf
<1>3. Readers(n) \subseteq Procs
  BY DEF Readers
<1>4. /\ mode \in [Procs -> Modes]
      /\ fd \in [Procs -> Nodes \cup {None}]
  BY DEF TransportType, Modes
<1>5. mode' \in [Procs -> Modes] /\ fd' \in [Procs -> Nodes \cup {None}] /\ fd'[p] = n
  BY <1>1, <1>4 DEF Modes
<1>6. IsWriter(p)' /\ ~IsReader(p)'
  BY <1>1 DEF IsReader, IsWriter
<1>7. mode'[p] = "writes" => file \/ \E r \in Procs : IsReader(r) /\ fd[r] = n
  BY <1>1, <1>2, <1>3
<1>8. \A q \in Procs \ {p} : Same(q)
  BY <1>1, <1>2, <1>4 DEF Same, IsReader, IsWriter
<1>9. /\ \A q \in Procs : mode'[q] = "writes" => q = p \/ mode[q] = "writes"
      /\ \A q \in Procs : mode'[q] = "reads" => mode[q] = "reads" \/ (IsReader(q) /\ fd[q] = n)
  BY <1>1, <1>2
<1>10. \A q \in Procs : mode[q] = "reads" => mode'[q] = "reads"
  BY <1>1
<1>11. QED
  BY <1>1, <1>5, <1>6, <1>7, <1>8, <1>9, <1>10

(* read() opens what its name stands for.                                   *)
LEMMA OpenReadFacts ==
    ASSUME NEW Packets, TransportInv(Packets), NEW p \in Procs, mode[p] = "closed", OpenRead(p)
    PROVE  /\ TransportInv(Packets)'
           /\ UNCHANGED <<node, kind, data, got>>
           /\ fd'[p] = node[ReadPipe[p]] /\ fd'[p] \in Nodes
           /\ IsReader(p)' /\ ~IsWriter(p)'
           /\ mode'[p] = "reads" =>
                  IsFile(fd'[p]) \/ \E w \in Procs : IsWriter(w) /\ fd[w] = fd'[p]
           /\ \A q \in Procs \ {p} : Same(q)
           /\ \A q \in Procs : mode'[q] = "reads" => q = p \/ mode[q] = "reads"
           /\ \A q \in Procs : mode'[q] = "writes" =>
                  mode[q] = "writes" \/ (IsWriter(q) /\ fd[q] = fd'[p])
<1> DEFINE n == node[ReadPipe[p]]
<1>1. n \in Nodes /\ n # None /\ OpenToRead(p, n) /\ UNCHANGED files
  BY PipesAreNames DEF OpenRead, CanOpenRead, TransportInv, TransportType
<1>2. TransportType(Packets)
  BY DEF TransportInv
<1> HIDE DEF n
<1>3. /\ mode' \in [Procs -> Modes] /\ fd' \in [Procs -> Nodes \cup {None}] /\ got' = got
      /\ fd'[p] = n /\ IsReader(p)' /\ ~IsWriter(p)'
      /\ mode'[p] = "reads" => IsFile(n) \/ \E w \in Procs : IsWriter(w) /\ fd[w] = n
      /\ \A q \in Procs \ {p} : Same(q)
      /\ \A q \in Procs : mode'[q] = "reads" => q = p \/ mode[q] = "reads"
      /\ \A q \in Procs : mode[q] = "reads" => mode'[q] = "reads"
      /\ \A q \in Procs : mode'[q] = "writes" => mode[q] = "writes" \/ (IsWriter(q) /\ fd[q] = n)
  BY <1>1, <1>2, OpenToReadFacts
<1>4. Names' = Names /\ Nodes' = Nodes /\ Some(Packets)' = Some(Packets)
  BY DEF Names, Nodes, Some
<1>5. TransportType(Packets)'
  BY <1>1, <1>2, <1>3, <1>4 DEF TransportType, files, Modes, None
<1>6. kind[n] # "none"
  BY <1>1, PipesAreNames DEF n, TransportInv, NodesAreMade
<1>7. ASSUME NEW q \in Procs, mode'[q] # "closed"
      PROVE  fd'[q] \in Nodes /\ kind[fd'[q]] # "none"
  <2>1. CASE q = p
    BY <1>1, <1>3, <1>6, <2>1
  <2>2. CASE q # p
    <3>1. mode[q] # "closed" /\ fd'[q] = fd[q]
      BY <1>2, <1>3, <1>7, <2>2 DEF Same, IsReader, IsWriter, Modes, TransportType
    <3>2. QED
      BY <3>1 DEF TransportInv, NodesAreMade
  <2>3. QED
    BY <2>1, <2>2
<1>8. NodesAreMade'
  BY <1>1, <1>3, <1>4, <1>7 DEF NodesAreMade, TransportInv, files, None
<1>9. QED
  BY <1>1, <1>3, <1>5, <1>8 DEF TransportInv, files, n

(* What a process opens keeps to the types and to what was made, if what it *)
(* opens was made.                                                          *)
LEMMA OpeningKeepsEnds ==
    ASSUME NEW Packets, TransportInv(Packets), NEW p \in Procs, NEW n \in Nodes,
           mode' \in [Procs -> Modes], got' = got, mode[p] = "closed",
           fd'[p] = n, kind'[n] # "none",
           \A q \in Procs : mode[q] # "closed" => kind'[fd[q]] # "none",
           \A q \in Procs \ {p} : Same(q),
           \A q \in Procs : mode[q] = "reads" => mode'[q] = "reads"
    PROVE  /\ \A q \in Procs : mode'[q] # "closed" => fd'[q] \in Nodes /\ kind'[fd'[q]] # "none"
           /\ \A q \in Procs : got'[q] # <<>> => mode'[q] = "reads"
<1>1. ASSUME NEW q \in Procs \ {p}, mode'[q] # "closed"
      PROVE  fd'[q] \in Nodes /\ kind'[fd'[q]] # "none"
  <2>1. mode[q] # "closed" /\ fd'[q] = fd[q]
    BY <1>1 DEF Same, IsReader, IsWriter, Modes, TransportInv, TransportType
  <2>2. QED
    BY <2>1 DEF TransportInv, NodesAreMade
<1>2. \A q \in Procs : got'[q] # <<>> => mode'[q] = "reads"
  BY DEF TransportInv, NodesAreMade
<1>3. QED
  BY <1>1, <1>2

(* write() opens what its name stands for; if it is free, a new file.  Only *)
(* files are emptied.                                                       *)
LEMMA OpenWriteFacts ==
    ASSUME NEW Packets, TransportInv(Packets), NEW p \in Procs, mode[p] = "closed", OpenWrite(p)
    PROVE  /\ TransportInv(Packets)'
           /\ KindsStay /\ got' = got
           /\ fd'[p] = node'[WritePipe[p]] /\ fd'[p] \in Nodes
           /\ node[WritePipe[p]] # None => UNCHANGED <<node, kind>>
           /\ node[WritePipe[p]] = None => kind[fd'[p]] = "none"
           /\ \A y \in Names \ {WritePipe[p]} : node'[y] = node[y]
           /\ \A m \in Nodes : data'[m] = data[m] \/ (IsFile(m) /\ data'[m] = <<>>)
           /\ IsWriter(p)' /\ ~IsReader(p)'
           /\ mode'[p] = "writes" =>
                  kind'[fd'[p]] = "file" \/ \E r \in Procs : IsReader(r) /\ fd[r] = fd'[p]
           /\ \A q \in Procs \ {p} : Same(q)
           /\ \A q \in Procs : mode'[q] = "writes" => q = p \/ mode[q] = "writes"
           /\ \A q \in Procs : mode'[q] = "reads" =>
                  mode[q] = "reads" \/ (IsReader(q) /\ fd[q] = fd'[p])
<1>1. WritePipe[p] \in Names /\ Names' = Names /\ Nodes' = Nodes /\ Some(Packets)' = Some(Packets)
  BY PipesAreNames DEF Names, Nodes, Some
<1>2. TransportType(Packets)
  BY DEF TransportInv
<1>3. PICK n \in Nodes, file \in BOOLEAN :
         /\ OpenToWrite(p, n, file) /\ (file => kind'[n] = "file")
         /\ n = node'[WritePipe[p]]
         /\ node[WritePipe[p]] # None => UNCHANGED <<node, kind>>
         /\ node[WritePipe[p]] = None => kind[n] = "none"
         /\ node' \in [Names -> Nodes \cup {None}]
         /\ kind' \in [Nodes -> {"none", "fifo", "file"}]
         /\ data' \in [Nodes -> Some(Packets)]
         /\ \A m \in Nodes : data'[m] = data[m] \/ (IsFile(m) /\ data'[m] = <<>>)
         /\ \A y \in Names \ {WritePipe[p]} : node'[y] = node[y]
         /\ KindsStay
         /\ \A y \in Names : node'[y] # None => kind'[node'[y]] # "none"
         /\ \A y, z \in Names : node'[y] = node'[z] /\ node'[y] # None => y = z
         /\ \A m \in Nodes : kind'[m] = "none" => data'[m] = <<>>
         /\ \A q \in Procs : mode[q] # "closed" => kind'[fd[q]] # "none"
  <2>1. CASE node[WritePipe[p]] # None
    <3> DEFINE n == node[WritePipe[p]]
    <3>1. n \in Nodes /\ IsFile(n) \in BOOLEAN
      BY <1>1, <1>2, <2>1 DEF TransportType, IsFile
    <3>2. /\ OpenToWrite(p, n, IsFile(n)) /\ UNCHANGED <<node, kind>>
          /\ data' = IF IsFile(n) THEN [data EXCEPT ![n] = <<>>] ELSE data
      BY <2>1 DEF OpenWrite
    <3>3. data' \in [Nodes -> Some(Packets)]
      BY <1>2, <3>2, SomeFacts DEF TransportType
    <3>4. \A m \in Nodes : data'[m] = data[m] \/ (IsFile(m) /\ data'[m] = <<>>)
      BY <1>2, <3>2 DEF TransportType
    <3>5. KindsStay /\ (IsFile(n) => kind'[n] = "file")
      BY <3>2 DEF KindsStay, IsFile
    <3>6. \A m \in Nodes : kind'[m] = "none" => data'[m] = <<>>
      BY <3>2, <3>4 DEF TransportInv, NodesAreMade
    <3> HIDE DEF n
    <3>7. n = node'[WritePipe[p]]
      BY <3>2 DEF n
    <3>8. QED
      BY <1>2, <2>1, <3>1, <3>2, <3>3, <3>4, <3>5, <3>6, <3>7
         DEF TransportInv, TransportType, NodesAreMade
  <2>2. CASE node[WritePipe[p]] = None
    <3>1. Create(WritePipe[p], "file") /\ OpenToWrite(p, NewNode, TRUE) /\ data' = data
      BY <2>2 DEF OpenWrite
    <3>2. /\ node' \in [Names -> Nodes \cup {None}]
          /\ kind' \in [Nodes -> {"none", "fifo", "file"}]
          /\ node'[WritePipe[p]] = NewNode /\ NewNode \in Nodes
          /\ kind[NewNode] = "none" /\ kind'[NewNode] = "file"
          /\ \A y \in Names \ {WritePipe[p]} : node'[y] = node[y]
          /\ KindsStay
      BY <1>1, <3>1, CreateFacts
    <3>3. /\ \A y \in Names : node'[y] # None => kind'[node'[y]] # "none"
          /\ \A y, z \in Names : node'[y] = node'[z] /\ node'[y] # None => y = z
          /\ \A m \in Nodes : kind'[m] = "none" => data[m] = <<>>
          /\ \A q \in Procs : mode[q] # "closed" => kind'[fd[q]] # "none"
      BY <1>1, <3>1, CreateKeepsNodes
    <3>4. data' \in [Nodes -> Some(Packets)]
      BY <1>2, <3>1 DEF TransportType
    <3>5. QED
      BY <2>2, <3>1, <3>2, <3>3, <3>4
  <2>3. QED
    BY <2>1, <2>2
<1>4. /\ mode' \in [Procs -> Modes] /\ fd' \in [Procs -> Nodes \cup {None}] /\ got' = got
      /\ fd'[p] = n /\ IsWriter(p)' /\ ~IsReader(p)'
      /\ mode'[p] = "writes" => file \/ \E r \in Procs : IsReader(r) /\ fd[r] = n
      /\ \A q \in Procs \ {p} : Same(q)
      /\ \A q \in Procs : mode'[q] = "writes" => q = p \/ mode[q] = "writes"
      /\ \A q \in Procs : mode[q] = "reads" => mode'[q] = "reads"
      /\ \A q \in Procs : mode'[q] = "reads" => mode[q] = "reads" \/ (IsReader(q) /\ fd[q] = n)
  BY <1>2, <1>3, OpenToWriteFacts
<1>5. TransportType(Packets)'
  BY <1>1, <1>2, <1>3, <1>4 DEF TransportType, Modes, None
<1>6. kind'[n] # "none"
  <2>1. CASE node[WritePipe[p]] # None
    BY <1>1, <1>3, <2>1 DEF TransportInv, NodesAreMade
  <2>2. CASE node[WritePipe[p]] = None
    <3>1. node'[WritePipe[p]] # None
      BY <1>3, NodesAssumption DEF Nodes, None
    <3>2. QED
      BY <1>1, <1>3, <3>1
  <2>3. QED
    BY <2>1, <2>2
<1>7. /\ \A q \in Procs : mode'[q] # "closed" => fd'[q] \in Nodes /\ kind'[fd'[q]] # "none"
      /\ \A q \in Procs : got'[q] # <<>> => mode'[q] = "reads"
  BY <1>3, <1>4, <1>6, OpeningKeepsEnds
<1>8. NodesAreMade'
  BY <1>1, <1>3, <1>7 DEF NodesAreMade, None
<1>9. QED
  BY <1>3, <1>4, <1>5, <1>8 DEF TransportInv, IsFile

-----------------------------------------------------------------------------
(* Packets, and closing.                                                    *)

(* A process that closes leaves the others alone.                           *)
LEMMA CloseFacts ==
    ASSUME NEW Packets, TransportType(Packets), NEW p \in Procs, Close(p)
    PROVE  /\ mode' \in [Procs -> Modes] /\ fd' \in [Procs -> Nodes \cup {None}]
           /\ mode'[p] = "closed" /\ ~IsReader(p)' /\ ~IsWriter(p)'
           /\ \A q \in Procs \ {p} : mode'[q] = mode[q] /\ Same(q)
<1>1. mode' = [mode EXCEPT ![p] = "closed"] /\ fd' = [fd EXCEPT ![p] = None]
  BY DEF Close
<1>2. mode \in [Procs -> Modes] /\ fd \in [Procs -> Nodes \cup {None}]
  BY DEF TransportType, Modes
<1>3. mode' \in [Procs -> Modes] /\ fd' \in [Procs -> Nodes \cup {None}] /\ mode'[p] = "closed"
  BY <1>1, <1>2 DEF Modes
<1>4. QED
  BY <1>1, <1>2, <1>3 DEF Same, IsReader, IsWriter

(* A packet is in the pipe or behind the one that is, and the writer gone.  *)
LEMMA WriteFacts ==
    ASSUME NEW Packets, TransportInv(Packets), NEW p \in Procs, NEW packet \in Packets,
           WriteAndClose(p, packet)
    PROVE  /\ TransportInv(Packets)'
           /\ UNCHANGED <<node, kind, got>>
           /\ fd[p] \in Nodes /\ IsWriter(p) /\ ~IsReader(p)' /\ ~IsWriter(p)'
           /\ data'[fd[p]] # <<>>
           /\ data'[fd[p]] = <<packet>> \/ (~IsFile(fd[p]) /\ data'[fd[p]] = data[fd[p]])
           /\ \A n \in Nodes \ {fd[p]} : data'[n] = data[n]
           /\ \A q \in Procs \ {p} : mode'[q] = mode[q] /\ Same(q)
<1>1. /\ mode[p] = "writes" /\ Close(p) /\ UNCHANGED <<node, kind, got>>
      /\ data' = [data EXCEPT ![fd[p]] = IF IsFile(fd[p]) \/ @ = <<>> THEN <<packet>> ELSE @]
  BY DEF WriteAndClose
<1>2. TransportType(Packets) /\ fd[p] \in Nodes /\ kind[fd[p]] # "none"
  BY <1>1 DEF TransportInv, NodesAreMade
<1>3. /\ mode' \in [Procs -> Modes] /\ fd' \in [Procs -> Nodes \cup {None}]
      /\ mode'[p] = "closed" /\ ~IsReader(p)' /\ ~IsWriter(p)'
      /\ \A q \in Procs \ {p} : mode'[q] = mode[q] /\ Same(q)
  BY <1>1, <1>2, CloseFacts
<1>4. /\ data' \in [Nodes -> Some(Packets)] /\ data'[fd[p]] # <<>>
      /\ data'[fd[p]] = <<packet>> \/ (~IsFile(fd[p]) /\ data'[fd[p]] = data[fd[p]])
      /\ \A n \in Nodes \ {fd[p]} : data'[n] = data[n]
  BY <1>1, <1>2, SomeFacts DEF TransportType
<1>5. Names' = Names /\ Nodes' = Nodes /\ Some(Packets)' = Some(Packets)
  BY DEF Names, Nodes, Some
<1>6. TransportType(Packets)'
  BY <1>1, <1>2, <1>3, <1>4, <1>5 DEF TransportType, Modes, None
<1>7. \A q \in Procs : mode'[q] # "closed" => fd'[q] \in Nodes /\ kind'[fd'[q]] # "none"
  BY <1>1, <1>3 DEF TransportInv, NodesAreMade, Same
<1>8. \A q \in Procs : got'[q] # <<>> => mode'[q] = "reads"
  BY <1>1, <1>3 DEF TransportInv, NodesAreMade
<1>9. \A n \in Nodes : kind'[n] = "none" => data'[n] = <<>>
  BY <1>1, <1>2, <1>4 DEF TransportInv, NodesAreMade
<1>10. NodesAreMade'
  BY <1>1, <1>5, <1>7, <1>8, <1>9 DEF TransportInv, NodesAreMade, None
<1>11. QED
  BY <1>1, <1>2, <1>3, <1>4, <1>6, <1>10 DEF TransportInv, IsWriter

(* A reader takes what is in the pipe.                                      *)
LEMMA TakeFacts ==
    ASSUME NEW Packets, TransportInv(Packets), NEW p \in Procs, Take(p)
    PROVE  /\ TransportInv(Packets)'
           /\ UNCHANGED <<node, kind, mode, fd>>
           /\ fd[p] \in Nodes /\ IsReader(p)
           /\ got'[p] # <<>> /\ got'[p] \in {got[p], data[fd[p]]}
           /\ data'[fd[p]] = <<>>
           /\ \A n \in Nodes \ {fd[p]} : data'[n] = data[n]
           /\ \A q \in Procs \ {p} : got'[q] = got[q]
           /\ \A q \in Procs : Same(q)
<1>1. /\ mode[p] = "reads" /\ data[fd[p]] # <<>> /\ UNCHANGED <<node, kind, mode, fd>>
      /\ got' = [got EXCEPT ![p] = IF @ = <<>> THEN data[fd[p]] ELSE @]
      /\ data' = [data EXCEPT ![fd[p]] = <<>>]
  BY DEF Take
<1>2. TransportType(Packets) /\ fd[p] \in Nodes
  BY <1>1 DEF TransportInv, NodesAreMade
<1>3. /\ data' \in [Nodes -> Some(Packets)] /\ data'[fd[p]] = <<>>
      /\ \A n \in Nodes \ {fd[p]} : data'[n] = data[n]
  BY <1>1, <1>2, SomeFacts DEF TransportType
<1>4. /\ got' \in [Procs -> Some(Packets)] /\ got'[p] # <<>> /\ got'[p] \in {got[p], data[fd[p]]}
      /\ \A q \in Procs \ {p} : got'[q] = got[q]
  BY <1>1, <1>2 DEF TransportType
<1>5. Names' = Names /\ Nodes' = Nodes /\ Some(Packets)' = Some(Packets)
  BY DEF Names, Nodes, Some
<1>6. TransportType(Packets)'
  BY <1>1, <1>2, <1>3, <1>4, <1>5 DEF TransportType, None
<1>7. \A q \in Procs : Same(q) /\ (got'[q] # <<>> => mode'[q] = "reads")
  BY <1>1, <1>4 DEF Same, IsReader, IsWriter, TransportInv, NodesAreMade
<1>8. \A n \in Nodes : kind'[n] = "none" => data'[n] = <<>>
  BY <1>1, <1>3 DEF TransportInv, NodesAreMade
<1>9. NodesAreMade'
  BY <1>1, <1>5, <1>7, <1>8 DEF TransportInv, NodesAreMade, None
<1>10. QED
  BY <1>1, <1>2, <1>3, <1>4, <1>6, <1>7, <1>9 DEF TransportInv, IsReader

(* At its end a reader closes, and forgets what it has returned.            *)
LEMMA CloseReadFacts ==
    ASSUME NEW Packets, TransportInv(Packets), NEW p \in Procs, CloseRead(p)
    PROVE  /\ TransportInv(Packets)'
           /\ UNCHANGED <<node, kind, data>>
           /\ fd[p] \in Nodes /\ mode[p] = "reads" /\ ~IsReader(p)' /\ ~IsWriter(p)'
           /\ IsFile(fd[p]) \/ (data[fd[p]] = <<>> /\ \A w \in Procs : IsWriter(w) => fd[w] # fd[p])
           /\ got'[p] = <<>>
           /\ \A q \in Procs \ {p} : mode'[q] = mode[q] /\ got'[q] = got[q] /\ Same(q)
<1>1. /\ AtEof(p) /\ Close(p) /\ UNCHANGED <<node, kind, data>>
      /\ got' = [got EXCEPT ![p] = <<>>]
  BY DEF CloseRead, files
<1>2. TransportType(Packets) /\ fd[p] \in Nodes /\ mode[p] = "reads"
  BY <1>1 DEF TransportInv, NodesAreMade, AtEof
<1>3. /\ mode' \in [Procs -> Modes] /\ fd' \in [Procs -> Nodes \cup {None}]
      /\ mode'[p] = "closed" /\ ~IsReader(p)' /\ ~IsWriter(p)'
      /\ \A q \in Procs \ {p} : mode'[q] = mode[q] /\ Same(q)
  BY <1>1, <1>2, CloseFacts
<1>4. /\ got' \in [Procs -> Some(Packets)] /\ got'[p] = <<>>
      /\ \A q \in Procs \ {p} : got'[q] = got[q]
  BY <1>1, <1>2, SomeFacts DEF TransportType
<1>5. Names' = Names /\ Nodes' = Nodes /\ Some(Packets)' = Some(Packets)
  BY DEF Names, Nodes, Some
<1>6. TransportType(Packets)'
  BY <1>1, <1>2, <1>3, <1>4, <1>5 DEF TransportType, Modes, None
<1>7. \A q \in Procs : mode'[q] # "closed" => fd'[q] \in Nodes /\ kind'[fd'[q]] # "none"
  BY <1>1, <1>3 DEF TransportInv, NodesAreMade, Same
<1>8. \A q \in Procs : got'[q] # <<>> => mode'[q] = "reads"
  BY <1>3, <1>4 DEF TransportInv, NodesAreMade
<1>9. NodesAreMade'
  BY <1>1, <1>5, <1>7, <1>8 DEF TransportInv, NodesAreMade, None
<1>10. IsFile(fd[p]) \/ (data[fd[p]] = <<>> /\ \A w \in Procs : IsWriter(w) => fd[w] # fd[p])
  BY <1>1, EndsOf DEF AtEof
<1>11. QED
  BY <1>1, <1>2, <1>3, <1>4, <1>6, <1>9, <1>10 DEF TransportInv

(* A process that ends has nothing open, and what it alone had is empty.    *)
LEMMA ReleaseFacts ==
    ASSUME NEW Packets, TransportInv(Packets), NEW p \in Procs, Release(p)
    PROVE  /\ TransportInv(Packets)'
           /\ UNCHANGED <<node, kind>>
           /\ ~IsReader(p)' /\ ~IsWriter(p)' /\ got'[p] = <<>>
           /\ \A q \in Procs \ {p} : mode'[q] = mode[q] /\ got'[q] = got[q] /\ Same(q)
           /\ \A n \in Nodes : data'[n] = data[n] \/ data'[n] = <<>>
           /\ \A q \in Procs \ {p} : mode[q] # "closed" => data'[fd[q]] = data[fd[q]]
<1>1. /\ Close(p) /\ UNCHANGED <<node, kind>> /\ got' = [got EXCEPT ![p] = <<>>]
      /\ data' = [n \in Nodes |-> IF ~IsFile(n) /\ Readers(n) \cup Writers(n) = {p}
                                  THEN <<>> ELSE data[n]]
  BY DEF Release
<1>2. TransportType(Packets)
  BY DEF TransportInv
<1>3. /\ mode' \in [Procs -> Modes] /\ fd' \in [Procs -> Nodes \cup {None}]
      /\ mode'[p] = "closed" /\ ~IsReader(p)' /\ ~IsWriter(p)'
      /\ \A q \in Procs \ {p} : mode'[q] = mode[q] /\ Same(q)
  BY <1>1, <1>2, CloseFacts
<1>4. /\ got' \in [Procs -> Some(Packets)] /\ got'[p] = <<>>
      /\ \A q \in Procs \ {p} : got'[q] = got[q]
  BY <1>1, <1>2, SomeFacts DEF TransportType
<1>5. /\ data' \in [Nodes -> Some(Packets)]
      /\ \A n \in Nodes : data'[n] = data[n] \/ data'[n] = <<>>
  BY <1>1, <1>2, SomeFacts DEF TransportType
<1>6. ASSUME NEW q \in Procs \ {p}, mode[q] # "closed"
      PROVE  data'[fd[q]] = data[fd[q]]
  <2>1. fd[q] \in Nodes /\ (IsReader(q) \/ IsWriter(q))
    BY <1>2, <1>6, ModeIs DEF TransportInv, NodesAreMade, TransportType, Modes
  <2>2. q \in Readers(fd[q]) \cup Writers(fd[q])
    BY <1>6, <2>1, EndsOf
  <2>3. QED
    BY <1>1, <1>6, <2>1, <2>2
<1>7. Names' = Names /\ Nodes' = Nodes /\ Some(Packets)' = Some(Packets)
  BY DEF Names, Nodes, Some
<1>8. TransportType(Packets)'
  BY <1>1, <1>2, <1>3, <1>4, <1>5, <1>7 DEF TransportType, Modes, None
<1>9. \A q \in Procs : mode'[q] # "closed" => fd'[q] \in Nodes /\ kind'[fd'[q]] # "none"
  BY <1>1, <1>3 DEF TransportInv, NodesAreMade, Same
<1>10. \A q \in Procs : got'[q] # <<>> => mode'[q] = "reads"
  BY <1>3, <1>4 DEF TransportInv, NodesAreMade
<1>11. \A n \in Nodes : kind'[n] = "none" => data'[n] = <<>>
  BY <1>1, <1>5 DEF TransportInv, NodesAreMade
<1>12. NodesAreMade'
  BY <1>1, <1>7, <1>9, <1>10, <1>11 DEF TransportInv, NodesAreMade, None
<1>13. QED
  BY <1>1, <1>3, <1>4, <1>5, <1>6, <1>8, <1>12 DEF TransportInv
===============================================================================
