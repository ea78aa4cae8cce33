----------------------------- MODULE SocketsProofs -----------------------------
(***************************************************************************)
(* Proofs about Sockets: its types; EndsExplained, which says who can end  *)
(* whom; and that it implements SocketDevice.  The last two rest on what   *)
(* holds while the sockets are calm: one thread in the server's loop, no   *)
(* process killed, the server there.  Then each connection that a client   *)
(* still writes to is on its way to that one thread, and the thread keeps  *)
(* the descriptor of the connection it serves.                             *)
(***************************************************************************)
EXTENDS Sockets, TLAPS, FiniteSetTheorems, SequenceTheorems, WellFoundedInduction

-----------------------------------------------------------------------------
(* The invariants.                                                          *)

Busy(u) == user[u] \in {"asking", "typed", "typing", "ready", "awaiting"}

\* What a thread holds where it is.
PlacesHold ==
    /\ \A u \in Users : Busy(u) => conn[u] \in Conns
    /\ \A u \in Users :
           user[u] \in {"typed", "typing", "ready", "awaiting"} => Choice(u) \in Menu
    /\ \A u \in Users : At(u, "typing") => asked[u] \in Drafts
    /\ \A u \in Users : user[u] \in {"ready", "awaiting"} => asked[u] \in Messages
    /\ \A u \in Users : user[u] \in {"typing", "ready"} => asked[u].id = conn[u]
    /\ \A a \in Acceptors : On(a, "reading") => file[a] \in Conns
    /\ \A a \in Acceptors : On(a, "handling") => request[a] \in Messages
    /\ \A a \in Acceptors : On(a, "replying") => response[a] \in Replies

TypeInv == TypeOK /\ PlacesHold

\* A connection has one client, and is in one place of the server.
OneClient == \A u, v \in Users : conn[u] = conn[v] /\ conn[u] # NoConn => u = v
OnePlace ==
    /\ \A i, j \in 1..Len(backlog) : backlog[i] = backlog[j] => i = j
    /\ \A i \in 1..Len(backlog), n \in Fds : backlog[i] # table[n]
AllMade ==
    /\ \A u \in Users : conn[u] # NoConn => Made(conn[u])
    /\ \A i \in 1..Len(backlog) : Made(backlog[i])
    /\ \A n \in Fds : table[n] # NoConn => Made(table[n])
    /\ \A k \in Conns : ~Made(k) => inbox[k] = <<>> /\ outbox[k] = <<>> /\ effects[k] = {}
BusyOpen == \A u \in Users : Busy(u) => client[conn[u]] = "open"
OwnIds ==
    /\ \A k \in Conns : Unread(k) => Head(inbox[k]).id = k
    /\ \A a \in Acceptors : On(a, "handling") => Made(request[a].id)

ConnectionsInv == OneClient /\ OnePlace /\ AllMade /\ BusyOpen /\ OwnIds

\* EXIT is never sent by somebody who was not tempted.
ExitTempted ==
    /\ \A p \in {Process[u] : u \in Users} : command[p] \in {"0", "invalid"} => tempted
    /\ \A u \in Users : At(u, "ready") /\ asked[u].command = "EXIT" => tempted
    /\ \A k \in Conns : Unread(k) /\ Head(inbox[k]).command = "EXIT" => tempted
    /\ \A a \in Acceptors : On(a, "handling") /\ request[a].command = "EXIT" => tempted

AllGone == ~listening => \A a \in Acceptors : On(a, "gone")
OneThread ==
    listening /\ "acceptors" \notin trouble =>
        \A a, b \in Acceptors : ~On(a, "idle") /\ ~On(b, "idle") => a = b

\* While the sockets are calm ...
Calm == listening /\ trouble \cap {"acceptors", "killed"} = {}

\* The server has not read from it yet.
Waiting(k) ==
    \/ Queued(k)
    \/ \E a \in Acceptors : \/ On(a, "accepted") /\ table[fd[a]] = k
                            \/ On(a, "reading") /\ file[a] = k

\* ... the thread has the descriptor of the connection it serves,
Serves(a) == thread[a] \in {"accepted", "reading", "handling", "replying"}
KeepsDescriptor ==
    \A a \in Acceptors :
        /\ thread[a] \notin {"unwinding", "broken", "gone"}
        /\ Serves(a) => table[fd[a]] \in Conns /\ outbox[table[fd[a]]] = <<>>
        /\ On(a, "reading") => file[a] = table[fd[a]]
        /\ On(a, "handling") => request[a].id = table[fd[a]]
\* who has not written is waited for, and who is gone has written.
WaitedFor ==
    /\ \A u \in Users, k \in Conns :
           user[u] \in {"asking", "typed", "typing", "ready"} /\ conn[u] = k =>
               Waiting(k) /\ inbox[k] = <<>>
    /\ \A k \in Conns : Waiting(k) => outbox[k] = <<>>
    /\ \A k \in Conns : Waiting(k) /\ client[k] # "open" => Unread(k)

CalmInv == Calm => KeepsDescriptor /\ WaitedFor

EndsInv == TypeInv /\ ConnectionsInv /\ ExitTempted /\ AllGone /\ OneThread /\ CalmInv
               /\ EndsExplained

(* As long as nothing was disturbed, each Transport has one user, who is     *)
(* shown the answer as it was asked for;                                     *)
OneUser ==
    \A u, v \in Users :
        Process[u] = Process[v] /\ conn[u] # NoConn /\ conn[v] # NoConn => u = v
AskedAsChosen ==
    \A u \in Users : user[u] \in {"typing", "ready", "awaiting"} =>
        Choice(u) = asked[u].menu /\ asked[u].menu # "0"
\* what is not sent has no effect, and what is sent has one when it is handled;
NoEffectYet ==
    \A u \in Users, k \in Conns :
        user[u] \in {"asking", "typed", "typing", "ready"} /\ conn[u] = k =>
            effects[k] = {} /\ outbox[k] = <<>>
Answering(k) == Answers(k) /\ effects[k] = {Head(outbox[k]).data}
InProgress(k) ==
    \/ /\ effects[k] = {}
       /\ Waiting(k) \/ \E a \in Acceptors : On(a, "handling") /\ table[fd[a]] = k
    \/ \E a \in Acceptors : On(a, "replying") /\ table[fd[a]] = k
                                /\ effects[k] = {response[a].data}
    \/ Answering(k)
AwaitsProgress ==
    \A u \in Users, k \in Conns : At(u, "awaiting") /\ conn[u] = k =>
        IF listening THEN InProgress(k)
        ELSE Answering(k) \/ (~Answers(k) /\ effects[k] = {})
\* and whoever sent something but EXIT awaits the answer.
SentBy(u, m) == At(u, "awaiting") /\ asked[u] = m /\ conn[u] = m.id
HasSender ==
    listening =>
        /\ \A k \in Conns : Waiting(k) /\ Unread(k) /\ Head(inbox[k]).menu # "0" =>
                                \E u \in Users : SentBy(u, Head(inbox[k]))
        /\ \A a \in Acceptors : On(a, "handling") /\ request[a].menu # "0" =>
                                \E u \in Users : SentBy(u, request[a])

DeviceInv ==
    trouble = {} => OneUser /\ AskedAsChosen /\ NoEffectYet /\ AwaitsProgress /\ HasSender

-----------------------------------------------------------------------------
(* Vectors.                                                                 *)

(* A set of numbers that is not empty has a least one. *)
LEMMA LeastNumber ==
    ASSUME NEW T, T \subseteq Nat, T # {}
    PROVE  \E x \in T : \A y \in T : x <= y
<1>1. \E x \in T : \A y \in T : ~ (<<y, x>> \in OpToRel(<, Nat))
  BY NatLessThanWellFounded, WFMin, Zenon
<1>2. \A x \in T, y \in T : <<y, x>> \in OpToRel(<, Nat) <=> y < x
  BY Zenon DEF OpToRel
<1>3. \E x \in T : \A y \in T : ~ (y < x)
  BY <1>1, <1>2, Zenon
<1>. QED
  BY <1>3

(* The places that are kept are finitely many, and so are those up to one. *)
LEMMA KeptFinite ==
    ASSUME NEW V, NEW s \in Seq(V), NEW x, NEW i \in 0..Len(s)
    PROVE  /\ IsFiniteSet(Kept(s, x) \cap 1..i)
           /\ Upto(s, x, i) \in Nat
           /\ Upto(s, x, 0) = 0
           /\ Upto(s, x, Len(s)) = Cardinality(Kept(s, x))
<1>1. IsFiniteSet(1..i)
  BY FS_Interval
<1>2. IsFiniteSet(Kept(s, x) \cap 1..i)
  BY <1>1, FS_Subset
<1>3. Upto(s, x, i) \in Nat
  BY <1>2, FS_CardinalityType DEF Upto
<1>4. Kept(s, x) \cap 1..0 = {}
  OBVIOUS
<1>5. Upto(s, x, 0) = 0
  BY <1>4, FS_EmptySet DEF Upto
<1>6. Kept(s, x) \cap 1..Len(s) = Kept(s, x)
  BY DEF Kept
<1>. QED
  BY <1>2, <1>3, <1>5, <1>6 DEF Upto

(* The count of the kept places grows by one from one of them to the next. *)
LEMMA UptoSteps ==
    ASSUME NEW V, NEW s \in Seq(V), NEW x, NEW i \in 1..Len(s)
    PROVE  Upto(s, x, i) = Upto(s, x, i - 1) + IF i \in Kept(s, x) THEN 1 ELSE 0
<1>. DEFINE Low == Kept(s, x) \cap 1..(i - 1)
            This == Kept(s, x) \cap 1..i
<1>1. IsFiniteSet(Low)
  BY KeptFinite, i - 1 \in 0..Len(s)
<1>2. CASE i \in Kept(s, x)
  <2>1. This = Low \cup {i}
    BY <1>2
  <2>2. i \notin Low
    OBVIOUS
  <2>. HIDE DEF Low, This
  <2>3. Cardinality(This) = Cardinality(Low) + 1
    BY <1>1, <2>1, <2>2, FS_AddElement
  <2>. QED
    BY <1>2, <2>3 DEF Upto, Low, This
<1>3. CASE i \notin Kept(s, x)
  <2>1. This = Low
    BY <1>3
  <2>2. Upto(s, x, i) = Upto(s, x, i - 1)
    BY <2>1 DEF Upto
  <2>3. Upto(s, x, i - 1) \in Nat
    BY KeptFinite, i - 1 \in 0..Len(s)
  <2>. QED
    BY <1>3, <2>2, <2>3
<1>. QED
  BY <1>2, <1>3

(* Each number of the result has its place in the vector. *)
LEMMA PlaceOf ==
    ASSUME NEW V, NEW s \in Seq(V), NEW x, NEW j \in 1..Cardinality(Kept(s, x))
    PROVE  \E i \in Kept(s, x) : Upto(s, x, i) = j
<1>. DEFINE T == {i \in 0..Len(s) : Upto(s, x, i) >= j}
<1>0. Len(s) \in 0..Len(s)
  OBVIOUS
<1>1. \A i \in 0..Len(s) : /\ Upto(s, x, i) \in Nat /\ Upto(s, x, 0) = 0
                            /\ Upto(s, x, Len(s)) = Cardinality(Kept(s, x))
  BY KeptFinite
<1>2. j \in Nat /\ j > 0 /\ Upto(s, x, Len(s)) >= j
  BY <1>0, <1>1
<1>3. T \subseteq Nat /\ Len(s) \in T
  BY <1>0, <1>2
<1>4. PICK i \in T : \A h \in T : i <= h
  <2>. HIDE DEF T
  <2>. QED
    BY <1>3, LeastNumber
<1>5. i \in 0..Len(s) /\ Upto(s, x, i) \in Nat /\ Upto(s, x, i) >= j
  BY <1>1, <1>4
<1>6. i # 0
  BY <1>1, <1>2, <1>5
<1>7. i \in 1..Len(s) /\ i - 1 \in 0..Len(s) /\ i - 1 \notin T
  BY <1>4, <1>5, <1>6
<1>8. Upto(s, x, i - 1) \in Nat /\ Upto(s, x, i - 1) < j
  BY <1>1, <1>2, <1>7
<1>9. Upto(s, x, i) = Upto(s, x, i - 1) + IF i \in Kept(s, x) THEN 1 ELSE 0
  BY <1>7, UptoSteps
<1>. QED
  BY <1>2, <1>5, <1>7, <1>8, <1>9

(* What is left of a vector has items of the vector. *)
LEMMA WithoutType ==
    ASSUME NEW V, NEW s \in Seq(V), NEW x
    PROVE  Without(s, x) \in Seq(V)
<1>. DEFINE n == Cardinality(Kept(s, x))
            Place(j) == CHOOSE i \in Kept(s, x) : Upto(s, x, i) = j
<1>1. n \in Nat
  BY KeptFinite, Len(s) \in 0..Len(s)
<1>2. \A j \in 1..n : Place(j) \in Kept(s, x)
  <2>. TAKE j \in 1..n
  <2>. QED
    BY PlaceOf
<1>3. \A j \in 1..n : s[Place(j)] \in V
  <2>1. \A i \in Kept(s, x) : s[i] \in V
    BY DEF Kept
  <2>. HIDE DEF n, Place
  <2>. QED
    BY <1>2, <2>1
<1>4. Without(s, x) = [j \in 1..n |-> s[Place(j)]]
  BY DEF Without
<1>. HIDE DEF n, Place
<1>. QED
  BY <1>1, <1>3, <1>4

-----------------------------------------------------------------------------
(* Numbers, and what read() leaves.                                         *)

(* The numbers that processes know their files by start at 1. *)
LEMMA FirstFd == ASSUME NEW a \in Acceptors PROVE 1 \in Fds
<1>1. Cardinality(Acceptors) \in Nat /\ Cardinality(Acceptors) # 0
  BY ConnectionsAssumption, FS_CardinalityType, FS_EmptySet
<1>. QED
  BY <1>1 DEF Fds

(* A read that returns leaves at most what was there. *)
LEMMA EndReadType ==
    ASSUME NEW M, NEW R, ConnectionsType(M, R), NEW a \in Acceptors, EndRead(a)
    PROVE  ConnectionsType(M, R)'
<1>1. inbox' = [k \in Conns |-> IF k = file[a] THEN <<>> ELSE inbox[k]]
  BY DEF ConnectionsType, EndRead
<1>2. inbox \in [Conns -> Seq(M)]
  BY DEF ConnectionsType
<1>3. inbox' \in [Conns -> Seq(M)] /\ \A k \in Conns : inbox'[k] \in {inbox[k], <<>>}
  BY <1>1, <1>2
<1>4. \A k \in Conns : Len(inbox'[k]) <= 1
  BY <1>3 DEF ConnectionsType
<1>. QED
  BY <1>3, <1>4 DEF ConnectionsType, EndRead

-----------------------------------------------------------------------------
(* Type correctness.                                                        *)

DeviceType == frequency \in Numbers /\ power \in Numbers /\ emergencies \in Seq(Values)
ServerType ==
    /\ thread \in [Acceptors -> InRun \cup {"idle", "broken", "gone"}]
    /\ fd \in [Acceptors -> Fds]
    /\ request \in [Acceptors -> Messages \cup {NoMessage}]
    /\ response \in [Acceptors -> Replies \cup {NoReply}]
ClientsType ==
    /\ user \in [Users -> {"connecting", "asking", "typed", "typing", "ready", "awaiting",
                         "left", "gone"}]
    /\ conn \in [Users -> Conns \cup {NoConn}]
    /\ asked \in [Users -> Messages \cup Drafts \cup {NoMessage}]
    /\ command \in [{Process[u] : u \in Users} -> Menu \cup {"none"}]
    /\ told \in [Users -> SUBSET [menu : Menu, data : Outcomes]]
    /\ \A u \in Users : Cardinality(told[u]) <= 1
HistoryType ==
    /\ effects \in [Conns -> SUBSET Outcomes]
    /\ \A k \in Conns : Cardinality(effects[k]) <= 1
    /\ trouble \subseteq {"acceptors", "transport", "killed"}
    /\ tempted \in BOOLEAN
    /\ ended \in [Processes -> {"none", "exit", "crash", "refused", "unsent", "killed"}]

(* TypeOK, part by part. *)
LEMMA TypeParts ==
    TypeOK <=> /\ ConnectionsType(Messages, Replies) /\ DeviceType
               /\ ServerType /\ ClientsType /\ HistoryType
BY DEF TypeOK, DeviceType, ServerType, ClientsType, HistoryType

LEMMA TypePartsNext ==
    TypeOK' <=> /\ ConnectionsType(Messages, Replies)' /\ DeviceType'
                /\ ServerType' /\ ClientsType' /\ HistoryType'
BY DEF TypeOK, DeviceType, ServerType, ClientsType, HistoryType

(* A part of which nothing changes keeps its type. *)
LEMMA TypeUnchanged ==
    /\ DeviceType /\ UNCHANGED device => DeviceType'
    /\ ServerType /\ UNCHANGED server => ServerType'
    /\ ClientsType /\ UNCHANGED clients => ClientsType'
    /\ HistoryType /\ UNCHANGED history => HistoryType'
<1>1. DeviceType /\ UNCHANGED device => DeviceType'
  BY DEF DeviceType, device
<1>2. ServerType /\ UNCHANGED server => ServerType'
  BY DEF ServerType, server
<1>3. ClientsType /\ UNCHANGED clients => ClientsType'
  BY DEF ClientsType, clients
<1>4. HistoryType /\ UNCHANGED history => HistoryType'
  BY DEF HistoryType, history
<1>. QED
  BY <1>1, <1>2, <1>3, <1>4

(* What a choice is made into, with the id of a connection, is a message.   *)
(* It is EXIT only for 0 and for what is not on the menu.                   *)
LEMMA MessagesMade ==
    ASSUME NEW c \in MenuItems, NEW k \in Conns, NEW m \in MessagesOf(c, k)
    PROVE  /\ m \in Messages /\ m.id = k /\ m.menu = c
           /\ c = "0" => m.command = "EXIT"
           /\ m.command = "EXIT" => c \in {"0", "invalid"}
<1>1. m \in Messages
  BY DEF Messages
<1>2. m.id = k /\ m.menu = c
  BY DEF MessagesOf
<1>3. c = "0" => m.command = "EXIT"
  BY DEF MessagesOf
<1>4. m.command = "EXIT" => c \in {"0", "invalid"}
  BY DEF MessagesOf, MenuItems, Valued, Plain
<1>. QED
  BY <1>1, <1>2, <1>3, <1>4

(* A request that waits for its number is one of a command that has one. *)
LEMMA DraftsMade ==
    /\ \A c \in Valued, k \in Conns : Draft(c, k) \in Drafts /\ Draft(c, k).id = k
                                        /\ Draft(c, k).menu = c
    /\ \A d \in Drafts : /\ d.id \in Conns /\ d.menu \in Valued
                           /\ d = [menu |-> d.menu, command |-> d.menu, data |-> <<>>, id |-> d.id]
    /\ Valued \subseteq MenuItems /\ "0" \notin Valued /\ "EXIT" \notin Valued
<1>1. \A c \in Valued, k \in Conns : Draft(c, k) \in Drafts /\ Draft(c, k).id = k
                                        /\ Draft(c, k).menu = c
  BY DEF Drafts, Draft
<1>2. \A d \in Drafts : /\ d.id \in Conns /\ d.menu \in Valued
                        /\ d = [menu |-> d.menu, command |-> d.menu, data |-> <<>>, id |-> d.id]
  BY DEF Drafts, Draft
<1>3. Valued \subseteq MenuItems /\ "0" \notin Valued /\ "EXIT" \notin Valued
  BY DEF Valued, MenuItems
<1>. QED
  BY <1>1, <1>2, <1>3, Zenon

(* With the number it is a message. *)
LEMMA DraftsTyped ==
    ASSUME NEW d \in Drafts, NEW v \in Values
    PROVE  /\ [d EXCEPT !.data = <<v>>] \in MessagesOf(d.menu, d.id)
           /\ [d EXCEPT !.data = <<v>>] \in Messages
           /\ [d EXCEPT !.data = <<v>>].id = d.id /\ [d EXCEPT !.data = <<v>>].menu = d.menu
<1>1. d.id \in Conns /\ d.menu \in Valued /\ d.menu \in MenuItems
  BY DraftsMade
<1>2. [d EXCEPT !.data = <<v>>]
          = [menu |-> d.menu, command |-> d.menu, data |-> <<v>>, id |-> d.id]
  BY DraftsMade
<1>3. d.menu # "0" /\ d.menu # "invalid"
  BY <1>1 DEF Valued
<1>4. [d EXCEPT !.data = <<v>>] \in MessagesOf(d.menu, d.id)
  BY <1>1, <1>2, <1>3 DEF MessagesOf
<1>5. [d EXCEPT !.data = <<v>>] \in Messages
  BY <1>1, <1>4, MessagesMade
<1>6. [d EXCEPT !.data = <<v>>].id = d.id /\ [d EXCEPT !.data = <<v>>].menu = d.menu
  BY <1>2
<1>. QED
  BY <1>4, <1>5, <1>6

(* What a message carries. *)
LEMMA MessageType ==
    ASSUME NEW m \in Messages
    PROVE  /\ m.id \in Conns /\ m.menu \in MenuItems
           /\ m.menu = "0" => m.command = "EXIT"
           /\ m.data # <<>> => m.data[1] \in Values
<1>1. PICK c \in MenuItems, k \in Conns : m \in MessagesOf(c, k)
  BY DEF Messages
<1>2. m.id = k /\ m.menu = c /\ (c = "0" => m.command = "EXIT")
  BY <1>1, MessagesMade
<1>3. m.data # <<>> => m.data[1] \in Values
  BY <1>1 DEF MessagesOf
<1>. QED
  BY <1>1, <1>2, <1>3

(* Replies and what users are told are outcomes. *)
LEMMA AnswersAreOutcomes ==
    ASSUME DeviceType, NEW m \in Messages
    PROVE  Answer(m) \in Outcomes /\ [data |-> Answer(m), id |-> m.id] \in Replies
<1>1. Answer(m) \in Outcomes
  BY DEF Answer, DeviceType, Outcomes
<1>2. m.id \in Conns
  BY MessageType
<1>. QED
  BY <1>1, <1>2 DEF Replies

(* A set of one has one item. *)
LEMMA Singly == \A x : Cardinality({x}) = 1
BY FS_Singleton

-----------------------------------------------------------------------------
(* What the users' actions keep.                                            *)

ClientStep(u) == MakeConnection(u) \/ Refused(u) \/ Types(u) \/ Called(u)
\* A request is made, on the client's side alone.
Composes(u) == HandleCommand(u) \/ TypeNumber(u)

(* The type is there at the start. *)
LEMMA InitType == Init => TypeInv
<1>. SUFFICES ASSUME Init PROVE TypeInv
  OBVIOUS
<1>. USE DEF Init
<1>1. ConnectionsType(Messages, Replies)
  BY DEF ConnectionsInit, ConnectionsType
<1>2. DeviceType
  BY DEF DeviceType, Numbers
<1>3. ServerType
  BY FirstFd DEF ServerType, InRun
<1>4. ClientsType
  BY FS_EmptySet DEF ClientsType
<1>5. HistoryType
  <2>1. \A k \in Conns : effects[k] = {} /\ Cardinality(effects[k]) <= 1
    BY FS_EmptySet
  <2>. QED
    BY <2>1 DEF HistoryType
<1>6. PlacesHold
  BY DEF PlacesHold, Busy, At, On
<1>. QED
  BY <1>1, <1>2, <1>3, <1>4, <1>5, <1>6, TypeParts DEF TypeInv

(* The end of a client keeps the type. *)
LEMMA EndClientType ==
    ASSUME TypeInv, NEW p \in Processes, NEW why \in {"refused", "unsent", "killed"},
           EndClient(p, why), trouble' \subseteq {"acceptors", "transport", "killed"}
    PROVE  TypeInv'
<1>. USE DEF EndClient
<1>1. ConnectionsType(Messages, Replies)'
  <2>1. CASE Conns = {}
    BY <2>1, TypeParts DEF TypeInv, Hangup, ConnectionsType
  <2>. QED
    BY TypeParts DEF TypeInv, Hangup, ConnectionsType
<1>2. DeviceType'
  BY TypeUnchanged, TypeParts DEF TypeInv
<1>3. ServerType'
  BY TypeUnchanged, TypeParts DEF TypeInv
<1>4. ClientsType'
  BY TypeParts DEF TypeInv, ClientsType
<1>5. HistoryType'
  BY TypeParts DEF TypeInv, HistoryType
<1>6. PlacesHold'
  BY TypeParts DEF TypeInv, ClientsType, PlacesHold, Busy, At, On, Choice, server, Hangup
<1>. QED
  BY <1>1, <1>2, <1>3, <1>4, <1>5, <1>6, TypePartsNext DEF TypeInv

(* Another user of a Transport is the only trouble a connection makes. *)
LEMMA SecondType ==
    ASSUME TypeInv, NEW u \in Users, ComesSecond(u)
    PROVE  trouble' \subseteq {"acceptors", "transport", "killed"}
BY TypeParts DEF TypeInv, HistoryType, ComesSecond

(* Who is shown something was shown it last. *)
LEMMA ToldOnce ==
    ASSUME ClientsType, NEW u \in Users, NEW x \in [menu : Menu, data : Outcomes],
           told' = [told EXCEPT ![u] = {x}]
    PROVE  /\ told' \in [Users -> SUBSET [menu : Menu, data : Outcomes]]
           /\ \A v \in Users : Cardinality(told'[v]) <= 1
<1>1. told \in [Users -> SUBSET [menu : Menu, data : Outcomes]]
  BY DEF ClientsType
<1>2. told'[u] = {x} /\ \A v \in Users \ {u} : told'[v] = told[v]
  BY <1>1
<1>3. Cardinality({x}) = 1 /\ \A v \in Users : Cardinality(told[v]) <= 1
  BY Singly DEF ClientsType
<1>4. \A v \in Users : Cardinality(told'[v]) <= 1
  <2>. TAKE v \in Users
  <2>1. CASE v = u
    BY <1>2, <1>3, <2>1
  <2>2. CASE v # u
    BY <1>2, <1>3, <2>2
  <2>. QED
    BY <2>1, <2>2
<1>5. {x} \in SUBSET [menu : Menu, data : Outcomes]
  OBVIOUS
<1>. HIDE <1>3
<1>. QED
  BY <1>1, <1>4, <1>5

(* A user who makes a request goes on to its number or to the write, and   *)
(* changes nothing else.                                                   *)
LEMMA Composing ==
    ASSUME TypeInv, NEW u \in Users, Composes(u)
    PROVE  /\ UNCHANGED <<connections, device, server, conn, command, told, history>>
           /\ user[u] \in {"typed", "typing"} /\ user'[u] \in {"typing", "ready"}
           /\ \A v \in Users \ {u} : user'[v] = user[v] /\ asked'[v] = asked[v]
           /\ asked'[u].id = conn[u] /\ asked'[u].menu \in MenuItems
           /\ asked'[u].menu = Choice(u) \/ (asked'[u].menu = asked[u].menu /\ At(u, "typing"))
           /\ asked'[u].menu # "0"
           /\ user'[u] = "typing" => asked'[u] \in Drafts
           /\ user'[u] = "ready" => asked'[u] \in MessagesOf(asked'[u].menu, conn[u])
                                        /\ asked'[u] \in Messages
<1>0. ClientsType /\ PlacesHold /\ Menu \subseteq MenuItems
  BY TypeParts, UsersAssumption DEF TypeInv
<1>1. UNCHANGED <<connections, device, server, conn, command, told, history>>
  BY DEF Composes, HandleCommand, TypeNumber
<1>2. conn[u] \in Conns
  BY <1>0 DEF Composes, HandleCommand, TypeNumber, PlacesHold, Busy, At
<1>3. /\ user[u] \in {"typed", "typing"} /\ user'[u] \in {"typing", "ready"}
      /\ \A v \in Users \ {u} : user'[v] = user[v]
  BY <1>0 DEF Composes, HandleCommand, TypeNumber, At, Going, ClientsType
<1>4. \A v \in Users \ {u} : asked'[v] = asked[v]
  BY <1>0 DEF Composes, HandleCommand, TypeNumber, ClientsType
<1>5. CASE HandleCommand(u) /\ Choice(u) \in Valued
  <2>1. asked'[u] = Draft(Choice(u), conn[u]) /\ user'[u] = "typing"
    BY <1>0, <1>5 DEF HandleCommand, Going, ClientsType
  <2>. QED
    BY <1>1, <1>2, <1>3, <1>4, <1>5, <2>1, DraftsMade
<1>6. CASE HandleCommand(u) /\ Choice(u) \notin Valued
  <2>1. PICK m \in MessagesOf(Choice(u), conn[u]) : asked' = [asked EXCEPT ![u] = m]
    BY <1>6 DEF HandleCommand
  <2>2. Choice(u) \in MenuItems /\ Choice(u) # "0"
    BY <1>0, <1>6 DEF HandleCommand, PlacesHold, At
  <2>3. m \in Messages /\ m.id = conn[u] /\ m.menu = Choice(u)
    BY <1>2, <2>1, <2>2, MessagesMade
  <2>4. asked'[u] = m /\ user'[u] = "ready"
    BY <1>0, <1>6, <2>1 DEF HandleCommand, Going, ClientsType
  <2>. QED
    BY <1>1, <1>3, <1>4, <2>1, <2>2, <2>3, <2>4
<1>7. CASE TypeNumber(u)
  <2>1. PICK v \in Values : asked' = [asked EXCEPT ![u].data = <<v>>]
    BY <1>7 DEF TypeNumber
  <2>2. asked[u] \in Drafts /\ asked[u].id = conn[u]
    BY <1>0, <1>7 DEF TypeNumber, PlacesHold, At
  <2>3. asked'[u] = [asked[u] EXCEPT !.data = <<v>>] /\ user'[u] = "ready"
    BY <1>0, <1>7, <2>1 DEF TypeNumber, Going, ClientsType
  <2>4. asked[u].menu \in MenuItems /\ asked[u].menu # "0"
    BY <2>2, DraftsMade
  <2>. QED
    BY <1>1, <1>3, <1>4, <1>7, <2>2, <2>3, <2>4, DraftsTyped DEF TypeNumber
<1>. QED
  BY <1>5, <1>6, <1>7 DEF Composes

LEMMA ComposingType ==
    ASSUME TypeInv, NEW u \in Users, Composes(u)
    PROVE  TypeInv'
<1>0. /\ ConnectionsType(Messages, Replies) /\ DeviceType /\ ServerType
      /\ ClientsType /\ HistoryType /\ PlacesHold
  BY TypeParts DEF TypeInv
<1>1. ConnectionsType(Messages, Replies)'
  BY <1>0, Composing DEF ConnectionsType, connections
<1>2. DeviceType' /\ ServerType' /\ HistoryType'
  BY <1>0, Composing, TypeUnchanged
<1>3. ClientsType'
  <2>1. DOMAIN user' = Users /\ DOMAIN asked' = Users
    BY <1>0 DEF Composes, HandleCommand, TypeNumber, Going, ClientsType
  <2>2. user' = [v \in Users |-> user'[v]] /\ asked' = [v \in Users |-> asked'[v]]
    BY <1>0 DEF Composes, HandleCommand, TypeNumber, Going, ClientsType
  <2>. QED
    BY <1>0, <2>2, Composing DEF ClientsType
<1>4. PlacesHold'
  BY <1>0, Composing DEF PlacesHold, Busy, At, On, Choice, server, connections
<1>. QED
  BY <1>1, <1>2, <1>3, <1>4, TypePartsNext DEF TypeInv

(* What the users' threads do keeps the type. *)
LEMMA ClientStepsType ==
    ASSUME TypeInv, NEW u \in Users, ClientStep(u)
    PROVE  TypeInv'
<1>. USE DEF Going, At
<1>0. /\ ConnectionsType(Messages, Replies) /\ DeviceType /\ ServerType
      /\ ClientsType /\ HistoryType /\ PlacesHold /\ Menu \subseteq MenuItems
  BY TypeParts, UsersAssumption DEF TypeInv
<1>1. CASE MakeConnection(u)
  <2>. USE <1>1 DEF MakeConnection
  <2>1. PICK k \in Conns : Connect(k) /\ conn' = [conn EXCEPT ![u] = k]
    OBVIOUS
  <2>2. ConnectionsType(Messages, Replies)'
    BY <1>0, <2>1 DEF Connect, ConnectionsType
  <2>3. DeviceType' /\ ServerType'
    BY <1>0, TypeUnchanged
  <2>4. ClientsType'
    BY <1>0, <2>1 DEF ClientsType
  <2>5. HistoryType'
    BY <1>0, SecondType DEF HistoryType
  <2>6. PlacesHold'
    BY <1>0, <2>1 DEF ClientsType, PlacesHold, Busy, On, Choice, server, Connect
  <2>. QED
    BY <2>2, <2>3, <2>4, <2>5, <2>6, TypePartsNext DEF TypeInv
<1>2. CASE Refused(u)
  BY <1>2, EndClientType, SecondType DEF Refused, Processes
<1>3. CASE Choose(u)
  <2>. USE <1>3 DEF Choose
  <2>1. PICK c \in Menu : /\ command' = [command EXCEPT ![Process[u]] = c]
                          /\ tempted' = (tempted \/ c \in {"0", "invalid"})
    OBVIOUS
  <2>2. ConnectionsType(Messages, Replies)'
    BY <1>0 DEF ConnectionsType, connections
  <2>3. DeviceType' /\ ServerType'
    BY <1>0, TypeUnchanged
  <2>4. ClientsType'
    BY <1>0, <2>1 DEF ClientsType
  <2>5. HistoryType'
    BY <1>0, <2>1 DEF HistoryType
  <2>6. PlacesHold'
    BY <1>0, <2>1 DEF ClientsType, PlacesHold, Busy, On, Choice, server, connections
  <2>. QED
    BY <2>2, <2>3, <2>4, <2>5, <2>6, TypePartsNext DEF TypeInv
<1>4. CASE SendRequest(u)
  <2>. USE <1>4 DEF SendRequest
  <2>1. Request(conn[u], asked[u]) /\ asked[u] \in Messages /\ conn[u] \in Conns
    BY <1>0 DEF PlacesHold, Busy
  <2>2. ConnectionsType(Messages, Replies)'
    BY <1>0, <2>1 DEF Request, ConnectionsType
  <2>3. DeviceType' /\ ServerType' /\ HistoryType'
    BY <1>0, TypeUnchanged
  <2>4. ClientsType'
    BY <1>0, <2>1 DEF ClientsType
  <2>5. PlacesHold'
    BY <1>0, <2>1 DEF ClientsType, PlacesHold, Busy, On, Choice, server, Request
  <2>. QED
    BY <2>2, <2>3, <2>4, <2>5, TypePartsNext DEF TypeInv
<1>5. CASE SendExit(u)
  <2>. USE <1>5 DEF SendExit
  <2>1. PICK m \in MessagesOf("0", conn[u]) : RequestAndHangup(conn[u], m)
    OBVIOUS
  <2>2. m \in Messages /\ conn[u] \in Conns
    BY <1>0, <2>1, MessagesMade DEF PlacesHold, Busy, MenuItems
  <2>3. ConnectionsType(Messages, Replies)'
    BY <1>0, <2>1, <2>2 DEF RequestAndHangup, ConnectionsType
  <2>4. DeviceType' /\ ServerType' /\ HistoryType'
    BY <1>0, TypeUnchanged
  <2>5. ClientsType'
    BY <1>0 DEF ClientsType
  <2>6. PlacesHold'
    BY <1>0, <2>1 DEF ClientsType, PlacesHold, Busy, On, Choice, server, RequestAndHangup
  <2>. QED
    BY <2>3, <2>4, <2>5, <2>6, TypePartsNext DEF TypeInv
<1>6. CASE SendFails(u)
  <2>. USE <1>6 DEF SendFails
  <2>1. CASE At(u, "typed") /\ Choice(u) = "0"
    BY <1>0, <2>1, EndClientType DEF HistoryType, Processes
  <2>2. CASE At(u, "ready")
    <3>0. Hangup({conn[u]})
      BY <2>2
    <3>1. ConnectionsType(Messages, Replies)'
      BY <1>0, <3>0 DEF Hangup, ConnectionsType
    <3>2. DeviceType' /\ ServerType'
      BY <1>0, <2>2, TypeUnchanged
    <3>3. ClientsType'
      BY <1>0, <2>2 DEF ClientsType
    <3>4. HistoryType'
      BY <1>0, <2>2 DEF HistoryType
    <3>5. PlacesHold'
      BY <1>0, <2>2 DEF ClientsType, PlacesHold, Busy, On, Choice, server, Hangup
    <3>. QED
      BY <3>1, <3>2, <3>3, <3>4, <3>5, TypePartsNext DEF TypeInv
  <2>. QED
    BY <2>1, <2>2
<1>7. CASE Receive(u)
  <2>. USE <1>7 DEF Receive
  <2>1. conn[u] \in Conns /\ Choice(u) \in Menu
    BY <1>0 DEF PlacesHold, Busy
  <2>2. Head(outbox[conn[u]]) \in Replies
    BY <1>0, <2>1 DEF ConnectionsType, TakeAnswer, Answers
  <2>3. Head(outbox[conn[u]]).data \in Outcomes
    BY <2>2 DEF Replies
  <2>4. ConnectionsType(Messages, Replies)'
    BY <1>0, <2>1 DEF TakeAnswer, ConnectionsType
  <2>5. DeviceType' /\ ServerType' /\ HistoryType'
    BY <1>0, TypeUnchanged
  <2>6. ClientsType'
    <3>1. told' = [told EXCEPT ![u] = {[menu |-> Choice(u), data |-> Head(outbox[conn[u]]).data]}]
      BY DEF Tell
    <3>2. [menu |-> Choice(u), data |-> Head(outbox[conn[u]]).data] \in [menu : Menu, data : Outcomes]
      BY <2>1, <2>3
    <3>. QED
      BY <1>0, <3>1, <3>2, ToldOnce DEF ClientsType
  <2>7. PlacesHold'
    BY <1>0 DEF ClientsType, PlacesHold, Busy, On, Choice, server, TakeAnswer
  <2>. QED
    BY <2>4, <2>5, <2>6, <2>7, TypePartsNext DEF TypeInv
<1>8. CASE Miss(u)
  <2>. USE <1>8 DEF Miss
  <2>1. conn[u] \in Conns /\ Choice(u) \in Menu /\ <<>> \in Outcomes
    BY <1>0 DEF PlacesHold, Busy, Outcomes
  <2>2. ConnectionsType(Messages, Replies)'
    BY <1>0 DEF Hangup, ConnectionsType
  <2>3. DeviceType' /\ ServerType' /\ HistoryType'
    BY <1>0, TypeUnchanged
  <2>4. ClientsType'
    <3>1. CASE Tell(u, <<>>)
      <4>1. told' = [told EXCEPT ![u] = {[menu |-> Choice(u), data |-> <<>>]}]
        BY <3>1 DEF Tell
      <4>2. [menu |-> Choice(u), data |-> <<>>] \in [menu : Menu, data : Outcomes]
        BY <2>1
      <4>. QED
        BY <1>0, <4>1, <4>2, ToldOnce DEF ClientsType
    <3>2. CASE told' = told
      BY <1>0, <3>2 DEF ClientsType
    <3>. QED
      BY <3>1, <3>2
  <2>5. PlacesHold'
    BY <1>0 DEF ClientsType, PlacesHold, Busy, On, Choice, server, Hangup
  <2>. QED
    BY <2>2, <2>3, <2>4, <2>5, TypePartsNext DEF TypeInv
<1>9. CASE Composes(u)
  BY <1>9, ComposingType
<1>. QED
  BY <1>1, <1>2, <1>3, <1>4, <1>5, <1>6, <1>7, <1>8, <1>9
     DEF ClientStep, Called, Types, Composes

-----------------------------------------------------------------------------
(* What the server's actions keep.                                          *)

(* The end of the server keeps the type. *)
LEMMA EndServerType ==
    ASSUME TypeInv, NEW why \in {"exit", "crash", "killed"}, EndServer(why),
           trouble' \subseteq {"acceptors", "transport", "killed"}
    PROVE  TypeInv'
<1>. USE DEF EndServer
<1>1. ConnectionsType(Messages, Replies)'
  <2>1. /\ backlog' \in Seq(Conns)
        /\ table' \in [Fds -> Conns \cup {NoConn}] /\ file' \in [Acceptors -> Conns \cup {NoConn}]
    BY DEF StopListening
  <2>. QED
    BY <2>1, TypeParts DEF TypeInv, StopListening, ConnectionsType
<1>2. DeviceType' /\ ClientsType'
  BY TypeUnchanged, TypeParts DEF TypeInv
<1>3. ServerType'
  BY TypeParts DEF TypeInv, ServerType
<1>4. HistoryType'
  <2>1. Server \in Processes
    BY DEF Processes
  <2>. QED
    BY <2>1, TypeParts DEF TypeInv, HistoryType
<1>5. PlacesHold'
  BY TypeParts DEF TypeInv, PlacesHold, Busy, At, On, Choice, clients
<1>. QED
  BY <1>1, <1>2, <1>3, <1>4, <1>5, TypePartsNext DEF TypeInv

(* What an emergency is made of stays numbers. *)
LEMMA EmergenciesType ==
    ASSUME DeviceType, NEW m \in Messages
    PROVE  Emergencies(m) \in Seq(Values)
<1>1. m.data # <<>> => m.data[1] \in Values
  BY MessageType
<1>2. emergencies \in Seq(Values)
  BY DEF DeviceType
<1>3. CASE Carries(m, "RAISE_EMERGENCY")
  BY <1>1, <1>2, <1>3 DEF Emergencies, Carries
<1>4. CASE ~Carries(m, "RAISE_EMERGENCY") /\ Carries(m, "CLEAR_EMERGENCY")
  BY <1>2, <1>4, WithoutType DEF Emergencies
<1>5. CASE ~Carries(m, "RAISE_EMERGENCY") /\ ~Carries(m, "CLEAR_EMERGENCY")
  BY <1>2, <1>5 DEF Emergencies
<1>. QED
  BY <1>3, <1>4, <1>5

(* What the threads of the server do keeps the type. *)
LEMMA ServerStepsType ==
    ASSUME TypeInv, NEW a \in Acceptors, EnterRun(a) \/ Serve(a)
    PROVE  TypeInv'
<1>. USE DEF Moves, On, InRun
<1>0. /\ ConnectionsType(Messages, Replies) /\ DeviceType /\ ServerType
      /\ ClientsType /\ HistoryType /\ PlacesHold
  BY TypeParts DEF TypeInv
<1>1. CASE EnterRun(a)
  <2>. USE <1>1 DEF EnterRun
  <2>1. ConnectionsType(Messages, Replies)'
    BY <1>0 DEF ConnectionsType, connections
  <2>2. DeviceType' /\ ClientsType'
    BY <1>0, TypeUnchanged
  <2>3. ServerType'
    BY <1>0 DEF ServerType
  <2>4. HistoryType'
    BY <1>0 DEF HistoryType
  <2>5. PlacesHold'
    BY <1>0 DEF ServerType, PlacesHold, Busy, At, Choice, clients, connections
  <2>. QED
    BY <2>1, <2>2, <2>3, <2>4, <2>5, TypePartsNext DEF TypeInv
<1>2. CASE Accept(a)
  <2>. USE <1>2 DEF Accept
  <2>1. PICK n \in Fds : AcceptAs(n) /\ fd' = [fd EXCEPT ![a] = n]
    OBVIOUS
  <2>2. ConnectionsType(Messages, Replies)'
    BY <1>0, <2>1 DEF ConnectionsType, AcceptAs
  <2>3. DeviceType' /\ ClientsType' /\ HistoryType'
    BY <1>0, TypeUnchanged
  <2>4. ServerType'
    BY <1>0, <2>1 DEF ServerType
  <2>5. PlacesHold'
    BY <1>0, <2>1 DEF ServerType, PlacesHold, Busy, At, Choice, clients, AcceptAs
  <2>. QED
    BY <2>2, <2>3, <2>4, <2>5, TypePartsNext DEF TypeInv
<1>3. CASE Read(a)
  <2>. USE <1>3 DEF Read
  <2>1. fd[a] \in Fds
    BY <1>0 DEF ServerType
  <2>2. ConnectionsType(Messages, Replies)'
    BY <1>0, <2>1 DEF ConnectionsType, BeginRead
  <2>3. DeviceType' /\ ClientsType' /\ HistoryType'
    BY <1>0, TypeUnchanged
  <2>4. ServerType'
    BY <1>0 DEF ServerType
  <2>5. table[fd[a]] \in Conns
    BY <1>0, <2>1 DEF ConnectionsType, BeginRead
  <2>6. PlacesHold'
    BY <1>0, <2>5 DEF ConnectionsType, ServerType, PlacesHold, Busy, At, Choice, clients, BeginRead
  <2>. QED
    BY <2>2, <2>3, <2>4, <2>6, TypePartsNext DEF TypeInv
<1>4. CASE Got(a)
  <2>. USE <1>4 DEF Got
  <2>1. file[a] \in Conns
    BY <1>0 DEF PlacesHold
  <2>2. Head(inbox[file[a]]) \in Messages
    BY <1>0, <2>1 DEF ConnectionsType, Unread
  <2>3. ConnectionsType(Messages, Replies)'
    BY <1>0, EndReadType
  <2>4. DeviceType' /\ ClientsType' /\ HistoryType'
    BY <1>0, TypeUnchanged
  <2>5. ServerType'
    BY <1>0, <2>2 DEF ServerType
  <2>6. PlacesHold'
    BY <1>0, <2>2 DEF ConnectionsType, ServerType, PlacesHold, Busy, At, Choice, clients, EndRead
  <2>. QED
    BY <2>3, <2>4, <2>5, <2>6, TypePartsNext DEF TypeInv
<1>5. CASE GotNothing(a)
  <2>. USE <1>5 DEF GotNothing
  <2>1. ConnectionsType(Messages, Replies)'
    BY <1>0, EndReadType
  <2>2. DeviceType' /\ ClientsType' /\ HistoryType'
    BY <1>0, TypeUnchanged
  <2>3. ServerType'
    BY <1>0 DEF ServerType
  <2>4. PlacesHold'
    BY <1>0 DEF ConnectionsType, ServerType, PlacesHold, Busy, At, Choice, clients, EndRead
  <2>. QED
    BY <2>1, <2>2, <2>3, <2>4, TypePartsNext DEF TypeInv
<1>6. CASE BadDescriptor(a)
  <2>. USE <1>6 DEF BadDescriptor
  <2>1. ConnectionsType(Messages, Replies)'
    BY <1>0 DEF ConnectionsType, connections
  <2>2. DeviceType' /\ ClientsType' /\ HistoryType'
    BY <1>0, TypeUnchanged
  <2>3. ServerType'
    BY <1>0 DEF ServerType
  <2>4. PlacesHold'
    BY <1>0 DEF ServerType, PlacesHold, Busy, At, Choice, clients, connections
  <2>. QED
    BY <2>1, <2>2, <2>3, <2>4, TypePartsNext DEF TypeInv
<1>7. CASE Handle(a)
  <2>. USE <1>7 DEF Handle
  <2>. DEFINE m == request[a]
  <2>1. m \in Messages /\ m.id \in Conns /\ (m.data # <<>> => m.data[1] \in Values)
    BY <1>0, MessageType DEF PlacesHold
  <2>2. Answer(m) \in Outcomes /\ [data |-> Answer(m), id |-> m.id] \in Replies
    BY <1>0, <2>1, AnswersAreOutcomes
  <2>3. ConnectionsType(Messages, Replies)'
    BY <1>0 DEF ConnectionsType, connections
  <2>4. DeviceType'
    <3>1. Emergencies(m) \in Seq(Values) /\ emergencies \in Seq(Values)
      BY <1>0, <2>1, EmergenciesType DEF DeviceType
    <3>2. emergencies' \in {Emergencies(m), emergencies}
      OBVIOUS
    <3>3. frequency' \in Numbers /\ power' \in Numbers
      BY <1>0, <2>1 DEF DeviceType, Numbers, Carries
    <3>. QED
      BY <3>1, <3>2, <3>3 DEF DeviceType
  <2>5. ServerType'
    BY <1>0, <2>2 DEF ServerType
  <2>6. ClientsType'
    BY <1>0, TypeUnchanged
  <2>7. HistoryType'
    <3>1. effects' = [effects EXCEPT ![m.id] = {Answer(m)}]
      OBVIOUS
    <3>2. Cardinality({Answer(m)}) = 1
      BY Singly
    <3>. HIDE DEF m
    <3>3. \A k \in Conns : Cardinality(effects'[k]) <= 1
      <4>1. \A k \in Conns \ {m.id} : effects'[k] = effects[k]
        BY <1>0, <3>1 DEF HistoryType
      <4>2. effects'[m.id] = {Answer(m)}
        BY <1>0, <2>1, <3>1 DEF HistoryType
      <4>3. \A k \in Conns : Cardinality(effects[k]) <= 1
        BY <1>0 DEF HistoryType
      <4>4. Cardinality(effects'[m.id]) <= 1
        BY <3>2, <4>2, 1 <= 1, Zenon
      <4>. QED
        BY <4>1, <4>3, <4>4
    <3>4. effects' \in [Conns -> SUBSET Outcomes]
      <4>1. {Answer(m)} \in SUBSET Outcomes
        BY <2>2
      <4>2. effects \in [Conns -> SUBSET Outcomes]
        BY <1>0 DEF HistoryType
      <4>. QED
        BY <3>1, <4>1, <4>2
    <3>. QED
      BY <1>0, <3>3, <3>4 DEF HistoryType
  <2>8. PlacesHold'
    BY <1>0, <2>2 DEF ServerType, PlacesHold, Busy, At, Choice, clients, connections
  <2>. QED
    BY <2>3, <2>4, <2>5, <2>6, <2>7, <2>8, TypePartsNext DEF TypeInv
<1>8. CASE HandleExit(a)
  BY <1>0, <1>8, EndServerType DEF HandleExit, HistoryType
<1>9. CASE Crash(a)
  BY <1>0, <1>9, EndServerType DEF Crash, HistoryType
<1>10. CASE Reply(a)
  <2>. USE <1>10 DEF Reply
  <2>1. response[a] \in Replies /\ table[fd[a]] \in Conns
    BY <1>0 DEF PlacesHold, ServerType, ConnectionsType
  <2>2. ConnectionsType(Messages, Replies)'
    BY <1>0, <2>1 DEF ConnectionsType, WriteTo
  <2>3. DeviceType' /\ ClientsType' /\ HistoryType'
    BY <1>0, TypeUnchanged
  <2>4. ServerType'
    BY <1>0 DEF ServerType
  <2>5. PlacesHold'
    BY <1>0 DEF ServerType, PlacesHold, Busy, At, Choice, clients, WriteTo
  <2>. QED
    BY <2>2, <2>3, <2>4, <2>5, TypePartsNext DEF TypeInv
<1>11. CASE Close(a) \/ Destroy(a) \/ Unwind(a)
  <2>. USE <1>11 DEF Close, Destroy, Unwind
  <2>1. fd[a] \in Fds /\ 1 \in Fds /\ CloseNumber(fd[a])
    BY <1>0, FirstFd DEF ServerType
  <2>2. ConnectionsType(Messages, Replies)'
    BY <1>0, <2>1 DEF ConnectionsType, CloseNumber
  <2>3. DeviceType' /\ ClientsType' /\ HistoryType'
    BY <1>0, TypeUnchanged
  <2>4. ServerType'
    BY <1>0, <2>1 DEF ServerType
  <2>5. PlacesHold'
    BY <1>0, <2>1 DEF ServerType, PlacesHold, Busy, At, Choice, clients, CloseNumber
  <2>. QED
    BY <2>2, <2>3, <2>4, <2>5, TypePartsNext DEF TypeInv
<1>. QED
  BY <1>1, <1>2, <1>3, <1>4, <1>5, <1>6, <1>7, <1>8, <1>9, <1>10, <1>11 DEF Serve

(* A killed process leaves the type as it was. *)
LEMMA KillType ==
    ASSUME TypeInv, NEW p \in Mortal, Kill(p)
    PROVE  TypeInv'
<1>1. p \in Processes
  BY UsersAssumption
<1>2. trouble' \subseteq {"acceptors", "transport", "killed"}
  BY TypeParts DEF TypeInv, HistoryType, Kill
<1>. QED
  BY <1>1, <1>2, EndServerType, EndClientType DEF Kill

(* A step that changes nothing keeps the type. *)
LEMMA StutterType == TypeInv /\ UNCHANGED vars => TypeInv'
BY DEF TypeInv, TypeOK, ConnectionsType, PlacesHold, Busy, Choice, At, On, vars,
       connections, device, server, clients, history

(* The one step of type correctness. *)
LEMMA TypeSteps == TypeInv /\ [Next]_vars => TypeInv'
<1>. SUFFICES ASSUME TypeInv, [Next]_vars PROVE TypeInv'
  OBVIOUS
<1>1. CASE \E u \in Users : ClientStep(u)
  BY <1>1, ClientStepsType
<1>2. CASE \E a \in Acceptors : EnterRun(a) \/ Serve(a)
  BY <1>2, ServerStepsType
<1>3. CASE \E p \in Mortal : Kill(p)
  BY <1>3, KillType
<1>4. CASE UNCHANGED vars
  BY <1>4, StutterType
<1>. QED
  BY <1>1, <1>2, <1>3, <1>4 DEF Next, ClientStep

(* All variables keep their types, whatever threads and users there are:    *)
(* what a vector was cleared of is a vector, no message is made of a choice *)
(* that was never typed, and no thread reads from a connection that is none.*)
THEOREM TypeCorrect == Spec => []TypeOK
<1>1. TypeInv => TypeOK
  BY DEF TypeInv
<1>. QED
  BY <1>1, InitType, TypeSteps, PTL DEF Spec

-----------------------------------------------------------------------------
(* The steps, as the invariants see them.                                   *)

\* A user's connection is over, answered or not.
HangsUp(u) ==
    /\ Busy(u)
    /\ Hangup({conn[u]})
    /\ Going(u, "connecting")
    /\ UNCHANGED <<device, server, conn, asked, command, effects, trouble, tempted, ended>>

\* The last three steps of Accept_client, and the one that leaves it by an exception.
Closes(a) ==
    /\ \/ On(a, "answered") /\ Moves(a, "closed")
       \/ On(a, "closed") /\ Moves(a, "accepting")
       \/ On(a, "unwinding") /\ Moves(a, "broken")
    /\ CloseNumber(fd[a])
    /\ \/ fd' = fd
       \/ fd' = [fd EXCEPT ![a] = 1]
    /\ UNCHANGED <<device, request, response, clients, history>>

UserStep(u) ==
    \/ MakeConnection(u) \/ Choose(u) \/ Composes(u) \/ SendRequest(u) \/ SendExit(u)
    \/ HangsUp(u)
ThreadStep(a) ==
    \/ EnterRun(a) \/ Accept(a) \/ Read(a) \/ Got(a) \/ GotNothing(a) \/ BadDescriptor(a)
    \/ Handle(a) \/ Reply(a) \/ Closes(a)
SomeClientEnds ==
    \E p \in Processes, why \in {"refused", "unsent", "killed"} : EndClient(p, why)
ServerEnds == \E why \in {"exit", "crash", "killed"} : EndServer(why)

(* The three ways a connection is over. *)
LEMMA HangupsAreSteps ==
    ASSUME TypeInv, NEW u \in Users
    PROVE  /\ Receive(u) => HangsUp(u)
           /\ Miss(u) => HangsUp(u)
           /\ SendFails(u) /\ ~At(u, "typed") => HangsUp(u)
<1>0. ConnectionsType(Messages, Replies)
  BY TypeParts DEF TypeInv
<1>1. ASSUME Receive(u) PROVE HangsUp(u)
  <2>1. client' = [k \in Conns |-> IF k \in {conn[u]} THEN "closed" ELSE client[k]]
    BY <1>0, <1>1 DEF Receive, TakeAnswer, ConnectionsType
  <2>2. outbox' = [k \in Conns |-> IF k \in {conn[u]} THEN <<>> ELSE outbox[k]]
    BY <1>0, <1>1 DEF Receive, TakeAnswer, ConnectionsType
  <2>. QED
    BY <1>1, <2>1, <2>2 DEF Receive, TakeAnswer, HangsUp, Hangup, Busy, At, history
<1>2. Miss(u) => HangsUp(u)
  BY DEF Miss, HangsUp, Busy, At, history
<1>3. SendFails(u) /\ ~At(u, "typed") => HangsUp(u)
  BY DEF SendFails, HangsUp, Busy, At, history
<1>. QED
  BY <1>1, <1>2, <1>3

(* Each step is one of those, or the end of a process. *)
LEMMA StepsOnConnections ==
    ASSUME TypeInv, [Next]_vars
    PROVE  \/ \E u \in Users : UserStep(u)
           \/ \E a \in Acceptors : ThreadStep(a)
           \/ SomeClientEnds \/ ServerEnds \/ UNCHANGED vars
<1>1. ASSUME NEW u \in Users, ClientStep(u)
      PROVE  UserStep(u) \/ SomeClientEnds
  <2>1. Process[u] \in Processes
    BY DEF Processes
  <2>2. CASE Refused(u)
    BY <2>1, <2>2 DEF Refused, SomeClientEnds
  <2>3. CASE SendFails(u)
    <3>1. CASE At(u, "typed")
      BY <2>1, <2>3, <3>1 DEF SendFails, SomeClientEnds, At
    <3>2. CASE ~At(u, "typed")
      BY <2>3, <3>2, HangupsAreSteps DEF UserStep
    <3>. QED
      BY <3>1, <3>2
  <2>4. CASE Receive(u) \/ Miss(u)
    BY <2>4, HangupsAreSteps DEF UserStep
  <2>. QED
    BY <1>1, <2>2, <2>3, <2>4 DEF ClientStep, Types, Called, Composes, UserStep
<1>2. ASSUME NEW a \in Acceptors, EnterRun(a) \/ Serve(a)
      PROVE  ThreadStep(a) \/ ServerEnds
  <2>1. Close(a) \/ Destroy(a) \/ Unwind(a) => Closes(a)
    BY DEF Close, Destroy, Unwind, Closes, server
  <2>2. HandleExit(a) \/ Crash(a) => ServerEnds
    BY DEF HandleExit, Crash, ServerEnds
  <2>. QED
    BY <1>2, <2>1, <2>2 DEF Serve, ThreadStep
<1>3. ASSUME NEW p \in Mortal, Kill(p)
      PROVE  SomeClientEnds \/ ServerEnds
  BY <1>3, UsersAssumption DEF Kill, SomeClientEnds, ServerEnds
<1>. QED
  BY <1>1, <1>2, <1>3 DEF Next, ClientStep

-----------------------------------------------------------------------------
(* Where connections are.                                                   *)

(* At the start nothing is connected. *)
LEMMA InitConnections == Init => ConnectionsInv
BY DEF Init, ConnectionsInit, ConnectionsInv, OneClient, OnePlace, AllMade, BusyOpen, OwnIds,
       Busy, At, On, Made, Unread

(* A user's step keeps a connection in one place, with one client. *)
LEMMA UserStepsConnections ==
    ASSUME TypeInv, ConnectionsInv, NEW u \in Users, UserStep(u)
    PROVE  ConnectionsInv'
<1>. USE DEF OneClient, OnePlace, AllMade, BusyOpen, OwnIds, ConnectionsInv, Going, At, On,
             Made, Unread, Busy
<1>0. /\ ConnectionsType(Messages, Replies) /\ ServerType /\ ClientsType /\ PlacesHold
      /\ HistoryType
  BY TypeParts DEF TypeInv
<1>1. CASE MakeConnection(u)
  <2>. USE <1>1 DEF MakeConnection
  <2>1. PICK k \in Conns : Connect(k) /\ conn' = [conn EXCEPT ![u] = k]
    OBVIOUS
  <2>2. k # NoConn /\ client[k] = "none" /\ \A v \in Users : conn[v] # k
    BY <2>1 DEF Connect, Conns, NoConn
  <2>3. OneClient'
    BY <1>0, <2>1, <2>2 DEF ClientsType
  <2>4. \A i \in 1..Len(backlog) : backlog[i] # k
    BY <2>2
  <2>5. \A n \in Fds : table[n] # k
    BY <2>2
  <2>6. /\ backlog' = Append(backlog, k) /\ backlog \in Seq(Conns) /\ Len(backlog') = Len(backlog) + 1
        /\ \A i \in 1..Len(backlog) : backlog'[i] = backlog[i]
        /\ backlog'[Len(backlog) + 1] = k
    BY <1>0, <2>1 DEF Connect, ConnectionsType
  <2>7. \A i \in 1..Len(backlog') : i \in 1..Len(backlog) \/ i = Len(backlog) + 1
    BY <2>6
  <2>8. OnePlace'
    <3>1. \A i, j \in 1..Len(backlog') : backlog'[i] = backlog'[j] => i = j
      BY <2>4, <2>6, <2>7
    <3>2. \A i \in 1..Len(backlog'), n \in Fds : backlog'[i] # table[n]
      BY <2>5, <2>6, <2>7
    <3>. QED
      BY <2>1, <3>1, <3>2 DEF Connect
  <2>9. client' = [client EXCEPT ![k] = "open"] /\ client \in [Conns -> {"none", "open", "closed"}]
    BY <1>0, <2>1 DEF Connect, ConnectionsType
  <2>10. AllMade'
    <3>1. \A v \in Users : conn'[v] # NoConn => client'[conn'[v]] # "none"
      BY <1>0, <2>1, <2>9 DEF ClientsType
    <3>2. \A i \in 1..Len(backlog') : client'[backlog'[i]] # "none"
      <4>1. \A i \in 1..Len(backlog) : backlog[i] \in Conns
        BY <2>6
      <4>. QED
        BY <2>6, <2>7, <2>9, <4>1
    <3>3. \A n \in Fds : table[n] # NoConn => client'[table[n]] # "none"
      BY <1>0, <2>9 DEF ConnectionsType
    <3>. QED
      BY <1>0, <2>1, <2>9, <3>1, <3>2, <3>3 DEF Connect
  <2>11. BusyOpen'
    BY <1>0, <2>1, <2>2, <2>9 DEF ClientsType, PlacesHold
  <2>12. OwnIds'
    BY <1>0, <2>1, <2>9 DEF Connect, server, PlacesHold
  <2>. QED
    BY <2>3, <2>8, <2>10, <2>11, <2>12
<1>2. CASE Choose(u)
  BY <1>2, <1>0 DEF Choose, connections, server, ClientsType
<1>6. CASE Composes(u)
  BY <1>0, <1>6, Composing DEF connections, server, history
<1>3. CASE SendRequest(u)
  <2>. USE <1>3 DEF SendRequest
  <2>. DEFINE m == asked[u]
  <2>1. Request(conn[u], m)
    OBVIOUS
  <2>2. m.id = conn[u] /\ conn[u] \in Conns /\ client[conn[u]] = "open" /\ m \in Messages
    BY <1>0 DEF PlacesHold
  <2>3. OneClient' /\ OnePlace' /\ BusyOpen'
    BY <1>0, <2>1 DEF Request, ClientsType
  <2>4. AllMade'
    BY <1>0, <2>1, <2>2 DEF Request, ClientsType, ConnectionsType, history
  <2>5. OwnIds'
    <3>1. inbox' = [inbox EXCEPT ![conn[u]] = <<m>>] /\ inbox \in [Conns -> Seq(Messages)]
      BY <1>0, <2>1 DEF Request, ConnectionsType
    <3>2. Head(<<m>>).id = conn[u]
      BY <2>2
    <3>3. \A k \in Conns : inbox'[k] # <<>> => Head(inbox'[k]).id = k
      BY <3>1, <3>2
    <3>. QED
      BY <2>1, <3>3 DEF Request, server
  <2>. QED
    BY <2>3, <2>4, <2>5
<1>4. CASE SendExit(u)
  <2>. USE <1>4 DEF SendExit
  <2>1. PICK m \in MessagesOf("0", conn[u]) : RequestAndHangup(conn[u], m)
    OBVIOUS
  <2>2. m.id = conn[u] /\ conn[u] \in Conns /\ client[conn[u]] = "open"
    BY <1>0, <2>1, MessagesMade DEF PlacesHold, MenuItems
  <2>3. client' = [client EXCEPT ![conn[u]] = "closed"] /\ client \in [Conns -> {"none", "open", "closed"}]
    BY <1>0, <2>1 DEF RequestAndHangup, ConnectionsType
  <2>4. OneClient' /\ OnePlace'
    BY <2>1 DEF RequestAndHangup
  <2>5. AllMade'
    <3>1. \A k \in Conns : client'[k] # "none" <=> client[k] # "none"
      BY <2>2, <2>3
    <3>2. \A i \in 1..Len(backlog) : backlog[i] \in Conns
      BY <1>0 DEF ConnectionsType
    <3>3. \A v \in Users : conn[v] \in Conns \cup {NoConn}
      BY <1>0 DEF ClientsType
    <3>4. \A n \in Fds : table[n] \in Conns \cup {NoConn}
      BY <1>0 DEF ConnectionsType
    <3>5. \A k \in Conns : k # conn[u] => inbox'[k] = inbox[k]
      BY <1>0, <2>1 DEF RequestAndHangup, ConnectionsType
    <3>6. UNCHANGED <<backlog, table, outbox, conn, effects>>
      BY <2>1 DEF RequestAndHangup, history
    <3>7. \A k \in Conns : ~Made(k) => inbox[k] = <<>> /\ outbox[k] = <<>> /\ effects[k] = {}
      OBVIOUS
    <3>8. \A k \in Conns : ~Made(k)' => inbox'[k] = <<>> /\ outbox'[k] = <<>> /\ effects'[k] = {}
      BY <2>2, <3>1, <3>5, <3>6, <3>7
    <3>. QED
      BY <3>1, <3>2, <3>3, <3>4, <3>6, <3>8
  <2>6. BusyOpen'
    <3>1. \A v \in Users \ {u} : Busy(v) => conn[v] \in Conns /\ conn[v] # conn[u]
      BY <1>0 DEF PlacesHold, Conns, NoConn
    <3>2. user' = [user EXCEPT ![u] = "left"] /\ conn' = conn
      OBVIOUS
    <3>3. \A v \in Users : Busy(v)' => v # u /\ Busy(v)
      BY <1>0, <3>2 DEF ClientsType
    <3>. QED
      BY <2>1, <2>3, <3>1, <3>2, <3>3
  <2>7. OwnIds'
    <3>1. inbox' = [inbox EXCEPT ![conn[u]] = <<m>>] /\ inbox \in [Conns -> Seq(Messages)]
      BY <1>0, <2>1 DEF RequestAndHangup, ConnectionsType
    <3>2. Head(<<m>>).id = conn[u]
      BY <2>2
    <3>3. \A k \in Conns : inbox'[k] # <<>> => Head(inbox'[k]).id = k
      BY <3>1, <3>2
    <3>4. \A a \in Acceptors : On(a, "handling") => request[a].id \in Conns
      BY <1>0, MessageType DEF PlacesHold
    <3>. QED
      BY <2>1, <2>3, <3>3, <3>4 DEF RequestAndHangup, server
  <2>. QED
    BY <2>4, <2>5, <2>6, <2>7
<1>5. CASE HangsUp(u)
  <2>. USE <1>5 DEF HangsUp, Hangup
  <2>1. conn[u] \in Conns /\ client[conn[u]] = "open"
    BY <1>0 DEF PlacesHold
  <2>2. OneClient' /\ OnePlace'
    OBVIOUS
  <2>3. \A k \in Conns : /\ client'[k] # "none" <=> client[k] # "none"
                         /\ k # conn[u] => client'[k] = client[k] /\ outbox'[k] = outbox[k]
    BY <1>0, <2>1 DEF ConnectionsType
  <2>4. AllMade'
    <3>1. \A i \in 1..Len(backlog) : backlog[i] \in Conns
      BY <1>0 DEF ConnectionsType
    <3>2. \A v \in Users : conn[v] \in Conns \cup {NoConn}
      BY <1>0 DEF ClientsType
    <3>3. \A n \in Fds : table[n] \in Conns \cup {NoConn}
      BY <1>0 DEF ConnectionsType
    <3>. QED
      BY <2>1, <2>3, <3>1, <3>2, <3>3
  <2>5. BusyOpen'
    <3>1. \A v \in Users \ {u} : Busy(v) => conn[v] \in Conns /\ conn[v] # conn[u]
      BY <1>0 DEF PlacesHold, Conns, NoConn
    <3>2. user' = [user EXCEPT ![u] = "connecting"] /\ conn' = conn
      OBVIOUS
    <3>3. \A v \in Users : Busy(v)' => v # u /\ Busy(v)
      BY <1>0, <3>2 DEF ClientsType
    <3>. QED
      BY <2>1, <2>3, <3>1, <3>2, <3>3
  <2>6. OwnIds'
    <3>1. \A a \in Acceptors : On(a, "handling") => request[a].id \in Conns
      BY <1>0, MessageType DEF PlacesHold
    <3>. QED
      BY <2>3, <3>1 DEF server
  <2>. QED
    BY <2>2, <2>4, <2>5, <2>6
<1>. QED
  BY <1>1, <1>2, <1>3, <1>4, <1>5, <1>6 DEF UserStep

(* A step of the server's threads does so too. *)
LEMMA ThreadStepsConnections ==
    ASSUME TypeInv, ConnectionsInv, NEW a \in Acceptors, ThreadStep(a)
    PROVE  ConnectionsInv'
<1>. USE DEF OneClient, OnePlace, AllMade, BusyOpen, OwnIds, ConnectionsInv, Moves, At, On,
             Made, Unread, Busy
<1>0. /\ ConnectionsType(Messages, Replies) /\ ServerType /\ ClientsType /\ PlacesHold
      /\ HistoryType
  BY TypeParts DEF TypeInv
<1>1. CASE EnterRun(a)
  BY <1>0, <1>1 DEF EnterRun, connections, clients, ServerType
<1>2. CASE Accept(a)
  <2>. USE <1>2 DEF Accept
  <2>1. PICK n \in Fds : AcceptAs(n)
    OBVIOUS
  <2>2. /\ backlog # <<>> /\ backlog' = Tail(backlog) /\ backlog \in Seq(Conns)
        /\ table' = [table EXCEPT ![n] = backlog[1]]
    <3>1. backlog \in Seq(Conns) /\ backlog # <<>>
      BY <1>0, <2>1 DEF AcceptAs, ConnectionsType
    <3>2. Head(backlog) = backlog[1]
      BY <3>1
    <3>. QED
      BY <2>1, <3>1, <3>2 DEF AcceptAs
  <2>3. Len(backlog') = Len(backlog) - 1 /\ \A i \in 1..Len(backlog') : backlog'[i] = backlog[i + 1]
    BY <2>2
  <2>4. \A i \in 1..Len(backlog') : i + 1 \in 1..Len(backlog)
    BY <2>2, <2>3
  <2>5. 1 \in 1..Len(backlog) /\ backlog[1] \in Conns
    BY <2>2
  <2>6. \A m \in Fds : table'[m] \in {table[m], backlog[1]}
    BY <1>0, <2>2 DEF ConnectionsType
  <2>7. OnePlace'
    <3>1. \A i, j \in 1..Len(backlog') : backlog'[i] = backlog'[j] => i = j
      <4>. TAKE i, j \in 1..Len(backlog')
      <4>1. i + 1 \in 1..Len(backlog) /\ j + 1 \in 1..Len(backlog)
        BY <2>4
      <4>2. backlog[i + 1] = backlog[j + 1] => i + 1 = j + 1
        BY <4>1
      <4>3. Len(backlog) \in Nat /\ i \in Nat /\ j \in Nat
        BY <2>2, <2>3
      <4>. QED
        BY <2>3, <4>2, <4>3
    <3>2. \A i \in 1..Len(backlog'), m \in Fds : backlog'[i] # table'[m]
      <4>. TAKE i \in 1..Len(backlog'), m \in Fds
      <4>1. i + 1 \in 1..Len(backlog) /\ i + 1 # 1
        BY <2>2, <2>3, <2>4
      <4>2. backlog[i + 1] # backlog[1] /\ backlog[i + 1] # table[m]
        BY <2>5, <4>1
      <4>. QED
        BY <2>3, <2>6, <4>2
    <3>. QED
      BY <3>1, <3>2
  <2>8. AllMade'
    <3>1. \A i \in 1..Len(backlog') : client[backlog'[i]] # "none"
      BY <2>3, <2>4
    <3>2. \A m \in Fds : table'[m] # NoConn => client[table'[m]] # "none"
      BY <2>5, <2>6
    <3>. QED
      BY <2>1, <3>1, <3>2 DEF AcceptAs, clients, history
  <2>9. OneClient' /\ BusyOpen' /\ OwnIds'
    BY <1>0, <2>1 DEF AcceptAs, clients, ServerType
  <2>. QED
    BY <2>7, <2>8, <2>9
<1>3. CASE Read(a)
  BY <1>0, <1>3 DEF Read, BeginRead, clients, history, ServerType
<1>4. CASE Got(a)
  <2>. USE <1>4 DEF Got
  <2>1. file[a] \in Conns /\ Head(inbox[file[a]]).id = file[a] /\ Made(file[a])
    BY <1>0 DEF PlacesHold
  <2>2. \A k \in Conns : inbox'[k] \in {inbox[k], <<>>}
    BY <1>0 DEF EndRead, ConnectionsType
  <2>3. OneClient' /\ OnePlace' /\ BusyOpen'
    BY DEF EndRead, clients
  <2>4. AllMade'
    BY <2>2 DEF EndRead, clients, history
  <2>5. OwnIds'
    <3>1. \A k \in Conns : inbox'[k] # <<>> => Head(inbox'[k]).id = k
      BY <2>2
    <3>2. \A b \in Acceptors : thread'[b] = "handling" => client[request'[b].id] # "none"
      BY <1>0, <2>1 DEF ServerType
    <3>. QED
      BY <3>1, <3>2 DEF EndRead
  <2>. QED
    BY <2>3, <2>4, <2>5
<1>5. CASE GotNothing(a)
  <2>. USE <1>5 DEF GotNothing
  <2>1. \A k \in Conns : inbox'[k] \in {inbox[k], <<>>}
    BY <1>0 DEF EndRead, ConnectionsType
  <2>2. OneClient' /\ OnePlace' /\ BusyOpen'
    BY DEF EndRead, clients
  <2>3. AllMade'
    BY <2>1 DEF EndRead, clients, history
  <2>4. OwnIds'
    BY <1>0, <2>1 DEF EndRead, ServerType
  <2>. QED
    BY <2>2, <2>3, <2>4
<1>6. CASE BadDescriptor(a)
  BY <1>0, <1>6 DEF BadDescriptor, connections, clients, history, ServerType
<1>7. CASE Handle(a)
  <2>. USE <1>7 DEF Handle
  <2>1. \A k \in Conns : k # request[a].id => effects'[k] = effects[k]
    BY <1>0 DEF HistoryType
  <2>2. AllMade'
    BY <2>1 DEF connections, clients
  <2>3. OneClient' /\ OnePlace' /\ BusyOpen'
    BY DEF connections, clients
  <2>4. OwnIds'
    BY <1>0 DEF connections, ServerType
  <2>. QED
    BY <2>2, <2>3, <2>4
<1>8. CASE Reply(a)
  <2>. USE <1>8 DEF Reply
  <2>1. table[fd[a]] \in Conns /\ Made(table[fd[a]])
    BY <1>0 DEF ServerType, ConnectionsType
  <2>2. \A k \in Conns : k # table[fd[a]] => outbox'[k] = outbox[k]
    BY <1>0 DEF WriteTo, ConnectionsType
  <2>3. AllMade'
    BY <2>1, <2>2 DEF WriteTo, clients, history
  <2>4. OneClient' /\ OnePlace' /\ BusyOpen'
    BY DEF WriteTo, clients
  <2>5. OwnIds'
    BY <1>0 DEF WriteTo, ServerType
  <2>. QED
    BY <2>3, <2>4, <2>5
<1>9. CASE Closes(a)
  <2>. USE <1>9 DEF Closes
  <2>1. \A n \in Fds : table'[n] \in {table[n], NoConn}
    BY <1>0 DEF CloseNumber, ConnectionsType
  <2>2. \A i \in 1..Len(backlog) : backlog[i] # NoConn
    <3>1. \A i \in 1..Len(backlog) : backlog[i] \in Conns
      BY <1>0 DEF ConnectionsType
    <3>. QED
      BY <3>1 DEF Conns, NoConn
  <2>3. OnePlace'
    BY <2>1, <2>2 DEF CloseNumber
  <2>4. AllMade'
    BY <2>1 DEF CloseNumber, clients, history
  <2>5. OneClient' /\ BusyOpen'
    BY DEF CloseNumber, clients
  <2>6. OwnIds'
    BY <1>0 DEF CloseNumber, ServerType
  <2>. QED
    BY <2>3, <2>4, <2>5, <2>6
<1>. QED
  BY <1>1, <1>2, <1>3, <1>4, <1>5, <1>6, <1>7, <1>8, <1>9 DEF ThreadStep

(* Nor does the end of a client do harm to that. *)
LEMMA ClientEndsConnections ==
    ASSUME TypeInv, ConnectionsInv, NEW p \in Processes, NEW why, EndClient(p, why)
    PROVE  ConnectionsInv'
<1>. USE DEF OneClient, OnePlace, AllMade, BusyOpen, OwnIds, ConnectionsInv, Going, At, On,
             Made, Unread, Busy, EndClient, Hangup
<1>0. /\ ConnectionsType(Messages, Replies) /\ ServerType /\ ClientsType /\ PlacesHold
      /\ HistoryType
  BY TypeParts DEF TypeInv
<1>1. OneClient' /\ OnePlace'
  OBVIOUS
<1>2. \A v \in Users : Process[v] = p => user'[v] = "gone"
  BY <1>0 DEF ClientsType
<1>3. \A v \in Users : Process[v] # p => user'[v] = user[v]
  BY <1>0 DEF ClientsType
<1>. DEFINE S == {conn[v] : v \in {w \in Users : Process[w] = p}}
<1>4. \A k \in Conns : k \in S => Made(k)
  BY DEF Conns, NoConn
<1>5. \A k \in Conns : /\ client'[k] # "none" <=> client[k] # "none"
                       /\ k \notin S => client'[k] = client[k]
                       /\ outbox'[k] \in {outbox[k], <<>>}
  BY <1>4
<1>6. AllMade'
  <2>1. \A i \in 1..Len(backlog) : backlog[i] \in Conns
    BY <1>0 DEF ConnectionsType
  <2>. HIDE DEF S
  <2>. QED
    BY <1>0, <1>5, <2>1 DEF ConnectionsType, ClientsType
<1>7. BusyOpen'
  <2>1. \A v \in Users : Busy(v) /\ Process[v] # p => conn[v] \in Conns \ S
    BY <1>0 DEF PlacesHold, Conns, NoConn
  <2>. HIDE DEF S
  <2>. QED
    BY <1>2, <1>3, <1>5, <2>1
<1>8. OwnIds'
  <2>1. \A a \in Acceptors : On(a, "handling") => request[a].id \in Conns
    BY <1>0, MessageType DEF PlacesHold
  <2>. QED
    BY <1>5, <2>1 DEF server
<1>. QED
  BY <1>1, <1>6, <1>7, <1>8

(* The end of the server leaves it with no connection. *)
LEMMA ServerEndsConnections ==
    ASSUME TypeInv, ConnectionsInv, NEW why, EndServer(why)
    PROVE  ConnectionsInv'
<1>. USE DEF OneClient, OnePlace, AllMade, BusyOpen, OwnIds, ConnectionsInv, At, On,
             Made, Unread, Busy, EndServer, StopListening
<1>0. ServerType
  BY TypeParts DEF TypeInv
<1>1. Len(backlog') = 0 /\ \A n \in Fds : table'[n] = NoConn
  OBVIOUS
<1>2. OnePlace' /\ AllMade'
  BY <1>1 DEF clients
<1>3. OneClient' /\ BusyOpen'
  BY DEF clients
<1>4. OwnIds'
  BY <1>0
<1>. QED
  BY <1>2, <1>3, <1>4

-----------------------------------------------------------------------------
(* Temptation, and how many threads there are.                              *)

(* At the start nobody was tempted and no thread is anywhere. *)
LEMMA InitThreads == Init => ExitTempted /\ AllGone /\ OneThread /\ CalmInv /\ EndsExplained
<1>. SUFFICES ASSUME Init PROVE ExitTempted /\ AllGone /\ OneThread /\ CalmInv /\ EndsExplained
  OBVIOUS
<1>. USE DEF Init, ConnectionsInit, On, At, Unread
<1>1. ExitTempted
  BY DEF ExitTempted
<1>2. AllGone /\ OneThread
  BY DEF AllGone, OneThread
<1>3. KeepsDescriptor
  BY DEF KeepsDescriptor, Serves
<1>4. WaitedFor
  BY DEF WaitedFor, Waiting, Queued
<1>5. EndsExplained
  BY DEF EndsExplained, Processes
<1>. QED
  BY <1>1, <1>2, <1>3, <1>4, <1>5 DEF CalmInv

(* EXIT stays with who was tempted. *)
LEMMA UserStepsTempted ==
    ASSUME TypeInv, ExitTempted, NEW u \in Users, UserStep(u)
    PROVE  ExitTempted'
<1>. USE DEF ExitTempted, Going, At, On, Unread
<1>0. /\ ConnectionsType(Messages, Replies) /\ ServerType /\ ClientsType /\ PlacesHold
      /\ HistoryType
  BY TypeParts DEF TypeInv
<1>1. CASE MakeConnection(u)
  BY <1>1 DEF MakeConnection, Connect, server
<1>2. CASE Choose(u)
  <2>1. PICK c \in Menu : /\ command' = [command EXCEPT ![Process[u]] = c]
                          /\ tempted' = (tempted \/ c \in {"0", "invalid"})
    BY <1>2 DEF Choose
  <2>. QED
    BY <1>0, <1>2, <2>1 DEF Choose, connections, server, ClientsType
<1>6. CASE Composes(u)
  <2>1. user'[u] = "ready" /\ asked'[u].command = "EXIT" => tempted
    <3>1. CASE asked'[u].menu = Choice(u)
      <4>1. ASSUME user'[u] = "ready", asked'[u].command = "EXIT"
            PROVE  asked'[u].menu \in {"0", "invalid"}
        <5>1. asked'[u] \in MessagesOf(asked'[u].menu, conn[u]) /\ conn[u] \in Conns
          BY <1>0, <1>6, <4>1, Composing DEF PlacesHold, Busy
        <5>. QED
          BY <1>6, <4>1, <5>1, Composing, MessagesMade
      <4>. QED
        BY <3>1, <4>1 DEF Choice
    <3>2. CASE asked'[u].menu = asked[u].menu /\ At(u, "typing")
      <4>1. asked[u].menu \in Valued
        BY <1>0, <3>2, DraftsMade DEF PlacesHold
      <4>2. user'[u] = "ready" => asked'[u] \in MessagesOf(asked'[u].menu, conn[u])
        BY <1>6, Composing
      <4>. QED
        BY <3>2, <4>1, <4>2 DEF MessagesOf, Valued
    <3>. QED
      BY <1>6, <3>1, <3>2, Composing
  <2>2. UNCHANGED <<command, inbox, thread, request, tempted>>
    BY <1>6, Composing DEF connections, server, history
  <2>. QED
    BY <1>6, <2>1, <2>2, Composing
<1>3. CASE SendRequest(u)
  <2>1. Request(conn[u], asked[u]) /\ (asked[u].command = "EXIT" => tempted)
    BY <1>3 DEF SendRequest
  <2>2. \A k \in Conns : inbox'[k] = inbox[k] \/ inbox'[k] = <<asked[u]>>
    BY <1>0, <2>1 DEF Request, ConnectionsType
  <2>3. \A v \in Users : user'[v] = "ready" => user[v] = "ready"
    BY <1>0, <1>3 DEF SendRequest, ClientsType
  <2>. QED
    BY <1>3, <2>1, <2>2, <2>3 DEF SendRequest, server, history
<1>4. CASE SendExit(u)
  <2>1. PICK m \in MessagesOf("0", conn[u]) : RequestAndHangup(conn[u], m)
    BY <1>4 DEF SendExit
  <2>2. tempted
    BY <1>4 DEF SendExit, Choice
  <2>. QED
    BY <1>4, <2>2 DEF SendExit, history
<1>5. CASE HangsUp(u)
  BY <1>5 DEF HangsUp, Hangup, server
<1>. QED
  BY <1>1, <1>2, <1>3, <1>4, <1>5, <1>6 DEF UserStep

LEMMA ThreadStepsTempted ==
    ASSUME TypeInv, ExitTempted, NEW a \in Acceptors, ThreadStep(a)
    PROVE  ExitTempted'
<1>. USE DEF ExitTempted, Moves, On, At, Unread
<1>0. /\ ConnectionsType(Messages, Replies) /\ ServerType /\ ClientsType /\ PlacesHold
      /\ HistoryType
  BY TypeParts DEF TypeInv
<1>1. CASE EnterRun(a) \/ BadDescriptor(a)
  BY <1>0, <1>1 DEF EnterRun, BadDescriptor, connections, clients, history, ServerType
<1>2. CASE Accept(a)
  BY <1>0, <1>2 DEF Accept, AcceptAs, clients, history, ServerType
<1>3. CASE Read(a)
  BY <1>0, <1>3 DEF Read, BeginRead, clients, history, ServerType
<1>4. CASE Got(a) \/ GotNothing(a)
  <2>1. \A k \in Conns : inbox'[k] \in {inbox[k], <<>>}
    BY <1>0, <1>4 DEF Got, GotNothing, EndRead, ConnectionsType
  <2>2. file[a] \in Conns
    BY <1>0, <1>4 DEF Got, GotNothing, PlacesHold
  <2>3. \A b \in Acceptors : thread'[b] = "handling" /\ request'[b].command = "EXIT" => tempted
    BY <1>0, <1>4, <2>2 DEF Got, GotNothing, ServerType
  <2>. QED
    BY <1>4, <2>1, <2>3 DEF Got, GotNothing, clients, history
<1>5. CASE Handle(a)
  BY <1>0, <1>5 DEF Handle, connections, clients, ServerType
<1>6. CASE Reply(a)
  BY <1>0, <1>6 DEF Reply, WriteTo, clients, history, ServerType
<1>7. CASE Closes(a)
  BY <1>0, <1>7 DEF Closes, CloseNumber, clients, history, ServerType
<1>. QED
  BY <1>1, <1>2, <1>3, <1>4, <1>5, <1>6, <1>7 DEF ThreadStep

(* The threads end with their process, and the first that enters the loop   *)
(* is alone there until a second one makes trouble.                         *)
LEMMA UserStepsThreads ==
    ASSUME AllGone, OneThread, NEW u \in Users, UserStep(u),
           trouble \subseteq trouble'
    PROVE  AllGone' /\ OneThread'
<1>1. UNCHANGED <<thread, listening>>
  BY DEF UserStep, Composes, HandleCommand, TypeNumber, MakeConnection, Connect, Choose,
         SendRequest, Request, SendExit, RequestAndHangup, HangsUp, Hangup, server, connections
<1>. QED
  BY <1>1 DEF AllGone, OneThread, On

LEMMA ThreadStepsThreads ==
    ASSUME TypeInv, AllGone, OneThread, NEW a \in Acceptors, ThreadStep(a)
    PROVE  AllGone' /\ (trouble \subseteq trouble' => OneThread')
<1>. USE DEF Moves, On
<1>0. ServerType
  BY TypeParts DEF TypeInv
<1>1. CASE EnterRun(a)
  <2>1. listening' = listening /\ thread[a] = "idle" /\ thread' = [thread EXCEPT ![a] = "accepting"]
    BY <1>1 DEF EnterRun, connections
  <2>2. AllGone'
    BY <2>1 DEF AllGone
  <2>3. trouble \subseteq trouble' => OneThread'
    <3>1. CASE \E b \in Acceptors \ {a} : ~On(b, "idle")
      BY <1>1, <3>1 DEF EnterRun, OneThread
    <3>2. CASE \A b \in Acceptors \ {a} : On(b, "idle")
      BY <1>0, <2>1, <3>2 DEF OneThread, ServerType
    <3>. QED
      BY <3>1, <3>2
  <2>. QED
    BY <2>2, <2>3
<1>2. ASSUME \/ Accept(a) \/ Read(a) \/ Got(a) \/ GotNothing(a) \/ BadDescriptor(a)
             \/ Handle(a) \/ Reply(a) \/ Closes(a)
      PROVE  AllGone' /\ (trouble \subseteq trouble' => OneThread')
  <2>1. listening' = listening /\ thread[a] \notin {"idle", "gone"}
    BY <1>2 DEF Accept, AcceptAs, Read, BeginRead, Got, GotNothing, EndRead, BadDescriptor,
                Handle, Reply, WriteTo, Closes, CloseNumber, connections
  <2>2. \E place : thread' = [thread EXCEPT ![a] = place]
    BY <1>2 DEF Accept, Read, Got, GotNothing, BadDescriptor, Handle, Reply, Closes
  <2>3. \A b \in Acceptors \ {a} : thread'[b] = thread[b]
    BY <1>0, <2>2 DEF ServerType
  <2>4. AllGone'
    BY <2>1 DEF AllGone
  <2>5. trouble \subseteq trouble' => OneThread'
    BY <2>1, <2>3 DEF OneThread
  <2>. QED
    BY <2>4, <2>5
<1>. QED
  BY <1>1, <1>2 DEF ThreadStep

(* The end of a process changes nothing of that. *)
LEMMA ClientEndsThreads ==
    ASSUME ExitTempted, AllGone, OneThread, NEW p \in Processes, NEW why, EndClient(p, why),
           trouble \subseteq trouble'
    PROVE  ExitTempted' /\ AllGone' /\ OneThread'
<1>1. UNCHANGED <<thread, request, listening, inbox, asked, command, tempted>>
  BY DEF EndClient, Hangup, server
<1>2. \A v \in Users : At(v, "ready")' => At(v, "ready")
  BY DEF EndClient, At
<1>. QED
  BY <1>1, <1>2 DEF ExitTempted, AllGone, OneThread, On, Unread

LEMMA ServerEndsThreads ==
    ASSUME ExitTempted, NEW why, EndServer(why)
    PROVE  ExitTempted' /\ AllGone' /\ OneThread'
<1>1. ~listening' /\ \A a \in Acceptors : thread'[a] = "gone"
  BY DEF EndServer, StopListening
<1>2. UNCHANGED <<inbox, user, asked, command, tempted>>
  BY DEF EndServer, StopListening, clients
<1>. QED
  BY <1>1, <1>2 DEF ExitTempted, AllGone, OneThread, On, At, Unread

-----------------------------------------------------------------------------
(* The calm.                                                                *)

(* Trouble stays, and a server that is gone does not come back. *)
LEMMA TroubleStays ==
    ASSUME [Next]_vars
    PROVE  trouble \subseteq trouble' /\ (listening' => listening)
<1>1. ASSUME NEW u \in Users, ClientStep(u)
      PROVE  trouble \subseteq trouble' /\ (listening' => listening)
  BY <1>1 DEF ClientStep, Types, Called, MakeConnection, Connect, Refused, EndClient,
              ComesSecond, Choose, HandleCommand, TypeNumber, SendRequest, Request, SendExit,
              RequestAndHangup, SendFails, Hangup, Receive, TakeAnswer, Miss, history, connections
<1>2. ASSUME NEW a \in Acceptors, EnterRun(a) \/ Serve(a)
      PROVE  trouble \subseteq trouble' /\ (listening' => listening)
  BY <1>2 DEF Serve, EnterRun, Accept, AcceptAs, Read, BeginRead, Got, GotNothing, EndRead,
              BadDescriptor, Handle, HandleExit, Crash, EndServer, StopListening, Reply, WriteTo,
              Close, Destroy, Unwind, CloseNumber, history, connections
<1>3. ASSUME NEW p \in Mortal, Kill(p)
      PROVE  trouble \subseteq trouble' /\ (listening' => listening)
  BY <1>3 DEF Kill, EndServer, StopListening, EndClient, Hangup
<1>4. CASE UNCHANGED vars
  BY <1>4 DEF vars, history, connections
<1>. QED
  BY <1>1, <1>2, <1>3, <1>4 DEF Next, ClientStep

(* Somebody holds the server's end of a connection it has not read from. *)
LEMMA WaitingIsServed ==
    ASSUME TypeInv, listening, NEW k \in Conns, Waiting(k)
    PROVE  Served(k)
<1>1. ServerType
  BY TypeParts DEF TypeInv
<1>. QED
  BY <1>1 DEF Waiting, Served, ServerType

(* In the calm no write of a client fails. *)
LEMMA CalmSends ==
    ASSUME TypeInv, Calm, WaitedFor, NEW u \in Users
    PROVE  ~SendFails(u)
BY WaitingIsServed DEF TypeInv, SendFails, WaitedFor, At, Calm, PlacesHold, Busy

\* What can happen that leaves the calm: no connection is hung up on that the
\* server has in hand.
InHand(k) == Waiting(k) \/ \E a \in Acceptors : Serves(a) /\ table[fd[a]] = k
CalmUserStep(u) ==
    \/ MakeConnection(u) \/ Choose(u) \/ Composes(u) \/ SendRequest(u) \/ SendExit(u)
    \/ HangsUp(u) /\ ~InHand(conn[u])
CalmThreadStep(a) ==
    \/ EnterRun(a) \/ Accept(a) \/ Read(a) \/ Got(a) \/ Handle(a) \/ Reply(a)
    \/ Closes(a) /\ thread[a] \in {"answered", "closed"}

(* In the calm no write fails, no read comes to the end of a connection  *)
(* that brought nothing, and no descriptor is bad.                          *)
LEMMA CalmSteps ==
    ASSUME TypeInv, CalmInv, [Next]_vars, Calm'
    PROVE  /\ Calm /\ KeepsDescriptor /\ WaitedFor
           /\ \/ \E u \in Users : CalmUserStep(u)
              \/ \E a \in Acceptors : CalmThreadStep(a)
              \/ UNCHANGED vars
<1>1. Calm /\ KeepsDescriptor /\ WaitedFor
  BY TroubleStays DEF Calm, CalmInv
<1>0. PlacesHold
  BY DEF TypeInv
<1>2. ASSUME NEW u \in Users, ClientStep(u)
      PROVE  CalmUserStep(u)
  <2>1. ~Refused(u)
    BY <1>1 DEF Refused, Calm
  <2>2. ~SendFails(u)
    BY <1>1, CalmSends
  <2>3. ASSUME Receive(u) \/ Miss(u)
        PROVE  HangsUp(u) /\ ~InHand(conn[u])
    <3>1. conn[u] \in Conns
      BY <1>0, <2>3 DEF Receive, Miss, PlacesHold, Busy, At
    <3>2. Receive(u) => ~InHand(conn[u])
      BY <1>1, <3>1 DEF Receive, TakeAnswer, Answers, WaitedFor, InHand, KeepsDescriptor
    <3>3. \A a \in Acceptors : fd[a] \in Fds
      BY TypeParts DEF TypeInv, ServerType
    <3>4. InHand(conn[u]) => Served(conn[u])
      BY <1>1, <3>1, <3>3, WaitingIsServed DEF Calm, InHand, Served
    <3>5. Miss(u) => ~InHand(conn[u])
      BY <3>4 DEF Miss
    <3>. QED
      BY <2>3, <3>2, <3>5, HangupsAreSteps
  <2>. QED
    BY <1>2, <2>1, <2>2, <2>3 DEF ClientStep, Types, Called, Composes, CalmUserStep
<1>3. ASSUME NEW a \in Acceptors, EnterRun(a) \/ Serve(a)
      PROVE  CalmThreadStep(a)
  <2>1. ~HandleExit(a) /\ ~Crash(a)
    BY DEF HandleExit, Crash, EndServer, StopListening, Calm
  <2>2. ~BadDescriptor(a)
    BY <1>1 DEF BadDescriptor, KeepsDescriptor, Serves, Conns, NoConn
  <2>3. ~GotNothing(a)
    BY <1>0, <1>1 DEF GotNothing, WaitedFor, Waiting, PlacesHold
  <2>4. ~Unwind(a)
    BY <1>1 DEF Unwind, On, KeepsDescriptor
  <2>5. Close(a) \/ Destroy(a) => Closes(a) /\ thread[a] \in {"answered", "closed"}
    BY DEF Close, Destroy, Closes, server, On
  <2>. QED
    BY <1>3, <2>1, <2>2, <2>3, <2>4, <2>5 DEF Serve, CalmThreadStep
<1>4. \A p \in Mortal : ~Kill(p)
  BY DEF Kill, Calm
<1>. QED
  BY <1>1, <1>2, <1>3, <1>4 DEF Next, ClientStep

(* A user's calm step keeps the calm. *)
LEMMA UserStepsCalm ==
    ASSUME TypeInv, ConnectionsInv, KeepsDescriptor, WaitedFor,
           NEW u \in Users, CalmUserStep(u)
    PROVE  KeepsDescriptor' /\ WaitedFor'
<1>. USE DEF Going, At, Unread
<1>0. /\ ConnectionsType(Messages, Replies) /\ ServerType /\ ClientsType /\ PlacesHold
      /\ \A v \in Users : user[v] \in {"asking", "typed", "typing", "ready", "awaiting"} =>
             conn[v] \in Conns
      /\ \A v, w \in Users : conn[v] = conn[w] /\ conn[v] # NoConn => v = w
      /\ NoConn \notin Conns
  BY TypeParts DEF TypeInv, PlacesHold, Busy, ConnectionsInv, OneClient, Conns, NoConn
<1>1. UNCHANGED <<thread, fd, request, table, file>>
  BY DEF CalmUserStep, Composes, HandleCommand, TypeNumber, MakeConnection, Connect, Choose,
         SendRequest, Request, SendExit, RequestAndHangup, HangsUp, Hangup, server, connections
<1>2. \A k \in Conns : outbox'[k] \in {outbox[k], <<>>}
  BY <1>0 DEF CalmUserStep, Composes, HandleCommand, TypeNumber, MakeConnection, Connect, Choose,
         SendRequest, Request, SendExit, RequestAndHangup, HangsUp, Hangup, connections
<1>3. KeepsDescriptor'
  BY <1>1, <1>2 DEF KeepsDescriptor, Serves, On
<1>4. ASSUME UNCHANGED backlog
      PROVE  \A k : Waiting(k)' <=> Waiting(k)
  BY <1>1, <1>4 DEF Waiting, Queued, On
<1>5. CASE MakeConnection(u)
  <2>. USE <1>5 DEF MakeConnection
  <2>1. PICK k \in Conns : Connect(k) /\ conn' = [conn EXCEPT ![u] = k]
    OBVIOUS
  <2>2. client[k] = "none" /\ inbox[k] = <<>> /\ outbox[k] = <<>>
    BY <2>1 DEF Connect, Made, ConnectionsInv, AllMade
  <2>3. \A j : Waiting(j)' <=> Waiting(j) \/ j = k
    <3>1. /\ Len(backlog') = Len(backlog) + 1 /\ Len(backlog) \in Nat
          /\ \A i \in 1..Len(backlog) : backlog'[i] = backlog[i]
          /\ backlog'[Len(backlog) + 1] = k
      BY <1>0, <2>1 DEF Connect, ConnectionsType
    <3>2. \A j : Queued(j)' <=> Queued(j) \/ j = k
      <4>1. \A i \in 1..Len(backlog') : i \in 1..Len(backlog) \/ i = Len(backlog) + 1
        BY <3>1
      <4>2. \A i \in 1..Len(backlog) : i \in 1..Len(backlog')
        BY <3>1
      <4>3. Len(backlog) + 1 \in 1..Len(backlog')
        BY <3>1
      <4>. QED
        BY <3>1, <4>1, <4>2, <4>3 DEF Queued
    <3>. QED
      BY <1>1, <3>2 DEF Waiting, On
  <2>4. \A v \in Users, j \in Conns :
            user'[v] \in {"asking", "typed", "typing", "ready"} /\ conn'[v] = j =>
                Waiting(j)' /\ inbox'[j] = <<>>
    BY <1>0, <2>1, <2>2, <2>3 DEF Connect, WaitedFor, ClientsType
  <2>5. \A j \in Conns : Waiting(j)' => outbox'[j] = <<>>
    BY <2>1, <2>2, <2>3 DEF Connect, WaitedFor
  <2>6. \A j \in Conns : Waiting(j)' /\ client'[j] # "open" => inbox'[j] # <<>>
    BY <1>0, <2>1, <2>2, <2>3 DEF Connect, WaitedFor, ConnectionsType
  <2>. QED
    BY <1>3, <2>4, <2>5, <2>6 DEF WaitedFor
<1>6. CASE Choose(u) \/ Composes(u)
  <2>1. UNCHANGED <<backlog, client, inbox, outbox, conn>>
    BY <1>6, Composing DEF Choose, connections
  <2>2. \A v \in Users : user'[v] \in {"asking", "typed", "typing", "ready"} =>
            user[v] \in {"asking", "typed", "typing", "ready"}
    BY <1>0, <1>6, Composing DEF Choose, ClientsType
  <2>. QED
    BY <1>3, <1>4, <2>1, <2>2 DEF WaitedFor
<1>7. CASE SendRequest(u)
  <2>. DEFINE m == asked[u]
  <2>1. Request(conn[u], m)
    BY <1>7 DEF SendRequest
  <2>2. UNCHANGED <<backlog, client, outbox, conn>> /\ conn[u] \in Conns
    BY <1>0, <1>7, <2>1 DEF SendRequest, Request
  <2>3. inbox'[conn[u]] # <<>> /\ \A k \in Conns : k # conn[u] => inbox'[k] = inbox[k]
    BY <1>0, <2>1, <2>2 DEF Request, ConnectionsType
  <2>4. \A v \in Users : user'[v] \in {"asking", "typed", "typing", "ready"} =>
            user[v] \in {"asking", "typed", "typing", "ready"} /\ conn[v] # conn[u]
    BY <1>0, <1>7, <2>2 DEF SendRequest, ClientsType
  <2>. QED
    BY <1>3, <1>4, <2>2, <2>3, <2>4 DEF WaitedFor
<1>8. CASE SendExit(u)
  <2>1. PICK m \in MessagesOf("0", conn[u]) : RequestAndHangup(conn[u], m)
    BY <1>8 DEF SendExit
  <2>2. UNCHANGED <<backlog, outbox, conn>> /\ conn[u] \in Conns
    BY <1>0, <1>8, <2>1 DEF SendExit, RequestAndHangup
  <2>3. /\ inbox'[conn[u]] # <<>>
        /\ \A k \in Conns : k # conn[u] => inbox'[k] = inbox[k] /\ client'[k] = client[k]
    BY <1>0, <2>1, <2>2 DEF RequestAndHangup, ConnectionsType
  <2>4. \A v \in Users : user'[v] \in {"asking", "typed", "typing", "ready"} =>
            user[v] \in {"asking", "typed", "typing", "ready"} /\ conn[v] # conn[u]
    BY <1>0, <1>8, <2>2 DEF SendExit, ClientsType
  <2>. QED
    BY <1>3, <1>4, <2>2, <2>3, <2>4 DEF WaitedFor
<1>9. CASE HangsUp(u) /\ ~InHand(conn[u])
  <2>1. UNCHANGED <<backlog, inbox, conn>> /\ conn[u] \in Conns
    BY <1>0, <1>9 DEF HangsUp, Hangup, Busy
  <2>2. \A k \in Conns : k # conn[u] => outbox'[k] = outbox[k] /\ client'[k] = client[k]
    BY <1>9 DEF HangsUp, Hangup
  <2>3. \A v \in Users : user'[v] \in {"asking", "typed", "typing", "ready"} =>
            user[v] \in {"asking", "typed", "typing", "ready"}
    BY <1>0, <1>9 DEF HangsUp, ClientsType
  <2>. QED
    BY <1>3, <1>4, <1>9, <2>1, <2>2, <2>3 DEF WaitedFor, InHand
<1>. QED
  BY <1>5, <1>6, <1>7, <1>8, <1>9 DEF CalmUserStep

(* In the calm only the one thread can have taken what waits. *)
LEMMA WaitingForOne ==
    ASSUME NEW a \in Acceptors, \A b \in Acceptors \ {a} : On(b, "idle"), NEW k
    PROVE  Waiting(k) <=> \/ Queued(k)
                          \/ On(a, "accepted") /\ table[fd[a]] = k
                          \/ On(a, "reading") /\ file[a] = k
BY DEF Waiting, On

(* Two places of the server never have the same connection. *)
LEMMA TakenNotQueued ==
    ASSUME OnePlace, NEW n \in Fds
    PROVE  ~Queued(table[n])
BY DEF OnePlace, Queued

(* What waits goes on waiting, but for what the thread reads from. *)
LEMMA WaitingMoves ==
    ASSUME TypeInv, ConnectionsInv, OneThread, OneThread', Calm, Calm', KeepsDescriptor,
           NEW a \in Acceptors, CalmThreadStep(a)
    PROVE  /\ \A b \in Acceptors \ {a} : On(b, "idle") /\ On(b, "idle")'
           /\ thread[a] \in {"handling", "replying"} => ~Waiting(table[fd[a]])
           /\ \A k : Waiting(k)' <=> Waiting(k) /\ ~(Got(a) /\ k = file[a])
<1>. USE DEF Moves, Unread
<1>0. /\ ConnectionsType(Messages, Replies) /\ ServerType /\ PlacesHold
      /\ NoConn \notin Conns /\ OnePlace
  BY TypeParts DEF TypeInv, Conns, NoConn, ConnectionsInv
<1>1. thread'[a] # "idle" /\ \A b \in Acceptors \ {a} : thread'[b] = thread[b]
  BY <1>0 DEF CalmThreadStep, EnterRun, Accept, Read, Got, Handle, Reply, Closes, ServerType
<1>2. \A b \in Acceptors \ {a} : On(b, "idle") /\ On(b, "idle")'
  BY <1>1 DEF OneThread, Calm, On
<1>3. \A k : Waiting(k) <=> \/ Queued(k)
                            \/ On(a, "accepted") /\ table[fd[a]] = k
                            \/ On(a, "reading") /\ file[a] = k
  BY <1>2, WaitingForOne
<1>4. \A k : Waiting(k)' <=> \/ Queued(k)'
                             \/ (On(a, "accepted") /\ table[fd[a]] = k)'
                             \/ (On(a, "reading") /\ file[a] = k)'
  BY <1>2 DEF Waiting, On
<1>5. thread[a] \in {"handling", "replying"} => ~Waiting(table[fd[a]])
  BY <1>0, <1>3, TakenNotQueued DEF ServerType, On
<1>6. CASE EnterRun(a) \/ Handle(a) \/ Reply(a)
           \/ (Closes(a) /\ thread[a] \in {"answered", "closed"})
  <2>1. backlog' = backlog /\ ~Got(a)
    BY <1>6 DEF EnterRun, Handle, Reply, WriteTo, Closes, CloseNumber, Got, On, connections
  <2>2. thread'[a] \notin {"accepted", "reading"} /\ thread[a] \notin {"accepted", "reading"}
    BY <1>0, <1>6 DEF EnterRun, Handle, Reply, Closes, On, ServerType
  <2>3. \A k : Waiting(k)' <=> Waiting(k)
    BY <1>3, <1>4, <2>1, <2>2 DEF On, Queued
  <2>. QED
    BY <1>2, <1>5, <2>1, <2>3
<1>7. CASE Accept(a)
  <2>. USE <1>7 DEF Accept
  <2>1. PICK n \in Fds : AcceptAs(n) /\ fd' = [fd EXCEPT ![a] = n]
    OBVIOUS
  <2>2. /\ thread'[a] = "accepted" /\ fd'[a] = n
        /\ backlog # <<>> /\ backlog' = Tail(backlog) /\ backlog \in Seq(Conns)
        /\ table'[n] = Head(backlog)
    BY <1>0, <2>1 DEF AcceptAs, ServerType, ConnectionsType
  <2>3. /\ table'[n] = backlog[1] /\ backlog[1] \in Conns
        /\ Len(backlog) \in Nat /\ Len(backlog) > 0 /\ Len(backlog') = Len(backlog) - 1
        /\ \A i \in 1..Len(backlog') : backlog'[i] = backlog[i + 1]
    BY <2>2
  <2>4. \A k : Queued(k) <=> Queued(k)' \/ k = backlog[1]
    <3>1. \A i \in 1..Len(backlog') : i + 1 \in 1..Len(backlog)
      BY <2>3
    <3>2. \A i \in 1..Len(backlog) : i = 1 \/ (i - 1 \in 1..Len(backlog') /\ backlog'[i - 1] = backlog[i])
      BY <2>3
    <3>3. 1 \in 1..Len(backlog)
      BY <2>3
    <3>. QED
      BY <2>3, <3>1, <3>2, <3>3 DEF Queued
  <2>5. \A k : Waiting(k)' <=> Waiting(k)
    BY <1>3, <1>4, <2>2, <2>3, <2>4 DEF On
  <2>. QED
    BY <1>2, <1>5, <2>5 DEF Got, On
<1>8. CASE Read(a)
  <2>. USE <1>8 DEF Read, BeginRead
  <2>1. UNCHANGED <<backlog, table, fd>> /\ thread'[a] = "reading" /\ file'[a] = table[fd[a]]
    BY <1>0 DEF ServerType, ConnectionsType
  <2>2. \A k : Waiting(k)' <=> Waiting(k)
    BY <1>3, <1>4, <2>1 DEF On, Queued
  <2>. QED
    BY <1>2, <1>5, <2>2 DEF Got, On
<1>9. CASE Got(a)
  <2>. USE <1>9 DEF Got, EndRead
  <2>1. UNCHANGED <<backlog, table, fd>> /\ thread'[a] = "handling"
    BY <1>0 DEF ServerType
  <2>2. ~Queued(file[a])
    BY <1>0, TakenNotQueued DEF ServerType, KeepsDescriptor
  <2>3. \A k : Waiting(k)' <=> Waiting(k) /\ k # file[a]
    BY <1>3, <1>4, <2>1, <2>2 DEF On, Queued
  <2>. QED
    BY <1>2, <1>5, <1>9, <2>3 DEF On
<1>. QED
  BY <1>6, <1>7, <1>8, <1>9 DEF CalmThreadStep

(* A calm step of a thread keeps the calm. *)
LEMMA ThreadStepsCalm ==
    ASSUME TypeInv, ConnectionsInv, OneThread, OneThread', Calm, Calm', KeepsDescriptor, WaitedFor,
           NEW a \in Acceptors, CalmThreadStep(a)
    PROVE  KeepsDescriptor' /\ WaitedFor'
<1>. USE DEF Moves, Unread
<1>0. /\ ConnectionsType(Messages, Replies) /\ ServerType /\ PlacesHold /\ OwnIds
  BY TypeParts DEF TypeInv, ConnectionsInv
<1>1. UNCHANGED <<client, user, conn>>
  BY DEF CalmThreadStep, EnterRun, Accept, AcceptAs, Read, BeginRead, Got, EndRead, Handle,
         Reply, WriteTo, Closes, CloseNumber, connections, clients
<1>2. /\ \A b \in Acceptors \ {a} : On(b, "idle") /\ On(b, "idle")'
      /\ thread[a] \in {"handling", "replying"} => ~Waiting(table[fd[a]])
      /\ \A k : Waiting(k)' <=> Waiting(k) /\ ~(Got(a) /\ k = file[a])
  BY WaitingMoves
<1>3. KeepsDescriptor' <=>
          /\ thread'[a] \notin {"unwinding", "broken", "gone"}
          /\ Serves(a)' => (table[fd[a]] \in Conns /\ outbox[table[fd[a]]] = <<>>)'
          /\ On(a, "reading")' => (file[a] = table[fd[a]])'
          /\ On(a, "handling")' => (request[a].id = table[fd[a]])'
  BY <1>2 DEF KeepsDescriptor, Serves, On
<1>4. ASSUME UNCHANGED inbox, \A k \in Conns : Waiting(k) => outbox'[k] = outbox[k], ~Got(a)
      PROVE  WaitedFor'
  BY <1>1, <1>2, <1>4 DEF WaitedFor
<1>5. CASE EnterRun(a)
  <2>. USE <1>5 DEF EnterRun
  <2>1. UNCHANGED <<inbox, outbox>> /\ thread'[a] = "accepting"
    BY <1>0 DEF connections, ServerType
  <2>. QED
    BY <1>3, <1>4, <2>1 DEF Serves, On, Got
<1>6. CASE Accept(a)
  <2>. USE <1>6 DEF Accept
  <2>1. PICK n \in Fds : AcceptAs(n) /\ fd' = [fd EXCEPT ![a] = n]
    OBVIOUS
  <2>2. /\ UNCHANGED <<inbox, outbox>> /\ thread'[a] = "accepted" /\ fd'[a] = n
        /\ table'[n] = Head(backlog) /\ backlog \in Seq(Conns) /\ backlog # <<>>
    BY <1>0, <2>1 DEF AcceptAs, ServerType, ConnectionsType
  <2>3. table'[n] = backlog[1] /\ backlog[1] \in Conns /\ 1 \in 1..Len(backlog)
    BY <2>2
  <2>4. outbox[backlog[1]] = <<>>
    BY <2>3 DEF WaitedFor, Waiting, Queued
  <2>. QED
    BY <1>3, <1>4, <2>2, <2>3, <2>4 DEF Serves, On, Got
<1>7. CASE Read(a)
  <2>. USE <1>7 DEF Read, BeginRead
  <2>1. UNCHANGED <<inbox, outbox, table, fd>> /\ thread'[a] = "reading" /\ file'[a] = table[fd[a]]
    BY <1>0 DEF ServerType, ConnectionsType
  <2>. QED
    BY <1>3, <1>4, <2>1 DEF Serves, On, KeepsDescriptor, Got
<1>8. CASE Got(a)
  <2>. USE <1>8 DEF Got, EndRead
  <2>1. /\ UNCHANGED <<outbox, table, fd>> /\ thread'[a] = "handling"
        /\ request'[a] = Head(inbox[file[a]])
    BY <1>0 DEF ServerType
  <2>2. file[a] = table[fd[a]] /\ Head(inbox[file[a]]).id = file[a]
    BY <1>0 DEF PlacesHold, KeepsDescriptor, OwnIds
  <2>3. \A k \in Conns : k # file[a] => inbox'[k] = inbox[k]
    BY <1>0 DEF ConnectionsType
  <2>4. \A k : Waiting(k)' => Waiting(k) /\ k # file[a]
    BY <1>2, <1>8
  <2>5. \A v \in Users, k \in Conns : user[v] \in {"asking", "typed", "typing", "ready"} /\ conn[v] = k => k # file[a]
    BY DEF WaitedFor
  <2>6. WaitedFor'
    BY <1>1, <1>2, <2>1, <2>3, <2>4, <2>5 DEF WaitedFor
  <2>. QED
    BY <1>3, <2>1, <2>2, <2>6 DEF Serves, On, KeepsDescriptor
<1>9. CASE Handle(a)
  <2>. USE <1>9 DEF Handle
  <2>1. UNCHANGED <<inbox, outbox, table, fd>> /\ thread'[a] = "replying"
    BY <1>0 DEF connections, ServerType
  <2>. QED
    BY <1>3, <1>4, <2>1 DEF Serves, On, KeepsDescriptor, Got
<1>10. CASE Reply(a)
  <2>. USE <1>10 DEF Reply, WriteTo
  <2>1. inbox' = inbox /\ thread'[a] = "answered" /\ ~Waiting(table[fd[a]])
    BY <1>0, <1>2 DEF ServerType, On
  <2>2. \A k \in Conns : k # table[fd[a]] => outbox'[k] = outbox[k]
    BY <1>0 DEF ConnectionsType
  <2>. QED
    BY <1>3, <1>4, <2>1, <2>2 DEF Serves, On, Got
<1>11. CASE Closes(a) /\ thread[a] \in {"answered", "closed"}
  <2>. USE <1>11 DEF Closes, CloseNumber
  <2>1. UNCHANGED <<inbox, outbox>> /\ thread'[a] \in {"closed", "accepting"}
    BY <1>0 DEF ServerType, On
  <2>. QED
    BY <1>3, <1>4, <2>1 DEF Serves, On, Got
<1>. QED
  BY <1>5, <1>6, <1>7, <1>8, <1>9, <1>10, <1>11 DEF CalmThreadStep

-----------------------------------------------------------------------------
(* Who ends whom.                                                           *)

(* Nothing that ends anybody can be put down to nothing. *)
LEMMA EndsStayExplained ==
    ASSUME TypeInv, ExitTempted, AllGone, OneThread, CalmInv, EndsExplained, [Next]_vars
    PROVE  EndsExplained'
<1>. USE DEF On, Moves
<1>0. HistoryType /\ ServerType /\ trouble \subseteq trouble' /\ (listening' => listening)
  BY TypeParts, TroubleStays DEF TypeInv
<1>1. ASSUME UNCHANGED ended, tempted => tempted',
             \A a \in Acceptors : thread'[a] = "broken" => thread[a] = "broken"
      PROVE  EndsExplained'
  BY <1>0, <1>1 DEF EndsExplained
<1>2. ASSUME NEW p \in Processes \ {Server}, NEW why \in {"refused", "unsent", "killed"},
             EndClient(p, why), why # "killed" => ~listening \/ trouble # {}
      PROVE  EndsExplained'
  <2>1. UNCHANGED <<listening, thread, tempted>> /\ ended' = [ended EXCEPT ![p] = why]
    BY <1>2 DEF EndClient, Hangup, server
  <2>2. /\ \A q \in Processes \ {p} : ended'[q] = ended[q]
        /\ ended'[p] = why
    BY <1>0, <2>1 DEF HistoryType
  <2>3. \A q \in Processes : ended'[q] \in {"refused", "unsent"} => ~listening' \/ trouble' # {}
    BY <1>0, <1>2, <2>1, <2>2 DEF EndsExplained
  <2>. QED
    BY <1>0, <2>1, <2>2, <2>3 DEF EndsExplained, Processes
<1>3. ASSUME NEW why \in {"exit", "crash", "killed"}, EndServer(why),
             why = "exit" => tempted, why = "crash" => "acceptors" \in trouble
      PROVE  EndsExplained'
  <2>1. /\ ~listening' /\ tempted' = tempted /\ ended' = [ended EXCEPT ![Server] = why]
        /\ \A a \in Acceptors : thread'[a] = "gone"
    BY <1>3 DEF EndServer, StopListening
  <2>2. ended'[Server] = why
    BY <1>0, <2>1 DEF HistoryType, Processes
  <2>. QED
    BY <1>0, <1>3, <2>1, <2>2 DEF EndsExplained
<1>4. ASSUME NEW u \in Users, ClientStep(u)
      PROVE  EndsExplained'
  <2>1. Process[u] \in Processes \ {Server}
    BY UsersAssumption DEF Processes
  <2>2. CASE Refused(u)
    BY <1>2, <2>1, <2>2 DEF Refused
  <2>3. CASE SendFails(u) /\ At(u, "typed")
    <3>1. ~listening \/ trouble # {}
      BY <2>3, CalmSends DEF CalmInv, Calm
    <3>. QED
      BY <1>2, <2>1, <2>3, <3>1 DEF SendFails, At
  <2>4. CASE \/ MakeConnection(u) \/ Choose(u) \/ Composes(u) \/ SendRequest(u) \/ SendExit(u)
             \/ (SendFails(u) /\ ~At(u, "typed")) \/ Receive(u) \/ Miss(u)
    <3>1. UNCHANGED <<ended, thread>> /\ (tempted => tempted')
      <4>1. CASE Choose(u)
        BY <4>1 DEF Choose, server
      <4>2. CASE SendFails(u) /\ ~At(u, "typed")
        BY <4>2 DEF SendFails, server
      <4>. QED
        BY <2>4, <4>1, <4>2 DEF MakeConnection, Composes, HandleCommand, TypeNumber,
                                SendRequest, SendExit, Receive, Miss, server, history
    <3>. QED
      BY <1>1, <3>1
  <2>. QED
    BY <1>4, <2>2, <2>3, <2>4 DEF ClientStep, Types, Called, Composes
<1>5. ASSUME NEW a \in Acceptors, EnterRun(a) \/ Serve(a)
      PROVE  EndsExplained'
  <2>1. CASE HandleExit(a)
    <3>1. tempted
      BY <2>1 DEF HandleExit, ExitTempted
    <3>. QED
      BY <1>3, <2>1, <3>1 DEF HandleExit
  <2>2. CASE Crash(a)
    <3>1. PICK b \in Acceptors \ {a} : UsesEmergencies(a) /\ UsesEmergencies(b)
      BY <2>2 DEF Crash, Racing
    <3>2. listening
      BY <2>2 DEF Crash, EndServer, StopListening
    <3>3. "acceptors" \in trouble
      BY <3>1, <3>2 DEF OneThread, UsesEmergencies
    <3>. QED
      BY <1>3, <2>2, <3>3 DEF Crash
  <2>3. CASE Unwind(a)
    <3>1. trouble \cap {"acceptors", "killed"} # {}
      BY <2>3 DEF Unwind, AllGone, CalmInv, Calm, KeepsDescriptor
    <3>2. UNCHANGED <<ended, tempted>>
      BY <2>3 DEF Unwind, history
    <3>. QED
      BY <1>0, <3>1, <3>2 DEF EndsExplained
  <2>4. CASE \/ EnterRun(a) \/ Accept(a) \/ Read(a) \/ Got(a) \/ GotNothing(a)
             \/ BadDescriptor(a) \/ Handle(a) \/ Reply(a) \/ Close(a) \/ Destroy(a)
    <3>1. UNCHANGED <<ended, tempted>>
      BY <2>4 DEF EnterRun, Accept, Read, Got, GotNothing, BadDescriptor, Handle, Reply, Close,
                  Destroy, history
    <3>2. \A b \in Acceptors : thread'[b] = "broken" => thread[b] = "broken"
      BY <1>0, <2>4 DEF EnterRun, Accept, Read, Got, GotNothing, BadDescriptor, Handle, Reply,
                        Close, Destroy, ServerType
    <3>. QED
      BY <1>1, <3>1, <3>2
  <2>. QED
    BY <1>5, <2>1, <2>2, <2>3, <2>4 DEF Serve
<1>6. ASSUME NEW p \in Mortal, Kill(p)
      PROVE  EndsExplained'
  <2>1. p \in Processes
    BY UsersAssumption
  <2>. QED
    BY <1>2, <1>3, <1>6, <2>1 DEF Kill
<1>7. CASE UNCHANGED vars
  BY <1>1, <1>7 DEF vars, history, server
<1>. QED
  BY <1>4, <1>5, <1>6, <1>7 DEF Next, ClientStep

(* All of the invariant at once: a step of a user, of a thread, or of none. *)
LEMMA EndsSteps == EndsInv /\ [Next]_vars => EndsInv'
<1>. SUFFICES ASSUME EndsInv, [Next]_vars PROVE EndsInv'
  OBVIOUS
<1>. USE DEF EndsInv
<1>1. TypeInv' /\ EndsExplained'
  BY TypeSteps, EndsStayExplained
<1>2. trouble \subseteq trouble'
  BY TroubleStays
<1>3. ASSUME UNCHANGED vars
      PROVE  ConnectionsInv' /\ ExitTempted' /\ AllGone' /\ OneThread'
  <2>1. ConnectionsInv'
    BY <1>3 DEF vars, connections, server, clients, history, ConnectionsInv, OneClient, OnePlace,
                AllMade, BusyOpen, OwnIds, Busy, On, Made, Unread
  <2>2. ExitTempted' /\ AllGone' /\ OneThread'
    BY <1>3 DEF vars, connections, server, clients, history, ExitTempted, AllGone, OneThread, On,
                At, Unread
  <2>. QED
    BY <2>1, <2>2
<1>4. ConnectionsInv' /\ ExitTempted' /\ AllGone' /\ OneThread'
  <2>1. ASSUME SomeClientEnds
        PROVE  ConnectionsInv' /\ ExitTempted' /\ AllGone' /\ OneThread'
    BY <1>2, <2>1, ClientEndsConnections, ClientEndsThreads DEF SomeClientEnds
  <2>2. ASSUME ServerEnds
        PROVE  ConnectionsInv' /\ ExitTempted' /\ AllGone' /\ OneThread'
    BY <1>2, <2>2, ServerEndsConnections, ServerEndsThreads DEF ServerEnds
  <2>3. ASSUME NEW u \in Users, UserStep(u)
        PROVE  ConnectionsInv' /\ ExitTempted' /\ AllGone' /\ OneThread'
    BY <1>2, <2>3, UserStepsConnections, UserStepsTempted, UserStepsThreads
  <2>4. ASSUME NEW a \in Acceptors, ThreadStep(a)
        PROVE  ConnectionsInv' /\ ExitTempted' /\ AllGone' /\ OneThread'
    BY <1>2, <2>4, ThreadStepsConnections, ThreadStepsTempted, ThreadStepsThreads
  <2>. QED
    BY <1>3, <2>1, <2>2, <2>3, <2>4, StepsOnConnections
<1>5. CalmInv'
  <2>. SUFFICES ASSUME Calm' PROVE KeepsDescriptor' /\ WaitedFor'
    BY DEF CalmInv
  <2>1. /\ Calm /\ KeepsDescriptor /\ WaitedFor
        /\ \/ \E u \in Users : CalmUserStep(u)
           \/ \E a \in Acceptors : CalmThreadStep(a)
           \/ UNCHANGED vars
    BY CalmSteps
  <2>2. CASE UNCHANGED vars
    BY <2>1, <2>2 DEF vars, connections, server, clients, KeepsDescriptor, WaitedFor, Serves, On,
                      Waiting, Queued, Unread
  <2>. QED
    BY <1>4, <2>1, <2>2, UserStepsCalm, ThreadStepsCalm
<1>. QED
  BY <1>1, <1>4, <1>5

(* A client that ends by itself found the server gone or in trouble; the    *)
(* server exits only if somebody chose 0 or nothing of the menu, crashes    *)
(* only with two threads in its loop, and leaves the loop only with two, or *)
(* after a process was killed: for any users, processes and threads.        *)
THEOREM EndsAreExplained == Spec => []EndsExplained
<1>1. Init => EndsInv
  BY InitType, InitConnections, InitThreads DEF EndsInv
<1>2. EndsInv => EndsExplained
  BY DEF EndsInv
<1>. QED
  BY <1>1, <1>2, EndsSteps, PTL DEF Spec

-----------------------------------------------------------------------------
(* What the users see as long as nothing is disturbed.                      *)

Undisturbed == trouble = {} /\ trouble' = {}

(* At the start nobody has asked for anything. *)
LEMMA InitDevice == Init => DeviceInv
BY DEF Init, ConnectionsInit, DeviceInv, OneUser, AskedAsChosen, NoEffectYet, AwaitsProgress,
       HasSender, At, On, Unread, Made, Waiting, Queued

(* A Transport keeps its one user, and what that user asked for. *)
LEMMA UsersKeep ==
    ASSUME EndsInv, DeviceInv, Undisturbed, NEW u \in Users,
           UserStep(u)
    PROVE  OneUser' /\ AskedAsChosen'
<1>. USE DEF Undisturbed, Going, At
<1>0. /\ ConnectionsType(Messages, Replies) /\ ClientsType /\ PlacesHold
      /\ OneUser /\ AskedAsChosen /\ NoConn \notin Conns
      /\ \A v \in Users : user[v] \in {"asking", "typed", "typing", "ready", "awaiting"} =>
             conn[v] \in Conns
  BY TypeParts DEF EndsInv, TypeInv, DeviceInv, Conns, NoConn, PlacesHold, Busy
<1>1. CASE MakeConnection(u)
  <2>. USE <1>1 DEF MakeConnection
  <2>1. PICK k \in Conns : conn' = [conn EXCEPT ![u] = k]
    OBVIOUS
  <2>2. \A v \in Users \ {u} : Process[v] = Process[u] => conn[v] = NoConn
    BY DEF ComesSecond
  <2>3. \A v \in Users \ {u} : conn'[v] = conn[v]
    BY <1>0, <2>1 DEF ClientsType
  <2>4. OneUser'
    BY <1>0, <2>2, <2>3 DEF OneUser
  <2>5. AskedAsChosen'
    BY <1>0 DEF AskedAsChosen, Choice, ClientsType
  <2>. QED
    BY <2>4, <2>5
<1>2. CASE Choose(u)
  <2>. USE <1>2 DEF Choose
  <2>1. \A v \in Users : user'[v] \in {"typing", "ready", "awaiting"} =>
            v # u /\ user[v] \in {"typing", "ready", "awaiting"}
    BY <1>0 DEF ClientsType
  <2>2. \A v \in Users :
            user'[v] \in {"typing", "ready", "awaiting"} => Process[v] # Process[u]
    BY <1>0, <2>1 DEF OneUser
  <2>3. \A v \in Users : Process[v] # Process[u] => command'[Process[v]] = command[Process[v]]
    BY <1>0 DEF ClientsType
  <2>4. AskedAsChosen'
    BY <1>0, <2>1, <2>2, <2>3 DEF AskedAsChosen, Choice
  <2>. QED
    BY <1>0, <2>4 DEF OneUser
<1>3. CASE Composes(u)
  <2>1. asked'[u].menu = Choice(u) /\ asked'[u].menu # "0"
    BY <1>0, <1>3, Composing DEF AskedAsChosen, EndsInv
  <2>2. AskedAsChosen'
    BY <1>0, <1>3, <2>1, Composing DEF AskedAsChosen, Choice, EndsInv
  <2>. QED
    BY <1>0, <1>3, <2>2, Composing DEF OneUser, EndsInv
<1>4. CASE SendRequest(u) \/ SendExit(u) \/ HangsUp(u)
  <2>1. UNCHANGED <<conn, asked, command>>
    BY <1>4 DEF SendRequest, SendExit, HangsUp
  <2>2. \A v \in Users : user'[v] \in {"typing", "ready", "awaiting"} =>
            user[v] \in {"typing", "ready", "awaiting"}
    BY <1>0, <1>4 DEF SendRequest, SendExit, HangsUp, ClientsType
  <2>. QED
    BY <1>0, <2>1, <2>2 DEF OneUser, AskedAsChosen, Choice
<1>. QED
  BY <1>1, <1>2, <1>3, <1>4 DEF UserStep

(* Nothing that is sent or asked for has had an effect before. *)
LEMMA UsersWithoutEffect ==
    ASSUME EndsInv, DeviceInv, Undisturbed, NEW u \in Users,
           UserStep(u)
    PROVE  NoEffectYet'
<1>. USE DEF Undisturbed, Going, At
<1>0. /\ ConnectionsType(Messages, Replies) /\ ClientsType
      /\ NoEffectYet /\ AllMade
  BY TypeParts DEF EndsInv, TypeInv, DeviceInv, ConnectionsInv
<1>1. effects' = effects /\ \A k \in Conns : outbox'[k] \in {outbox[k], <<>>}
  BY <1>0 DEF UserStep, Composes, HandleCommand, TypeNumber, MakeConnection, Connect, Choose,
         SendRequest, Request, SendExit, RequestAndHangup, HangsUp, Hangup, connections, history
<1>2. CASE MakeConnection(u)
  <2>1. PICK k \in Conns : Connect(k) /\ conn' = [conn EXCEPT ![u] = k]
    BY <1>2 DEF MakeConnection
  <2>2. effects[k] = {} /\ outbox[k] = <<>>
    BY <1>0, <2>1 DEF Connect, AllMade
  <2>. QED
    BY <1>0, <1>1, <1>2, <2>1, <2>2 DEF MakeConnection, NoEffectYet, ClientsType
<1>3. CASE Choose(u) \/ Composes(u) \/ SendRequest(u) \/ SendExit(u) \/ HangsUp(u)
  <2>1. conn' = conn
    BY <1>3 DEF Choose, Composes, HandleCommand, TypeNumber, SendRequest, SendExit, HangsUp
  <2>2. \A v \in Users : user'[v] \in {"asking", "typed", "typing", "ready"} =>
            user[v] \in {"asking", "typed", "typing", "ready"}
    BY <1>0, <1>3, Composing DEF Choose, SendRequest, SendExit, HangsUp, ClientsType, EndsInv
  <2>. QED
    BY <1>0, <1>1, <2>1, <2>2 DEF NoEffectYet
<1>. QED
  BY <1>2, <1>3 DEF UserStep

(* Who awaits an answer is answered, or gets on his way as he was. *)
LEMMA UsersProgress ==
    ASSUME EndsInv, DeviceInv, Undisturbed, NEW u \in Users,
           UserStep(u)
    PROVE  AwaitsProgress'
<1>. USE DEF Undisturbed, Going, At
<1>0. /\ ConnectionsType(Messages, Replies) /\ ClientsType /\ PlacesHold /\ OneClient /\ NoEffectYet
      /\ AwaitsProgress /\ AllMade
      /\ \A v \in Users : user[v] \in {"asking", "typed", "typing", "ready", "awaiting"} =>
             conn[v] \in Conns
      /\ NoConn \notin Conns
  BY TypeParts DEF EndsInv, TypeInv, DeviceInv, ConnectionsInv, PlacesHold, Busy, Conns, NoConn
<1>1. UNCHANGED <<listening, thread, fd, request, response, table, file, effects>>
  BY DEF UserStep, Composes, HandleCommand, TypeNumber, MakeConnection, Connect, Choose,
         SendRequest, Request, SendExit, RequestAndHangup, HangsUp, Hangup, server, history,
         connections
<1>2. \A i \in 1..Len(backlog) : i \in 1..Len(backlog') /\ backlog'[i] = backlog[i]
  <2>1. CASE MakeConnection(u)
    BY <1>0, <2>1 DEF MakeConnection, Connect, ConnectionsType
  <2>2. CASE Choose(u) \/ Composes(u) \/ SendRequest(u) \/ SendExit(u) \/ HangsUp(u)
    BY <2>2 DEF Choose, Composes, HandleCommand, TypeNumber, SendRequest, Request, SendExit,
                RequestAndHangup, HangsUp, Hangup, connections
  <2>. QED
    BY <2>1, <2>2 DEF UserStep
<1>3. \A k : Waiting(k) => Waiting(k)'
  BY <1>1, <1>2 DEF Waiting, Queued, On
<1>4. \A k \in Conns : InProgress(k) /\ outbox'[k] = outbox[k] => InProgress(k)'
  BY <1>1, <1>3 DEF InProgress, Answering, Answers, On
<1>5. ASSUME NEW v \in Users, NEW k \in Conns,
             user[v] = "awaiting", conn[v] = k, outbox'[k] = outbox[k]
      PROVE  IF listening' THEN InProgress(k)'
             ELSE (Answering(k) \/ (~Answers(k) /\ effects[k] = {}))'
  <2>1. CASE listening
    BY <1>0, <1>1, <1>4, <1>5, <2>1 DEF AwaitsProgress
  <2>2. CASE ~listening
    BY <1>0, <1>1, <1>5, <2>2 DEF AwaitsProgress, Answering, Answers
  <2>. QED
    BY <2>1, <2>2
<1>6. CASE MakeConnection(u) \/ Choose(u) \/ Composes(u) \/ SendExit(u)
  <2>1. outbox' = outbox
    BY <1>6 DEF MakeConnection, Connect, Choose, Composes, HandleCommand, TypeNumber, SendExit,
                RequestAndHangup, connections
  <2>2. \A v \in Users : user'[v] = "awaiting" => user[v] = "awaiting" /\ conn'[v] = conn[v]
    BY <1>0, <1>6, Composing DEF MakeConnection, Choose, SendExit, ClientsType, EndsInv
  <2>. QED
    BY <1>5, <2>1, <2>2 DEF AwaitsProgress
<1>7. CASE SendRequest(u)
  <2>1. UNCHANGED <<outbox, conn>>
    BY <1>7 DEF SendRequest, Request
  <2>2. \A v \in Users : user'[v] = "awaiting" => v = u \/ user[v] = "awaiting"
    BY <1>0, <1>7 DEF SendRequest, ClientsType
  <2>3. conn[u] \in Conns /\ effects[conn[u]] = {} /\ outbox[conn[u]] = <<>>
    BY <1>0, <1>7 DEF SendRequest, NoEffectYet
  <2>4. listening => Waiting(conn[u])
    <3>1. listening => Calm
      BY DEF Calm
    <3>. QED
      BY <1>7, <2>3, <3>1 DEF EndsInv, CalmInv, WaitedFor, SendRequest
  <2>5. \A k \in Conns : conn[u] = k => IF listening' THEN InProgress(k)'
                                        ELSE (~Answers(k) /\ effects[k] = {})'
    BY <1>1, <1>3, <2>1, <2>3, <2>4 DEF InProgress, Answers
  <2>. QED
    BY <1>5, <2>1, <2>2, <2>5 DEF AwaitsProgress
<1>8. CASE HangsUp(u)
  <2>1. conn' = conn /\ \A k \in Conns : k # conn[u] => outbox'[k] = outbox[k]
    BY <1>8 DEF HangsUp, Hangup
  <2>2. \A v \in Users : user'[v] = "awaiting" => v # u /\ user[v] = "awaiting"
    BY <1>0, <1>8 DEF HangsUp, ClientsType
  <2>3. \A v \in Users : user'[v] = "awaiting" => conn[v] # conn[u]
    BY <1>0, <1>8, <2>2 DEF HangsUp, Busy, OneClient
  <2>. QED
    BY <1>5, <2>1, <2>2, <2>3 DEF AwaitsProgress
<1>. QED
  BY <1>6, <1>7, <1>8 DEF UserStep

(* What was sent still has its sender. *)
LEMMA UsersSend ==
    ASSUME EndsInv, DeviceInv, Undisturbed, NEW u \in Users,
           UserStep(u), HangsUp(u) => ~listening \/ ~InHand(conn[u])
    PROVE  HasSender'
<1>. USE DEF Undisturbed, Going, At, Unread
<1>. SUFFICES ASSUME listening' PROVE HasSender'
  BY DEF HasSender
<1>0. /\ ConnectionsType(Messages, Replies) /\ ClientsType /\ ServerType /\ PlacesHold /\ OneClient
      /\ AllMade /\ OwnIds
      /\ \A v \in Users : user[v] \in {"asking", "typed", "typing", "ready", "awaiting"} =>
             conn[v] \in Conns
      /\ NoConn \notin Conns
  BY TypeParts DEF EndsInv, TypeInv, DeviceInv, ConnectionsInv, PlacesHold, Busy, Conns, NoConn
<1>1. UNCHANGED <<listening, thread, fd, request, table, file>>
  BY DEF UserStep, Composes, HandleCommand, TypeNumber, MakeConnection, Connect, Choose,
         SendRequest, Request, SendExit, RequestAndHangup, HangsUp, Hangup, server, history,
         connections
<1>2. listening /\ Calm /\ HasSender /\ KeepsDescriptor /\ WaitedFor
  BY <1>1 DEF DeviceInv, Calm, EndsInv, CalmInv
<1>3. ASSUME NEW v \in Users, NEW m, SentBy(v, m), v # u
      PROVE  SentBy(v, m)'
  BY <1>0, <1>3 DEF UserStep, MakeConnection, Choose, Composes, HandleCommand, TypeNumber,
                    SendRequest, SendExit, HangsUp, SentBy, ClientsType
<1>4. ASSUME NEW k \in Conns, InHand(k), NEW v \in Users, NEW m, SentBy(v, m), m.id = k
      PROVE  SentBy(v, m)'
  <2>1. CASE v # u
    BY <1>3, <1>4, <2>1
  <2>2. CASE v = u
    <3>1. user[u] = "awaiting" /\ conn[u] = k
      BY <1>4, <2>2 DEF SentBy
    <3>2. Choose(u) \/ MakeConnection(u) \/ Composes(u) \/ SendRequest(u) \/ SendExit(u) =>
              user[u] # "awaiting"
      BY DEF Choose, MakeConnection, Composes, HandleCommand, TypeNumber, SendRequest, SendExit
    <3>3. HangsUp(u)
      BY <3>1, <3>2 DEF UserStep
    <3>. QED
      BY <1>2, <1>4, <3>1, <3>3
  <2>. QED
    BY <2>1, <2>2
<1>5. \A a \in Acceptors : On(a, "handling")' /\ request'[a].menu # "0" =>
          \E v \in Users : SentBy(v, request[a])'
  <2>. SUFFICES ASSUME NEW a \in Acceptors, On(a, "handling"), request[a].menu # "0"
                PROVE  \E v \in Users : SentBy(v, request[a])'
    BY <1>1 DEF On
  <2>1. PICK v \in Users : SentBy(v, request[a])
    BY <1>2 DEF HasSender
  <2>2. request[a].id = table[fd[a]] /\ table[fd[a]] \in Conns
    BY <1>2 DEF KeepsDescriptor, Serves, On
  <2>3. InHand(table[fd[a]])
    BY DEF InHand, Serves, On
  <2>4. \A m : m = request[a] => SentBy(v, m)'
    BY <1>4, <2>1, <2>2, <2>3
  <2>. QED
    BY <1>1, <2>4 DEF SentBy
<1>6. ASSUME NEW k \in Conns, Waiting(k), inbox[k] # <<>>, Head(inbox[k]).menu # "0"
      PROVE  \E v \in Users : \A m : m = Head(inbox[k]) => SentBy(v, m)'
  <2>1. PICK v \in Users : SentBy(v, Head(inbox[k]))
    BY <1>2, <1>6 DEF HasSender
  <2>2. Head(inbox[k]).id = k /\ InHand(k)
    BY <1>0, <1>6 DEF OwnIds, InHand
  <2>3. \A m : m = Head(inbox[k]) => SentBy(v, m)'
    BY <1>4, <2>1, <2>2
  <2>. QED
    BY <2>3
<1>7. ASSUME NEW k \in Conns, Waiting(k)', inbox'[k] # <<>>, Head(inbox'[k]).menu # "0"
      PROVE  \E v \in Users : \A m : m = Head(inbox'[k]) => SentBy(v, m)'
  <2>1. ASSUME UNCHANGED backlog
        PROVE  Waiting(k)
    BY <1>1, <1>7, <2>1 DEF Waiting, Queued, On
  <2>2. CASE MakeConnection(u)
    <3>1. PICK j \in Conns : Connect(j)
      BY <2>2 DEF MakeConnection
    <3>2. inbox[j] = <<>> /\ inbox' = inbox
      BY <1>0, <3>1 DEF Connect, AllMade
    <3>3. /\ Len(backlog') = Len(backlog) + 1 /\ Len(backlog) \in Nat
          /\ \A i \in 1..Len(backlog) : backlog'[i] = backlog[i]
          /\ backlog'[Len(backlog) + 1] = j
      BY <1>0, <3>1 DEF Connect, ConnectionsType
    <3>4. \A i \in 1..Len(backlog') : i \in 1..Len(backlog) \/ i = Len(backlog) + 1
      BY <3>3
    <3>5. k # j
      BY <1>7, <3>2
    <3>6. Queued(k)' => Queued(k)
      BY <3>3, <3>4, <3>5 DEF Queued
    <3>7. Waiting(k)
      BY <1>1, <1>7, <3>6 DEF Waiting, On
    <3>. QED
      BY <1>6, <1>7, <3>2, <3>7
  <2>3. CASE Choose(u) \/ Composes(u) \/ HangsUp(u)
    <3>1. UNCHANGED <<backlog, inbox>>
      BY <2>3 DEF Choose, Composes, HandleCommand, TypeNumber, HangsUp, Hangup, connections
    <3>. QED
      BY <1>6, <1>7, <2>1, <3>1
  <2>4. CASE SendRequest(u)
    <3>. DEFINE m == asked[u]
    <3>1. Request(conn[u], m) /\ asked' = asked
      BY <2>4 DEF SendRequest
    <3>3. m.id = conn[u] /\ conn[u] \in Conns
      BY <1>0, <2>4 DEF SendRequest, PlacesHold
    <3>4. backlog' = backlog /\ inbox' = [inbox EXCEPT ![conn[u]] = <<m>>]
      BY <3>1 DEF Request
    <3>5. CASE k = conn[u]
      <4>1. Head(inbox'[k]) = m
        BY <1>0, <3>4, <3>5 DEF ConnectionsType
      <4>2. user'[u] = "awaiting" /\ asked'[u] = m /\ conn'[u] = m.id
        BY <1>0, <2>4, <3>1, <3>3 DEF SendRequest, ClientsType
      <4>. QED
        BY <4>1, <4>2 DEF SentBy
    <3>6. CASE k # conn[u]
      <4>1. inbox'[k] = inbox[k]
        BY <1>0, <3>4, <3>6 DEF ConnectionsType
      <4>. QED
        BY <1>6, <1>7, <2>1, <3>4, <4>1
    <3>. QED
      BY <3>5, <3>6
  <2>5. CASE SendExit(u)
    <3>1. PICK m \in MessagesOf("0", conn[u]) : RequestAndHangup(conn[u], m)
      BY <2>5 DEF SendExit
    <3>2. conn[u] \in Conns
      BY <1>0, <2>5 DEF SendExit
    <3>3. m.menu = "0"
      BY <3>2, MessagesMade DEF MenuItems
    <3>4. backlog' = backlog /\ inbox' = [inbox EXCEPT ![conn[u]] = <<m>>]
      BY <3>1 DEF RequestAndHangup
    <3>5. k # conn[u]
      BY <1>0, <1>7, <3>2, <3>3, <3>4 DEF ConnectionsType
    <3>6. inbox'[k] = inbox[k]
      BY <1>0, <3>4, <3>5 DEF ConnectionsType
    <3>. QED
      BY <1>6, <1>7, <2>1, <3>4, <3>6
  <2>. QED
    BY <2>2, <2>3, <2>4, <2>5 DEF UserStep
<1>8. \A k \in Conns : Waiting(k)' /\ inbox'[k] # <<>> /\ Head(inbox'[k]).menu # "0" =>
          \E v \in Users : SentBy(v, Head(inbox[k]))'
  <2>. TAKE k \in Conns
  <2>. HAVE Waiting(k)' /\ inbox'[k] # <<>> /\ Head(inbox'[k]).menu # "0"
  <2>1. PICK v \in Users : \A m : m = Head(inbox'[k]) => SentBy(v, m)'
    BY <1>7
  <2>2. user'[v] = "awaiting" /\ asked'[v] = Head(inbox'[k]) /\ conn'[v] = Head(inbox'[k]).id
    BY <2>1 DEF SentBy
  <2>. QED
    BY <2>2 DEF SentBy
<1>. QED
  BY <1>5, <1>8 DEF HasSender

(* A user's step keeps all of that. *)
LEMMA UserStepsDevice ==
    ASSUME EndsInv, DeviceInv, Undisturbed, NEW u \in Users,
           UserStep(u), HangsUp(u) => ~listening \/ ~InHand(conn[u])
    PROVE  DeviceInv'
BY UsersKeep, UsersWithoutEffect, UsersProgress, UsersSend DEF DeviceInv

(* What is written to who has read everything is what he reads next. *)
LEMMA FirstAppended == \A x : Append(<<>>, x) # <<>> /\ Head(Append(<<>>, x)) = x
<1>. TAKE x
<1>1. <<>> \in Seq({x}) /\ Len(<<>>) = 0
  OBVIOUS
<1>. QED
  BY <1>1, AppendProperties, HeadTailProperties

(* A thread's calm step keeps it, too. *)
LEMMA ThreadStepsDevice ==
    ASSUME EndsInv, EndsInv', DeviceInv, Undisturbed, listening, listening',
           NEW a \in Acceptors, CalmThreadStep(a)
    PROVE  DeviceInv'
<1>. USE DEF Undisturbed, Moves, Unread, At
<1>0. /\ ConnectionsType(Messages, Replies) /\ ServerType /\ ClientsType /\ PlacesHold
      /\ HistoryType /\ BusyOpen /\ OnePlace /\ OwnIds
      /\ OneUser /\ AskedAsChosen /\ NoEffectYet /\ AwaitsProgress /\ HasSender
  BY TypeParts DEF EndsInv, TypeInv, DeviceInv, ConnectionsInv
<1>1. Calm /\ KeepsDescriptor /\ WaitedFor /\ Calm' /\ KeepsDescriptor' /\ WaitedFor'
  BY DEF Calm, EndsInv, CalmInv
<1>2. UNCHANGED <<client, user, conn, asked, command, listening>>
  BY DEF CalmThreadStep, EnterRun, Accept, AcceptAs, Read, BeginRead, Got, EndRead, Handle,
         Reply, WriteTo, Closes, CloseNumber, connections, clients
<1>3. /\ \A b \in Acceptors \ {a} : thread[b] = "idle" /\ thread'[b] = "idle"
      /\ thread[a] \in {"handling", "replying"} => ~Waiting(table[fd[a]])
      /\ \A k : Waiting(k)' <=> Waiting(k) /\ ~(Got(a) /\ k = file[a])
  BY <1>1, WaitingMoves DEF EndsInv, On
<1>4. OneUser' /\ AskedAsChosen'
  BY <1>0, <1>2 DEF OneUser, AskedAsChosen, Choice
<1>5. ASSUME NEW k0, thread[a] \in {"handling", "replying"}, table[fd[a]] = k0,
             \A k \in Conns : k # k0 => effects'[k] = effects[k] /\ outbox'[k] = outbox[k]
      PROVE  NoEffectYet'
  <2>1. \A v \in Users, k \in Conns : user[v] \in {"asking", "typed", "typing", "ready"} /\ conn[v] = k => k # k0
    BY <1>1, <1>3, <1>5 DEF WaitedFor
  <2>. QED
    BY <1>0, <1>2, <1>5, <2>1 DEF NoEffectYet
<1>6. ASSUME UNCHANGED <<effects, outbox>>
      PROVE  NoEffectYet'
  BY <1>0, <1>2, <1>6 DEF NoEffectYet
<1>7. ASSUME \A v \in Users, k \in Conns : user[v] = "awaiting" /\ conn[v] = k /\ InProgress(k) =>
                 InProgress(k)'
      PROVE  AwaitsProgress'
  BY <1>0, <1>2, <1>7 DEF AwaitsProgress
<1>8. ASSUME NEW v, NEW m PROVE SentBy(v, m)' <=> SentBy(v, m)
  BY <1>2 DEF SentBy
<1>9. ASSUME UNCHANGED inbox, thread'[a] # "handling"
      PROVE  HasSender'
  BY <1>0, <1>2, <1>3, <1>9 DEF HasSender, SentBy, On
<1>10. InProgress(table[fd[a]]) /\ thread[a] = "handling" => effects[table[fd[a]]] = {}
  BY <1>1, <1>3 DEF InProgress, On, Answering, Answers, KeepsDescriptor, Serves
<1>11. InProgress(table[fd[a]]) /\ thread[a] = "replying" =>
           effects[table[fd[a]]] = {response[a].data}
  BY <1>1, <1>3 DEF InProgress, On, Answering, Answers, KeepsDescriptor, Serves
<1>12. ASSUME UNCHANGED <<effects, outbox>>, thread[a] \notin {"handling", "replying"}, ~Got(a)
       PROVE  \A k \in Conns : InProgress(k) => InProgress(k)'
  BY <1>3, <1>12 DEF InProgress, Answering, Answers, On
<1>13. CASE EnterRun(a) \/ Accept(a) \/ Read(a)
            \/ (Closes(a) /\ thread[a] \in {"answered", "closed"})
  <2>1. UNCHANGED <<effects, outbox, inbox>> /\ ~Got(a)
    BY <1>13 DEF EnterRun, Accept, AcceptAs, Read, BeginRead, Closes, CloseNumber, Got, On,
                 connections, history
  <2>2. thread'[a] # "handling" /\ thread[a] \notin {"handling", "replying"}
    BY <1>0, <1>13 DEF EnterRun, Accept, Read, Closes, On, ServerType
  <2>. QED
    BY <1>4, <1>6, <1>7, <1>9, <1>12, <2>1, <2>2 DEF DeviceInv
<1>14. CASE Got(a)
  <2>. USE <1>14 DEF Got, EndRead
  <2>1. /\ UNCHANGED <<effects, outbox, table, fd>> /\ thread'[a] = "handling"
        /\ request'[a] = Head(inbox[file[a]]) /\ thread[a] = "reading" /\ inbox[file[a]] # <<>>
    BY <1>0 DEF ServerType, history, On
  <2>2. file[a] = table[fd[a]] /\ file[a] \in Conns /\ Waiting(file[a])
    BY <1>0, <1>1 DEF PlacesHold, KeepsDescriptor, Waiting
  <2>3. \A k \in Conns : InProgress(k) => InProgress(k)'
    <3>. TAKE k \in Conns
    <3>. HAVE InProgress(k)
    <3>1. CASE k = file[a] /\ effects[k] = {}
      BY <2>1, <2>2, <3>1 DEF InProgress, On
    <3>2. CASE k = file[a] /\ effects[k] # {}
      BY <1>1, <1>3, <2>1, <2>2, <3>2 DEF InProgress, On, Answering, Answers, WaitedFor
    <3>3. CASE k # file[a]
      BY <1>3, <2>1, <3>3 DEF InProgress, Answering, Answers, On
    <3>. QED
      BY <3>1, <3>2, <3>3
  <2>4. \A k \in Conns : Waiting(k)' => Waiting(k) /\ inbox'[k] = inbox[k]
    BY <1>0, <1>3, <1>14 DEF ConnectionsType
  <2>5. request'[a].menu # "0" => \E v \in Users : SentBy(v, Head(inbox[file[a]]))
    BY <1>0, <2>1, <2>2 DEF HasSender
  <2>6. HasSender'
    <3>1. \A k \in Conns : Waiting(k)' /\ inbox'[k] # <<>> /\ Head(inbox'[k]).menu # "0" =>
              \E v \in Users : SentBy(v, Head(inbox[k]))
      BY <1>0, <2>4 DEF HasSender
    <3>2. \A b \in Acceptors : thread'[b] = "handling" => b = a
      BY <1>3
    <3>. QED
      BY <1>2, <2>1, <2>4, <2>5, <3>1, <3>2 DEF HasSender, SentBy, On
  <2>. QED
    BY <1>4, <1>6, <1>7, <2>1, <2>3, <2>6 DEF DeviceInv
<1>15. CASE Handle(a)
  <2>. DEFINE k0 == table[fd[a]]
  <2>1. /\ UNCHANGED <<outbox, inbox, table, fd>> /\ thread'[a] = "replying" /\ thread[a] = "handling"
        /\ response'[a] = [data |-> Answer(request[a]), id |-> request[a].id]
    BY <1>0, <1>15 DEF Handle, ServerType, connections, On
  <2>2. request[a].id = k0 /\ k0 \in Conns
    BY <1>1, <2>1 DEF KeepsDescriptor, On, Serves
  <2>3. effects'[k0] = {response'[a].data} /\ \A k \in Conns : k # k0 => effects'[k] = effects[k]
    BY <1>0, <1>15, <2>1, <2>2 DEF Handle, HistoryType
  <2>. HIDE DEF k0
  <2>4. \A k \in Conns : InProgress(k) => InProgress(k)'
    <3>. TAKE k \in Conns
    <3>. HAVE InProgress(k)
    <3>1. CASE k = k0
      BY <2>1, <2>3, <3>1 DEF InProgress, On, k0
    <3>2. CASE k # k0
      BY <1>3, <2>1, <2>3, <3>2 DEF InProgress, Answering, Answers, On, k0, Got
    <3>. QED
      BY <3>1, <3>2
  <2>5. \A k \in Conns : k # k0 => effects'[k] = effects[k] /\ outbox'[k] = outbox[k]
    BY <2>1, <2>3
  <2>6. k0 = table[fd[a]]
    BY DEF k0
  <2>7. NoEffectYet'
    BY <1>5, <2>1, <2>5, <2>6
  <2>. QED
    BY <1>4, <1>7, <1>9, <2>1, <2>4, <2>7 DEF DeviceInv
<1>16. CASE Reply(a)
  <2>. USE <1>16 DEF Reply, WriteTo
  <2>. DEFINE k0 == table[fd[a]]
  <2>1. /\ UNCHANGED <<effects, inbox, table, fd>> /\ thread'[a] = "answered" /\ thread[a] = "replying"
    BY <1>0 DEF ServerType, history, On
  <2>2. k0 \in Conns /\ outbox[k0] = <<>>
    BY <1>1, <2>1 DEF KeepsDescriptor, Serves
  <2>3. \A k \in Conns : k # k0 => outbox'[k] = outbox[k]
    BY <1>0 DEF ConnectionsType
  <2>4. client[k0] = "open" => outbox'[k0] = Append(<<>>, response[a])
    BY <1>0, <2>2 DEF ConnectionsType
  <2>5. ASSUME NEW v \in Users, NEW k \in Conns, k = k0,
               user[v] = "awaiting", conn[v] = k, InProgress(k)
        PROVE  InProgress(k)'
    <3>1. client[k0] = "open"
      BY <1>0, <2>5 DEF BusyOpen, Busy
    <3>2. outbox'[k] = Append(<<>>, response[a])
      BY <2>4, <2>5, <3>1
    <3>3. outbox'[k] # <<>> /\ Head(outbox'[k]) = response[a]
      BY <3>2, FirstAppended
    <3>4. effects'[k] = {response[a].data}
      BY <1>11, <2>1, <2>5
    <3>. QED
      BY <3>3, <3>4 DEF InProgress, Answering, Answers
  <2>. HIDE DEF k0
  <2>6. \A k \in Conns : k # k0 /\ InProgress(k) => InProgress(k)'
    BY <1>3, <2>1, <2>3 DEF InProgress, Answering, Answers, On, k0, Got
  <2>7. NoEffectYet'
    BY <1>5, <2>1, <2>3 DEF k0
  <2>8. \A v \in Users, k \in Conns : user[v] = "awaiting" /\ conn[v] = k /\ InProgress(k) =>
            InProgress(k)'
    BY <2>5, <2>6
  <2>9. AwaitsProgress'
    BY <1>7, <2>8
  <2>10. HasSender'
    BY <1>9, <2>1
  <2>. QED
    BY <1>4, <2>7, <2>9, <2>10 DEF DeviceInv
<1>. QED
  BY <1>13, <1>14, <1>15, <1>16 DEF CalmThreadStep


(* The server that exits leaves requests without an effect, and answers. *)
LEMMA ExitStepsDevice ==
    ASSUME EndsInv, DeviceInv, Undisturbed, NEW a \in Acceptors, HandleExit(a)
    PROVE  DeviceInv'
<1>. USE DEF Undisturbed, At, On
<1>0. /\ OneUser /\ AskedAsChosen /\ NoEffectYet /\ AwaitsProgress /\ HasSender
      /\ OneThread
  BY DEF DeviceInv, EndsInv
<1>1. /\ UNCHANGED <<user, conn, asked, command, effects, outbox>>
      /\ listening /\ ~listening' /\ thread[a] = "handling"
  BY DEF HandleExit, EndServer, StopListening, clients
<1>2. KeepsDescriptor /\ WaitedFor /\ \A b \in Acceptors : thread[b] # "replying"
  BY <1>0, <1>1 DEF EndsInv, CalmInv, Calm, OneThread
<1>3. \A k \in Conns : InProgress(k) => Answering(k) \/ (outbox[k] = <<>> /\ effects[k] = {})
  BY <1>2 DEF InProgress, WaitedFor, KeepsDescriptor, Serves
<1>4. AwaitsProgress'
  BY <1>0, <1>1, <1>3 DEF AwaitsProgress, Answering, Answers
<1>. QED
  BY <1>0, <1>1, <1>4 DEF DeviceInv, OneUser, AskedAsChosen, Choice, NoEffectYet, HasSender

(* A client that ends when the server is gone takes only what is its own. *)
LEMMA ClientEndsDevice ==
    ASSUME EndsInv, DeviceInv, Undisturbed, NEW p, NEW why, EndClient(p, why), ~listening
    PROVE  DeviceInv'
<1>. USE DEF Undisturbed, At
<1>0. /\ OneUser /\ AskedAsChosen /\ NoEffectYet /\ AwaitsProgress
      /\ OneClient /\ ClientsType /\ ConnectionsType(Messages, Replies) /\ NoConn \notin Conns
  BY TypeParts DEF DeviceInv, EndsInv, TypeInv, ConnectionsInv, Conns, NoConn
<1>. DEFINE S == {conn[u] : u \in {v \in Users : Process[v] = p}}
<1>1. /\ UNCHANGED <<conn, asked, command, effects, listening>>
      /\ user' = [u \in Users |-> IF Process[u] = p THEN "gone" ELSE user[u]]
      /\ \A k \in Conns : outbox'[k] = IF k \in S THEN <<>> ELSE outbox[k]
  BY DEF EndClient, Hangup
<1>2. \A v \in Users : user'[v] # "gone" => user'[v] = user[v] /\ Process[v] # p
  BY <1>1
<1>3. \A v \in Users : Process[v] # p /\ conn[v] \in Conns => conn[v] \notin S
  BY <1>0 DEF OneClient
<1>4. \A k \in Conns : outbox'[k] \in {outbox[k], <<>>} /\ (k \notin S => outbox'[k] = outbox[k])
  BY <1>1
<1>. HIDE DEF S
<1>5. NoEffectYet'
  BY <1>0, <1>1, <1>2, <1>4 DEF NoEffectYet
<1>6. AskedAsChosen'
  BY <1>0, <1>1, <1>2 DEF AskedAsChosen, Choice
<1>7. ASSUME NEW v \in Users, NEW k \in Conns, user'[v] = "awaiting", conn'[v] = k
      PROVE  (Answering(k) \/ (~Answers(k) /\ effects[k] = {}))'
  <2>1. user[v] = "awaiting" /\ conn[v] = k /\ outbox'[k] = outbox[k] /\ effects'[k] = effects[k]
    BY <1>1, <1>2, <1>3, <1>4, <1>7
  <2>2. Answering(k) \/ (~Answers(k) /\ effects[k] = {})
    BY <1>0, <2>1 DEF AwaitsProgress
  <2>. QED
    BY <2>1, <2>2 DEF Answering, Answers
<1>8. AwaitsProgress'
  BY <1>1, <1>7 DEF AwaitsProgress
<1>. QED
  BY <1>0, <1>1, <1>5, <1>6, <1>8 DEF DeviceInv, OneUser, HasSender

(* So every step keeps it. *)
LEMMA DeviceSteps == EndsInv /\ DeviceInv /\ [Next]_vars => DeviceInv'
<1>. SUFFICES ASSUME EndsInv, DeviceInv, [Next]_vars, trouble' = {} PROVE DeviceInv'
  BY DEF DeviceInv
<1>0. Undisturbed /\ EndsInv' /\ TypeInv /\ ClientsType
  BY TroubleStays, EndsSteps, TypeParts DEF Undisturbed, EndsInv, TypeInv
<1>1. CASE UNCHANGED vars
  <2>. USE <1>1 DEF vars, connections, server, clients, history
  <2>1. OneUser' = OneUser /\ AskedAsChosen' = AskedAsChosen /\ NoEffectYet' = NoEffectYet
    BY DEF OneUser, AskedAsChosen, Choice, At, NoEffectYet
  <2>2. (AwaitsProgress <=> AwaitsProgress') /\ (HasSender <=> HasSender')
    BY DEF AwaitsProgress, InProgress, Answering, Answers, Waiting, Queued, HasSender, SentBy, At,
           On, Unread
  <2>. QED
    BY <2>1, <2>2 DEF DeviceInv
<1>2. CASE listening'
  <2>1. Calm' /\ Calm /\ listening
    BY <1>0, <1>2, TroubleStays DEF Calm, Undisturbed
  <2>2. \/ \E u \in Users : CalmUserStep(u)
        \/ \E a \in Acceptors : CalmThreadStep(a)
        \/ UNCHANGED vars
    BY <2>1, CalmSteps DEF EndsInv
  <2>3. ASSUME NEW u \in Users, CalmUserStep(u)
        PROVE  DeviceInv'
    <3>1. UserStep(u)
      BY <2>3 DEF CalmUserStep, UserStep
    <3>2. MakeConnection(u) \/ Choose(u) \/ Composes(u) \/ SendRequest(u) \/ SendExit(u) =>
              ~HangsUp(u)
      BY <1>0 DEF MakeConnection, Choose, Composes, HandleCommand, TypeNumber, SendRequest, SendExit,
                  HangsUp, Going, ClientsType
    <3>3. HangsUp(u) => ~InHand(conn[u])
      BY <2>3, <3>2 DEF CalmUserStep
    <3>. QED
      BY <1>0, <3>1, <3>3, UserStepsDevice
  <2>. QED
    BY <1>0, <1>1, <1>2, <2>1, <2>2, <2>3, ThreadStepsDevice
<1>3. CASE ~listening'
  <2>1. ASSUME NEW u \in Users, UserStep(u)
        PROVE  DeviceInv'
    <3>1. listening' = listening
      BY <2>1 DEF UserStep, Composes, HandleCommand, TypeNumber, MakeConnection, Connect, Choose,
                  SendRequest, Request, SendExit, RequestAndHangup, HangsUp, Hangup, connections
    <3>. QED
      BY <1>0, <1>3, <2>1, <3>1, UserStepsDevice
  <2>2. ASSUME NEW u \in Users, ClientStep(u)
        PROVE  DeviceInv'
    <3>1. CASE Refused(u)
      BY <1>0, <3>1, ClientEndsDevice DEF Refused
    <3>2. CASE SendFails(u) /\ At(u, "typed")
      <4>1. EndClient(Process[u], "unsent")
        BY <3>2 DEF SendFails, At
      <4>2. ~listening
        BY <1>3, <4>1 DEF EndClient, Hangup
      <4>. QED
        BY <1>0, <4>1, <4>2, ClientEndsDevice
    <3>3. CASE \/ MakeConnection(u) \/ Choose(u) \/ Composes(u) \/ SendRequest(u) \/ SendExit(u)
               \/ (SendFails(u) /\ ~At(u, "typed")) \/ Receive(u) \/ Miss(u)
      BY <1>0, <2>1, <3>3, HangupsAreSteps DEF UserStep
    <3>. QED
      BY <2>2, <3>1, <3>2, <3>3 DEF ClientStep, Types, Called, Composes
  <2>3. ASSUME NEW a \in Acceptors, EnterRun(a) \/ Serve(a)
        PROVE  DeviceInv'
    <3>1. listening
      BY <1>0, <2>3 DEF EndsInv, AllGone, EnterRun, Serve, Accept, Read, Got, GotNothing,
             BadDescriptor, Handle, HandleExit, Crash, Racing, UsesEmergencies, Reply, Close,
             Destroy, Unwind, On
    <3>2. ~Crash(a)
      BY <1>0, <3>1 DEF EndsInv, OneThread, Crash, Racing, UsesEmergencies, On, Undisturbed
    <3>3. HandleExit(a) \/ Crash(a)
      BY <1>3, <2>3, <3>1 DEF EnterRun, Serve, Accept, AcceptAs, Read, BeginRead, Got, GotNothing,
             EndRead, BadDescriptor, Handle, Reply, WriteTo, Close, Destroy, Unwind, CloseNumber,
             connections
    <3>. QED
      BY <1>0, <3>2, <3>3, ExitStepsDevice
  <2>4. \A p \in Mortal : ~Kill(p)
    BY <1>0 DEF Kill, Undisturbed
  <2>. QED
    BY <1>1, <2>2, <2>3, <2>4 DEF Next, ClientStep
<1>. QED
  BY <1>2, <1>3

-----------------------------------------------------------------------------
(* The device that the users see.                                           *)

CallOf == [u \in Users |-> IF At(u, "awaiting") THEN {asked[u]} ELSE {}]
EffectOf == [u \in Users |-> IF At(u, "awaiting") THEN effects[conn[u]] ELSE {}]

\* A step neither begins nor ends what a user has called, nor gives it an effect.
NotAboutCall(u) ==
    /\ user'[u] = "awaiting" <=> user[u] = "awaiting"
    /\ user[u] = "awaiting" => /\ asked'[u] = asked[u] /\ conn'[u] = conn[u]
                               /\ effects'[conn[u]] = effects[conn[u]]

(* Then its call is as it was. *)
LEMMA CallKept ==
    ASSUME NEW u \in Users, NotAboutCall(u)
    PROVE  CallOf'[u] = CallOf[u] /\ EffectOf'[u] = EffectOf[u]
<1>1. CallOf'[u] = CallOf[u]
  BY DEF CallOf, NotAboutCall, At
<1>2. EffectOf'[u] = EffectOf[u]
  BY DEF EffectOf, NotAboutCall, At
<1>. QED
  BY <1>1, <1>2

(* A step that is about one user's call changes the device at that user. *)
LEMMA CallChanges ==
    ASSUME NEW u \in Users, \A v \in Users \ {u} : NotAboutCall(v)
    PROVE  /\ CallOf' = [CallOf EXCEPT ![u] = CallOf'[u]]
           /\ EffectOf' = [EffectOf EXCEPT ![u] = EffectOf'[u]]
<1>1. \A v \in Users \ {u} : CallOf'[v] = CallOf[v] /\ EffectOf'[v] = EffectOf[v]
  BY CallKept
<1>2. CallOf' = [v \in Users |-> CallOf'[v]] /\ CallOf = [v \in Users |-> CallOf[v]]
  BY DEF CallOf
<1>3. EffectOf' = [v \in Users |-> EffectOf'[v]] /\ EffectOf = [v \in Users |-> EffectOf[v]]
  BY DEF EffectOf
<1>. QED
  BY <1>1, <1>2, <1>3

(* And one that is about nobody's leaves all of it. *)
LEMMA CallsKept ==
    ASSUME \A v \in Users : NotAboutCall(v)
    PROVE  CallOf' = CallOf /\ EffectOf' = EffectOf
<1>1. \A v \in Users : CallOf'[v] = CallOf[v] /\ EffectOf'[v] = EffectOf[v]
  BY CallKept
<1>2. CallOf' = [v \in Users |-> CallOf'[v]] /\ CallOf = [v \in Users |-> CallOf[v]]
  BY DEF CallOf
<1>3. EffectOf' = [v \in Users |-> EffectOf'[v]] /\ EffectOf = [v \in Users |-> EffectOf[v]]
  BY DEF EffectOf
<1>. QED
  BY <1>1, <1>2, <1>3

(* The device does not notice such a step. *)
LEMMA Unnoticed ==
    ASSUME Undisturbed, UNCHANGED <<frequency, power, emergencies, told, listening>>,
           \A v \in Users : NotAboutCall(v)
    PROVE  UNCHANGED Device!vars
<1>1. CallOf' = CallOf /\ EffectOf' = EffectOf
  BY CallsKept
<1>. QED
  BY <1>1 DEF Device!vars, CallOf, EffectOf, Undisturbed

(* At the start nothing is called. *)
LEMMA InitImplements == Init => Device!Init
BY DEF Init, ConnectionsInit, Device!Init, At

(* Connecting, choosing, typing and giving up before anything was sent is   *)
(* unnoticed, and so is what ends a client as long as nothing is disturbed. *)
LEMMA UsersUnnoticed ==
    ASSUME EndsInv, DeviceInv, Undisturbed, NEW u \in Users,
           \/ MakeConnection(u) \/ Refused(u) \/ Choose(u) \/ Composes(u)
           \/ SendExit(u) \/ SendFails(u)
    PROVE  UNCHANGED Device!vars
<1>. USE DEF At, Going, NotAboutCall
<1>0. /\ ClientsType /\ PlacesHold /\ OneUser /\ NoConn \notin Conns
      /\ \A v \in Users : user[v] \in {"asking", "typed", "typing", "ready", "awaiting"} =>
             conn[v] \in Conns
  BY TypeParts DEF EndsInv, TypeInv, DeviceInv, Undisturbed, PlacesHold, Busy, Conns, NoConn
<1>1. UNCHANGED <<frequency, power, emergencies, told, listening, effects>>
  BY DEF MakeConnection, Connect, Refused, EndClient, Choose, Composes, HandleCommand, TypeNumber,
         SendExit, RequestAndHangup, SendFails, Hangup, device, clients, history, connections
<1>2. CASE \/ MakeConnection(u) \/ Choose(u) \/ Composes(u) \/ SendExit(u)
           \/ (SendFails(u) /\ ~At(u, "typed"))
  <2>1. \A v \in Users : NotAboutCall(v)
    BY <1>0, <1>1, <1>2 DEF MakeConnection, Choose, Composes, HandleCommand, TypeNumber, SendExit,
                            SendFails, ClientsType
  <2>. QED
    BY <1>1, <2>1, Unnoticed
<1>3. CASE Refused(u) \/ (SendFails(u) /\ At(u, "typed"))
  <2>1. /\ UNCHANGED <<conn, asked>>
        /\ user' = [v \in Users |-> IF Process[v] = Process[u] THEN "gone" ELSE user[v]]
    BY <1>3 DEF Refused, SendFails, EndClient
  <2>2. \A v \in Users : Process[v] = Process[u] => user[v] # "awaiting"
    <3>1. CASE Refused(u)
      BY <1>0, <3>1 DEF Refused, ComesSecond, Undisturbed
    <3>2. CASE SendFails(u) /\ At(u, "typed")
      BY <1>0, <3>2 DEF OneUser
    <3>. QED
      BY <1>3, <3>1, <3>2
  <2>3. \A v \in Users : NotAboutCall(v)
    BY <1>1, <2>1, <2>2
  <2>. QED
    BY <1>1, <2>3, Unnoticed
<1>. QED
  BY <1>2, <1>3

(* A request that is sent is a call. *)
LEMMA SendImplements ==
    ASSUME EndsInv, DeviceInv, Undisturbed, NEW u \in Users, SendRequest(u)
    PROVE  Device!Call(u)
<1>. USE DEF At, Going
<1>0. /\ ClientsType /\ PlacesHold /\ NoEffectYet /\ conn[u] \in Conns
  BY TypeParts DEF EndsInv, TypeInv, DeviceInv, Undisturbed, PlacesHold, Busy, SendRequest
<1>. DEFINE m == asked[u]
<1>1. Request(conn[u], m) /\ asked' = asked
  BY DEF SendRequest
<1>2. m \in Messages
  BY <1>0 DEF SendRequest, PlacesHold
<1>3. /\ UNCHANGED <<frequency, power, emergencies, told, listening, conn, effects>>
      /\ user' = [user EXCEPT ![u] = "awaiting"] /\ user[u] = "ready"
  BY <1>1 DEF SendRequest, Request, device, history
<1>4. \A v \in Users \ {u} : NotAboutCall(v)
  BY <1>0, <1>1, <1>3 DEF NotAboutCall, ClientsType
<1>5. CallOf[u] = {} /\ CallOf'[u] = {m} /\ EffectOf[u] = {} /\ EffectOf'[u] = {}
  BY <1>0, <1>1, <1>3 DEF CallOf, EffectOf, NoEffectYet, ClientsType
<1>6. CallOf' = [CallOf EXCEPT ![u] = {m}] /\ EffectOf' = [EffectOf EXCEPT ![u] = EffectOf'[u]]
  BY <1>4, <1>5, CallChanges
<1>7. EffectOf' = EffectOf
  BY <1>5, <1>6 DEF EffectOf
<1>. QED
  BY <1>2, <1>3, <1>5, <1>6, <1>7 DEF Device!Call, CallOf, EffectOf, Undisturbed

(* What is on its way to the thread has no answer, and is served. *)
LEMMA OnItsWay ==
    ASSUME EndsInv, listening, trouble = {}, NEW k \in Conns, InProgress(k)
    PROVE  (Served(k) /\ ~Answers(k)) \/ Answering(k)
<1>0. ServerType /\ KeepsDescriptor /\ WaitedFor
  BY TypeParts DEF EndsInv, TypeInv, CalmInv, Calm
<1>1. Waiting(k) => Served(k) /\ ~Answers(k)
  BY <1>0, WaitingIsServed DEF EndsInv, WaitedFor, Answers
<1>2. \A a \in Acceptors : Serves(a) /\ table[fd[a]] = k => Served(k) /\ ~Answers(k)
  BY <1>0 DEF KeepsDescriptor, Served, Answers, ServerType
<1>. QED
  BY <1>1, <1>2 DEF InProgress, Serves, On

(* When a call is over the device has it no longer. *)
LEMMA CallOver ==
    ASSUME EndsInv, Undisturbed, NEW u \in Users, HangsUp(u), user[u] = "awaiting"
    PROVE  Device!Over(u)
<1>0. ClientsType
  BY TypeParts DEF EndsInv, TypeInv
<1>1. /\ UNCHANGED <<frequency, power, emergencies, listening, conn, asked, effects>>
      /\ user' = [user EXCEPT ![u] = "connecting"]
  BY DEF HangsUp, Hangup, device, Going
<1>2. \A v \in Users \ {u} : NotAboutCall(v)
  BY <1>0, <1>1 DEF NotAboutCall, ClientsType
<1>3. CallOf'[u] = {} /\ EffectOf'[u] = {}
  BY <1>0, <1>1 DEF CallOf, EffectOf, ClientsType, At
<1>4. CallOf' = [CallOf EXCEPT ![u] = {}] /\ EffectOf' = [EffectOf EXCEPT ![u] = {}]
  BY <1>2, <1>3, CallChanges
<1>. QED
  BY <1>1, <1>4 DEF Device!Over, CallOf, EffectOf, Undisturbed

(* An answer that is read is what came of the call. *)
LEMMA ReceiveImplements ==
    ASSUME EndsInv, DeviceInv, Undisturbed, NEW u \in Users, Receive(u)
    PROVE  Device!Return(u)
<1>. USE DEF At
<1>0. /\ conn[u] \in Conns /\ user[u] = "awaiting" /\ AwaitsProgress /\ AskedAsChosen
      /\ Answers(conn[u])
  BY DEF EndsInv, TypeInv, PlacesHold, DeviceInv, Undisturbed, Receive, Busy, TakeAnswer
<1>1. Device!Over(u)
  BY <1>0, HangupsAreSteps, CallOver DEF EndsInv
<1>2. effects[conn[u]] = {Head(outbox[conn[u]]).data}
  BY <1>0, OnItsWay DEF AwaitsProgress, Answering, Undisturbed
<1>3. asked[u] \in CallOf[u] /\ Head(outbox[conn[u]]).data \in EffectOf[u]
  BY <1>0, <1>2 DEF CallOf, EffectOf
<1>4. Device!Show(u, asked[u], Head(outbox[conn[u]]).data)
  BY <1>0 DEF Device!Show, Receive, Tell, AskedAsChosen
<1>. QED
  BY <1>1, <1>3, <1>4 DEF Device!Return, CallOf, EffectOf

(* An answer that never comes is that of a server which is gone, and there   *)
(* was no effect.                                                            *)
LEMMA MissImplements ==
    ASSUME EndsInv, DeviceInv, Undisturbed, NEW u \in Users, Miss(u)
    PROVE  Device!Fail(u)
<1>. USE DEF At
<1>0. /\ conn[u] \in Conns /\ user[u] = "awaiting" /\ AwaitsProgress /\ AskedAsChosen
      /\ ~Answers(conn[u]) /\ ~Served(conn[u])
  BY DEF EndsInv, TypeInv, PlacesHold, DeviceInv, Undisturbed, Miss, Busy
<1>1. Device!Over(u)
  BY <1>0, HangupsAreSteps, CallOver DEF EndsInv
<1>2. ~listening
  BY <1>0, OnItsWay DEF AwaitsProgress, Answering, Undisturbed
<1>3. effects[conn[u]] = {}
  BY <1>0, <1>2 DEF AwaitsProgress, Answering
<1>4. asked[u] \in CallOf[u] /\ EffectOf[u] = {}
  BY <1>0, <1>3 DEF CallOf, EffectOf
<1>5. Device!Show(u, asked[u], <<>>) \/ told' = told
  BY <1>0 DEF Device!Show, Miss, Tell, AskedAsChosen
<1>. QED
  BY <1>1, <1>2, <1>4, <1>5 DEF Device!Fail, CallOf, EffectOf

(* The thread that moves a connection on is unnoticed. *)
LEMMA ThreadsUnnoticed ==
    ASSUME Undisturbed, NEW a \in Acceptors,
           \/ EnterRun(a) \/ Accept(a) \/ Read(a) \/ Got(a) \/ GotNothing(a)
           \/ BadDescriptor(a) \/ Reply(a) \/ Close(a) \/ Destroy(a) \/ Unwind(a)
    PROVE  UNCHANGED Device!vars
<1>1. UNCHANGED <<device, clients, effects, listening>>
  BY DEF EnterRun, Accept, AcceptAs, Read, BeginRead, Got, GotNothing, EndRead, BadDescriptor,
         Reply, WriteTo, Close, Destroy, Unwind, CloseNumber, connections, history
<1>. QED
  BY <1>1, Unnoticed DEF NotAboutCall, device, clients

(* The device removes from its list what the server does. *)
LEMMA SameWithout == \A s, x : Device!Without(s, x) = Without(s, x)
<1>. TAKE s, x
<1>1. \A S : Device!Cardinality(S) = Cardinality(S)
  BY Zenon DEF Device!Cardinality, Cardinality
<1>2. Device!Kept(s, x) = Kept(s, x)
  BY DEF Device!Kept, Kept
<1>3. \A i : Device!Upto(s, x, i) = Upto(s, x, i)
  BY <1>1, <1>2 DEF Device!Upto, Upto
<1>. DEFINE C(j) == CHOOSE i \in Device!Kept(s, x) : Device!Upto(s, x, i) = j
            D(j) == CHOOSE i \in Kept(s, x) : Upto(s, x, i) = j
            M == 1..Device!Cardinality(Device!Kept(s, x))
            N == 1..Cardinality(Kept(s, x))
<1>4. (\A j : C(j) = D(j)) /\ M = N
  BY <1>1, <1>2, <1>3
<1>5. Device!Without(s, x) = [j \in M |-> s[C(j)]] /\ Without(s, x) = [j \in N |-> s[D(j)]]
  BY DEF Device!Without, Without
<1>. HIDE DEF C, D, M, N
<1>. QED
  BY <1>4, <1>5

(* A request that is handled takes effect, once, for who sent it. *)
LEMMA HandleImplements ==
    ASSUME EndsInv, DeviceInv, Undisturbed, NEW a \in Acceptors, Handle(a)
    PROVE  \E u \in Users : Device!Perform(u)
<1>. USE DEF At, On
<1>. DEFINE m == request[a]
<1>0. /\ ClientsType /\ HistoryType /\ PlacesHold /\ OneClient /\ OneThread /\ AwaitsProgress
      /\ HasSender /\ thread[a] = "handling" /\ m \in Messages /\ NoConn \notin Conns
  BY TypeParts DEF EndsInv, TypeInv, ConnectionsInv, DeviceInv, Undisturbed, Handle, PlacesHold,
                   Conns, NoConn
<1>1. listening
  BY <1>0 DEF EndsInv, AllGone
<1>2. KeepsDescriptor /\ WaitedFor
  BY <1>1 DEF EndsInv, CalmInv, Calm, Undisturbed
<1>3. m.menu # "0"
  BY <1>0, MessageType DEF Handle
<1>4. PICK u \in Users : SentBy(u, m)
  BY <1>0, <1>1, <1>3 DEF HasSender
<1>5. /\ user[u] = "awaiting" /\ asked[u] = m /\ conn[u] = m.id
      /\ m.id = table[fd[a]] /\ m.id \in Conns /\ outbox[m.id] = <<>>
  BY <1>0, <1>2, <1>4, MessageType DEF SentBy, KeepsDescriptor, Serves
<1>6. \A b \in Acceptors : thread[b] # "replying"
  BY <1>0, <1>1 DEF OneThread, Undisturbed
<1>7. effects[m.id] = {}
  BY <1>0, <1>1, <1>5, <1>6 DEF AwaitsProgress, InProgress, Answering, Answers
<1>8. ~Racing(a)
  BY <1>0, <1>1 DEF OneThread, Undisturbed, Racing, UsesEmergencies
<1>9. /\ UNCHANGED <<listening, user, conn, asked, told>>
      /\ effects' = [effects EXCEPT ![m.id] = {Answer(m)}]
  BY DEF Handle, connections, clients
<1>10. \A v \in Users \ {u} : NotAboutCall(v)
  <2>1. \A v \in Users \ {u} : conn[v] # m.id
    BY <1>0, <1>5 DEF OneClient
  <2>2. \A v \in Users : user[v] = "awaiting" => conn[v] \in Conns
    BY <1>0 DEF PlacesHold, Busy
  <2>. QED
    BY <1>0, <1>9, <2>1, <2>2 DEF NotAboutCall, HistoryType
<1>11. CallOf[u] = {m} /\ CallOf'[u] = {m} /\ EffectOf[u] = {} /\ EffectOf'[u] = {Answer(m)}
  BY <1>0, <1>5, <1>7, <1>9 DEF CallOf, EffectOf, HistoryType
<1>12. CallOf' = CallOf /\ EffectOf' = [EffectOf EXCEPT ![u] = {Answer(m)}]
  <2>1. CallOf' = [CallOf EXCEPT ![u] = CallOf[u]]
    BY <1>10, <1>11, CallChanges
  <2>2. CallOf' = CallOf
    BY <2>1 DEF CallOf
  <2>. QED
    BY <1>10, <1>11, <2>2, CallChanges
<1>13. Device!Result(m) = Answer(m)
  BY DEF Device!Result, Answer
<1>14. /\ frequency' = IF Device!Sets(m, "SET_FREQUENCY") THEN m.data[1] ELSE frequency
       /\ power' = IF Device!Sets(m, "SET_POWER") THEN m.data[1] ELSE power
       /\ emergencies' = IF Device!Sets(m, "RAISE_EMERGENCY") THEN Append(emergencies, m.data[1])
                         ELSE IF Device!Sets(m, "CLEAR_EMERGENCY")
                         THEN Device!Without(emergencies, m.data[1])
                         ELSE emergencies
       /\ m.command # "EXIT"
  BY <1>8, SameWithout DEF Handle, Carries, Emergencies, Device!Sets
<1>. HIDE DEF m
<1>15. /\ m \in CallOf[u] /\ EffectOf[u] = {}
       /\ EffectOf' = [EffectOf EXCEPT ![u] = {Device!Result(m)}]
       /\ CallOf' = CallOf /\ told' = told /\ ~(~listening)
       /\ (~listening)' = ~listening /\ (trouble # {})' = (trouble # {})
  BY <1>1, <1>9, <1>11, <1>12, <1>13 DEF Undisturbed
<1>16. Device!Perform(u)
  BY <1>14, <1>15 DEF Device!Perform, CallOf, EffectOf
<1>. QED
  BY <1>16

(* The server that exits is the device that stops. *)
LEMMA ExitImplements ==
    ASSUME Undisturbed, NEW a \in Acceptors, HandleExit(a)
    PROVE  Device!Stop
<1>1. UNCHANGED <<device, clients, effects>> /\ ~listening'
  BY DEF HandleExit, EndServer, StopListening
<1>2. CallOf' = CallOf /\ EffectOf' = EffectOf
  BY <1>1, CallsKept DEF NotAboutCall, clients
<1>. QED
  BY <1>1, <1>2 DEF Device!Stop, CallOf, EffectOf, Undisturbed, device, clients

(* Each step of the sockets is a step of the device, or none. *)
LEMMA StepsImplement == EndsInv /\ DeviceInv /\ [Next]_vars => [Device!Next]_(Device!vars)
<1>. SUFFICES ASSUME EndsInv, DeviceInv, [Next]_vars PROVE [Device!Next]_(Device!vars)
  OBVIOUS
<1>1. CASE trouble' # {}
  BY <1>1 DEF Device!Next, Device!Disturb
<1>2. CASE trouble' = {}
  <2>0. Undisturbed
    BY <1>2, TroubleStays DEF Undisturbed
  <2>1. ASSUME NEW u \in Users, ClientStep(u)
        PROVE  [Device!Next]_(Device!vars)
    <3>1. CASE \/ MakeConnection(u) \/ Refused(u) \/ Choose(u) \/ Composes(u)
               \/ SendExit(u) \/ SendFails(u)
      BY <2>0, <3>1, UsersUnnoticed
    <3>2. CASE SendRequest(u)
      BY <2>0, <3>2, SendImplements DEF Device!Next
    <3>3. CASE Receive(u)
      BY <2>0, <3>3, ReceiveImplements DEF Device!Next
    <3>4. CASE Miss(u)
      BY <2>0, <3>4, MissImplements DEF Device!Next
    <3>. QED
      BY <2>1, <3>1, <3>2, <3>3, <3>4 DEF ClientStep, Types, Called, Composes
  <2>2. ASSUME NEW a \in Acceptors, EnterRun(a) \/ Serve(a)
        PROVE  [Device!Next]_(Device!vars)
    <3>1. CASE Handle(a)
      BY <2>0, <3>1, HandleImplements DEF Device!Next
    <3>2. CASE HandleExit(a)
      BY <2>0, <3>2, ExitImplements DEF Device!Next
    <3>3. ~Crash(a)
      BY <2>0 DEF EndsInv, OneThread, Crash, EndServer, StopListening, Racing, UsesEmergencies,
                  On, Undisturbed
    <3>. QED
      BY <2>0, <2>2, <3>1, <3>2, <3>3, ThreadsUnnoticed DEF Serve
  <2>3. \A p \in Mortal : ~Kill(p)
    BY <2>0 DEF Kill, Undisturbed
  <2>4. CASE UNCHANGED vars
    BY <2>0, <2>4, Unnoticed DEF vars, connections, device, clients, history, NotAboutCall
  <2>. QED
    BY <2>1, <2>2, <2>3, <2>4 DEF Next, ClientStep
<1>. QED
  BY <1>1, <1>2

(* The server and its clients implement the atomic device, for any users,   *)
(* processes, menus and threads: as long as one thread runs the server's    *)
(* loop, each Transport has one user and nobody is killed, each request     *)
(* takes effect once, and its answer is shown to the user who sent it.      *)
THEOREM Implements == Spec => ImplementsDevice
<1>1. Init => EndsInv /\ DeviceInv
  BY InitType, InitConnections, InitThreads, InitDevice DEF EndsInv
<1>2. EndsInv /\ DeviceInv /\ [Next]_vars => EndsInv' /\ DeviceInv'
  BY EndsSteps, DeviceSteps
<1>. QED
  BY <1>1, <1>2, InitImplements, StepsImplement, PTL DEF Spec, ImplementsDevice, Device!Spec
===============================================================================
