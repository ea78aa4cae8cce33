------------------------------ MODULE ShmMemory ------------------------------
(***************************************************************************)
(* The shared memory object of one server and one client, and the calls of *)
(* class SharedMemory both of them are built from: SendStreamCore and      *)
(* RecieveStreamCore, each usable by either side.                          *)
(*                                                                         *)
(* Both sides are threads; an action is what one of them does between two  *)
(* accesses of the record that the other side can tell apart.  Text is     *)
(* abstracted to chunks: a chunk knows what text it belongs to, which      *)
(* request it answers or carries (a history variable, not in the code) and *)
(* what GetNumber() reads from the buffer while the chunk is in it.        *)
(*                                                                         *)
(* Time is abstracted away: an await loop may give up whenever it finds    *)
(* that it is not its turn (Timeouts = TRUE), or the two sides are always  *)
(* fast enough for each other (Timeouts = FALSE).  ShmStream counts polls. *)
(***************************************************************************)
EXTENDS Integers, Sequences

CONSTANTS
    Timeouts,       \* may an await loop run out?
    TextNumbers,    \* what GetNumber() may read from a buffer that holds text
    MaxRequests,    \* requests the client makes (bound)
    MaxKept         \* chunks of a received text that are told apart (bound)

ASSUME TimeoutsAssumption == Timeouts \in BOOLEAN
ASSUME TextNumbersAssumption == TextNumbers # {} /\ TextNumbers \subseteq Int
ASSUME MaxRequestsAssumption == MaxRequests \in Nat
ASSUME MaxKeptAssumption == MaxKept \in Nat

VARIABLES
    owner,  \* shrData::state, "server" or "client"
    tag,    \* shrData::tag, with the number of the request that wrote it
    left,   \* shrData::dataSize, in chunks
    data,   \* shrData::data
    pc,     \* where each side is
    msg,    \* what each side's last SendStreamCore call sends
    str     \* what each side's last RecieveStreamCore call received

shared == <<owner, tag, left, data>>
memVars == <<owner, tag, left, data, pc, msg, str>>

Sides == {"server", "client"}
Other(p) == IF p = "server" THEN "client" ELSE "server"

\* Where a side stands between two calls.
Home(p) == IF p = "server" THEN "loop" ELSE "prompt"

Goto(p, place) == pc' = [pc EXCEPT ![p] = place]

\* A message of "rest" chunks; of a text, num is what GetNumber() would read.
Message(text, num, id, rest) == [text |-> text, num |-> num, id |-> id, rest |-> rest]
Chunk(m) == [text |-> m.text, num |-> m.num, id |-> m.id]

NoTag == [cmd |-> "none", id |-> 0]

\* A fresh object: ftruncate fills it with zeros, Init sets the state.
MemInit ==
    /\ owner = "server"
    /\ tag = NoTag
    /\ left = 0
    /\ data = [text |-> "num", num |-> 0, id |-> 0]
    /\ pc = [server |-> "off", client |-> "prompt"]
    /\ msg = [p \in Sides |-> Message("none", 0, 0, 0)]
    /\ str = [p \in Sides |-> <<>>]

-----------------------------------------------------------------------------
(* SendStreamCore(.., p).                                                   *)

\* The call, made by side p; an empty text never enters the loop.
Send(p, m) ==
    /\ msg' = [msg EXCEPT ![p] = m]
    /\ Goto(p, IF m.rest = 0 THEN "final" ELSE "fill")

Fill(p) ==
    /\ pc[p] = "fill"
    /\ data' = Chunk(msg[p])
    /\ left' = msg[p].rest
    /\ Goto(p, "give")
    /\ UNCHANGED <<owner, tag, msg, str>>

Give(p) ==
    /\ pc[p] = "give"
    /\ owner' = Other(p)
    /\ Goto(p, "sent")
    /\ UNCHANGED <<tag, left, data, msg, str>>

\* Mutant: the sender goes on without an acknowledgement.
UnackedNext(p) ==
    /\ pc[p] = "sent"
    /\ Send(p, [msg[p] EXCEPT !.rest = @ - 1])
    /\ UNCHANGED <<shared, str>>

\* Mutant: the loop over the chunks has no end.
AckedForever(p) ==
    /\ pc[p] = "sent"
    /\ owner = p
    /\ msg' = [msg EXCEPT ![p].rest = @ - 1]
    /\ Goto(p, "fill")
    /\ UNCHANGED <<shared, str>>

Acked(p) ==
    /\ pc[p] = "sent"
    /\ owner = p
    /\ Send(p, [msg[p] EXCEPT !.rest = @ - 1])
    /\ UNCHANGED <<shared, str>>

\* Mutant: the sender polls without a limit.
GiveUpNever(p) ==
    /\ Timeouts
    /\ pc[p] = "sent"
    /\ owner # p
    /\ UNCHANGED memVars

\* The call returns and leaves the memory to the other side.
GiveUp(p) ==
    /\ Timeouts
    /\ pc[p] = "sent"
    /\ owner # p
    /\ Goto(p, Home(p))
    /\ UNCHANGED <<shared, msg, str>>

\* Mutant: the last store is missing.
FinalKeeps(p) ==
    /\ pc[p] = "final"
    /\ Goto(p, Home(p))
    /\ UNCHANGED <<shared, msg, str>>

\* The store that ends a call; a handler that only answers with
\* SetState(SM_CLIENT) goes here too.
Final(p) ==
    /\ pc[p] = "final"
    /\ owner' = Other(p)
    /\ Goto(p, Home(p))
    /\ UNCHANGED <<tag, left, data, msg, str>>

-----------------------------------------------------------------------------
(* RecieveStreamCore(p).                                                    *)

Receive(p) ==
    /\ str' = [str EXCEPT ![p] = <<>>]
    /\ Goto(p, "recv")

Take(p) ==
    /\ pc[p] = "recv"
    /\ owner = p
    /\ str' = [str EXCEPT ![p] = IF Len(@) < MaxKept THEN Append(@, data) ELSE @]
    /\ Goto(p, "ack")
    /\ UNCHANGED <<shared, msg>>

\* Mutant: the receiver polls without a limit.
NoAnswerNever(p) ==
    /\ Timeouts
    /\ pc[p] = "recv"
    /\ owner # p
    /\ UNCHANGED memVars

\* The call returns "NO ANSWER"; the memory stays with the other side.
NoAnswer(p) ==
    /\ Timeouts
    /\ pc[p] = "recv"
    /\ owner # p
    /\ str' = [str EXCEPT ![p] = <<>>]
    /\ Goto(p, Home(p))
    /\ UNCHANGED <<shared, msg>>

\* Mutant: the receiver does not acknowledge.
AckKeeps(p) ==
    /\ pc[p] = "ack"
    /\ Goto(p, "check")
    /\ UNCHANGED <<shared, msg, str>>

Ack(p) ==
    /\ pc[p] = "ack"
    /\ owner' = Other(p)
    /\ Goto(p, "check")
    /\ UNCHANGED <<tag, left, data, msg, str>>

\* dataSize is read after the memory was given away.
Check(p) ==
    /\ pc[p] = "check"
    /\ Goto(p, IF left <= 1 THEN Home(p) ELSE "recv")
    /\ UNCHANGED <<shared, msg, str>>

Stream(p) ==
    \/ Fill(p) \/ Give(p) \/ Acked(p) \/ GiveUp(p) \/ Final(p)
    \/ Take(p) \/ NoAnswer(p) \/ Ack(p) \/ Check(p)
=============================================================================
