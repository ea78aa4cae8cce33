------------------------------ MODULE ShmStream ------------------------------
(***************************************************************************)
(* One stream transfer over a shared memory object:                        *)
(* SharedMemory::SendStreamCore running in one process against             *)
(* SharedMemory::RecieveStreamCore running in the other, interleaved at    *)
(* every access of the shared record that the other side can tell apart.   *)
(*                                                                         *)
(* Data is abstracted to chunks of bufsize bytes.  "left" stands for       *)
(* shrData::dataSize, the bytes from this chunk to the end, in chunks:     *)
(* dataSize <= bufsize is left <= 1, and what the receiver appends,        *)
(* min(bufsize, dataSize) bytes, is the chunk in the buffer.  The copy of  *)
(* a chunk and the store of its size are one step, since they fall between *)
(* two stores of the flag and the receiver reads both only after the flag. *)
(***************************************************************************)
EXTENDS Integers, Sequences

CONSTANTS
    MaxChunks,  \* longest message, in chunks (bound)
    AwaitIter   \* SharedMemory::awaitIter, polls before a loop gives up

ASSUME MaxChunksAssumption == MaxChunks \in Nat
ASSUME AwaitIterAssumption == AwaitIter \in Nat

VARIABLES
    state,      \* shrData::state: whose turn it is, "sender" or "receiver"
    left,       \* shrData::dataSize, in chunks
    data,       \* shrData::data: number of the chunk it holds, 0 for old bytes
    length,     \* dataLength, in chunks
    s,          \* the chunk SendStreamCore is at
    polls,      \* the counter i of each side's await loop
    str,        \* the receiver's str: the chunks appended to it
    pcS,        \* where the sender is
    pcR         \* where the receiver is

shared == <<state, left, data>>
vars == <<state, left, data, length, s, polls, str, pcS, pcR>>

SenderPc == {"fill", "give", "wait", "done", "gaveup"}
ReceiverPc == {"wait", "ack", "check", "done", "noanswer"}

(* Type correctness. *)
TypeOK ==
    /\ state \in {"sender", "receiver"}
    /\ left \in Nat
    /\ data \in Nat
    /\ length \in 1..MaxChunks
    /\ s \in 1..(length + 1)
    /\ polls \in [{"sender", "receiver"} -> 0..(AwaitIter + 1)]
    /\ str \in Seq(Nat)
    /\ pcS \in SenderPc
    /\ pcR \in ReceiverPc

\* The sender owns the memory, which still holds what an earlier transfer left.
\* An empty message never enters the loop; ShmSession models that call.
Init ==
    /\ state = "sender"
    /\ left \in 0..2
    /\ data = 0
    /\ length \in 1..MaxChunks
    /\ s = 1
    /\ polls = [p \in {"sender", "receiver"} |-> 0]
    /\ str = <<>>
    /\ pcS = "fill"
    /\ pcR = "wait"

-----------------------------------------------------------------------------
(* An await loop sleeps and then tests i++ > awaitIter, so it gives up at   *)
(* its (awaitIter + 2)-th sleep.                                            *)

Expired(p) == polls[p] > AwaitIter

\* Mutant: the counter is never incremented.
SleepOnceUncounted(p) == UNCHANGED polls

SleepOnce(p) == polls' = [polls EXCEPT ![p] = @ + 1]

-----------------------------------------------------------------------------
(* The sender.                                                              *)

SendFill ==
    /\ pcS = "fill"
    /\ s <= length
    /\ data' = s
    /\ left' = length - s + 1
    /\ pcS' = "give"
    /\ UNCHANGED <<state, length, s, polls, str, pcR>>

SendGive ==
    /\ pcS = "give"
    /\ state' = "receiver"
    /\ polls' = [polls EXCEPT !["sender"] = 0]
    /\ pcS' = "wait"
    /\ UNCHANGED <<left, data, length, s, str, pcR>>

\* Mutant: one sleep more than the counter allows.
SendPollLong ==
    /\ pcS = "wait"
    /\ state # "sender"
    /\ polls["sender"] <= AwaitIter + 1
    /\ SleepOnce("sender")
    /\ UNCHANGED <<shared, length, s, str, pcS, pcR>>

SendPoll ==
    /\ pcS = "wait"
    /\ state # "sender"
    /\ ~Expired("sender")
    /\ SleepOnce("sender")
    /\ UNCHANGED <<shared, length, s, str, pcS, pcR>>

\* The last sleep is followed by the return, without another look at the flag.
SendGiveUp ==
    /\ pcS = "wait"
    /\ state # "sender"
    /\ Expired("sender")
    /\ pcS' = "gaveup"
    /\ UNCHANGED <<shared, length, s, polls, str, pcR>>

\* Mutant: the sender does not wait for the flag to come back.
SendUnacked ==
    /\ pcS = "wait"
    /\ s' = s + 1
    /\ pcS' = "fill"
    /\ UNCHANGED <<shared, length, polls, str, pcR>>

SendAcked ==
    /\ pcS = "wait"
    /\ state = "sender"
    /\ s' = s + 1
    /\ pcS' = "fill"
    /\ UNCHANGED <<shared, length, polls, str, pcR>>

\* Mutant: the loop stops one chunk early.
SendFinalEarly ==
    /\ pcS = "fill"
    /\ s >= length
    /\ state' = "receiver"
    /\ pcS' = "done"
    /\ UNCHANGED <<left, data, length, s, polls, str, pcR>>

\* The loop is over: hand the memory to the receiver and return.
SendFinal ==
    /\ pcS = "fill"
    /\ s > length
    /\ state' = "receiver"
    /\ pcS' = "done"
    /\ UNCHANGED <<left, data, length, s, polls, str, pcR>>

-----------------------------------------------------------------------------
(* The receiver.                                                            *)

RecvPoll ==
    /\ pcR = "wait"
    /\ state # "receiver"
    /\ ~Expired("receiver")
    /\ SleepOnce("receiver")
    /\ UNCHANGED <<shared, length, s, str, pcS, pcR>>

RecvNoAnswer ==
    /\ pcR = "wait"
    /\ state # "receiver"
    /\ Expired("receiver")
    /\ pcR' = "noanswer"
    /\ UNCHANGED <<shared, length, s, polls, str, pcS>>

RecvTake ==
    /\ pcR = "wait"
    /\ state = "receiver"
    /\ str' = Append(str, data)
    /\ pcR' = "ack"
    /\ UNCHANGED <<shared, length, s, polls, pcS>>

RecvAck ==
    /\ pcR = "ack"
    /\ state' = "sender"
    /\ pcR' = "check"
    /\ UNCHANGED <<left, data, length, s, polls, str, pcS>>

\* Mutant: the receiver stops at a rest of two chunks.
RecvCheckShort ==
    /\ pcR = "check"
    /\ \/ /\ left <= 2
          /\ pcR' = "done"
          /\ UNCHANGED polls
       \/ /\ left > 2
          /\ pcR' = "wait"
          /\ polls' = [polls EXCEPT !["receiver"] = 0]
    /\ UNCHANGED <<shared, length, s, str, pcS>>

\* dataSize is read after the memory was given back to the sender.
RecvCheck ==
    /\ pcR = "check"
    /\ \/ /\ left <= 1
          /\ pcR' = "done"
          /\ UNCHANGED polls
       \/ /\ left > 1
          /\ pcR' = "wait"
          /\ polls' = [polls EXCEPT !["receiver"] = 0]
    /\ UNCHANGED <<shared, length, s, str, pcS>>

-----------------------------------------------------------------------------

SenderStep ==
    SendFill \/ SendGive \/ SendPoll \/ SendGiveUp \/ SendAcked \/ SendFinal
ReceiverStep ==
    RecvPoll \/ RecvNoAnswer \/ RecvTake \/ RecvAck \/ RecvCheck

SenderReturned == pcS \in {"done", "gaveup"}
ReceiverReturned == pcR \in {"done", "noanswer"}

\* Both calls have returned; the transfer is over.
Finished == SenderReturned /\ ReceiverReturned /\ UNCHANGED vars

Next == SenderStep \/ ReceiverStep \/ Finished

Spec == Init /\ [][Next]_vars

\* Each side is a running thread whose await loops sleep and then go on.
FairSpec == Spec /\ WF_vars(SenderStep) /\ WF_vars(ReceiverStep)

-----------------------------------------------------------------------------
(* Properties.                                                              *)

(* The receiver's string is always a prefix of the message: no chunk is     *)
(* repeated, skipped or taken from an earlier transfer, however the two     *)
(* loops interleave and whichever of them times out.                        *)
ReceivedIsPrefix ==
    /\ Len(str) <= length
    /\ \A k \in 1..Len(str) : str[k] = k

(* RecieveStreamCore that returns a string returns the message without at   *)
(* most its last chunk: the late read of dataSize cannot cost more.         *)
OnlyLastChunkLost ==
    pcR = "done" => Len(str) >= 1 /\ Len(str) >= length - 1

(* SendStreamCore that leaves its loop normally has been acknowledged for   *)
(* every chunk, and the receiver can no longer answer "NO ANSWER".          *)
SenderDoneMeansDelivered ==
    pcS = "done" => Len(str) = length /\ pcR \in {"check", "done"}

(* The buffer is never overwritten between the receiver seeing its turn and *)
(* its acknowledgement.                                                     *)
NoOverwriteWhileTaking ==
    [][pcR = "ack" => UNCHANGED <<data, left>>]_vars

(* Both calls return, however slow the other side is.                       *)
BothReturn == <>(SenderReturned /\ ReceiverReturned)

(* "data is sent in parts in case it's not fully fits in shrData.data[]"    *)
(* (SharedMemoryCore.hpp): a receiver that returns a string returns all the *)
(* parts.  The code does not keep this.                                     *)
WholeMessageReceived == pcR = "done" => Len(str) = length

-----------------------------------------------------------------------------
(* The inductive invariant.  The flag says who moves next, and the number   *)
(* of chunks taken follows from the flag and from where the two loops are.  *)

Taken == Len(str)

InOrder == \A k \in 1..Taken : str[k] = k

\* What the buffer holds, as the sender last left it.
BufferInv ==
    /\ pcS \in {"give", "wait", "gaveup"} =>
          s <= length /\ data = s /\ left = length - s + 1
    /\ pcS = "fill" /\ s > 1 => data = s - 1 /\ left = length - s + 2

\* Who owns the memory, and how many chunks that means.
TurnInv ==
    /\ pcS \in {"fill", "give"} => state = "sender" /\ Taken = s - 1 /\ pcR # "ack"
    /\ pcS \in {"wait", "gaveup"} =>
          \/ state = "receiver" /\ Taken = (IF pcR = "ack" THEN s ELSE s - 1)
          \/ state = "sender" /\ Taken = s /\ pcR # "ack"
    /\ pcS = "done" =>
          Taken = length /\ left = 1 /\ pcR \in {"check", "done"}

\* What the receiver's place says of the chunks it took.
ReceiverInv ==
    /\ pcR \in {"ack", "check", "done"} => Taken >= 1
    /\ pcR \in {"wait", "noanswer"} => Taken < length
    /\ pcR = "done" => Taken >= length - 1

IInv == TypeOK /\ InOrder /\ BufferInv /\ TurnInv /\ ReceiverInv

-----------------------------------------------------------------------------
(* Refinement of the abstract transfer.                                     *)

Transfer == INSTANCE StreamTransfer WITH
    delivered <- Len(str),
    receiver  <- IF ReceiverReturned THEN pcR ELSE "open",
    sender    <- IF SenderReturned THEN pcS ELSE "open"

(* Every step of the two loops is a step of the abstract transfer or none.  *)
ImplementsTransfer == Transfer!Spec
=============================================================================
