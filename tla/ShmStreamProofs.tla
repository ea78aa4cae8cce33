--------------------------- MODULE ShmStreamProofs ---------------------------
(***************************************************************************)
(* What holds of a stream transfer for every message length and every      *)
(* number of polls: the invariants of ShmStream, its action property, and  *)
(* that it implements StreamTransfer.                                      *)
(***************************************************************************)
EXTENDS ShmStream, TLAPS

(* The initial states satisfy the inductive invariant.                      *)
LEMMA InitIInv == Init => IInv
  <1> SUFFICES ASSUME Init PROVE IInv
    OBVIOUS
  <1>1. TypeOK
    BY MaxChunksAssumption, AwaitIterAssumption
    DEF Init, TypeOK, SenderPc, ReceiverPc
  <1>2. InOrder /\ BufferInv /\ TurnInv /\ ReceiverInv
    BY MaxChunksAssumption
    DEF Init, InOrder, Taken, BufferInv, TurnInv, ReceiverInv
  <1>3. QED
    BY <1>1, <1>2 DEF IInv

(* Every step keeps the variables within their types.                       *)
LEMMA TypeStep == IInv /\ [Next]_vars => TypeOK'
  <1> SUFFICES ASSUME IInv, [Next]_vars PROVE TypeOK'
    OBVIOUS
  <1> USE MaxChunksAssumption, AwaitIterAssumption
      DEF TypeOK, SenderPc, ReceiverPc, shared
  <1>0. TypeOK
    BY DEF IInv
  <1>1. CASE SendFill
    BY <1>0, <1>1 DEF SendFill
  <1>2. CASE SendGive
    BY <1>0, <1>2 DEF SendGive
  <1>3. CASE SendPoll
    BY <1>0, <1>3 DEF SendPoll, SleepOnce, Expired
  <1>4. CASE SendGiveUp
    BY <1>0, <1>4 DEF SendGiveUp
  <1>5. CASE SendAcked
    BY <1>0, <1>5 DEF SendAcked, IInv, BufferInv
  <1>6. CASE SendFinal
    BY <1>0, <1>6 DEF SendFinal
  <1>7. CASE RecvPoll
    BY <1>0, <1>7 DEF RecvPoll, SleepOnce, Expired
  <1>8. CASE RecvNoAnswer
    BY <1>0, <1>8 DEF RecvNoAnswer
  <1>9. CASE RecvTake
    BY <1>0, <1>9 DEF RecvTake
  <1>10. CASE RecvAck
    BY <1>0, <1>10 DEF RecvAck
  <1>11. CASE RecvCheck
    BY <1>0, <1>11 DEF RecvCheck
  <1>12. CASE UNCHANGED vars
    BY <1>0, <1>12 DEF vars
  <1>13. QED
    BY <1>1, <1>2, <1>3, <1>4, <1>5, <1>6, <1>7, <1>8, <1>9, <1>10, <1>11, <1>12
    DEF Next, SenderStep, ReceiverStep, Finished

(* The chunk taken is the one the sender is at, one further than the string. *)
LEMMA TakesNextChunk ==
  ASSUME IInv, RecvTake
  PROVE  /\ pcS \in {"wait", "gaveup"}
         /\ Taken = s - 1
         /\ data = s
         /\ Taken' = Taken + 1
         /\ \A k \in 1..Taken : str'[k] = str[k]
         /\ str'[Taken'] = data
  <1>1. TypeOK /\ pcS \in {"wait", "gaveup"} /\ Taken = s - 1 /\ data = s
    BY DEF IInv, TypeOK, RecvTake, TurnInv, BufferInv, SenderPc
  <1>2. str \in Seq(Nat) /\ str' = Append(str, data)
    BY <1>1 DEF TypeOK, RecvTake
  <1>3. QED
    BY <1>1, <1>2 DEF Taken

(* Every step keeps the inductive invariant.                                *)
LEMMA StepIInv == IInv /\ [Next]_vars => IInv'
  <1> SUFFICES ASSUME IInv, [Next]_vars PROVE IInv'
    OBVIOUS
  <1>0. TypeOK /\ TypeOK' /\ Taken \in Nat
    BY TypeStep DEF IInv, TypeOK, Taken
  <1> DEFINE Rest == InOrder /\ BufferInv /\ TurnInv /\ ReceiverInv
  <1> SUFFICES Rest'
    BY <1>0 DEF IInv
  <1> USE DEF BufferInv, TurnInv, ReceiverInv, shared
  <1>1. CASE RecvTake
    <2>1. InOrder'
      <3> SUFFICES ASSUME NEW k \in 1..Taken' PROVE str'[k] = k
        BY DEF InOrder
      <3>1. CASE k = Taken'
        BY <1>1, <3>1, TakesNextChunk, s \in Int DEF IInv, TypeOK
      <3>2. CASE k \in 1..Taken
        BY <1>1, <3>2, TakesNextChunk DEF IInv, InOrder
      <3>3. QED
        BY <1>0, <1>1, <3>1, <3>2, TakesNextChunk
    <2>2. (BufferInv /\ TurnInv /\ ReceiverInv)'
      BY <1>0, <1>1, TakesNextChunk DEF RecvTake, IInv, TypeOK
    <2>3. QED
      BY <2>1, <2>2
  <1>2. CASE ~RecvTake
    <2>1. str' = str
      BY <1>2
      DEF Next, SenderStep, ReceiverStep, Finished, vars, SendFill, SendGive, SendPoll,
          SendGiveUp, SendAcked, SendFinal, RecvPoll, RecvNoAnswer, RecvAck, RecvCheck
    <2>2. Taken' = Taken /\ InOrder'
      BY <2>1 DEF Taken, InOrder, IInv
    <2> SUFFICES (BufferInv /\ TurnInv /\ ReceiverInv)'
      BY <2>2
    <2> USE <1>0, <2>2 DEF IInv, TypeOK, SenderPc, ReceiverPc
    <2>3. CASE SendFill
      BY <2>3 DEF SendFill
    <2>4. CASE SendGive
      BY <2>4 DEF SendGive
    <2>5. CASE SendPoll
      BY <2>5 DEF SendPoll
    <2>6. CASE SendGiveUp
      BY <2>6 DEF SendGiveUp
    <2>7. CASE SendAcked
      BY <2>7 DEF SendAcked
    <2>8. CASE SendFinal
      BY <2>8 DEF SendFinal
    <2>9. CASE RecvPoll
      BY <2>9 DEF RecvPoll
    <2>10. CASE RecvNoAnswer
      BY <2>10 DEF RecvNoAnswer
    <2>11. CASE RecvAck
      BY <2>11 DEF RecvAck
    <2>12. CASE RecvCheck
      BY <2>12 DEF RecvCheck
    <2>13. CASE UNCHANGED vars
      BY <2>13 DEF vars
    <2>14. QED
      BY <1>2, <2>3, <2>4, <2>5, <2>6, <2>7, <2>8, <2>9, <2>10, <2>11, <2>12, <2>13
      DEF Next, SenderStep, ReceiverStep, Finished
  <1>3. QED
    BY <1>1, <1>2

(* The inductive invariant is an invariant of the transfer.                 *)
THEOREM Invariance == Spec => []IInv
  <1>1. QED
    BY InitIInv, StepIInv, PTL DEF Spec

(* The variables keep their types: in particular no await loop sleeps more  *)
(* than awaitIter + 2 times and the sender's offset stays in the message.   *)
THEOREM TypeCorrect == Spec => []TypeOK
  <1>1. IInv => TypeOK
    BY DEF IInv
  <1>2. QED
    BY <1>1, Invariance, PTL

(* The receiver's string is always a prefix of the message, whatever the    *)
(* length of the message and the number of polls of the await loops.        *)
THEOREM PrefixReceived == Spec => []ReceivedIsPrefix
  <1>1. IInv => ReceivedIsPrefix
    BY DEF IInv, TypeOK, InOrder, Taken, TurnInv, ReceivedIsPrefix, SenderPc, BufferInv
  <1>2. QED
    BY <1>1, Invariance, PTL

(* A string that is returned lacks at most its last chunk.                  *)
THEOREM AtMostLastChunkLost == Spec => []OnlyLastChunkLost
  <1>1. IInv => OnlyLastChunkLost
    BY DEF IInv, ReceiverInv, Taken, OnlyLastChunkLost
  <1>2. QED
    BY <1>1, Invariance, PTL

(* A sender that leaves its loop normally was acknowledged for every chunk. *)
THEOREM DoneMeansDelivered == Spec => []SenderDoneMeansDelivered
  <1>1. IInv => SenderDoneMeansDelivered
    BY DEF IInv, TurnInv, Taken, SenderDoneMeansDelivered
  <1>2. QED
    BY <1>1, Invariance, PTL

(* The buffer is not written while the receiver is taking a chunk from it.  *)
THEOREM BufferStable == Spec => NoOverwriteWhileTaking
  <1>1. IInv /\ [Next]_vars => [pcR = "ack" => UNCHANGED <<data, left>>]_vars
    <2> SUFFICES ASSUME IInv, Next, pcR = "ack"
                 PROVE  UNCHANGED <<data, left>>
      BY DEF vars
    <2>1. ~SendFill
      BY DEF IInv, TurnInv, SendFill
    <2>2. QED
      BY <2>1
      DEF Next, SenderStep, ReceiverStep, Finished, vars, shared, SendGive, SendPoll,
          SendGiveUp, SendAcked, SendFinal, RecvPoll, RecvNoAnswer, RecvTake, RecvAck, RecvCheck
  <1>2. QED
    BY <1>1, Invariance, PTL DEF Spec, NoOverwriteWhileTaking

-----------------------------------------------------------------------------
(* The two loops implement the abstract transfer.                           *)

(* The initial states map to initial states of the transfer.                *)
LEMMA InitRefines == Init => Transfer!Init
  BY DEF Init, Transfer!Init, SenderReturned, ReceiverReturned

(* Every step maps to a step of the transfer or to none.                    *)
LEMMA StepRefines == IInv /\ [Next]_vars => [Transfer!Next]_(Transfer!vars)
  <1> SUFFICES ASSUME IInv, [Next]_vars
               PROVE  Transfer!Next \/ UNCHANGED Transfer!vars
    OBVIOUS
  <1>0. TypeOK /\ Taken \in Nat
    BY DEF IInv, TypeOK, Taken
  <1> USE DEF Transfer!vars, SenderReturned, ReceiverReturned, shared
  <1>1. CASE RecvTake
    <2>1. Transfer!Deliver
      BY <1>0, <1>1, TakesNextChunk
      DEF Transfer!Deliver, RecvTake, Taken, IInv, ReceiverInv
    <2>2. QED
      BY <2>1 DEF Transfer!Next
  <1>2. CASE RecvNoAnswer
    BY <1>2 DEF Transfer!Next, Transfer!NoAnswer, RecvNoAnswer, IInv, ReceiverInv, Taken
  <1>3. CASE RecvCheck
    <2>0. left \in Nat
      BY <1>0 DEF TypeOK
    <2>1. RecvCheck /\ left > 1 => UNCHANGED Transfer!vars
      BY <2>0 DEF RecvCheck
    <2>2. RecvCheck /\ left <= 1 => Transfer!Return
      <3> SUFFICES ASSUME RecvCheck, left <= 1 PROVE Transfer!Return
        OBVIOUS
      <3>1. Taken \in {length - 1, length} \ {0}
        BY <1>0
        DEF IInv, TypeOK, ReceiverInv, BufferInv, TurnInv, RecvCheck, SenderPc
      <3>2. QED
        BY <2>0, <3>1 DEF Transfer!Return, RecvCheck, Taken
    <2>3. QED
      BY <1>3, <2>0, <2>1, <2>2 DEF Transfer!Next
  <1>4. CASE SendFinal
    <2>1. Taken = length
      BY <1>0, <1>4 DEF SendFinal, IInv, TypeOK, TurnInv
    <2>2. QED
      BY <1>4, <2>1 DEF Transfer!Next, Transfer!Complete, SendFinal, Taken
  <1>5. CASE SendGiveUp
    BY <1>5 DEF Transfer!Next, Transfer!GiveUp, SendGiveUp
  <1>6. CASE SendFill \/ SendGive \/ SendPoll \/ SendAcked \/ RecvPoll \/ RecvAck
    BY <1>6 DEF SendFill, SendGive, SendPoll, SendAcked, RecvPoll, RecvAck
  <1>7. CASE UNCHANGED vars
    BY <1>7 DEF vars
  <1>8. QED
    BY <1>1, <1>2, <1>3, <1>4, <1>5, <1>6, <1>7
    DEF Next, SenderStep, ReceiverStep, Finished

(* SendStreamCore and RecieveStreamCore together implement StreamTransfer,  *)
(* for every message length and every number of polls.                      *)
THEOREM Refinement == Spec => ImplementsTransfer
  <1>1. QED
    BY InitRefines, StepRefines, Invariance, PTL DEF Spec, ImplementsTransfer, Transfer!Spec
=============================================================================
