--------------------------- MODULE ShmSessionProofs ---------------------------
(***************************************************************************)
(* What holds of a session for every set of commands, every number, every  *)
(* minimum frequency and any number of requests and deaths: the types of   *)
(* its variables always; as long as nobody moves the flag without owning   *)
(* the memory (Disciplined), that the two sides never use the memory at    *)
(* once and that the radio's settings stay in their ranges; and as long as *)
(* both sides answer in time with one chunk, and nobody stops or dies      *)
(* (Punctual), that a command is performed once and that the session is    *)
(* the atomic radio of RadioService.                                       *)
(***************************************************************************)
EXTENDS ShmSession, FiniteSetTheorems, SequenceTheorems, WellFoundedInduction, TLAPS

(* Every set of naturals that is not empty has a least element.             *)
LEMMA LeastElement ==
  ASSUME NEW T, T \subseteq Nat, T # {} PROVE \E x \in T : \A y \in T : x <= y
  <1> DEFINE R == {ss \in Nat \X Nat : ss[1] < ss[2]}
  <1>1. IsWellFoundedOn(R, Nat)
    BY NatLessThanWellFounded DEF OpToRel
  <1>2. \A x, y \in Nat : y < x => <<y, x>> \in R
    OBVIOUS
  <1> HIDE DEF R
  <1>3. PICK x \in T : \A y \in T : ~ (<<y, x>> \in R)
    BY <1>1, WFMin
  <1>4. \A y \in T : x <= y
    <2> TAKE y \in T
    <2>1. x \in Nat /\ y \in Nat
      OBVIOUS
    <2>2. ~ (y < x)
      BY <1>2, <1>3, <2>1
    <2>3. QED
      BY <2>1, <2>2
  <1>5. QED
    BY <1>4

(* Erasing a fault takes one place out of the list, if the fault is in it.  *)
LEMMA EraseIndex ==
  ASSUME NEW s \in Seq(Int), NEW e, \E i \in 1..Len(s) : s[i] = e
  PROVE  \E k \in 1..Len(s) :
            /\ s[k] = e
            /\ RemoveFirst(s, e) = SubSeq(s, 1, k - 1) \o SubSeq(s, k + 1, Len(s))
  <1> DEFINE I == {i \in 1..Len(s) : s[i] = e}
  <1>1. \E m \in I : \A y \in I : m <= y
    <2>1. I \subseteq Nat /\ I # {}
      OBVIOUS
    <2> HIDE DEF I
    <2>2. QED
      BY <2>1, LeastElement
  <1>2. SelectInSeq(s, LAMBDA v : v = e) \in I
    BY <1>1 DEF SelectInSeq, Min
  <1>3. QED
    BY <1>2 DEF RemoveFirst, RemoveAt

(* Erasing a fault leaves a list of faults.                                 *)
LEMMA EraseType == ASSUME NEW s \in Seq(Int), NEW e PROVE RemoveFirst(s, e) \in Seq(Int)
  <1>1. CASE \E i \in 1..Len(s) : s[i] = e
    <2>1. PICK k \in 1..Len(s) : RemoveFirst(s, e) = SubSeq(s, 1, k - 1) \o SubSeq(s, k + 1, Len(s))
      BY <1>1, EraseIndex
    <2>2. SubSeq(s, 1, k - 1) \in Seq(Int) /\ SubSeq(s, k + 1, Len(s)) \in Seq(Int)
      BY SubSeqProperties
    <2>3. QED
      BY <2>1, <2>2
  <1>2. CASE ~ \E i \in 1..Len(s) : s[i] = e
    BY <1>2 DEF RemoveFirst
  <1>3. QED
    BY <1>1, <1>2

-----------------------------------------------------------------------------
(* Types.                                                                   *)

(* What the assumptions say of the constants, in the provers' terms.        *)
LEMMA ConstantTypes ==
    /\ Timeouts \in BOOLEAN
    /\ TextNumbers \subseteq Int
    /\ MaxRequests \in Nat
    /\ MinFrequency \in Int
    /\ MaxCrashes \in Nat
    /\ Commands \subseteq AllCommands
    /\ Numbers \subseteq Int
    /\ StreamSizes \subseteq Nat
  BY TimeoutsAssumption, TextNumbersAssumption, MaxRequestsAssumption, MinFrequencyAssumption,
     MaxCrashesAssumption, CommandsAssumption, NumbersAssumption, StreamSizesAssumption

(* The initial state has the right types.                                   *)
LEMMA InitTypeInv == Init => TypeInv
  <1> SUFFICES ASSUME Init PROVE TypeInv
    OBVIOUS
  <1> USE ConstantTypes DEF Init, MemInit, ServerInit, ClientInit
  <1>1. TypeOK
    BY DEF TypeOK, Sides, TagType, NoTag, DataType, Texts, MessageType, Message,
           ServerPc, ClientPc
  <1>2. SendingInv /\ CommandInv
    BY DEF SendingInv, CommandInv, Sides
  <1>3. QED
    BY <1>1, <1>2 DEF TypeInv

(* Starting a stream, or going on with it.                                  *)
LEMMA SendType ==
  ASSUME TypeOK, SendingInv, NEW p \in Sides,
         NEW m \in MessageType, m.text # "none", Send(p, m)
  PROVE  /\ msg' \in [Sides -> MessageType]
         /\ pc' \in [Sides -> ServerPc \cup ClientPc]
         /\ \A q \in Sides \ {p} : pc'[q] = pc[q] /\ msg'[q] = msg[q]
         /\ pc'[p] \in {"final", "fill"}
         /\ SendingInv'
  BY DEF TypeOK, SendingInv, Sides, Send, Goto, MessageType, ServerPc, ClientPc

(* A call of SendStreamCore or RecieveStreamCore keeps the types, on either *)
(* side.                                                                    *)
LEMMA StreamType ==
  ASSUME TypeInv, NEW p \in Sides, Stream(p), UNCHANGED <<serverVars, clientVars>>
  PROVE  TypeInv'
  <1> USE DEF TypeInv, TypeOK, SendingInv, CommandInv, Sides, serverVars, clientVars, radio,
              shared, Goto, Home, Other, ServerPc, ClientPc
  <1>1. CASE Fill(p)
    BY <1>1 DEF Fill, Chunk, MessageType, DataType
  <1>2. CASE Give(p)
    BY <1>2 DEF Give
  <1>3. CASE Acked(p)
    <2> DEFINE m == [msg[p] EXCEPT !.rest = @ - 1]
    <2>1. pc[p] = "sent" /\ msg[p] \in MessageType /\ msg[p].rest >= 1 /\ msg[p].text # "none"
      BY <1>3 DEF Acked
    <2>2. m \in MessageType /\ m.text # "none"
      <3>1. msg[p].rest - 1 \in Nat
        BY <2>1 DEF MessageType
      <3>2. QED
        BY <2>1, <3>1 DEF MessageType
    <2>3. Send(p, m) /\ UNCHANGED <<shared, str>>
      BY <1>3 DEF Acked
    <2> HIDE DEF m
    <2>4. /\ msg' \in [Sides -> MessageType]
          /\ pc' \in [Sides -> ServerPc \cup ClientPc]
          /\ \A q \in Sides \ {p} : pc'[q] = pc[q]
          /\ pc'[p] \in {"final", "fill"}
          /\ SendingInv'
      BY <2>2, <2>3, SendType
    <2>5. CASE p = "server"
      BY <2>3, <2>4, <2>5
    <2>6. CASE p = "client"
      BY <2>3, <2>4, <2>6
    <2>7. QED
      BY <2>5, <2>6
  <1>4. CASE GiveUp(p)
    BY <1>4 DEF GiveUp
  <1>5. CASE Final(p)
    BY <1>5 DEF Final
  <1>6. CASE Take(p)
    BY <1>6 DEF Take
  <1>7. CASE NoAnswer(p)
    BY <1>7 DEF NoAnswer
  <1>8. CASE Ack(p)
    BY <1>8 DEF Ack
  <1>9. CASE Check(p)
    BY <1>9 DEF Check
  <1>10. QED
    BY <1>1, <1>2, <1>3, <1>4, <1>5, <1>6, <1>7, <1>8, <1>9 DEF Stream

(* A handler's answer.                                                      *)
LEMMA ReplyType ==
  ASSUME TypeInv, NEW text \in Texts, NEW chunks \in Nat, Reply(text, chunks)
  PROVE  /\ msg' \in [Sides -> MessageType]
         /\ pc' \in [Sides -> ServerPc \cup ClientPc]
         /\ pc'.server \in {"final", "fill"}
         /\ pc'.client = pc.client
         /\ SendingInv'
  <1>1. PICK n \in TextNumbers : Send("server", Message(text, n, req.id, chunks))
    BY DEF Reply
  <1>2. req.id \in 0..MaxRequests
    BY ConstantTypes DEF TypeInv, TypeOK, TagType, NoTag
  <1> DEFINE m == Message(text, n, req.id, chunks)
  <1>3. m \in MessageType /\ m.text # "none"
    BY <1>2, ConstantTypes DEF Message, MessageType, Texts
  <1> HIDE DEF m
  <1>4. "server" \in Sides /\ "client" \in Sides \ {"server"}
    BY DEF Sides
  <1>5. Send("server", m)
    BY <1>1 DEF m
  <1>6. QED
    BY <1>3, <1>4, <1>5, SendType DEF TypeInv

(* Counting a performed request stays within its bound.                     *)
LEMMA PerformType == TypeOK /\ Perform => performed' \in [1..MaxRequests -> 0..2]
  <1> SUFFICES ASSUME TypeOK, Perform PROVE performed' \in [1..MaxRequests -> 0..2]
    OBVIOUS
  <1>1. performed \in [1..MaxRequests -> 0..2]
    BY DEF TypeOK
  <1>2. (IF performed[req.id] = 0 THEN 1 ELSE 2) \in 0..2
    OBVIOUS
  <1>3. QED
    BY <1>1, <1>2 DEF Perform

(* Every step of the serving thread keeps the types.                        *)
LEMMA ServeType == TypeInv /\ Serve => TypeInv'
  <1> SUFFICES ASSUME TypeInv, ServerStep, UNCHANGED clientVars PROVE TypeInv'
    BY DEF Serve
  <1>0. TypeOK /\ SendingInv /\ CommandInv
    BY DEF TypeInv
  <1> DEFINE Answers(text, chunks) ==
        Reply(text, chunks) /\ ServerKeeps
        /\ performed' \in [1..MaxRequests -> 0..2]
        /\ frequency' \in Int /\ power' \in Int /\ faults' \in Seq(Int)
  <1>a. ASSUME NEW text \in Texts, NEW chunks \in Nat, Answers(text, chunks) PROVE TypeInv'
    <2>1. /\ msg' \in [Sides -> MessageType]
          /\ pc' \in [Sides -> ServerPc \cup ClientPc]
          /\ pc'.server \in {"final", "fill"}
          /\ pc'.client = pc.client
          /\ SendingInv'
      BY <1>a, ReplyType
    <2>2. TypeOK'
      BY <1>0, <1>a, <2>1 DEF ServerKeeps, TypeOK, shared, clientVars, ServerPc
    <2>3. CommandInv'
      BY <1>0, <2>1 DEF CommandInv, clientVars
    <2>4. QED
      BY <2>1, <2>2, <2>3 DEF TypeInv
  <1> HIDE DEF Answers
  <1>b. ASSUME UNCHANGED <<msg, str, frequency, power, faults, stop, crashes>>,
               NEW place \in ServerPc \ {"fill", "give", "sent"}, Goto("server", place),
               owner' \in Sides, data' \in DataType, tag' = tag, left' = left,
               working' \in BOOLEAN, req' \in TagType,
               performed' \in [1..MaxRequests -> 0..2]
        PROVE  TypeInv'
    <2>1. TypeOK'
      BY <1>0, <1>b DEF TypeOK, clientVars, Goto, Sides
    <2>2. SendingInv' /\ CommandInv'
      BY <1>0, <1>b DEF TypeOK, SendingInv, CommandInv, clientVars, Goto, Sides
    <2>3. QED
      BY <2>1, <2>2 DEF TypeInv
  <1>1. CASE Enter
    BY <1>0, <1>1, <1>b DEF Enter, TypeOK, shared, radio, ServerPc
  <1>2. CASE Grant
    BY <1>0, <1>2, <1>b DEF Grant, TypeOK, serverVars, radio, ServerPc, Sides
  <1>3. CASE Loop
    BY <1>0, <1>3, <1>b DEF Loop, TypeOK, shared, serverVars, radio, ServerPc
  <1>4. CASE Look
    BY <1>0, <1>4, <1>b DEF Look, TypeOK, shared, serverVars, radio, ServerPc
  <1>5. CASE Dispatch
    BY <1>0, <1>5, <1>b DEF Dispatch, TypeOK, shared, radio, ServerPc
  <1>6. CASE HandlePing
    BY <1>0, <1>6, <1>a, PerformType DEF HandlePing, Answers, TypeOK, radio, Handling, Texts
  <1>7. CASE HandleExit
    BY <1>0, <1>7, <1>b, PerformType DEF HandleExit, TypeOK, shared, radio, ServerPc
  <1>8. CASE HandleSetFrequency
    <2>1. CASE data.num >= MinFrequency /\ Goto("server", "assign") /\ UNCHANGED <<msg, performed>>
      BY <1>0, <1>8, <1>b, <2>1
      DEF HandleSetFrequency, ServerKeeps, TypeOK, shared, radio, ServerPc
    <2>2. CASE Perform /\ Reply("not ok", 1)
      BY <1>0, <1>8, <1>a, <2>2, PerformType DEF HandleSetFrequency, Answers, TypeOK, radio, Texts
    <2>3. QED
      BY <1>8, <2>1, <2>2 DEF HandleSetFrequency
  <1>9. CASE AssignFrequency
    BY <1>0, <1>9, <1>a, PerformType DEF AssignFrequency, Answers, TypeOK, DataType, Texts
  <1>10. CASE HandleSetPower
    BY <1>0, <1>10, <1>b DEF HandleSetPower, ServerKeeps, TypeOK, shared, radio, ServerPc
  <1>11. CASE RecheckPower
    <2>1. CASE Goto("server", "assign") /\ UNCHANGED <<msg, performed>>
      BY <1>0, <1>11, <1>b, <2>1 DEF RecheckPower, ServerKeeps, TypeOK, shared, radio, ServerPc
    <2>2. CASE Perform /\ Reply("not ok", 1)
      BY <1>0, <1>11, <1>a, <2>2, PerformType DEF RecheckPower, Answers, TypeOK, radio, Texts
    <2>3. QED
      BY <1>11, <2>1, <2>2 DEF RecheckPower
  <1>12. CASE AssignPower
    BY <1>0, <1>12, <1>a, PerformType DEF AssignPower, Answers, TypeOK, DataType, Texts
  <1>13. CASE HandleGetNumber
    <2>1. data' \in DataType
      <3>1. req.id \in 0..MaxRequests
        BY <1>0, ConstantTypes DEF TypeOK, TagType, NoTag
      <3>2. (IF req.cmd = "getfreq" THEN frequency ELSE power) \in Int
        BY <1>0 DEF TypeOK
      <3>3. QED
        BY <1>13, <3>1, <3>2 DEF HandleGetNumber, DataType, Texts
    <2>2. /\ UNCHANGED <<msg, str, frequency, power, faults, stop, crashes, owner, tag, left,
                          working, req>>
          /\ Goto("server", "final")
          /\ Perform
      BY <1>13 DEF HandleGetNumber, radio
    <2>3. QED
      BY <1>0, <1>b, <2>1, <2>2, PerformType DEF TypeOK, ServerPc
  <1>14. CASE HandleSetFault
    <2>1. data.num \in Int
      BY <1>0 DEF TypeOK, DataType
    <2>2. faults' \in Seq(Int)
      BY <1>0, <1>14, <2>1 DEF HandleSetFault, TypeOK
    <2>3. Reply("ok", 1) /\ Perform /\ ServerKeeps /\ UNCHANGED <<frequency, power>>
      BY <1>14 DEF HandleSetFault
    <2>4. QED
      BY <1>0, <1>a, <2>2, <2>3, PerformType DEF Answers, TypeOK, Texts
  <1>15. CASE HandleClearFault
    <2>1. faults' \in Seq(Int)
      BY <1>0, <1>15, EraseType DEF HandleClearFault, TypeOK
    <2>2. PICK text \in Texts : Reply(text, 1)
      BY <1>15 DEF HandleClearFault, Texts
    <2>3. QED
      BY <1>0, <1>15, <1>a, <2>1, <2>2, PerformType DEF HandleClearFault, Answers, TypeOK
  <1>16. CASE HandleListFaults
    <2>1. ListChunks \in Nat
      <3>1. Len(faults) \in Nat
        BY <1>0 DEF TypeOK
      <3>2. (8 + 22 * Len(faults) + 15) \div 16 \in Nat
        BY <3>1
      <3>3. QED
        BY <3>2 DEF ListChunks
    <2>2. QED
      BY <1>0, <1>16, <1>a, <2>1, PerformType DEF HandleListFaults, Answers, TypeOK, radio, Texts
  <1>17. CASE HandleRecvStr
    <2>1. /\ UNCHANGED <<msg, str, frequency, power, faults, stop, crashes, tag, left, data,
                          working, req>>
          /\ owner' = "client"
          /\ Goto("server", "listen")
          /\ Perform
      BY <1>17 DEF HandleRecvStr, radio
    <2>2. QED
      BY <1>0, <1>b, <2>1, PerformType DEF TypeOK, ServerPc, Sides
  <1>18. CASE ListenForString
    <2>1. TypeOK'
      BY <1>0, <1>18
      DEF ListenForString, Receive, Goto, TypeOK, shared, serverVars, radio, clientVars, ServerPc, Sides
    <2>2. SendingInv' /\ CommandInv'
      BY <1>0, <1>18 DEF ListenForString, Receive, Goto, TypeOK, SendingInv, CommandInv, clientVars, Sides
    <2>3. QED
      BY <2>1, <2>2 DEF TypeInv
  <1>19. CASE ServerStream
    BY <1>19, StreamType DEF ServerStream, Sides
  <1>20. QED
    BY <1>1, <1>2, <1>3, <1>4, <1>5, <1>6, <1>7, <1>8, <1>9, <1>10, <1>11, <1>12, <1>13, <1>14,
       <1>15, <1>16, <1>17, <1>18, <1>19
    DEF ServerStep, Handle

(* Every step of the client's thread keeps the types.                       *)
LEMMA ClientRunsType == TypeInv /\ (ClientRuns \/ UserAnswers) => TypeInv'
  <1> SUFFICES ASSUME TypeInv, ClientStep \/ SetNumber \/ SendStr, UNCHANGED serverVars
                PROVE  TypeInv'
    BY DEF ClientRuns, UserAnswers
  <1>0. TypeOK /\ SendingInv /\ CommandInv
    BY DEF TypeInv
  <1> DEFINE Places == ClientPc \ {"tag", "number", "text", "request", "fill", "give", "sent"}
  <1>a. ASSUME UNCHANGED <<tag, left, data, msg, clientVars>>, owner' \in Sides,
               str' \in [Sides -> Seq(DataType)],
               NEW place \in Places, Goto("client", place)
        PROVE  TypeInv'
    <2>1. TypeOK'
      BY <1>0, <1>a DEF TypeOK, serverVars, radio, clientVars, Goto, Sides
    <2>2. SendingInv' /\ CommandInv'
      BY <1>0, <1>a DEF TypeOK, SendingInv, CommandInv, clientVars, Goto, Sides
    <2>3. QED
      BY <2>1, <2>2 DEF TypeInv
  <1>b. ASSUME NEW text \in {<<>>, <<data>>}, str' = [str EXCEPT !["client"] = text]
        PROVE  str' \in [Sides -> Seq(DataType)]
    <2>1. data \in DataType
      BY <1>0 DEF TypeOK
    <2>2. text \in Seq(DataType)
      <3>1. CASE text = <<>>
        BY <3>1
      <3>2. CASE text = <<data>>
        BY <2>1, <3>2
      <3>3. QED
        BY <3>1, <3>2
    <2>3. str \in [Sides -> Seq(DataType)]
      BY <1>0 DEF TypeOK
    <2>4. QED
      BY <1>b, <2>2, <2>3
  <1>1. CASE SetTag
    <2>0. pc.client = "tag" /\ cmd \in Commands /\ uses \in 1..MaxRequests
      BY <1>0, <1>1, ConstantTypes DEF SetTag, CommandInv, TypeOK
    <2>1. tag' \in TagType
      BY <1>1, <2>0 DEF SetTag, TagType
    <2>2. PICK place \in {"number", "text", "request"} : Goto("client", place)
      BY <1>1 DEF SetTag
    <2>3. UNCHANGED <<owner, left, data, msg, str, clientVars>>
      BY <1>1 DEF SetTag
    <2>4. TypeOK'
      BY <1>0, <2>1, <2>2, <2>3 DEF TypeOK, Goto, serverVars, radio, clientVars, ClientPc, Sides
    <2>5. SendingInv' /\ CommandInv'
      BY <1>0, <2>0, <2>2, <2>3 DEF TypeOK, SendingInv, CommandInv, Goto, clientVars, Sides
    <2>6. QED
      BY <2>4, <2>5 DEF TypeInv
  <1>2. CASE SetNumber
    <2>1. data' \in DataType /\ arg' \in Int
      BY <1>0, <1>2, ConstantTypes DEF SetNumber, TypeOK, DataType, Texts
    <2>2. TypeOK'
      BY <1>0, <1>2, <2>1
      DEF SetNumber, TypeOK, Goto, serverVars, radio, ClientPc, Sides
    <2>3. SendingInv' /\ CommandInv'
      BY <1>0, <1>2 DEF SetNumber, TypeOK, SendingInv, CommandInv, Goto, Sides
    <2>4. QED
      BY <2>2, <2>3 DEF TypeInv
  <1>3. CASE Request
    <2>1. str' \in [Sides -> Seq(DataType)]
      <3>1. UNCHANGED str \/ str' = [str EXCEPT !["client"] = <<>>]
        BY <1>3 DEF Request, Receive
      <3>2. QED
        BY <1>0, <1>b, <3>1 DEF TypeOK
    <2>2. PICK place \in {"ended", "await", "recv"} : Goto("client", place)
      BY <1>3 DEF Request, Receive
    <2>3. QED
      BY <1>3, <1>a, <2>1, <2>2 DEF Request, ClientPc, Sides
  <1>4. CASE Await
    BY <1>0, <1>4, <1>a DEF Await, TypeOK, shared, ClientPc
  <1>5. CASE ReadNumber
    <2>1. str' \in [Sides -> Seq(DataType)]
      BY <1>5, <1>b DEF ReadNumber
    <2>2. QED
      BY <1>0, <1>5, <1>a, <2>1 DEF ReadNumber, TypeOK, shared, ClientPc
  <1>6. CASE TakeBack
    <2>1. str' \in [Sides -> Seq(DataType)]
      BY <1>6, <1>b DEF TakeBack
    <2>2. QED
      BY <1>0, <1>6, <1>a, <2>1 DEF TakeBack, TypeOK, shared, ClientPc, Sides
  <1>7. CASE ClientStream
    BY <1>7, StreamType DEF ClientStream, Sides
  <1>8. CASE SendStr
    <2>0. cmd \in Commands /\ uses \in 1..MaxRequests
      BY <1>0, <1>8, ConstantTypes DEF SendStr, CommandInv, TypeOK
    <2>1. PICK n \in TextNumbers, size \in StreamSizes :
            Send("client", Message("string", n, uses, size))
      BY <1>8 DEF SendStr
    <2> DEFINE m == Message("string", n, uses, size)
    <2>2. m \in MessageType /\ m.text # "none"
      BY <2>0, ConstantTypes DEF Message, MessageType, Texts
    <2> HIDE DEF m
    <2>3. Send("client", m)
      BY <2>1 DEF m
    <2>4. "client" \in Sides /\ "server" \in Sides \ {"client"}
      BY DEF Sides
    <2>5. /\ msg' \in [Sides -> MessageType]
          /\ pc' \in [Sides -> ServerPc \cup ClientPc]
          /\ pc'.server = pc.server
          /\ pc'.client \in {"final", "fill"}
          /\ SendingInv'
      BY <1>0, <2>2, <2>3, <2>4, SendType
    <2>6. TypeOK'
      BY <1>0, <1>8, <2>5 DEF SendStr, TypeOK, shared, serverVars, radio, clientVars, ClientPc
    <2>7. CommandInv'
      BY <2>5 DEF CommandInv
    <2>8. QED
      BY <2>5, <2>6, <2>7 DEF TypeInv
  <1>9. QED
    BY <1>1, <1>2, <1>3, <1>4, <1>5, <1>6, <1>7, <1>8 DEF ClientStep

(* Every step of the session keeps the types.                               *)
LEMMA TypeStep == TypeInv /\ [Next]_sessionVars => TypeInv'
  <1> SUFFICES ASSUME TypeInv, [Next]_sessionVars PROVE TypeInv'
    OBVIOUS
  <1>0. TypeOK /\ SendingInv /\ CommandInv
    BY DEF TypeInv
  <1> USE DEF serverVars, clientVars, memVars, shared, radio
  <1>1. CASE Serve
    BY <1>1, ServeType
  <1>2. CASE ClientRuns \/ UserAnswers
    BY <1>2, ClientRunsType
  <1>3. CASE Started
    <2>1. TypeOK'
      BY <1>0, <1>3 DEF Started, Start, TypeOK, Goto, ServerPc, Sides
    <2>2. SendingInv' /\ CommandInv'
      BY <1>0, <1>3 DEF Started, Start, TypeOK, SendingInv, CommandInv, Goto, Sides
    <2>3. QED
      BY <2>1, <2>2 DEF TypeInv
  <1>4. CASE Stop
    BY <1>0, <1>4
    DEF Stop, StopWorking, StopSetState, TypeInv, TypeOK, SendingInv, CommandInv, Sides
  <1>5. CASE ServerCrash /\ UNCHANGED clientVars
    <2>1. TypeOK'
      BY <1>0, <1>5, ConstantTypes
      DEF ServerCrash, FreshRadio, TypeOK, Goto, ServerPc, Sides, TagType, NoTag
    <2>2. SendingInv' /\ CommandInv'
      BY <1>0, <1>5 DEF ServerCrash, TypeOK, SendingInv, CommandInv, Goto, Sides
    <2>3. QED
      BY <2>1, <2>2 DEF TypeInv
  <1>6. CASE ClientCrash
    <2>1. TypeOK'
      BY <1>0, <1>6, ConstantTypes DEF ClientCrash, TypeOK, Goto, ClientPc, Sides
    <2>2. SendingInv' /\ CommandInv'
      BY <1>0, <1>6 DEF ClientCrash, TypeOK, SendingInv, CommandInv, Goto, Sides
    <2>3. QED
      BY <2>1, <2>2 DEF TypeInv
  <1>7. CASE UserTypes
    <2>1. TypeOK'
      BY <1>0, <1>7, ConstantTypes DEF UserTypes, Prompt, TypeOK, Goto, ClientPc, Sides
    <2>2. SendingInv' /\ CommandInv'
      BY <1>0, <1>7 DEF UserTypes, Prompt, TypeOK, SendingInv, CommandInv, Goto, Sides
    <2>3. QED
      BY <2>1, <2>2 DEF TypeInv
  <1>8. CASE UNCHANGED sessionVars
    BY <1>0, <1>8 DEF sessionVars, TypeInv, TypeOK, SendingInv, CommandInv
  <1>9. QED
    BY <1>1, <1>2, <1>3, <1>4, <1>5, <1>6, <1>7, <1>8 DEF Next, Crash

(* The variables keep their types whatever happens: give-ups, Stop(), taken *)
(* back memory and deaths of either process included.                       *)
THEOREM TypeCorrect == Spec => []TypeOK
  <1>1. TypeInv => TypeOK
    BY DEF TypeInv
  <1>2. QED
    BY <1>1, InitTypeInv, TypeStep, PTL DEF Spec

-----------------------------------------------------------------------------
(* Ownership.                                                               *)

(* A handler that answers goes on inside SendStreamCore.                    *)
LEMMA ReplyGoesOn ==
  ASSUME TypeInv, NEW text, NEW chunks, Reply(text, chunks)
  PROVE  pc'.client = pc.client
  BY DEF TypeInv, TypeOK, Reply, Send, Goto, Sides

(* The serving thread touches the memory only as its owner.                 *)
LEMMA ServeOwner ==
  ASSUME Disciplined, TypeInv, OwnerInv, Serve
  PROVE  OwnerInv'
  <1>0. /\ ServerStep
        /\ UNCHANGED <<cmd, stop>>
        /\ pc \in [Sides -> ServerPc \cup ClientPc]
        /\ "server" \in Sides /\ "client" \in Sides
    <2>1. UNCHANGED stop
      BY DEF Serve, ServerStep, Enter, Grant, Loop, Look, Dispatch, Handle, HandlePing, HandleExit,
             HandleSetFrequency, AssignFrequency, HandleSetPower, RecheckPower, AssignPower,
             HandleGetNumber, HandleSetFault, HandleClearFault, HandleListFaults, HandleRecvStr,
             ListenForString, ServerStream, ServerKeeps, serverVars
    <2>2. QED
      BY <2>1 DEF Serve, clientVars, TypeInv, TypeOK, Sides
  <1> USE DEF OwnerInv, MutualExclusion, ServerHolds, ClientHolds
  <1>a. ASSUME owner' = owner, pc'.client = pc.client, ServerHolds
        PROVE  OwnerInv'
    BY <1>0, <1>a
  <1>b. ASSUME owner' = owner, NEW place, Goto("server", place),
               place \in {"dispatch", "handle", "recheck", "assign", "fill", "give", "final", "ack"}
                  => owner = "server"
        PROVE  OwnerInv'
    BY <1>0, <1>b DEF Goto
  <1>c. ASSUME owner' = "client", NEW place, Goto("server", place),
               place \notin {"dispatch", "handle", "recheck", "assign", "fill", "give", "final", "ack"}
        PROVE  OwnerInv'
    BY <1>0, <1>c DEF Goto
  <1>1. CASE Enter
    BY <1>1, <1>b DEF Enter, shared
  <1>2. CASE Grant
    BY <1>2, <1>c DEF Grant
  <1>3. CASE Loop
    BY <1>3, <1>b DEF Loop, shared
  <1>4. CASE Look
    BY <1>4, <1>b DEF Look, shared
  <1>5. CASE Dispatch
    BY <1>5, <1>b DEF Dispatch, shared
  <1>6. CASE HandlePing
    BY <1>6, <1>a, ReplyGoesOn DEF HandlePing, Handling, ServerKeeps, shared
  <1>7. CASE HandleExit
    BY <1>7, <1>b DEF HandleExit, shared
  <1>8. CASE HandleSetFrequency
    <2>1. CASE Goto("server", "assign")
      BY <1>8, <1>b, <2>1 DEF HandleSetFrequency, Handling, ServerKeeps, shared
    <2>2. CASE Reply("not ok", 1)
      BY <1>8, <1>a, <2>2, ReplyGoesOn DEF HandleSetFrequency, Handling, ServerKeeps, shared
    <2>3. QED
      BY <1>8, <2>1, <2>2 DEF HandleSetFrequency
  <1>9. CASE AssignFrequency
    BY <1>9, <1>a, ReplyGoesOn DEF AssignFrequency, ServerKeeps, shared
  <1>10. CASE HandleSetPower
    BY <1>10, <1>b DEF HandleSetPower, Handling, ServerKeeps, shared
  <1>11. CASE RecheckPower
    <2>1. CASE Goto("server", "assign")
      BY <1>11, <1>b, <2>1 DEF RecheckPower, ServerKeeps, shared
    <2>2. CASE Reply("not ok", 1)
      BY <1>11, <1>a, <2>2, ReplyGoesOn DEF RecheckPower, ServerKeeps, shared
    <2>3. QED
      BY <1>11, <2>1, <2>2 DEF RecheckPower
  <1>12. CASE AssignPower
    BY <1>12, <1>a, ReplyGoesOn DEF AssignPower, ServerKeeps, shared
  <1>13. CASE HandleGetNumber
    BY <1>13, <1>b DEF HandleGetNumber, Handling
  <1>14. CASE HandleSetFault
    BY <1>14, <1>a, ReplyGoesOn DEF HandleSetFault, Handling, ServerKeeps, shared
  <1>15. CASE HandleClearFault
    BY <1>15, <1>a, ReplyGoesOn DEF HandleClearFault, Handling, ServerKeeps, shared
  <1>16. CASE HandleListFaults
    BY <1>16, <1>a, ReplyGoesOn DEF HandleListFaults, Handling, ServerKeeps, shared
  <1>17. CASE HandleRecvStr
    BY <1>17, <1>c DEF HandleRecvStr
  <1>18. CASE ListenForString
    BY <1>18, <1>b DEF ListenForString, Receive, shared
  <1>19. CASE ServerStream
    <2> SUFFICES ASSUME Stream("server") PROVE OwnerInv'
      BY <1>19 DEF ServerStream
    <2> USE DEF shared, Home, Other
    <2>1. CASE Fill("server")
      BY <2>1, <1>b DEF Fill
    <2>2. CASE Give("server")
      BY <2>2, <1>c DEF Give
    <2>3. CASE Acked("server")
      <3>1. owner = "server" /\ owner' = owner /\ pc.server = "sent"
        BY <2>3 DEF Acked
      <3>2. PICK place : Goto("server", place)
        BY <2>3 DEF Acked, Send
      <3>3. QED
        BY <1>b, <3>1, <3>2
    <2>4. CASE GiveUp("server")
      BY <2>4, <1>b DEF GiveUp
    <2>5. CASE Final("server")
      BY <2>5, <1>c DEF Final
    <2>6. CASE Take("server")
      BY <2>6, <1>b DEF Take
    <2>7. CASE NoAnswer("server")
      BY <2>7, <1>b DEF NoAnswer
    <2>8. CASE Ack("server")
      BY <2>8, <1>c DEF Ack
    <2>9. CASE Check("server")
      <3>1. PICK place \in {"loop", "recv"} : Goto("server", place)
        BY <2>9 DEF Check
      <3>2. QED
        BY <2>9, <1>b, <3>1 DEF Check
    <2>10. QED
      BY <2>1, <2>2, <2>3, <2>4, <2>5, <2>6, <2>7, <2>8, <2>9 DEF Stream
  <1>20. QED
    BY <1>0, <1>1, <1>2, <1>3, <1>4, <1>5, <1>6, <1>7, <1>8, <1>9, <1>10, <1>11, <1>12, <1>13,
       <1>14, <1>15, <1>16, <1>17, <1>18, <1>19
    DEF ServerStep, Handle

(* So does the client's thread, as long as no command takes the memory back. *)
LEMMA ClientOwner ==
  ASSUME Disciplined, TypeInv, OwnerInv, ClientRuns \/ UserAnswers
  PROVE  OwnerInv'
  <1>0. /\ ClientStep \/ SetNumber \/ SendStr
        /\ UNCHANGED stop
        /\ pc \in [Sides -> ServerPc \cup ClientPc]
        /\ "server" \in Sides /\ "client" \in Sides
        /\ Timeouts \in BOOLEAN
    BY TimeoutsAssumption DEF ClientRuns, UserAnswers, serverVars, TypeInv, TypeOK, Sides
  <1> USE DEF OwnerInv, MutualExclusion, ServerHolds, ClientHolds
  <1> DEFINE Holding == {"tag", "number", "text", "request", "read", "fill", "give", "final", "ack"}
  <1>b. ASSUME owner' = owner, NEW place, Goto("client", place), place # "takeback",
               Timeouts => place # "await",
               place \in Holding => owner = "client"
        PROVE  OwnerInv'
    BY <1>0, <1>b DEF Goto
  <1>c. ASSUME owner' = "server", ClientHolds, NEW place, Goto("client", place), place # "takeback",
               Timeouts => place # "await",
               place \notin Holding
        PROVE  OwnerInv'
    BY <1>0, <1>c DEF Goto
  <1>1. CASE SetTag
    <2>1. owner = "client" /\ owner' = owner
      BY <1>1 DEF SetTag
    <2>2. PICK place \in {"number", "text", "request"} : Goto("client", place)
      BY <1>1 DEF SetTag
    <2>3. QED
      BY <1>b, <2>1, <2>2
  <1>2. CASE SetNumber
    BY <1>2, <1>b DEF SetNumber
  <1>3. CASE Request
    <2>1. owner' = "server" /\ ClientHolds
      BY <1>3 DEF Request
    <2>2. PICK place \in {"ended", "await", "recv"} :
            Goto("client", place) /\ (place = "await" => cmd \in ForNumber)
      BY <1>3 DEF Request, Receive
    <2>3. cmd \in Commands
      BY <1>3 DEF Request, TypeInv, CommandInv
    <2>4. Timeouts => place # "await"
      BY <2>2, <2>3 DEF Disciplined
    <2>5. QED
      BY <1>c, <2>1, <2>2, <2>4
  <1>4. CASE Await
    BY <1>4, <1>b DEF Await, shared
  <1>5. CASE ReadNumber
    BY <1>5, <1>b DEF ReadNumber, shared
  <1>6. CASE TakeBack
    BY <1>6 DEF TakeBack
  <1>7. CASE ClientStream
    <2> SUFFICES ASSUME Stream("client") PROVE OwnerInv'
      BY <1>7 DEF ClientStream
    <2> USE DEF shared, Home, Other
    <2>1. CASE Fill("client")
      BY <2>1, <1>b DEF Fill
    <2>2. CASE Give("client")
      BY <2>2, <1>c DEF Give
    <2>3. CASE Acked("client")
      <3>1. owner = "client" /\ owner' = owner
        BY <2>3 DEF Acked
      <3>2. PICK place \in {"fill", "final"} : Goto("client", place)
        BY <2>3 DEF Acked, Send
      <3>3. QED
        BY <1>b, <3>1, <3>2
    <2>4. CASE GiveUp("client")
      BY <2>4, <1>b DEF GiveUp
    <2>5. CASE Final("client")
      BY <2>5, <1>c DEF Final
    <2>6. CASE Take("client")
      BY <2>6, <1>b DEF Take
    <2>7. CASE NoAnswer("client")
      BY <2>7, <1>b DEF NoAnswer
    <2>8. CASE Ack("client")
      BY <2>8, <1>c DEF Ack
    <2>9. CASE Check("client")
      <3>1. PICK place \in {"prompt", "recv"} : Goto("client", place)
        BY <2>9 DEF Check
      <3>2. QED
        BY <2>9, <1>b, <3>1 DEF Check
    <2>10. QED
      BY <2>1, <2>2, <2>3, <2>4, <2>5, <2>6, <2>7, <2>8, <2>9 DEF Stream
  <1>8. CASE SendStr
    <2>1. owner = "client" /\ owner' = owner
      BY <1>8 DEF SendStr, shared
    <2>2. PICK place \in {"fill", "final"} : Goto("client", place)
      BY <1>8 DEF SendStr, Send
    <2>3. QED
      BY <1>b, <2>1, <2>2
  <1>9. QED
    BY <1>0, <1>1, <1>2, <1>3, <1>4, <1>5, <1>6, <1>7, <1>8 DEF ClientStep

(* Every step of the session keeps the discipline of ownership.             *)
LEMMA OwnerStep ==
  ASSUME Disciplined, TypeInv, OwnerInv, [Next]_sessionVars
  PROVE  OwnerInv'
  <1>0. pc \in [Sides -> ServerPc \cup ClientPc] /\ "server" \in Sides /\ "client" \in Sides
    BY DEF TypeInv, TypeOK, Sides
  <1> USE DEF OwnerInv, MutualExclusion, ServerHolds, ClientHolds, shared, Goto
  <1>1. CASE Serve
    BY <1>1, ServeOwner
  <1>2. CASE ClientRuns \/ UserAnswers
    BY <1>2, ClientOwner
  <1>3. CASE Started
    BY <1>0, <1>3 DEF Started, Start, serverVars
  <1>4. CASE Stop
    BY <1>4 DEF Stop, StopWorking, StopSetState, Disciplined
  <1>5. CASE ServerCrash
    BY <1>0, <1>5 DEF ServerCrash
  <1>6. CASE ClientCrash
    BY <1>0, <1>6 DEF ClientCrash
  <1>7. CASE UserTypes
    BY <1>0, <1>7 DEF UserTypes, Prompt, serverVars
  <1>8. CASE UNCHANGED sessionVars
    BY <1>8 DEF sessionVars, memVars, serverVars
  <1>9. QED
    BY <1>1, <1>2, <1>3, <1>4, <1>5, <1>6, <1>7, <1>8 DEF Next, Crash

-----------------------------------------------------------------------------
(* The ranges of the radio's settings.                                      *)

(* The serving thread stores a number only after it was found in range, and *)
(* reads the same number again.                                             *)
LEMMA ServeRange ==
  ASSUME TypeInv, RangeInv, Serve
  PROVE  RangeInv'
  <1>0. /\ ServerStep
        /\ pc \in [Sides -> ServerPc \cup ClientPc] /\ "server" \in Sides
        /\ frequency \in Int /\ power \in Int /\ MinFrequency \in Int
        /\ data.num \in Int
    BY ConstantTypes DEF Serve, TypeInv, TypeOK, DataType, Sides
  <1> USE DEF RangeInv, FrequencyInRange, PowerInRange
  <1>a. ASSUME UNCHANGED <<frequency, power>>, NEW place, Goto("server", place),
               place \notin {"assign", "recheck"}
        PROVE  RangeInv'
    BY <1>0, <1>a DEF Goto
  <1>b. ASSUME frequency' >= MinFrequency, power' >= 0, NEW text, NEW chunks, Reply(text, chunks)
        PROVE  RangeInv'
    <2>1. PICK place \in {"final", "fill"} : Goto("server", place)
      BY <1>b DEF Reply, Send
    <2>2. QED
      BY <1>0, <1>b, <2>1 DEF Goto
  <1>1. CASE Enter \/ Grant \/ HandleExit \/ HandleGetNumber \/ HandleRecvStr \/ ListenForString
    BY <1>1, <1>a
    DEF Enter, Grant, HandleExit, HandleGetNumber, HandleRecvStr, ListenForString, Receive,
        serverVars, radio
  <1>2. CASE Loop
    BY <1>2, <1>a DEF Loop, serverVars, radio
  <1>3. CASE Look
    BY <1>3, <1>a DEF Look, serverVars, radio
  <1>4. CASE Dispatch
    BY <1>4, <1>a DEF Dispatch, radio
  <1>5. CASE HandlePing \/ HandleSetFault \/ HandleClearFault \/ HandleListFaults
    BY <1>5, <1>b DEF HandlePing, HandleSetFault, HandleClearFault, HandleListFaults, radio
  <1>6. CASE HandleSetFrequency
    <2>1. CASE data.num >= MinFrequency /\ Goto("server", "assign")
      BY <1>0, <1>6, <2>1
      DEF HandleSetFrequency, Handling, ServerKeeps, Goto, shared, radio
    <2>2. CASE Reply("not ok", 1)
      BY <1>6, <1>b, <2>2 DEF HandleSetFrequency, radio
    <2>3. QED
      BY <1>6, <2>1, <2>2 DEF HandleSetFrequency
  <1>7. CASE AssignFrequency
    BY <1>7, <1>b DEF AssignFrequency
  <1>8. CASE HandleSetPower
    BY <1>0, <1>8 DEF HandleSetPower, Handling, ServerKeeps, Goto, shared, radio
  <1>9. CASE RecheckPower
    <2>1. CASE data.num = 0 /\ Goto("server", "assign")
      BY <1>0, <1>9, <2>1 DEF RecheckPower, ServerKeeps, Goto, shared, radio
    <2>2. CASE Reply("not ok", 1)
      BY <1>9, <1>b, <2>2 DEF RecheckPower, radio
    <2>3. QED
      BY <1>9, <2>1, <2>2 DEF RecheckPower
  <1>10. CASE AssignPower
    BY <1>10, <1>b DEF AssignPower
  <1>11. CASE ServerStream
    <2>1. UNCHANGED <<frequency, power>>
      BY <1>11 DEF ServerStream, serverVars, radio
    <2>2. PICK place \in {"give", "sent", "final", "fill", "loop", "ack", "check", "recv"} :
            Goto("server", place)
      BY <1>11
      DEF ServerStream, Stream, Fill, Give, Acked, Send, GiveUp, Final, Take, NoAnswer, Ack, Check,
          Home
    <2>3. QED
      BY <1>a, <2>1, <2>2
  <1>12. QED
    BY <1>0, <1>1, <1>2, <1>3, <1>4, <1>5, <1>6, <1>7, <1>8, <1>9, <1>10, <1>11
    DEF ServerStep, Handle

(* The client does not touch the number under test: it is not its turn.     *)
LEMMA ClientKeepsNumber ==
  ASSUME TypeInv, OwnerInv, ClientRuns \/ UserAnswers, pc.server \in {"assign", "recheck"}
  PROVE  data' = data
  <1>1. owner = "server"
    BY DEF OwnerInv, MutualExclusion, ServerHolds
  <1>2. ~ SetNumber /\ ~ Fill("client")
    BY <1>1 DEF OwnerInv, MutualExclusion, ClientHolds, SetNumber, Fill
  <1>3. ClientStep \/ SetNumber \/ SendStr
    BY DEF ClientRuns, UserAnswers
  <1>4. CASE SetTag \/ SendStr \/ Request \/ Await \/ ReadNumber \/ TakeBack
    BY <1>4 DEF SetTag, SendStr, Request, Await, ReadNumber, TakeBack, shared
  <1>5. CASE ClientStream
    BY <1>2, <1>5
    DEF ClientStream, Stream, Give, Acked, GiveUp, Final, Take, NoAnswer, Ack, Check, shared
  <1>6. QED
    BY <1>2, <1>3, <1>4, <1>5 DEF ClientStep

(* Every step of the session keeps the numbers in range.                    *)
LEMMA RangeStep ==
  ASSUME TypeInv, OwnerInv, RangeInv, [Next]_sessionVars
  PROVE  RangeInv'
  <1>0. /\ pc \in [Sides -> ServerPc \cup ClientPc]
        /\ "server" \in Sides /\ "client" \in Sides /\ MinFrequency \in Int
    BY ConstantTypes DEF TypeInv, TypeOK, Sides
  <1> USE DEF RangeInv, FrequencyInRange, PowerInRange, serverVars, radio, shared
  <1>1. CASE Serve
    BY <1>1, ServeRange
  <1>2. CASE ClientRuns \/ UserAnswers
    <2>1. pc'.server = pc.server
      BY <1>0, <1>2
      DEF ClientRuns, UserAnswers, ClientStep, SetTag, SetNumber, SendStr, Request, Await, ReadNumber, TakeBack,
          ClientStream, Stream, Fill, Give, Acked, Send, GiveUp, Final, Take, NoAnswer, Ack, Check,
          Receive, Goto
    <2>2. QED
      BY <1>2, <2>1, ClientKeepsNumber DEF ClientRuns, UserAnswers
  <1>3. CASE Started
    BY <1>0, <1>3 DEF Started, Start, Goto
  <1>4. CASE Stop
    BY <1>4 DEF Stop, StopWorking, StopSetState, memVars
  <1>5. CASE ServerCrash
    BY <1>0, <1>5 DEF ServerCrash, FreshRadio, Goto
  <1>6. CASE ClientCrash
    BY <1>0, <1>6 DEF ClientCrash, Goto
  <1>7. CASE UserTypes
    BY <1>0, <1>7 DEF UserTypes, Prompt, Goto
  <1>8. CASE UNCHANGED sessionVars
    BY <1>8 DEF sessionVars, memVars
  <1>9. QED
    BY <1>1, <1>2, <1>3, <1>4, <1>5, <1>6, <1>7, <1>8 DEF Next, Crash

(* The conjunction of the three invariants is inductive.                    *)
LEMMA Inductive == ASSUME Disciplined PROVE Spec => []DisciplinedInv
  <1>1. Init => DisciplinedInv
    <2> SUFFICES ASSUME Init PROVE OwnerInv /\ RangeInv
      BY InitTypeInv DEF DisciplinedInv
    <2>1. OwnerInv
      BY DEF Init, MemInit, ServerInit, OwnerInv, MutualExclusion, ServerHolds, ClientHolds
    <2>2. RangeInv
      BY ConstantTypes DEF Init, MemInit, ServerInit, RangeInv, FrequencyInRange, PowerInRange
    <2>3. QED
      BY <2>1, <2>2
  <1>2. DisciplinedInv /\ [Next]_sessionVars => DisciplinedInv'
    BY TypeStep, OwnerStep, RangeStep DEF DisciplinedInv
  <1>3. QED
    BY <1>1, <1>2, PTL DEF Spec

(* "Who owns memory": with no Stop() and no command that takes the memory   *)
(* back, the server and the client never use the record at once, whatever   *)
(* the await loops, the crashes and the restarts do.                        *)
THEOREM Exclusion == ASSUME Disciplined PROVE Spec => []MutualExclusion
  <1>1. DisciplinedInv => MutualExclusion
    BY DEF DisciplinedInv, OwnerInv
  <1>2. QED
    BY <1>1, Inductive, PTL

(* Under the same discipline SetFrequency never stores a frequency below    *)
(* the minimum, although it reads the number a second time to store it.     *)
THEOREM FrequencyBound == ASSUME Disciplined PROVE Spec => []FrequencyInRange
  <1>1. DisciplinedInv => FrequencyInRange
    BY DEF DisciplinedInv, RangeInv
  <1>2. QED
    BY <1>1, Inductive, PTL

(* And SetPower never stores a negative power.                              *)
THEOREM PowerBound == ASSUME Disciplined PROVE Spec => []PowerInRange
  <1>1. DisciplinedInv => PowerInRange
    BY DEF DisciplinedInv, RangeInv
  <1>2. QED
    BY <1>1, Inductive, PTL

-----------------------------------------------------------------------------
(* Punctual sessions: the handshake.                                        *)

(* What holds in the middle of a handler: the client waits for the command  *)
(* that is being handled, in the place that belongs to that command.        *)
LEMMA Serving ==
  ASSUME TypeInv, HandshakeInv, pc.server \in {"dispatch", "handle", "recheck", "assign"}
  PROVE  /\ owner = "server"
         /\ ~Served
         /\ tag = [cmd |-> cmd, id |-> uses]
         /\ pc.server # "dispatch" => req = [cmd |-> cmd, id |-> uses]
         /\ uses \in 1..MaxRequests
         /\ performed[uses] = 0
         /\ cmd \in Commands
         /\ pc.client \in {"recv", "await", "sent"}
         /\ pc.client = "recv" <=> cmd \notin ForNumber \cup {"toserv"}
         /\ pc.client = "await" <=> cmd \in ForNumber
         /\ pc.client = "sent" <=> cmd = "toserv"
  <1>1. /\ owner = "server" /\ ~Served
        /\ pc.client \in {"recv", "await", "sent"}
    BY DEF HandshakeInv, StageInv, Stage
  <1>2. /\ cmd \in Commands /\ uses >= 1
        /\ pc.client = "recv" => cmd \notin ForNumber \cup {"toserv"}
        /\ pc.client = "await" => cmd \in ForNumber
        /\ pc.client = "sent" => cmd = "toserv"
    BY <1>1 DEF HandshakeInv, PlaceInv
  <1>3. uses \in 1..MaxRequests
    BY <1>2, ConstantTypes DEF TypeInv, TypeOK
  <1>4. performed[uses] = 0
    BY <1>1, <1>3 DEF HandshakeInv, CountInv, Served
  <1>5. /\ tag = [cmd |-> cmd, id |-> uses]
        /\ pc.server # "dispatch" => req = tag
    BY <1>1 DEF HandshakeInv, RequestInv
  <1>6. "toserv" \notin ForNumber
    BY DEF ForNumber
  <1>7. QED
    BY <1>1, <1>2, <1>3, <1>4, <1>5, <1>6

(* A step that neither types a command nor performs one keeps the counts.   *)
LEMMA CountsStay ==
  ASSUME CountInv, UNCHANGED <<performed, uses>>
  PROVE  CountInv' /\ (Served' <=> Served)
  BY DEF CountInv, Served

(* Performing the client's command counts it.                               *)
LEMMA PerformCounts ==
  ASSUME TypeInv, CountInv, ~Served, req.id = uses, uses \in 1..MaxRequests,
         Perform, UNCHANGED uses
  PROVE  CountInv' /\ Served' /\ performed'[uses] = 1
  <1>1. performed \in [1..MaxRequests -> 0..2]
    BY DEF TypeInv, TypeOK
  <1>2. performed[uses] = 0
    BY DEF CountInv, Served
  <1>3. performed' = [performed EXCEPT ![uses] = 1]
    BY <1>2 DEF Perform
  <1>4. QED
    BY <1>1, <1>2, <1>3 DEF CountInv, Served

(* A handler that performs the command and answers with one chunk.          *)
LEMMA AnswerHandshake ==
  ASSUME TypeInv, HandshakeInv, UNCHANGED clientVars,
         pc.server \in {"handle", "recheck", "assign"}, req.cmd \notin ForNumber \cup {"toserv"},
         Perform, NEW text, Reply(text, 1), ServerKeeps,
         ("setflt" \notin Commands => faults = <<>>)'
  PROVE  HandshakeInv'
  <1>1. /\ owner = "server" /\ pc.client = "recv" /\ ~Served
        /\ uses \in 1..MaxRequests /\ req.id = uses
    BY Serving
  <1>2. PICK n \in TextNumbers : Send("server", Message(text, n, req.id, 1))
    BY DEF Reply
  <1>3. /\ pc' = [pc EXCEPT !["server"] = "fill"]
        /\ msg' = [msg EXCEPT !["server"] = Message(text, n, req.id, 1)]
    BY <1>2 DEF Send, Goto, Message
  <1>4. /\ pc \in [Sides -> ServerPc \cup ClientPc] /\ msg \in [Sides -> MessageType]
        /\ "server" \in Sides /\ "client" \in Sides
    BY DEF TypeInv, TypeOK, Sides
  <1>5. pc'.server = "fill" /\ pc'.client = "recv" /\ msg'.server.rest = 1 /\ msg'.client = msg.client
    BY <1>1, <1>3, <1>4 DEF Message
  <1>6. CountInv' /\ Served'
    BY <1>1, PerformCounts DEF HandshakeInv, clientVars
  <1>7. StageInv'
    BY <1>1, <1>5, <1>6 DEF StageInv, Stage, ServerKeeps, shared
  <1>8. PlaceInv' /\ RequestInv'
    BY <1>1, <1>5, <1>6 DEF HandshakeInv, PlaceInv, RequestInv, clientVars
  <1>9. ChunkInv'
    BY <1>5 DEF HandshakeInv, ChunkInv, ServerKeeps, shared, Sides
  <1>10. QED
    BY <1>6, <1>7, <1>8, <1>9 DEF HandshakeInv

(* A step of the server that performs nothing and sends nothing.            *)
LEMMA ServerMoves ==
  ASSUME TypeInv, HandshakeInv, UNCHANGED <<clientVars, performed, tag, left, faults, working, stop>>,
         NEW place, Goto("server", place), StageInv',
         place \in {"fill", "give", "sent"} => msg'.server.rest = 1,
         msg'.client = msg.client,
         place \in {"handle", "recheck", "assign"} => req' = tag
  PROVE  HandshakeInv'
  <1>1. /\ pc \in [Sides -> ServerPc \cup ClientPc]
        /\ "server" \in Sides /\ "client" \in Sides
    BY DEF TypeInv, TypeOK, Sides
  <1>2. pc'.server = place /\ pc'.client = pc.client
    BY <1>1 DEF Goto
  <1>3. CountInv' /\ (Served' <=> Served)
    BY CountsStay DEF HandshakeInv, clientVars
  <1>4. PlaceInv' /\ RequestInv'
    BY <1>2, <1>3 DEF HandshakeInv, PlaceInv, RequestInv, clientVars
  <1>5. ChunkInv'
    BY <1>2 DEF HandshakeInv, ChunkInv, Sides
  <1>6. QED
    BY <1>3, <1>4, <1>5 DEF HandshakeInv

(* Performing a command without an answer of its own: the number a client   *)
(* awaits is in the memory, or the server listens to the client's string.   *)
LEMMA PerformHandshake ==
  ASSUME TypeInv, HandshakeInv, UNCHANGED clientVars, pc.server = "handle", Perform,
         UNCHANGED <<tag, left, msg, faults, working, req, stop>>,
         \/ req.cmd \in ForNumber /\ owner' = owner /\ Goto("server", "final")
         \/ req.cmd = "toserv" /\ owner' = "client" /\ Goto("server", "listen")
  PROVE  HandshakeInv'
  <1>1. /\ owner = "server" /\ ~Served
        /\ uses \in 1..MaxRequests /\ req = [cmd |-> cmd, id |-> uses]
        /\ pc.client = "await" <=> cmd \in ForNumber
        /\ pc.client = "sent" <=> cmd = "toserv"
    BY Serving
  <1>2. /\ pc \in [Sides -> ServerPc \cup ClientPc]
        /\ "server" \in Sides /\ "client" \in Sides
    BY DEF TypeInv, TypeOK, Sides
  <1>3. /\ pc'.client = pc.client
        /\ \/ pc'.server = "final" /\ pc.client = "await" /\ owner' = "server"
           \/ pc'.server = "listen" /\ pc.client = "sent" /\ owner' = "client"
    BY <1>1, <1>2 DEF Goto
  <1>4. CountInv' /\ Served'
    BY <1>1, PerformCounts DEF HandshakeInv, clientVars
  <1>5. StageInv'
    BY <1>3, <1>4 DEF StageInv, Stage
  <1>6. PlaceInv' /\ RequestInv'
    BY <1>1, <1>3, <1>4 DEF HandshakeInv, PlaceInv, RequestInv, clientVars
  <1>7. ChunkInv'
    BY <1>3 DEF HandshakeInv, ChunkInv, Sides
  <1>8. QED
    BY <1>4, <1>5, <1>6, <1>7 DEF HandshakeInv

(* Erasing from an empty list of faults.                                    *)
LEMMA EraseNothing == ASSUME NEW e PROVE RemoveFirst(<<>>, e) = <<>>
  BY DEF RemoveFirst

(* The serving thread's streams keep the handshake.                         *)
LEMMA ServerStreamHandshake ==
  ASSUME Punctual, TypeInv, HandshakeInv, UNCHANGED clientVars, ServerStream
  PROVE  HandshakeInv'
  <1>0. /\ pc \in [Sides -> ServerPc \cup ClientPc] /\ msg \in [Sides -> MessageType]
        /\ "server" \in Sides /\ "client" \in Sides
        /\ Stream("server") /\ StageInv /\ ~Timeouts
        /\ UNCHANGED <<faults, working, stop, req, performed>>
        /\ left <= 1 /\ left \in Nat
    BY DEF TypeInv, TypeOK, Sides, HandshakeInv, ServerStream, serverVars, radio, Punctual, ChunkInv
  <1>1. Served' <=> Served
    BY <1>0, CountsStay DEF HandshakeInv, clientVars
  <1>m. ASSUME UNCHANGED <<tag, left>>, NEW place, Goto("server", place), StageInv',
               place \notin {"handle", "recheck", "assign"},
               place \in {"fill", "give", "sent"} => msg'.server.rest = 1, msg'.client = msg.client
        PROVE  HandshakeInv'
    BY <1>0, <1>m, ServerMoves
  <1> DEFINE Moves(from, to) == pc.server = from /\ pc'.server = to /\ pc'.client = pc.client
  <1> USE <1>0, <1>1
  <1>2. CASE Fill("server")
    <2>1. msg.server.rest = 1
      BY <1>2 DEF Fill, HandshakeInv, ChunkInv
    <2>2. /\ pc'.server = "give" /\ pc'.client = pc.client /\ pc.server = "fill"
          /\ UNCHANGED <<owner, tag, msg>> /\ left' = 1
      BY <1>2, <2>1 DEF Fill, Goto
    <2>3. StageInv'
      BY <2>2 DEF StageInv, Stage
    <2>4. CountInv' /\ PlaceInv' /\ RequestInv'
      BY <2>2, CountsStay DEF HandshakeInv, PlaceInv, RequestInv, clientVars
    <2>5. ChunkInv'
      BY <2>1, <2>2 DEF HandshakeInv, ChunkInv, Sides
    <2>6. QED
      BY <2>3, <2>4, <2>5 DEF HandshakeInv
  <1>3. CASE Give("server")
    <2>1. /\ pc'.server = "sent" /\ pc'.client = pc.client /\ pc.server = "give"
          /\ owner' = "client" /\ msg.server.rest = 1
      BY <1>3 DEF Give, Goto, Other, HandshakeInv, ChunkInv
    <2>2. StageInv'
      BY <2>1 DEF StageInv, Stage
    <2>3. QED
      BY <1>3, <1>m, <2>1, <2>2 DEF Give
  <1>4. CASE Acked("server")
    <2>1. msg.server.rest = 1
      BY <1>4 DEF Acked, HandshakeInv, ChunkInv
    <2>2. Goto("server", "final") /\ msg'.client = msg.client
      <3>1. [msg["server"] EXCEPT !.rest = @ - 1].rest = 0
        BY <2>1 DEF MessageType
      <3>2. QED
        BY <1>4, <3>1 DEF Acked, Send
    <2>3. /\ pc'.server = "final" /\ pc'.client = pc.client /\ pc.server = "sent"
          /\ owner' = owner /\ owner = "server"
      BY <1>4, <2>2 DEF Acked, Goto, shared
    <2>4. StageInv'
      BY <2>3 DEF StageInv, Stage
    <2>5. QED
      BY <1>4, <1>m, <2>2, <2>4 DEF Acked, shared
  <1>5. CASE GiveUp("server") \/ NoAnswer("server")
    BY <1>5 DEF GiveUp, NoAnswer
  <1>6. CASE Final("server")
    <2>1. /\ pc'.server = "loop" /\ pc'.client = pc.client /\ pc.server = "final"
          /\ owner' = "client"
      BY <1>6 DEF Final, Goto, Other, Home
    <2>2. StageInv'
      BY <2>1 DEF StageInv, Stage
    <2>3. QED
      BY <1>6, <1>m, <2>2 DEF Final, Home
  <1>7. CASE Take("server")
    <2>1. /\ pc'.server = "ack" /\ pc'.client = pc.client /\ pc.server = "recv"
          /\ owner' = owner /\ owner = "server"
      BY <1>7 DEF Take, Goto, shared
    <2>2. StageInv'
      BY <2>1 DEF StageInv, Stage
    <2>3. QED
      BY <1>7, <1>m, <2>2 DEF Take, shared
  <1>8. CASE Ack("server")
    <2>1. /\ pc'.server = "check" /\ pc'.client = pc.client /\ pc.server = "ack"
          /\ owner' = "client"
      BY <1>8 DEF Ack, Goto, Other
    <2>2. StageInv'
      BY <2>1 DEF StageInv, Stage
    <2>3. QED
      BY <1>8, <1>m, <2>2 DEF Ack
  <1>9. CASE Check("server")
    <2>1. Goto("server", "loop") /\ pc.server = "check"
      BY <1>9 DEF Check, Home
    <2>2. pc'.server = "loop" /\ pc'.client = pc.client /\ owner' = owner
      BY <1>9, <2>1 DEF Check, Goto, shared
    <2>3. StageInv'
      BY <2>1, <2>2 DEF StageInv, Stage
    <2>4. QED
      BY <1>9, <1>m, <2>1, <2>3 DEF Check, shared
  <1>10. QED
    BY <1>2, <1>3, <1>4, <1>5, <1>6, <1>7, <1>8, <1>9 DEF Stream

(* Every step of the serving thread keeps the handshake.                    *)
LEMMA ServeHandshake ==
  ASSUME Punctual, TypeInv, RangeInv, HandshakeInv, Serve
  PROVE  HandshakeInv'
  <1>0. /\ pc \in [Sides -> ServerPc \cup ClientPc]
        /\ "server" \in Sides /\ "client" \in Sides
        /\ StageInv /\ ServerStep /\ UNCHANGED clientVars
        /\ working /\ ("setflt" \notin Commands => faults = <<>>)
    BY DEF TypeInv, TypeOK, Sides, HandshakeInv, Serve, ChunkInv
  <1>m. ASSUME UNCHANGED <<performed, tag, left, faults, working, stop, msg>>,
               NEW place, place \notin {"fill", "give", "sent"}, Goto("server", place),
               pc'.server = place /\ pc'.client = pc.client /\ (Served' <=> Served) => StageInv',
               place \in {"handle", "recheck", "assign"} => req' = tag
        PROVE  HandshakeInv'
    <2>1. pc'.server = place /\ pc'.client = pc.client
      BY <1>0, <1>m DEF Goto
    <2>2. Served' <=> Served
      BY <1>0, <1>m, CountsStay DEF HandshakeInv, clientVars
    <2>3. StageInv'
      BY <1>m, <2>1, <2>2
    <2>4. QED
      BY <1>0, <1>m, <2>3, ServerMoves
  <1>1. CASE Enter
    <2>1. pc.server = "starting" /\ owner' = owner /\ Goto("server", "grant") /\ working'
      BY <1>1 DEF Enter, shared
    <2>2. pc'.server = "grant" /\ pc'.client = pc.client /\ (Served' <=> Served) => StageInv'
      BY <1>0, <2>1 DEF StageInv, Stage
    <2>3. working' = working
      BY <1>0, <1>1, <2>1 DEF Enter, TypeInv, TypeOK
    <2>4. QED
      BY <1>1, <1>m, <2>1, <2>2, <2>3 DEF Enter, shared, radio
  <1>2. CASE Grant
    <2>1. pc.server = "grant" /\ owner' = "client" /\ Goto("server", "loop")
      BY <1>2 DEF Grant
    <2>2. pc'.server = "loop" /\ pc'.client = pc.client /\ (Served' <=> Served) => StageInv'
      BY <1>0, <2>1 DEF StageInv, Stage
    <2>3. QED
      BY <1>2, <1>m, <2>1, <2>2 DEF Grant, serverVars, radio
  <1>3. CASE Loop
    <2>1. pc.server = "loop" /\ owner' = owner /\ Goto("server", "look")
      BY <1>0, <1>3 DEF Loop, shared
    <2>2. pc'.server = "look" /\ pc'.client = pc.client /\ (Served' <=> Served) => StageInv'
      BY <1>0, <2>1 DEF StageInv, Stage
    <2>3. QED
      BY <1>3, <1>m, <2>1, <2>2 DEF Loop, shared, serverVars, radio
  <1>4. CASE Look
    <2>1. CASE owner = "server"
      <3>1. pc.server = "look" /\ owner' = owner /\ Goto("server", "dispatch")
        BY <1>4, <2>1 DEF Look, shared
      <3>2. pc'.server = "dispatch" /\ pc'.client = pc.client /\ (Served' <=> Served) => StageInv'
        BY <1>0, <2>1, <3>1 DEF StageInv, Stage
      <3>3. QED
        BY <1>4, <1>m, <3>1, <3>2 DEF Look, shared, serverVars, radio
    <2>2. CASE owner # "server"
      <3>1. pc.server = "look" /\ owner' = owner /\ Goto("server", "loop")
        BY <1>4, <2>2 DEF Look, shared
      <3>2. pc'.server = "loop" /\ pc'.client = pc.client /\ (Served' <=> Served) => StageInv'
        BY <1>0, <3>1 DEF StageInv, Stage
      <3>3. QED
        BY <1>4, <1>m, <3>1, <3>2 DEF Look, shared, serverVars, radio
    <2>3. QED
      BY <2>1, <2>2
  <1>5. CASE Dispatch
    <2>1. pc.server = "dispatch" /\ owner' = owner /\ req' = tag
      BY <1>5 DEF Dispatch, shared
    <2>2. tag = [cmd |-> cmd, id |-> uses] /\ uses \in 1..MaxRequests
      BY <2>1, Serving
    <2>3. tag # NoTag
      BY <2>2 DEF NoTag
    <2>4. Goto("server", "handle")
      BY <1>5, <2>3 DEF Dispatch
    <2>5. pc'.server = "handle" /\ pc'.client = pc.client /\ (Served' <=> Served) => StageInv'
      BY <1>0, <2>1 DEF StageInv, Stage
    <2>6. QED
      BY <1>5, <1>m, <2>1, <2>4, <2>5 DEF Dispatch, shared, radio
  <1>6. CASE HandlePing
    BY <1>0, <1>6, AnswerHandshake DEF HandlePing, Handling, ForNumber, radio
  <1>7. CASE HandleExit
    <2>1. pc.server = "handle" /\ req.cmd = "exit"
      BY <1>7 DEF HandleExit, Handling
    <2>2. QED
      BY <2>1, Serving DEF Punctual
  <1>a. ASSUME pc.server \in {"handle", "recheck"}, Goto("server", "assign"),
               UNCHANGED <<msg, radio, performed>>, ServerKeeps
        PROVE  HandshakeInv'
    <2>1. owner' = owner /\ req' = tag
      BY <1>a DEF HandshakeInv, RequestInv, ServerKeeps, shared
    <2>2. pc'.server = "assign" /\ pc'.client = pc.client /\ (Served' <=> Served) => StageInv'
      BY <1>0, <1>a, <2>1 DEF StageInv, Stage
    <2>3. QED
      BY <1>a, <1>m, <2>1, <2>2 DEF ServerKeeps, shared, radio
  <1>8. CASE HandleSetFrequency
    <2>1. CASE Goto("server", "assign") /\ UNCHANGED <<msg, performed>>
      BY <1>8, <1>a, <2>1 DEF HandleSetFrequency, Handling
    <2>2. CASE Perform /\ Reply("not ok", 1)
      BY <1>0, <1>8, <2>2, AnswerHandshake DEF HandleSetFrequency, Handling, ForNumber, radio
    <2>3. QED
      BY <1>8, <2>1, <2>2 DEF HandleSetFrequency
  <1>9. CASE AssignFrequency
    BY <1>0, <1>9, AnswerHandshake DEF AssignFrequency, ForNumber
  <1>10. CASE HandleSetPower
    <2>1. CASE Goto("server", "assign")
      BY <1>10, <1>a, <2>1 DEF HandleSetPower, Handling
    <2>2. CASE Goto("server", "recheck")
      <3>1. pc.server = "handle" /\ owner' = owner /\ req' = tag
        BY <1>10 DEF HandleSetPower, Handling, HandshakeInv, RequestInv, ServerKeeps, shared
      <3>2. pc'.server = "recheck" /\ pc'.client = pc.client /\ (Served' <=> Served) => StageInv'
        BY <1>0, <3>1 DEF StageInv, Stage
      <3>3. QED
        BY <1>10, <1>m, <2>2, <3>1, <3>2 DEF HandleSetPower, ServerKeeps, shared, radio
    <2>3. QED
      BY <1>10, <2>1, <2>2 DEF HandleSetPower
  <1>11. CASE RecheckPower
    <2>1. CASE Goto("server", "assign") /\ UNCHANGED <<msg, performed>>
      BY <1>11, <1>a, <2>1 DEF RecheckPower
    <2>2. CASE Perform /\ Reply("not ok", 1)
      BY <1>0, <1>11, <2>2, AnswerHandshake DEF RecheckPower, RangeInv, ForNumber, radio
    <2>3. QED
      BY <1>11, <2>1, <2>2 DEF RecheckPower
  <1>12. CASE AssignPower
    BY <1>0, <1>12, AnswerHandshake DEF AssignPower, ForNumber
  <1>13. CASE HandleGetNumber
    BY <1>0, <1>13, PerformHandshake DEF HandleGetNumber, Handling, ForNumber, radio
  <1>14. CASE HandleSetFault
    <2>1. pc.server = "handle" /\ req.cmd = "setflt"
      BY <1>14 DEF HandleSetFault, Handling
    <2>2. "setflt" \in Commands
      BY <2>1, Serving
    <2>3. QED
      BY <1>0, <1>14, <2>1, <2>2, AnswerHandshake DEF HandleSetFault, ForNumber
  <1>15. CASE HandleClearFault
    <2>1. "setflt" \notin Commands => faults' = <<>>
      BY <1>0, <1>15, EraseNothing DEF HandleClearFault
    <2>2. PICK text : Reply(text, 1)
      BY <1>15 DEF HandleClearFault
    <2>3. QED
      BY <1>0, <1>15, <2>1, <2>2, AnswerHandshake DEF HandleClearFault, Handling, ForNumber
  <1>16. CASE HandleListFaults
    <2>1. pc.server = "handle" /\ req.cmd = "listflt"
      BY <1>16 DEF HandleListFaults, Handling
    <2>2. ListChunks = 1
      BY <1>0, <2>1, Serving DEF Punctual, ListChunks
    <2>3. QED
      BY <1>0, <1>16, <2>1, <2>2, AnswerHandshake DEF HandleListFaults, ForNumber, radio
  <1>17. CASE HandleRecvStr
    BY <1>0, <1>17, PerformHandshake DEF HandleRecvStr, Handling, radio
  <1>18. CASE ListenForString
    <2>1. pc.server = "listen" /\ owner' = owner /\ Goto("server", "recv")
      BY <1>18 DEF ListenForString, Receive, shared
    <2>2. pc'.server = "recv" /\ pc'.client = pc.client /\ (Served' <=> Served) => StageInv'
      BY <1>0, <2>1 DEF StageInv, Stage
    <2>3. QED
      BY <1>18, <1>m, <2>1, <2>2 DEF ListenForString, shared, serverVars, radio
  <1>19. CASE ServerStream
    BY <1>0, <1>19, ServerStreamHandshake
  <1>20. QED
    BY <1>0, <1>1, <1>2, <1>3, <1>4, <1>5, <1>6, <1>7, <1>8, <1>9, <1>10, <1>11, <1>12, <1>13,
       <1>14, <1>15, <1>16, <1>17, <1>18, <1>19
    DEF ServerStep, Handle

(* A step of the client that types nothing.                                 *)
LEMMA ClientMoves ==
  ASSUME TypeInv, HandshakeInv, UNCHANGED <<serverVars, cmd, uses>>, left' <= 1,
         NEW place, Goto("client", place), StageInv',
         place # "prompt" => cmd \in Commands /\ uses >= 1,
         place \in {"recv", "ack", "check"} => cmd \notin ForNumber \cup {"toserv"},
         place \in {"await", "read"} => cmd \in ForNumber,
         place \in {"text", "fill", "give", "sent", "final"} => cmd = "toserv",
         place = "request" => cmd # "toserv",
         place = "number" => cmd \in WithNumber,
         place \in {"fill", "give", "sent"} => msg'.client.rest = 1,
         msg'.server = msg.server,
         pc.server \in {"handle", "recheck", "assign"} => tag' = tag,
         place \notin {"prompt", "tag"} /\ ~Served => tag' = [cmd |-> cmd, id |-> uses]
  PROVE  HandshakeInv'
  <1>1. /\ pc \in [Sides -> ServerPc \cup ClientPc]
        /\ "server" \in Sides /\ "client" \in Sides
    BY DEF TypeInv, TypeOK, Sides
  <1>2. pc'.client = place /\ pc'.server = pc.server
    BY <1>1 DEF Goto
  <1>3. CountInv' /\ (Served' <=> Served)
    BY CountsStay DEF HandshakeInv, serverVars
  <1>4. PlaceInv'
    BY <1>2 DEF PlaceInv
  <1>5. RequestInv'
    BY <1>2, <1>3 DEF HandshakeInv, RequestInv, serverVars
  <1>6. ChunkInv'
    BY <1>2 DEF HandshakeInv, ChunkInv, Sides, serverVars, radio
  <1>7. QED
    BY <1>3, <1>4, <1>5, <1>6 DEF HandshakeInv

(* Every step of the client's thread keeps the handshake.                   *)
LEMMA ClientHandshake ==
  ASSUME Punctual, TypeInv, HandshakeInv, ClientRuns \/ UserAnswers
  PROVE  HandshakeInv'
  <1>0. /\ pc \in [Sides -> ServerPc \cup ClientPc] /\ msg \in [Sides -> MessageType]
        /\ "server" \in Sides /\ "client" \in Sides
        /\ StageInv /\ (ClientStep \/ SetNumber \/ SendStr) /\ UNCHANGED serverVars /\ ~Timeouts
        /\ left <= 1 /\ uses \in Nat
    BY ConstantTypes DEF TypeInv, TypeOK, Sides, HandshakeInv, ClientRuns, UserAnswers, ChunkInv, Punctual
  <1>p. PlaceInv
    BY DEF HandshakeInv
  <1>t. pc.client \notin {"prompt", "tag"} /\ ~Served => tag = [cmd |-> cmd, id |-> uses]
    BY DEF HandshakeInv, RequestInv
  <1>u. pc.client \in {"number", "text", "request", "fill", "give"} => ~Served
    BY <1>0 DEF StageInv, Stage
  <1>m. ASSUME UNCHANGED <<cmd, uses>>, left' <= 1, NEW place, Goto("client", place),
               pc'.client = place /\ pc'.server = pc.server /\ (Served' <=> Served) => StageInv',
               place # "prompt" => cmd \in Commands /\ uses >= 1,
               place \in {"recv", "ack", "check"} => cmd \notin ForNumber \cup {"toserv"},
               place \in {"await", "read"} => cmd \in ForNumber,
               place \in {"text", "fill", "give", "sent", "final"} => cmd = "toserv",
               place = "request" => cmd # "toserv",
               place = "number" => cmd \in WithNumber,
               place \in {"fill", "give", "sent"} => msg'.client.rest = 1,
               msg'.server = msg.server,
               pc.server \in {"handle", "recheck", "assign"} => tag' = tag,
               place \notin {"prompt", "tag"} /\ ~Served => tag' = [cmd |-> cmd, id |-> uses]
        PROVE  HandshakeInv'
    <2>1. pc'.client = place /\ pc'.server = pc.server
      BY <1>0, <1>m DEF Goto
    <2>2. Served' <=> Served
      BY <1>0, <1>t, <1>m, CountsStay DEF HandshakeInv, serverVars
    <2>3. StageInv'
      BY <1>m, <2>1, <2>2
    <2>4. QED
      BY <1>0, <1>t, <1>m, <2>3, ClientMoves
  <1>1. CASE SetTag
    <2>1. /\ pc.client = "tag" /\ UNCHANGED <<owner, left, cmd, uses>>
          /\ tag' = [cmd |-> cmd, id |-> uses]
          /\ cmd \in Commands /\ uses >= 1
      BY <1>1, <1>p DEF SetTag, clientVars, PlaceInv
    <2>2. pc.server \notin {"handle", "recheck", "assign"}
      BY <1>0, <2>1 DEF StageInv, Stage
    <2>3. PICK place \in {"number", "text", "request"} :
            /\ Goto("client", place) /\ UNCHANGED msg
            /\ place = "number" => cmd \in WithNumber
            /\ place = "text" <=> cmd = "toserv"
      BY <1>1 DEF SetTag, WithNumber
    <2>4. pc'.client = place /\ pc'.server = pc.server /\ (Served' <=> Served) => StageInv'
      BY <1>0, <2>1, <2>3 DEF StageInv, Stage
    <2>5. QED
      BY <1>0, <1>t, <1>m, <2>1, <2>2, <2>3, <2>4
  <1>2. CASE SetNumber
    <2>1. /\ pc.client = "number" /\ UNCHANGED <<owner, tag, left, msg, cmd, uses>>
          /\ Goto("client", "request")
          /\ cmd \in WithNumber /\ cmd \in Commands /\ uses >= 1
      BY <1>2, <1>p DEF SetNumber, PlaceInv
    <2>2. pc'.client = "request" /\ pc'.server = pc.server /\ (Served' <=> Served) => StageInv'
      BY <1>0, <2>1 DEF StageInv, Stage
    <2>3. cmd # "toserv"
      BY <2>1 DEF WithNumber
    <2>4. QED
      BY <1>0, <1>t, <1>m, <2>1, <2>2, <2>3
  <1>3. CASE Request
    <2>1. /\ pc.client = "request" /\ owner' = "server" /\ UNCHANGED <<tag, left, msg, cmd, uses>>
          /\ cmd \in Commands /\ uses >= 1 /\ cmd # "toserv" /\ cmd # "exit"
      BY <1>3, <1>p DEF Request, clientVars, PlaceInv, Punctual
    <2>2. PICK place \in {"await", "recv"} : Goto("client", place) /\ (place = "await" <=> cmd \in ForNumber)
      BY <1>3, <2>1 DEF Request, Receive
    <2>3. pc'.client = place /\ pc'.server = pc.server /\ (Served' <=> Served) => StageInv'
      BY <1>0, <2>1, <2>2 DEF StageInv, Stage
    <2>4. tag = [cmd |-> cmd, id |-> uses]
      BY <1>t, <1>u, <2>1
    <2>5. QED
      BY <1>0, <1>t, <1>m, <2>1, <2>2, <2>3, <2>4
  <1>4. CASE Await
    <2>1. /\ pc.client = "await" /\ owner = "client" /\ Goto("client", "read")
          /\ UNCHANGED <<owner, tag, left, msg, cmd, uses>>
          /\ cmd \in Commands /\ uses >= 1 /\ cmd \in ForNumber
      BY <1>0, <1>4, <1>p DEF Await, shared, clientVars, PlaceInv
    <2>2. pc'.client = "read" /\ pc'.server = pc.server /\ (Served' <=> Served) => StageInv'
      BY <1>0, <2>1 DEF StageInv, Stage
    <2>3. QED
      BY <1>0, <1>t, <1>m, <2>1, <2>2
  <1>5. CASE ReadNumber
    <2>1. /\ pc.client = "read" /\ Goto("client", "prompt")
          /\ UNCHANGED <<owner, tag, left, msg, cmd, uses>>
      BY <1>5 DEF ReadNumber, shared, clientVars
    <2>2. pc'.client = "prompt" /\ pc'.server = pc.server /\ (Served' <=> Served) => StageInv'
      BY <1>0, <2>1 DEF StageInv, Stage
    <2>3. QED
      BY <1>0, <1>t, <1>m, <2>1, <2>2
  <1>6. CASE TakeBack
    BY <1>0, <1>6 DEF TakeBack, StageInv, Stage
  <1>7. CASE ClientStream
    <2>0. UNCHANGED <<cmd, uses>>
      BY <1>7 DEF ClientStream, clientVars
    <2>1. CASE Fill("client")
      <3>1. /\ pc.client = "fill" /\ Goto("client", "give") /\ UNCHANGED <<owner, tag, msg>>
            /\ msg.client.rest = 1 /\ left' = 1
            /\ cmd \in Commands /\ uses >= 1 /\ cmd = "toserv"
        BY <1>0, <1>p, <2>1 DEF Fill, HandshakeInv, ChunkInv, PlaceInv
      <3>2. pc'.client = "give" /\ pc'.server = pc.server /\ (Served' <=> Served) => StageInv'
        BY <1>0, <3>1 DEF StageInv, Stage
      <3>3. QED
        BY <1>0, <1>t, <1>m, <2>0, <3>1, <3>2
    <2>2. CASE Give("client")
      <3>1. /\ pc.client = "give" /\ Goto("client", "sent") /\ UNCHANGED <<tag, left, msg>>
            /\ owner' = "server" /\ msg.client.rest = 1
            /\ cmd \in Commands /\ uses >= 1 /\ cmd = "toserv"
        BY <1>0, <1>p, <2>2 DEF Give, Other, HandshakeInv, ChunkInv, PlaceInv
      <3>2. pc'.client = "sent" /\ pc'.server = pc.server /\ (Served' <=> Served) => StageInv'
        BY <1>0, <3>1 DEF StageInv, Stage
      <3>3. tag = [cmd |-> cmd, id |-> uses]
        BY <1>t, <1>u, <3>1
      <3>4. QED
        BY <1>0, <1>t, <1>m, <2>0, <3>1, <3>2, <3>3
    <2>3. CASE Acked("client")
      <3>1. /\ pc.client = "sent" /\ owner = "client" /\ UNCHANGED <<owner, tag, left>>
            /\ msg.client.rest = 1
            /\ cmd \in Commands /\ uses >= 1 /\ cmd = "toserv"
        BY <1>0, <1>p, <2>3 DEF Acked, shared, HandshakeInv, ChunkInv, PlaceInv
      <3>2. Goto("client", "final") /\ msg'.server = msg.server
        <4>1. [msg["client"] EXCEPT !.rest = @ - 1].rest = 0
          BY <1>0, <3>1 DEF MessageType
        <4>2. QED
          BY <1>0, <2>3, <4>1 DEF Acked, Send
      <3>3. pc'.client = "final" /\ pc'.server = pc.server /\ (Served' <=> Served) => StageInv'
        BY <1>0, <3>1 DEF StageInv, Stage
      <3>4. QED
        BY <1>0, <1>t, <1>m, <2>0, <3>1, <3>2, <3>3
    <2>4. CASE GiveUp("client") \/ NoAnswer("client")
      BY <1>0, <2>4 DEF GiveUp, NoAnswer
    <2>5. CASE Final("client")
      <3>1. /\ pc.client = "final" /\ Goto("client", "prompt") /\ UNCHANGED <<tag, left, msg>>
            /\ owner' = "server"
        BY <2>5 DEF Final, Other, Home
      <3>2. pc'.client = "prompt" /\ pc'.server = pc.server /\ (Served' <=> Served) => StageInv'
        BY <1>0, <3>1 DEF StageInv, Stage
      <3>3. QED
        BY <1>0, <1>t, <1>m, <2>0, <3>1, <3>2
    <2>6. CASE Take("client")
      <3>1. /\ pc.client = "recv" /\ owner = "client" /\ Goto("client", "ack")
            /\ UNCHANGED <<owner, tag, left, msg>>
            /\ cmd \in Commands /\ uses >= 1 /\ cmd \notin ForNumber \cup {"toserv"}
        BY <1>p, <2>6 DEF Take, shared, PlaceInv
      <3>2. pc'.client = "ack" /\ pc'.server = pc.server /\ (Served' <=> Served) => StageInv'
        BY <1>0, <3>1 DEF StageInv, Stage
      <3>3. QED
        BY <1>0, <1>t, <1>m, <2>0, <3>1, <3>2
    <2>7. CASE Ack("client")
      <3>1. /\ pc.client = "ack" /\ owner' = "server" /\ Goto("client", "check")
            /\ UNCHANGED <<tag, left, msg>>
            /\ cmd \in Commands /\ uses >= 1 /\ cmd \notin ForNumber \cup {"toserv"}
        BY <1>p, <2>7 DEF Ack, Other, PlaceInv
      <3>2. pc'.client = "check" /\ pc'.server = pc.server /\ (Served' <=> Served) => StageInv'
        BY <1>0, <3>1 DEF StageInv, Stage
      <3>3. QED
        BY <1>0, <1>t, <1>m, <2>0, <3>1, <3>2
    <2>8. CASE Check("client")
      <3>1. /\ pc.client = "check" /\ Goto("client", "prompt")
            /\ UNCHANGED <<owner, tag, left, msg>>
        BY <1>0, <2>8 DEF Check, shared, Home
      <3>2. pc'.client = "prompt" /\ pc'.server = pc.server /\ (Served' <=> Served) => StageInv'
        BY <1>0, <3>1 DEF StageInv, Stage
      <3>3. QED
        BY <1>0, <1>t, <1>m, <2>0, <3>1, <3>2
    <2>9. QED
      BY <1>7, <2>1, <2>2, <2>3, <2>4, <2>5, <2>6, <2>7, <2>8 DEF ClientStream, Stream
  <1>8. CASE SendStr
    <2>1. /\ pc.client = "text" /\ UNCHANGED <<owner, tag, left, cmd, uses>>
          /\ cmd = "toserv" /\ cmd \in Commands /\ uses >= 1
      BY <1>8, <1>p DEF SendStr, shared, clientVars, PlaceInv
    <2>2. PICK n \in TextNumbers : Send("client", Message("string", n, uses, 1))
      BY <1>8 DEF SendStr, Punctual
    <2>3. Goto("client", "fill") /\ msg'.client.rest = 1 /\ msg'.server = msg.server
      BY <1>0, <2>2 DEF Send, Message
    <2>4. pc'.client = "fill" /\ pc'.server = pc.server /\ (Served' <=> Served) => StageInv'
      BY <1>0, <2>1 DEF StageInv, Stage
    <2>5. QED
      BY <1>0, <1>t, <1>m, <1>u, <2>1, <2>3, <2>4
  <1>9. QED
    BY <1>0, <1>1, <1>2, <1>3, <1>4, <1>5, <1>6, <1>7, <1>8 DEF ClientStep

(* Typing a command opens a new count.                                      *)
LEMMA PromptHandshake ==
  ASSUME TypeInv, HandshakeInv, UserTypes
  PROVE  HandshakeInv'
  <1>0. /\ pc \in [Sides -> ServerPc \cup ClientPc]
        /\ "server" \in Sides /\ "client" \in Sides
        /\ performed \in [1..MaxRequests -> 0..2]
        /\ uses \in Nat /\ MaxRequests \in Nat
    BY ConstantTypes DEF TypeInv, TypeOK, Sides
  <1>1. /\ pc.client = "prompt" /\ owner = "client" /\ uses < MaxRequests
        /\ cmd' \in Commands /\ uses' = uses + 1
        /\ UNCHANGED <<owner, tag, left, msg, faults, working, req, stop, performed>>
        /\ pc'.client = "tag" /\ pc'.server = pc.server
    BY <1>0 DEF UserTypes, Prompt, Goto, shared, serverVars, radio
  <1>2. Served /\ pc.server \in {"loop", "look", "check"}
    BY <1>1 DEF HandshakeInv, StageInv, Stage
  <1>3. CountInv' /\ ~Served'
    BY <1>0, <1>1, <1>2 DEF HandshakeInv, CountInv, Served
  <1>4. StageInv'
    BY <1>1, <1>2, <1>3 DEF StageInv, Stage
  <1>5. PlaceInv' /\ RequestInv'
    BY <1>0, <1>1, <1>2 DEF PlaceInv, RequestInv
  <1>6. ChunkInv'
    BY <1>1 DEF HandshakeInv, ChunkInv, Sides
  <1>7. QED
    BY <1>3, <1>4, <1>5, <1>6 DEF HandshakeInv

(* A punctual session is disciplined.                                       *)
LEMMA PunctualIsDisciplined == Punctual => Disciplined
  BY DEF Punctual, Disciplined

(* Every step of a punctual session keeps the handshake.                    *)
LEMMA HandshakeStep ==
  ASSUME Punctual, TypeInv, RangeInv, HandshakeInv, [Next]_sessionVars
  PROVE  HandshakeInv'
  <1>1. CASE Serve
    BY <1>1, ServeHandshake
  <1>2. CASE ClientRuns \/ UserAnswers
    BY <1>2, ClientHandshake
  <1>3. CASE UserTypes
    BY <1>3, PromptHandshake
  <1>4. CASE Started
    <2>1. /\ pc \in [Sides -> ServerPc \cup ClientPc]
          /\ "server" \in Sides /\ "client" \in Sides /\ StageInv
      BY DEF TypeInv, TypeOK, Sides, HandshakeInv
    <2>2. /\ pc.server = "off" /\ Goto("server", "starting")
          /\ UNCHANGED <<clientVars, performed, tag, left, faults, working, stop, owner, msg, uses>>
      BY <1>4 DEF Started, Start, serverVars, radio, shared, clientVars
    <2>3. pc'.server = "starting" /\ pc'.client = pc.client
      BY <2>1, <2>2 DEF Goto
    <2>4. Served' <=> Served
      BY <2>2, CountsStay DEF HandshakeInv
    <2>5. StageInv'
      BY <2>1, <2>2, <2>3, <2>4 DEF StageInv, Stage
    <2>6. QED
      BY <2>2, <2>5, ServerMoves
  <1>5. CASE Stop
    BY <1>5 DEF Stop, StopWorking, StopSetState, Punctual, HandshakeInv, ChunkInv
  <1>6. CASE Crash
    <2>1. crashes < 0 /\ crashes \in Nat
      BY <1>6 DEF Crash, ServerCrash, ClientCrash, Punctual, TypeInv, TypeOK
    <2>2. QED
      BY <2>1
  <1>7. CASE UNCHANGED sessionVars
    BY <1>7
    DEF sessionVars, memVars, serverVars, radio, clientVars, HandshakeInv, StageInv, Stage, Served,
        CountInv, PlaceInv, RequestInv, ChunkInv
  <1>8. QED
    BY <1>1, <1>2, <1>3, <1>4, <1>5, <1>6, <1>7 DEF Next

(* The invariants of a punctual session are inductive.                      *)
LEMMA PunctualInductive == ASSUME Punctual PROVE Spec => []PunctualInv
  <1>1. Init => HandshakeInv
    <2> SUFFICES ASSUME Init PROVE HandshakeInv
      OBVIOUS
    <2> USE DEF Init, MemInit, ServerInit, ClientInit
    <2>1. StageInv
      BY DEF StageInv, Stage, Served
    <2>2. CountInv /\ PlaceInv /\ RequestInv
      BY ConstantTypes DEF CountInv, PlaceInv, RequestInv, Served
    <2>3. ChunkInv
      BY DEF ChunkInv, Sides
    <2>4. QED
      BY <2>1, <2>2, <2>3 DEF HandshakeInv
  <1>2. Spec => []DisciplinedInv
    BY PunctualIsDisciplined, Inductive
  <1>3. DisciplinedInv /\ HandshakeInv /\ [Next]_sessionVars => HandshakeInv'
    BY HandshakeStep DEF DisciplinedInv
  <1>4. QED
    BY <1>1, <1>2, <1>3, PTL DEF Spec, PunctualInv

(* While both sides answer in time and nobody stops or dies, every command  *)
(* the client is done with was performed exactly once.                      *)
THEOREM ExactlyOnce == ASSUME Punctual PROVE Spec => []PerformedOnce
  <1>1. PunctualInv => PerformedOnce
    <2> SUFFICES ASSUME TypeInv, HandshakeInv PROVE PerformedOnce
      BY DEF PunctualInv, DisciplinedInv
    <2>1. pc.client = "prompt" => Served
      BY DEF HandshakeInv, StageInv, Stage
    <2>2. uses \in 0..MaxRequests /\ MaxRequests \in Nat
      BY ConstantTypes DEF TypeInv, TypeOK
    <2>3. QED
      BY <2>1, <2>2 DEF HandshakeInv, CountInv, Served, PerformedOnce
  <1>2. QED
    BY <1>1, PunctualInductive, PTL

-----------------------------------------------------------------------------
(* Punctual sessions: what the memory holds.                                *)

(* What the server performs is the command with the number its user typed.  *)
LEMMA Handled ==
  ASSUME TypeInv, HandshakeInv, ContentInv, pc.server \in {"handle", "recheck", "assign"}
  PROVE  /\ ~Served /\ uses \in 1..MaxRequests /\ performed[uses] = 0
         /\ cmd \in Commands
         /\ req.cmd = cmd /\ req.id = uses
         /\ cmd \notin ForNumber \cup {"toserv"} => pc.client = "recv"
         /\ cmd \in ForNumber => pc.client = "await"
         /\ cmd = "toserv" => pc.client = "sent"
         /\ cmd \in WithNumber => arg \in Numbers /\ data.num = arg
         /\ cmd # "toserv" /\ cmd \notin WithNumber => arg = 0
  <1>1. /\ ~Served /\ uses \in 1..MaxRequests /\ performed[uses] = 0
        /\ cmd \in Commands
        /\ req = [cmd |-> cmd, id |-> uses]
        /\ pc.client \in {"recv", "await", "sent"}
        /\ pc.client = "recv" <=> cmd \notin ForNumber \cup {"toserv"}
        /\ pc.client = "await" <=> cmd \in ForNumber
        /\ pc.client = "sent" <=> cmd = "toserv"
    BY Serving
  <1>2. cmd # "toserv" => IF cmd \in WithNumber THEN arg \in Numbers /\ data.num = arg ELSE arg = 0
    BY <1>1 DEF ContentInv
  <1>3. "toserv" \notin WithNumber
    BY DEF WithNumber
  <1>4. QED
    BY <1>1, <1>2, <1>3

(* A step of the server that neither performs nor writes.                   *)
LEMMA QuietContent ==
  ASSUME ContentInv, UNCHANGED <<clientVars, data, frequency, power, performed>>,
         pc'.client = pc.client, str'.client = str.client, Chunk(msg'.server) = Chunk(msg.server),
         pc'.server \in {"give", "sent"} => pc.server \in {"give", "sent"},
         pc'.server = "recheck" => data.num <= 0
  PROVE  ContentInv'
  <1>1. Served' <=> Served
    BY DEF Served, clientVars
  <1>2. Chunk(msg.server)' = Chunk(msg.server)
    OBVIOUS
  <1>3. UNCHANGED <<cmd, arg, uses>>
    BY DEF clientVars
  <1>4. QED
    BY <1>1, <1>2, <1>3 DEF ContentInv

(* A handler that answers.                                                  *)
LEMMA AnswerContent ==
  ASSUME TypeInv, HandshakeInv, ContentInv, UNCHANGED clientVars,
         pc.server \in {"handle", "recheck", "assign"}, req.cmd \notin ForNumber \cup {"toserv"},
         Perform, NEW text, NEW chunks, Reply(text, chunks), ServerKeeps
  PROVE  ContentInv'
  <1>1. /\ pc.client = "recv" /\ ~Served
        /\ uses \in 1..MaxRequests /\ req.id = uses
    BY Serving
  <1>2. pc'.client = "recv" /\ pc'.server \in {"fill", "final"}
    BY <1>1 DEF Reply, Send, Goto, TypeInv, TypeOK, Sides
  <1>3. Served'
    BY <1>1, PerformCounts DEF HandshakeInv, clientVars
  <1>4. str'.client = str.client
    BY DEF ServerKeeps
  <1>5. QED
    BY <1>1, <1>2, <1>3, <1>4 DEF ContentInv

(* Every step of the serving thread keeps the content.                      *)
LEMMA ServeContent ==
  ASSUME Punctual, TypeInv, HandshakeInv, RangeInv, ContentInv, Serve
  PROVE  ContentInv'
  <1>0. /\ pc \in [Sides -> ServerPc \cup ClientPc] /\ msg \in [Sides -> MessageType]
        /\ str \in [Sides -> Seq(DataType)]
        /\ "server" \in Sides /\ "client" \in Sides
        /\ StageInv /\ ServerStep /\ UNCHANGED clientVars /\ ~Timeouts
        /\ data.num \in Int
    BY DEF TypeInv, TypeOK, Sides, HandshakeInv, Serve, DataType, Punctual
  <1>q. ASSUME UNCHANGED <<data, frequency, power, performed, msg>>, str'.client = str.client,
               NEW place, Goto("server", place),
               place \in {"give", "sent"} => pc.server \in {"give", "sent"},
               place = "recheck" => data.num <= 0
        PROVE  ContentInv'
    <2>1. pc'.server = place /\ pc'.client = pc.client
      BY <1>0, <1>q DEF Goto
    <2>2. Chunk(msg'.server) = Chunk(msg.server)
      BY <1>q
    <2>3. QED
      BY <1>0, <1>q, <2>1, <2>2, QuietContent
  <1>1. CASE Enter \/ Grant
    BY <1>1, <1>q DEF Enter, Grant, shared, serverVars, radio
  <1>2. CASE Loop
    <2>1. PICK place \in {"look", "stopped"} : Goto("server", place)
      BY <1>2 DEF Loop
    <2>2. QED
      BY <1>2, <1>q, <2>1 DEF Loop, shared, serverVars, radio
  <1>3. CASE Look
    <2>1. PICK place \in {"dispatch", "loop"} : Goto("server", place)
      BY <1>3 DEF Look
    <2>2. QED
      BY <1>3, <1>q, <2>1 DEF Look, shared, serverVars, radio
  <1>4. CASE Dispatch
    <2>1. PICK place \in {"final", "handle"} : Goto("server", place)
      BY <1>4 DEF Dispatch
    <2>2. QED
      BY <1>4, <1>q, <2>1 DEF Dispatch, shared, radio
  <1>5. CASE HandlePing
    BY <1>0, <1>5, AnswerContent DEF HandlePing, Handling, ForNumber
  <1>6. CASE HandleExit
    BY <1>6, Serving DEF HandleExit, Handling, Punctual
  <1>7. CASE HandleSetFrequency
    <2>1. CASE Goto("server", "assign") /\ UNCHANGED <<msg, performed>>
      BY <1>7, <1>q, <2>1 DEF HandleSetFrequency, ServerKeeps, shared, radio
    <2>2. CASE Perform /\ Reply("not ok", 1)
      BY <1>0, <1>7, <2>2, AnswerContent DEF HandleSetFrequency, Handling, ForNumber
    <2>3. QED
      BY <1>7, <2>1, <2>2 DEF HandleSetFrequency
  <1>8. CASE AssignFrequency
    BY <1>0, <1>8, AnswerContent DEF AssignFrequency, ForNumber
  <1>9. CASE HandleSetPower
    <2>1. PICK place \in {"assign", "recheck"} :
            Goto("server", place) /\ (place = "recheck" => data.num <= 0)
      BY <1>0, <1>9 DEF HandleSetPower
    <2>2. QED
      BY <1>9, <1>q, <2>1 DEF HandleSetPower, ServerKeeps, shared, radio
  <1>10. CASE RecheckPower
    <2>1. CASE Goto("server", "assign") /\ UNCHANGED <<msg, performed>>
      BY <1>10, <1>q, <2>1 DEF RecheckPower, ServerKeeps, shared, radio
    <2>2. CASE Perform /\ Reply("not ok", 1)
      BY <1>0, <1>10, <2>2, AnswerContent DEF RecheckPower, RangeInv, ForNumber
    <2>3. QED
      BY <1>10, <2>1, <2>2 DEF RecheckPower
  <1>11. CASE AssignPower
    BY <1>0, <1>11, AnswerContent DEF AssignPower, ForNumber
  <1>12. CASE HandleGetNumber
    <2>1. /\ pc.client = "await" /\ ~Served
          /\ uses \in 1..MaxRequests /\ req.id = uses /\ req.cmd = cmd
      BY <1>12, Handled DEF HandleGetNumber, Handling, ForNumber
    <2>2. pc'.client = "await" /\ pc'.server = "final"
      BY <1>0, <1>12, <2>1 DEF HandleGetNumber, Goto
    <2>3. data'.text = "num" /\ data'.num = IF cmd = "getfreq" THEN frequency' ELSE power'
      BY <1>12, <2>1 DEF HandleGetNumber, radio
    <2>4. Served' /\ UNCHANGED <<cmd, arg>>
      BY <1>0, <1>12, <2>1, PerformCounts DEF HandleGetNumber, HandshakeInv, clientVars
    <2>5. QED
      BY <2>2, <2>3, <2>4 DEF ContentInv
  <1>13. CASE HandleSetFault \/ HandleClearFault \/ HandleListFaults
    BY <1>0, <1>13, AnswerContent
    DEF HandleSetFault, HandleClearFault, HandleListFaults, Handling, ForNumber
  <1>14. CASE HandleRecvStr
    <2>1. pc.client = "sent"
      BY <1>14, Handled DEF HandleRecvStr, Handling, ForNumber
    <2>2. pc'.client = "sent" /\ pc'.server = "listen"
      BY <1>0, <1>14, <2>1 DEF HandleRecvStr, Goto
    <2>3. QED
      BY <2>2 DEF ContentInv
  <1>15. CASE ListenForString
    <2>1. str'.client = str.client /\ Goto("server", "recv")
      BY <1>0, <1>15 DEF ListenForString, Receive
    <2>2. QED
      BY <1>15, <1>q, <2>1 DEF ListenForString, shared, serverVars, radio
  <1>16. CASE ServerStream
    <2>0. Stream("server") /\ UNCHANGED <<frequency, power, performed>>
      BY <1>16 DEF ServerStream, serverVars, radio
    <2>1. CASE Fill("server")
      <3>1. pc.client = "recv" /\ Served
        BY <1>0, <2>1 DEF Fill, StageInv, Stage
      <3>2. /\ pc'.client = "recv" /\ pc'.server = "give" /\ UNCHANGED <<msg, str>>
            /\ data' = Chunk(msg'.server)
        BY <1>0, <2>1, <3>1 DEF Fill, Goto
      <3>3. Served'
        BY <1>0, <2>0, <3>1 DEF Served, clientVars
      <3>4. Chunk(msg.server)' = Chunk(msg'.server)
        OBVIOUS
      <3>5. QED
        BY <3>1, <3>2, <3>3, <3>4 DEF ContentInv
    <2>2. CASE Give("server") \/ Final("server") \/ Ack("server")
      BY <1>q, <2>0, <2>2 DEF Give, Final, Ack, Home
    <2>3. CASE Acked("server")
      <3>1. PICK place \in {"final", "fill"} : Goto("server", place)
        BY <2>3 DEF Acked, Send
      <3>2. pc'.server = place /\ pc'.client = pc.client
        BY <1>0, <3>1 DEF Goto
      <3>3. UNCHANGED <<data, str>> /\ Chunk(msg'.server) = Chunk(msg.server)
        BY <1>0, <2>3 DEF Acked, Send, shared, Chunk, MessageType
      <3>4. QED
        BY <1>0, <2>0, <3>1, <3>2, <3>3, QuietContent
    <2>4. CASE GiveUp("server") \/ NoAnswer("server")
      BY <1>0, <2>4 DEF GiveUp, NoAnswer
    <2>5. CASE Take("server")
      <3>1. str'.client = str.client
        BY <1>0, <2>5 DEF Take
      <3>2. QED
        BY <1>q, <2>0, <2>5, <3>1 DEF Take, shared
    <2>6. CASE Check("server")
      <3>1. PICK place \in {"loop", "recv"} : Goto("server", place)
        BY <2>6 DEF Check, Home
      <3>2. QED
        BY <1>q, <2>0, <2>6, <3>1 DEF Check, shared
    <2>7. QED
      BY <2>0, <2>1, <2>2, <2>3, <2>4, <2>5, <2>6 DEF Stream
  <1>17. QED
    BY <1>0, <1>1, <1>2, <1>3, <1>4, <1>5, <1>6, <1>7, <1>8, <1>9, <1>10, <1>11, <1>12, <1>13,
       <1>14, <1>15, <1>16
    DEF ServerStep, Handle

(* Every step of the client's thread keeps the content.                     *)
LEMMA ClientContent ==
  ASSUME Punctual, MaxKept >= 1, TypeInv, HandshakeInv, ContentInv, ClientRuns \/ UserAnswers
  PROVE  ContentInv'
  <1>0. /\ pc \in [Sides -> ServerPc \cup ClientPc] /\ msg \in [Sides -> MessageType]
        /\ str \in [Sides -> Seq(DataType)] /\ data \in DataType
        /\ "server" \in Sides /\ "client" \in Sides
        /\ StageInv /\ (ClientStep \/ SetNumber \/ SendStr) /\ UNCHANGED <<frequency, power, performed>> /\ ~Timeouts
    BY DEF TypeInv, TypeOK, Sides, HandshakeInv, ClientRuns, UserAnswers, Punctual, serverVars, radio
  \* A place of the client of which the invariant says nothing.
  <1>a. ASSUME NEW place \in {"prompt", "text", "fill", "give", "sent", "final"}, Goto("client", place),
               data' = data \/ pc.server # "recheck"
        PROVE  ContentInv'
    <2>1. pc'.client = place /\ pc'.server = pc.server
      BY <1>0, <1>a DEF Goto
    <2>2. QED
      BY <1>a, <2>1 DEF ContentInv
  <1>1. CASE SetTag
    <2>1. CASE cmd = "toserv"
      <3>1. Goto("client", "text") /\ data' = data
        BY <1>1, <2>1 DEF SetTag, WithNumber
      <3>2. QED
        BY <1>a, <3>1
    <2>2. CASE cmd # "toserv"
      <3>1. /\ pc.client = "tag" /\ UNCHANGED <<data, msg, str, cmd, arg, uses>>
            /\ \/ pc'.client = "number"
               \/ pc'.client = "request" /\ cmd \notin WithNumber
            /\ pc'.server = pc.server
        BY <1>0, <1>1, <2>2 DEF SetTag, Goto, clientVars
      <3>2. QED
        BY <3>1 DEF ContentInv
    <2>3. QED
      BY <2>1, <2>2
  <1>2. CASE SetNumber
    <2>1. /\ pc.client = "number" /\ arg' \in Numbers /\ data'.num = arg' /\ cmd' = cmd
          /\ pc'.client = "request" /\ pc'.server = pc.server
      BY <1>0, <1>2 DEF SetNumber, Goto
    <2>2. cmd \in WithNumber /\ pc.server # "recheck"
      BY <1>0, <2>1 DEF HandshakeInv, PlaceInv, StageInv, Stage
    <2>3. QED
      BY <2>1, <2>2 DEF ContentInv
  <1>3. CASE Request
    <2>1. /\ pc.client = "request" /\ UNCHANGED <<data, msg, cmd, arg, uses>>
          /\ cmd # "exit" /\ cmd \in Commands
      BY <1>3 DEF Request, clientVars, Punctual, HandshakeInv, PlaceInv
    <2>2. ~Served /\ ~Served' /\ pc.server \notin {"give", "sent"}
      BY <1>0, <2>1 DEF StageInv, Stage, Served
    <2>3. /\ \/ pc'.client = "await" /\ UNCHANGED str
             \/ pc'.client = "recv" /\ str'.client = <<>>
          /\ pc'.server = pc.server
      BY <1>0, <1>3, <2>1 DEF Request, Receive, Goto
    <2>4. QED
      BY <2>1, <2>2, <2>3 DEF ContentInv
  <1>4. CASE Await
    <2>1. /\ pc.client = "await" /\ owner = "client" /\ UNCHANGED <<data, msg, str, cmd, arg, uses>>
          /\ pc'.client = "read" /\ pc'.server = pc.server
      BY <1>0, <1>4 DEF Await, Goto, shared, clientVars
    <2>2. Served
      BY <1>0, <2>1 DEF StageInv, Stage
    <2>3. QED
      BY <1>0, <2>1, <2>2 DEF ContentInv
  <1>5. CASE ReadNumber \/ TakeBack
    BY <1>5, <1>a DEF ReadNumber, TakeBack, shared
  <1>6. CASE ClientStream
    <2>0. Stream("client") /\ UNCHANGED <<cmd, arg, uses>>
      BY <1>6 DEF ClientStream, clientVars
    <2>1. CASE Fill("client")
      <3>1. pc.server # "recheck"
        BY <1>0, <2>1 DEF Fill, StageInv, Stage
      <3>2. QED
        BY <1>a, <2>1, <3>1 DEF Fill
    <2>2. CASE Give("client") \/ Final("client")
      BY <1>a, <2>2 DEF Give, Final, Home
    <2>3. CASE Acked("client")
      <3>1. PICK place \in {"fill", "final"} : Goto("client", place) /\ data' = data
        BY <2>3 DEF Acked, Send, shared
      <3>2. QED
        BY <1>a, <3>1
    <2>4. CASE GiveUp("client") \/ NoAnswer("client")
      BY <1>0, <2>4 DEF GiveUp, NoAnswer
    <2>5. CASE Take("client")
      <3>1. /\ pc.client = "recv" /\ owner = "client" /\ UNCHANGED <<data, msg>>
            /\ pc'.client = "ack" /\ pc'.server = pc.server
        BY <1>0, <2>5 DEF Take, Goto, shared
      <3>2. pc.server = "sent"
        BY <1>0, <3>1 DEF StageInv, Stage
      <3>3. data = Chunk(msg.server) /\ str.client = <<>>
        BY <3>1, <3>2 DEF ContentInv
      <3>4. str'.client = Append(<<>>, data)
        <4>1. Len(str.client) = 0 /\ 0 < MaxKept
          BY <3>3, MaxKeptAssumption
        <4>2. QED
          BY <1>0, <2>5, <3>3, <4>1 DEF Take
      <3>5. str'.client = <<data>>
        BY <1>0, <3>4, AppendProperties, EmptySeq
      <3>6. Chunk(msg.server)' = Chunk(msg.server)
        BY <3>1
      <3>7. QED
        BY <3>1, <3>3, <3>5, <3>6 DEF ContentInv
    <2>6. CASE Ack("client")
      <3>1. /\ pc.client = "ack" /\ UNCHANGED <<data, msg, str>>
            /\ pc'.client = "check" /\ pc'.server = pc.server
        BY <1>0, <2>6 DEF Ack, Goto
      <3>2. Chunk(msg.server)' = Chunk(msg.server)
        BY <3>1
      <3>3. QED
        BY <3>1, <3>2 DEF ContentInv
    <2>7. CASE Check("client")
      <3>1. Goto("client", "prompt") /\ data' = data
        BY <1>0, <2>7 DEF Check, shared, Home, HandshakeInv, ChunkInv
      <3>2. QED
        BY <1>a, <3>1
    <2>8. QED
      BY <2>0, <2>1, <2>2, <2>3, <2>4, <2>5, <2>6, <2>7 DEF Stream
  <1>7. CASE SendStr
    <2>1. PICK place \in {"fill", "final"} : Goto("client", place) /\ data' = data
      BY <1>7 DEF SendStr, Send, shared
    <2>2. QED
      BY <1>a, <2>1
  <1>8. QED
    BY <1>0, <1>1, <1>2, <1>3, <1>4, <1>5, <1>6, <1>7 DEF ClientStep

(* Every step of a punctual session keeps the content.                      *)
LEMMA ContentStep ==
  ASSUME Punctual, MaxKept >= 1, TypeInv, HandshakeInv, RangeInv, ContentInv, [Next]_sessionVars
  PROVE  ContentInv'
  <1>0. pc \in [Sides -> ServerPc \cup ClientPc] /\ "server" \in Sides /\ "client" \in Sides
    BY DEF TypeInv, TypeOK, Sides
  <1>1. CASE Serve
    BY <1>1, ServeContent
  <1>2. CASE ClientRuns \/ UserAnswers
    BY <1>2, ClientContent
  <1>3. CASE UserTypes
    <2>1. arg' = 0 /\ data' = data /\ pc'.client = "tag" /\ pc'.server = pc.server
      BY <1>0, <1>3 DEF UserTypes, Prompt, Goto, shared
    <2>2. QED
      BY <2>1 DEF ContentInv
  <1>4. CASE Started
    <2>1. pc'.server = "starting" /\ pc'.client = pc.client
      BY <1>0, <1>4 DEF Started, Start, Goto
    <2>2. Chunk(msg'.server) = Chunk(msg.server)
      BY <1>4 DEF Started, Start
    <2>3. QED
      BY <1>4, <2>1, <2>2, QuietContent DEF Started, Start, shared, serverVars, radio
  <1>5. CASE Stop
    BY <1>5 DEF Stop, StopWorking, StopSetState, Punctual, HandshakeInv, ChunkInv
  <1>6. CASE Crash
    <2>1. crashes < 0 /\ crashes \in Nat
      BY <1>6 DEF Crash, ServerCrash, ClientCrash, Punctual, TypeInv, TypeOK
    <2>2. QED
      BY <2>1
  <1>7. CASE UNCHANGED sessionVars
    BY <1>7
    DEF sessionVars, memVars, shared, serverVars, radio, clientVars, ContentInv, Served, Chunk
  <1>8. QED
    BY <1>1, <1>2, <1>3, <1>4, <1>5, <1>6, <1>7 DEF Next

(* The content of the memory is an invariant of a punctual session.         *)
LEMMA ContentAlways ==
  ASSUME Punctual, MaxKept >= 1
  PROVE  Spec => []ContentInv
  <1>1. Init => ContentInv
    BY DEF Init, MemInit, ServerInit, ClientInit, ContentInv
  <1>2. PunctualInv /\ ContentInv /\ [Next]_sessionVars => ContentInv'
    BY ContentStep DEF PunctualInv, DisciplinedInv
  <1>3. QED
    BY <1>1, <1>2, PunctualInductive, PTL DEF Spec

-----------------------------------------------------------------------------
(* Faults counted by their numbers.                                         *)

Count(s, n) == Cardinality({i \in 1..Len(s) : s[i] = n})

(* A number is counted as often as it occurs.                               *)
LEMMA CountType ==
  ASSUME NEW s \in Seq(Int), NEW n
  PROVE  /\ IsFiniteSet({i \in 1..Len(s) : s[i] = n})
         /\ Count(s, n) \in Nat
         /\ Count(s, n) = 0 <=> n \notin ToSet(s)
  <1> DEFINE I == {i \in 1..Len(s) : s[i] = n}
  <1>1. IsFiniteSet(1..Len(s))
    BY FS_Interval
  <1>2. IsFiniteSet(I)
    BY <1>1, FS_Subset
  <1>3. Cardinality(I) \in Nat /\ (Cardinality(I) = 0 <=> I = {})
    BY <1>2, FS_CardinalityType, FS_EmptySet
  <1>4. I = {} <=> n \notin ToSet(s)
    BY DEF ToSet
  <1>5. QED
    BY <1>2, <1>3, <1>4 DEF Count

(* An empty list counts nothing.                                            *)
LEMMA CountEmpty == ASSUME NEW n PROVE Count(<<>>, n) = 0
  <1>1. {i \in 1..Len(<<>>) : <<>>[i] = n} = {}
    OBVIOUS
  <1>2. QED
    BY <1>1, FS_EmptySet DEF Count

(* A fault that is added counts for its number.                             *)
LEMMA CountAppend ==
  ASSUME NEW s \in Seq(Int), NEW e \in Int, NEW n
  PROVE  Count(Append(s, e), n) = IF n = e THEN Count(s, n) + 1 ELSE Count(s, n)
  <1> DEFINE I == {i \in 1..Len(s) : s[i] = n}
             J == {i \in 1..Len(Append(s, e)) : Append(s, e)[i] = n}
             k == Len(s) + 1
  <1>0. /\ Len(s) \in Nat /\ Len(Append(s, e)) = k /\ Append(s, e)[k] = e
        /\ \A i \in 1..Len(s) : Append(s, e)[i] = s[i]
    OBVIOUS
  <1>1. k \notin I /\ IsFiniteSet(I)
    <2>1. IsFiniteSet(I)
      BY CountType
    <2>2. QED
      BY <1>0, <2>1
  <1>2. CASE n = e
    <2>1. J = I \cup {k}
      BY <1>0, <1>2
    <2>2. Cardinality(I \cup {k}) = Cardinality(I) + 1
      BY <1>1, FS_AddElement
    <2>3. QED
      BY <1>2, <2>1, <2>2 DEF Count
  <1>3. CASE n # e
    <2>1. J = I
      BY <1>0, <1>3
    <2>2. QED
      BY <1>3, <2>1 DEF Count
  <1>4. QED
    BY <1>2, <1>3

(* A fault that is erased no longer counts; nothing else changes.           *)
LEMMA CountErase ==
  ASSUME NEW s \in Seq(Int), NEW e \in ToSet(s), NEW n
  PROVE  Count(RemoveFirst(s, e), n) = IF n = e THEN Count(s, n) - 1 ELSE Count(s, n)
  <1>0. \E i \in 1..Len(s) : s[i] = e
    BY DEF ToSet
  <1>1. PICK k \in 1..Len(s) :
          /\ s[k] = e
          /\ RemoveFirst(s, e) = SubSeq(s, 1, k - 1) \o SubSeq(s, k + 1, Len(s))
    BY <1>0, EraseIndex
  <1> DEFINE t == SubSeq(s, 1, k - 1) \o SubSeq(s, k + 1, Len(s))
             I == {i \in 1..Len(s) : s[i] = n}
             J == {i \in 1..Len(t) : t[i] = n}
             f == [j \in J |-> IF j < k THEN j ELSE j + 1]
  <1>2. /\ Len(t) = Len(s) - 1
        /\ \A i \in 1..Len(t) : t[i] = IF i < k THEN s[i] ELSE s[i + 1]
    <2> DEFINE u == SubSeq(s, 1, k - 1)
               v == SubSeq(s, k + 1, Len(s))
    <2>0. Len(s) \in Nat /\ k \in 1..Len(s)
      OBVIOUS
    <2>1. u \in Seq(Int) /\ Len(u) = k - 1 /\ \A i \in 1..(k - 1) : u[i] = s[i]
      BY <2>0, SubSeqProperties
    <2>2. v \in Seq(Int) /\ Len(v) = Len(s) - k /\ \A i \in 1..(Len(s) - k) : v[i] = s[k + i]
      BY <2>0, SubSeqProperties
    <2>3. t = u \o v
      OBVIOUS
    <2> HIDE DEF u, v, t
    <2>4. Len(t) = Len(u) + Len(v)
      BY <2>1, <2>2, <2>3, ConcatProperties
    <2>5. \A i \in 1..Len(t) : t[i] = IF i <= Len(u) THEN u[i] ELSE v[i - Len(u)]
      <3>1. \A i \in 1..Len(u) + Len(v) : (u \o v)[i] = IF i <= Len(u) THEN u[i] ELSE v[i - Len(u)]
        BY <2>1, <2>2, ConcatProperties, Zenon
      <3>2. QED
        BY <2>3, <2>4, <3>1, Zenon
    <2>6. Len(t) = Len(s) - 1
      BY <2>0, <2>1, <2>2, <2>4
    <2>7. ASSUME NEW i \in 1..Len(t) PROVE t[i] = IF i < k THEN s[i] ELSE s[i + 1]
      <3>1. CASE i < k
        BY <2>0, <2>1, <2>5, <3>1
      <3>2. CASE ~ (i < k)
        <4>1. i - Len(u) \in 1..(Len(s) - k) /\ k + (i - Len(u)) = i + 1
          BY <2>0, <2>1, <2>6, <3>2
        <4>2. t[i] = v[i - Len(u)]
          BY <2>0, <2>1, <2>5, <3>2
        <4>3. QED
          BY <2>2, <3>2, <4>1, <4>2
      <3>3. QED
        BY <3>1, <3>2
    <2>8. QED
      BY <2>6, <2>7
  <1> HIDE DEF t
  <1>3. f \in Bijection(J, I \ {k})
    <2>1. f \in [J -> I \ {k}]
      <3>1. ASSUME NEW j \in J PROVE f[j] \in I \ {k}
        BY <1>2
      <3>2. QED
        BY <3>1
    <2>2. \A a, b \in J : f[a] = f[b] => a = b
      OBVIOUS
    <2>3. \A i \in I \ {k} : \E j \in J : f[j] = i
      <3> TAKE i \in I \ {k}
      <3>1. CASE i < k
        <4>1. i \in J /\ f[i] = i
          BY <1>2, <3>1
        <4>2. QED
          BY <4>1
      <3>2. CASE i > k
        <4>1. i - 1 \in J /\ f[i - 1] = i
          BY <1>2, <3>2
        <4>2. QED
          BY <4>1
      <3>3. i < k \/ i > k
        OBVIOUS
      <3>4. QED
        BY <3>1, <3>2, <3>3, Zenon
    <2> HIDE DEF f, I, J
    <2>4. f \in Injection(J, I \ {k})
      BY <2>1, <2>2 DEF Injection, IsInjective
    <2>5. f \in Surjection(J, I \ {k})
      BY <2>1, <2>3 DEF Surjection
    <2>6. QED
      BY <2>4, <2>5 DEF Bijection
  <1>4. IsFiniteSet(I)
    BY CountType
  <1>5. IsFiniteSet(I \ {k}) /\ Cardinality(I \ {k}) = IF k \in I THEN Cardinality(I) - 1 ELSE Cardinality(I)
    BY <1>4, FS_RemoveElement
  <1>6. ExistsBijection(J, I \ {k})
    BY <1>3 DEF ExistsBijection
  <1>7. Cardinality(J) = Cardinality(I \ {k})
    <2>1. J \in SUBSET (1..Len(t)) /\ Len(t) \in Nat
      BY <1>2
    <2>2. IsFiniteSet(1..Len(t))
      BY <2>1, FS_Interval
    <2> HIDE DEF J
    <2>3. IsFiniteSet(J)
      BY <2>1, <2>2, FS_Subset
    <2>4. QED
      BY <1>6, <2>3, FS_Bijection
  <1>8. k \in I <=> n = e
    BY <1>1
  <1>9. QED
    BY <1>1, <1>5, <1>7, <1>8 DEF Count, t

-----------------------------------------------------------------------------
(* A punctual session implements RadioService.                              *)

(* What the service makes of nothing, of a number and of a text.            *)
LEMMA Meanings ==
  /\ Meaning([text |-> "none"]) = Service!Pending
  /\ \A n : Meaning([text |-> "num", num |-> n]) = Service!Value(n)
  /\ \A text, n, id, rest : text # "num" => Meaning(Message(text, n, id, rest)) = Service!Says(text)
  BY DEF Meaning, Message, Service!Pending, Service!Value, Service!Says

(* Before a command is performed it has no outcome; from then on that is    *)
(* the setting that was asked for, or what the server is sending.           *)
LEMMA OutcomeIs ==
  /\ ~(InCall /\ performed[uses] = 1) => OutcomeNow = Service!Pending
  /\ InCall /\ performed[uses] = 1 /\ cmd \notin ForNumber => OutcomeNow = Meaning(msg.server)
  /\ InCall /\ performed[uses] = 1 /\ cmd \in ForNumber =>
        OutcomeNow = Service!Value(IF cmd = "getfreq" THEN frequency ELSE power)
  BY Meanings DEF OutcomeNow

(* The call of the service is the command of a client that waits.           *)
LEMMA CallIs ==
  /\ InCall => CallNow = [cmd |-> cmd, num |-> arg]
  /\ ~InCall => CallNow = Service!NoCall
  BY DEF CallNow, Service!NoCall

(* The user was told the last chunk the client received.                    *)
LEMMA ToldIs ==
  /\ InCall => ToldNow = Service!Pending
  /\ ~InCall => ToldNow = IF str.client = <<>> THEN Service!Pending ELSE Meaning(Last(str.client))
  BY Meanings DEF ToldNow

(* The faults of the service are those of the radio, counted.               *)
LEMMA BagIs == FaultBag = [n \in Numbers |-> Count(faults, n)]
  BY DEF FaultBag, Count

(* Nobody changes the bag who does not change the list.                     *)
LEMMA BagStays == UNCHANGED faults => UNCHANGED FaultBag
  BY DEF FaultBag

(* A step the service does not see.                                         *)
LEMMA Unseen ==
  ASSUME UNCHANGED <<frequency, power, faults, cmd, arg, uses, performed>>,
         InCall' <=> InCall,
         InCall => Meaning(msg'.server) = Meaning(msg.server),
         ~InCall => str'.client = str.client
  PROVE  UNCHANGED Service!vars
  <1>1. UNCHANGED FaultBag
    BY BagStays
  <1>2. UNCHANGED CallNow
    BY DEF CallNow
  <1>3. UNCHANGED ToldNow
    BY DEF ToldNow
  <1>4. Meaning(msg.server)' = Meaning(msg'.server)
    BY DEF Meaning
  <1>5. UNCHANGED OutcomeNow
    BY <1>4, OutcomeIs DEF OutcomeNow
  <1>6. QED
    BY <1>1, <1>2, <1>3, <1>5 DEF Service!vars

(* A step of a client that is not in a call, whatever it writes.            *)
LEMMA Outside ==
  ASSUME UNCHANGED <<frequency, power, faults>>, ~InCall, ~InCall', str'.client = str.client
  PROVE  UNCHANGED Service!vars
  BY BagStays DEF CallNow, OutcomeNow, ToldNow, Service!vars

(* A step that performs the command of a call: the call goes on, and comes  *)
(* to the outcome it had not come to before.                                *)
LEMMA Performing ==
  ASSUME TypeInv, HandshakeInv, ContentInv, UNCHANGED clientVars,
         pc.server \in {"handle", "recheck", "assign"}, req.cmd # "toserv",
         Perform, pc'.client = pc.client
  PROVE  /\ CallNow = [cmd |-> cmd, num |-> arg] /\ UNCHANGED CallNow
         /\ OutcomeNow = Service!Pending /\ UNCHANGED ToldNow
         /\ cmd \notin ForNumber => OutcomeNow' = Meaning(msg'.server)
         /\ cmd \in ForNumber =>
               OutcomeNow' = Service!Value(IF cmd = "getfreq" THEN frequency' ELSE power')
  <1>1. /\ ~Served /\ uses \in 1..MaxRequests /\ performed[uses] = 0
        /\ req.cmd = cmd /\ req.id = uses /\ pc.client \in {"recv", "await"}
    BY Handled
  <1>2. InCall /\ InCall' /\ UNCHANGED <<cmd, arg, uses>>
    BY <1>1 DEF InCall, clientVars
  <1>3. performed'[uses'] = 1
    BY <1>1, <1>2, PerformCounts DEF HandshakeInv
  <1>4. CallNow = [cmd |-> cmd, num |-> arg] /\ UNCHANGED CallNow
    BY <1>2 DEF CallNow
  <1>5. OutcomeNow = Service!Pending
    BY <1>1, OutcomeIs
  <1>6. UNCHANGED ToldNow
    BY <1>2 DEF ToldNow
  <1>7. cmd \notin ForNumber => OutcomeNow' = Meaning(msg'.server)
    BY <1>2, <1>3 DEF OutcomeNow, Meaning
  <1>8. cmd \in ForNumber =>
          OutcomeNow' = Service!Value(IF cmd = "getfreq" THEN frequency' ELSE power')
    <2> SUFFICES ASSUME cmd \in ForNumber
                 PROVE  OutcomeNow' = Service!Value(IF cmd = "getfreq" THEN frequency' ELSE power')
      OBVIOUS
    <2>1. OutcomeNow' = Meaning([text |-> "num", num |-> IF cmd = "getfreq" THEN frequency' ELSE power'])
      BY <1>2, <1>3 DEF OutcomeNow, Meaning
    <2>2. QED
      BY <2>1, Meanings
  <1>9. QED
    BY <1>4, <1>5, <1>6, <1>7, <1>8

(* The same of a handler that answers.                                      *)
LEMMA Answering ==
  ASSUME TypeInv, HandshakeInv, ContentInv, UNCHANGED clientVars,
         pc.server \in {"handle", "recheck", "assign"}, req.cmd \notin ForNumber \cup {"toserv"},
         Perform, NEW text, text # "num", Reply(text, 1)
  PROVE  /\ req.cmd = cmd /\ cmd \in Commands
         /\ cmd \in WithNumber => arg \in Numbers /\ data.num = arg
         /\ CallNow = [cmd |-> cmd, num |-> arg] /\ UNCHANGED CallNow
         /\ OutcomeNow = Service!Pending /\ UNCHANGED ToldNow
         /\ OutcomeNow' = Service!Says(text)
  <1>1. /\ req.cmd = cmd /\ cmd \in Commands
        /\ cmd \in WithNumber => arg \in Numbers /\ data.num = arg
    BY Handled
  <1>2. PICK n \in TextNumbers : Send("server", Message(text, n, req.id, 1))
    BY DEF Reply
  <1>3. pc'.client = pc.client
    BY <1>2 DEF Send, Goto, TypeInv, TypeOK, Sides
  <1>4. msg'.server = Message(text, n, req.id, 1)
    BY <1>2 DEF Send, TypeInv, TypeOK, Sides
  <1>5. Meaning(msg'.server) = Service!Says(text)
    BY <1>4, Meanings
  <1>6. /\ CallNow = [cmd |-> cmd, num |-> arg] /\ UNCHANGED CallNow
        /\ OutcomeNow = Service!Pending /\ UNCHANGED ToldNow
        /\ OutcomeNow' = Meaning(msg'.server)
    BY <1>1, <1>3, Performing
  <1>7. QED
    BY <1>1, <1>5, <1>6

(* The settings and the outcomes are those of the service.                  *)
LEMMA ServeImplements ==
  ASSUME Punctual, TypeInv, HandshakeInv, RangeInv, ContentInv, Serve
  PROVE  [Service!Next]_Service!vars
  <1>0. /\ pc \in [Sides -> ServerPc \cup ClientPc] /\ msg \in [Sides -> MessageType]
        /\ str \in [Sides -> Seq(DataType)] /\ faults \in Seq(Int) /\ data.num \in Int
        /\ "server" \in Sides /\ "client" \in Sides
        /\ StageInv /\ ServerStep /\ UNCHANGED clientVars /\ ~Timeouts
        /\ UNCHANGED <<cmd, arg, uses>>
        /\ MinFrequency \in Int /\ Numbers \subseteq Int
    BY ConstantTypes
    DEF TypeInv, TypeOK, Sides, HandshakeInv, Serve, DataType, Punctual, clientVars
  <1>q. ASSUME UNCHANGED <<frequency, power, faults, performed>>, str'.client = str.client,
               NEW place, Goto("server", place), Meaning(msg'.server) = Meaning(msg.server)
        PROVE  UNCHANGED Service!vars
    <2>1. pc'.client = pc.client
      BY <1>0, <1>q DEF Goto
    <2>2. InCall' <=> InCall
      BY <2>1 DEF InCall
    <2>3. QED
      BY <1>0, <1>q, <2>2, Unseen
  <1>m. UNCHANGED msg => Meaning(msg'.server) = Meaning(msg.server)
    OBVIOUS
  <1>1. CASE Enter \/ Grant
    BY <1>1, <1>q, <1>m DEF Enter, Grant, shared, serverVars, radio
  <1>2. CASE Loop
    <2>1. PICK place : Goto("server", place)
      BY <1>2 DEF Loop
    <2>2. QED
      BY <1>2, <1>q, <1>m, <2>1 DEF Loop, serverVars, radio
  <1>3. CASE Look
    <2>1. PICK place : Goto("server", place)
      BY <1>3 DEF Look
    <2>2. QED
      BY <1>3, <1>q, <1>m, <2>1 DEF Look, serverVars, radio
  <1>4. CASE Dispatch
    <2>1. PICK place : Goto("server", place)
      BY <1>4 DEF Dispatch
    <2>2. QED
      BY <1>4, <1>q, <1>m, <2>1 DEF Dispatch, radio
  <1>5. CASE HandlePing
    <2>1. pc.server = "handle" /\ req.cmd \in {"ping", "status"} /\ Perform /\ Reply(req.cmd, 1)
      BY <1>5 DEF HandlePing, Handling
    <2>2. /\ req.cmd = cmd
          /\ CallNow = [cmd |-> cmd, num |-> arg] /\ UNCHANGED CallNow
          /\ OutcomeNow = Service!Pending /\ UNCHANGED ToldNow
          /\ OutcomeNow' = Service!Says(cmd)
      BY <1>0, <2>1, Answering, Handled DEF ForNumber
    <2>3. UNCHANGED <<frequency, power, FaultBag>>
      BY <1>5, BagStays DEF HandlePing, radio
    <2>4. Service!Ask
      BY <2>1, <2>2, <2>3 DEF Service!Ask, Service!Called
    <2>5. QED
      BY <2>4 DEF Service!Next
  <1>6. CASE HandleExit
    BY <1>6, Serving DEF HandleExit, Handling, Punctual
  <1>7. CASE HandleSetFrequency
    <2>1. CASE Goto("server", "assign") /\ UNCHANGED <<msg, performed>>
      BY <1>7, <1>q, <1>m, <2>1 DEF HandleSetFrequency, ServerKeeps, radio
    <2>2. CASE data.num < MinFrequency /\ Perform /\ Reply("not ok", 1)
      <3>1. pc.server = "handle" /\ req.cmd = "setfreq"
        BY <1>7 DEF HandleSetFrequency, Handling
      <3>2. /\ cmd = "setfreq" /\ data.num = arg
            /\ CallNow = [cmd |-> cmd, num |-> arg] /\ UNCHANGED CallNow
            /\ OutcomeNow = Service!Pending /\ UNCHANGED ToldNow
            /\ OutcomeNow' = Service!Says("not ok")
        BY <1>0, <2>2, <3>1, Answering DEF ForNumber, WithNumber
      <3>3. UNCHANGED <<frequency, power, FaultBag>>
        BY <1>7, BagStays DEF HandleSetFrequency, radio
      <3>4. Service!SetFrequency
        BY <2>2, <3>2, <3>3 DEF Service!SetFrequency, Service!Called
      <3>5. QED
        BY <3>4 DEF Service!Next
    <2>3. QED
      BY <1>7, <2>1, <2>2 DEF HandleSetFrequency
  <1>8. CASE AssignFrequency
    <2>1. pc.server = "assign" /\ req.cmd = "setfreq" /\ Perform /\ Reply("ok", 1)
      BY <1>8 DEF AssignFrequency
    <2>2. /\ cmd = "setfreq" /\ data.num = arg
          /\ CallNow = [cmd |-> cmd, num |-> arg] /\ UNCHANGED CallNow
          /\ OutcomeNow = Service!Pending /\ UNCHANGED ToldNow
          /\ OutcomeNow' = Service!Says("ok")
      BY <1>0, <2>1, Answering DEF ForNumber, WithNumber
    <2>3. frequency' = arg /\ UNCHANGED <<power, FaultBag>> /\ arg >= MinFrequency
      BY <1>8, <2>1, <2>2, BagStays DEF AssignFrequency, RangeInv
    <2>4. Service!SetFrequency
      BY <2>2, <2>3 DEF Service!SetFrequency, Service!Called
    <2>5. QED
      BY <2>4 DEF Service!Next
  <1>9. CASE HandleSetPower
    <2>1. PICK place : Goto("server", place)
      BY <1>9 DEF HandleSetPower
    <2>2. QED
      BY <1>9, <1>q, <1>m, <2>1 DEF HandleSetPower, ServerKeeps, radio
  <1>10. CASE RecheckPower
    <2>1. CASE Goto("server", "assign") /\ UNCHANGED <<msg, performed>>
      BY <1>10, <1>q, <1>m, <2>1 DEF RecheckPower, ServerKeeps, radio
    <2>2. CASE data.num # 0 /\ Perform /\ Reply("not ok", 1)
      <3>1. pc.server = "recheck" /\ req.cmd = "setpwr" /\ data.num < 0
        <4>1. pc.server = "recheck" /\ req.cmd = "setpwr" /\ data.num <= 0
          BY <1>10 DEF RecheckPower, RangeInv, ContentInv
        <4>2. data.num \in Int /\ data.num # 0
          BY <1>0, <2>2
        <4>3. QED
          BY <4>1, <4>2
      <3>2. /\ cmd = "setpwr" /\ data.num = arg
            /\ CallNow = [cmd |-> cmd, num |-> arg] /\ UNCHANGED CallNow
            /\ OutcomeNow = Service!Pending /\ UNCHANGED ToldNow
            /\ OutcomeNow' = Service!Says("not ok")
        BY <1>0, <2>2, <3>1, Answering DEF ForNumber, WithNumber
      <3>3. UNCHANGED <<frequency, power, FaultBag>>
        BY <1>10, BagStays DEF RecheckPower, radio
      <3>4. Service!SetPower
        BY <3>1, <3>2, <3>3 DEF Service!SetPower, Service!Called
      <3>5. QED
        BY <3>4 DEF Service!Next
    <2>3. QED
      BY <1>10, <2>1, <2>2 DEF RecheckPower
  <1>11. CASE AssignPower
    <2>1. pc.server = "assign" /\ req.cmd = "setpwr" /\ Perform /\ Reply("ok", 1)
      BY <1>11 DEF AssignPower
    <2>2. /\ cmd = "setpwr" /\ data.num = arg
          /\ CallNow = [cmd |-> cmd, num |-> arg] /\ UNCHANGED CallNow
          /\ OutcomeNow = Service!Pending /\ UNCHANGED ToldNow
          /\ OutcomeNow' = Service!Says("ok")
      BY <1>0, <2>1, Answering DEF ForNumber, WithNumber
    <2>3. power' = arg /\ UNCHANGED <<frequency, FaultBag>> /\ arg >= 0
      BY <1>11, <2>1, <2>2, BagStays DEF AssignPower, RangeInv
    <2>4. Service!SetPower
      BY <2>2, <2>3 DEF Service!SetPower, Service!Called
    <2>5. QED
      BY <2>4 DEF Service!Next
  <1>12. CASE HandleGetNumber
    <2>1. /\ pc.server = "handle" /\ req.cmd \in ForNumber /\ req.cmd # "toserv" /\ Perform
          /\ UNCHANGED <<frequency, power, faults>>
      BY <1>12 DEF HandleGetNumber, Handling, ForNumber, radio
    <2>2. pc'.client = pc.client
      BY <1>0, <1>12 DEF HandleGetNumber, Goto
    <2>3. /\ cmd \in {"getfreq", "getpwr"}
          /\ CallNow = [cmd |-> cmd, num |-> arg] /\ UNCHANGED CallNow
          /\ OutcomeNow = Service!Pending /\ UNCHANGED ToldNow
          /\ OutcomeNow' = Service!Value(IF cmd = "getfreq" THEN frequency ELSE power)
      BY <1>0, <2>1, <2>2, Performing, Handled DEF ForNumber
    <2>4. UNCHANGED <<frequency, power, FaultBag>>
      BY <2>1, BagStays
    <2>5. Service!Ask
      BY <2>3, <2>4 DEF Service!Ask, Service!Called
    <2>6. QED
      BY <2>5 DEF Service!Next
  <1>13. CASE HandleSetFault
    <2>1. pc.server = "handle" /\ req.cmd = "setflt" /\ Perform /\ Reply("ok", 1)
      BY <1>13 DEF HandleSetFault, Handling
    <2>2. /\ cmd = "setflt" /\ data.num = arg /\ arg \in Numbers
          /\ CallNow = [cmd |-> cmd, num |-> arg] /\ UNCHANGED CallNow
          /\ OutcomeNow = Service!Pending /\ UNCHANGED ToldNow
          /\ OutcomeNow' = Service!Says("ok")
      BY <1>0, <2>1, Answering DEF ForNumber, WithNumber
    <2>3. faults' = Append(faults, arg) /\ UNCHANGED <<frequency, power>>
      BY <1>13, <2>2 DEF HandleSetFault
    <2>4. \A n : Count(faults', n) = IF n = arg THEN Count(faults, n) + 1 ELSE Count(faults, n)
      BY <1>0, <2>2, <2>3, CountAppend
    <2>5. FaultBag' = [n \in Numbers |-> Count(faults', n)]
      BY DEF FaultBag, Count
    <2>6. FaultBag' = [FaultBag EXCEPT ![arg] = @ + 1]
      BY <2>2, <2>4, <2>5, BagIs
    <2>7. Service!SetFault
      BY <2>2, <2>3, <2>6 DEF Service!SetFault, Service!Called
    <2>8. QED
      BY <2>7 DEF Service!Next
  <1>14. CASE HandleClearFault
    <2> DEFINE text == IF data.num \in ToSet(faults) THEN "ok" ELSE "not found"
    <2>1. pc.server = "handle" /\ req.cmd = "clrflt" /\ Perform /\ Reply(text, 1) /\ text # "num"
      BY <1>14 DEF HandleClearFault, Handling
    <2>2. /\ cmd = "clrflt" /\ data.num = arg /\ arg \in Numbers
          /\ CallNow = [cmd |-> cmd, num |-> arg] /\ UNCHANGED CallNow
          /\ OutcomeNow = Service!Pending /\ UNCHANGED ToldNow
          /\ OutcomeNow' = Service!Says(text)
      <3> HIDE DEF text
      <3>1. QED
        BY <1>0, <2>1, Answering DEF ForNumber, WithNumber
    <2>3. faults' = RemoveFirst(faults, arg) /\ UNCHANGED <<frequency, power>>
      BY <1>14, <2>2 DEF HandleClearFault
    <2>4. FaultBag[arg] = Count(faults, arg) /\ Count(faults, arg) \in Nat
      BY <1>0, <2>2, BagIs, CountType
    <2>5. CASE arg \in ToSet(faults)
      <3>1. \A n : Count(faults', n) = IF n = arg THEN Count(faults, n) - 1 ELSE Count(faults, n)
        BY <1>0, <2>3, <2>5, CountErase
      <3>2. FaultBag' = [n \in Numbers |-> Count(faults', n)]
        BY DEF FaultBag, Count
      <3>3. FaultBag' = [FaultBag EXCEPT ![arg] = @ - 1]
        BY <2>2, <3>1, <3>2, BagIs
      <3>4. FaultBag[arg] > 0
        <4>1. Count(faults, arg) # 0
          BY <1>0, <2>5, CountType
        <4>2. QED
          BY <2>4, <4>1
      <3>5. Service!ClearFault
        BY <2>2, <2>3, <2>5, <3>3, <3>4 DEF Service!ClearFault, Service!Called
      <3>6. QED
        BY <3>5 DEF Service!Next
    <2>6. CASE arg \notin ToSet(faults)
      <3>1. faults' = faults
        BY <2>3, <2>6 DEF RemoveFirst, ToSet
      <3>2. FaultBag' = FaultBag
        BY <3>1, BagStays
      <3>3. FaultBag[arg] = 0
        BY <1>0, <2>4, <2>6, CountType
      <3>4. Service!ClearFault
        BY <2>2, <2>3, <2>6, <3>2, <3>3 DEF Service!ClearFault, Service!Called
      <3>5. QED
        BY <3>4 DEF Service!Next
    <2>7. QED
      BY <2>5, <2>6
  <1>15. CASE HandleListFaults
    <2>1. pc.server = "handle" /\ req.cmd = "listflt" /\ Perform /\ Reply("list", ListChunks)
      BY <1>15 DEF HandleListFaults, Handling
    <2>2. ListChunks = 1
      BY <2>1, Serving DEF Punctual, HandshakeInv, ChunkInv, ListChunks
    <2>3. /\ cmd = "listflt"
          /\ CallNow = [cmd |-> cmd, num |-> arg] /\ UNCHANGED CallNow
          /\ OutcomeNow = Service!Pending /\ UNCHANGED ToldNow
          /\ OutcomeNow' = Service!Says("list")
      BY <1>0, <2>1, <2>2, Answering DEF ForNumber
    <2>4. UNCHANGED <<frequency, power, FaultBag>>
      BY <1>15, BagStays DEF HandleListFaults, radio
    <2>5. Service!Ask
      BY <2>3, <2>4 DEF Service!Ask, Service!Called
    <2>6. QED
      BY <2>5 DEF Service!Next
  <1>16. CASE HandleRecvStr
    <2>1. pc.client = "sent"
      BY <1>16, Handled DEF HandleRecvStr, Handling, ForNumber
    <2>2. pc'.client = "sent" /\ UNCHANGED <<frequency, power, faults, str>>
      BY <1>0, <1>16, <2>1 DEF HandleRecvStr, Goto, radio
    <2>3. ~InCall /\ ~InCall'
      BY <2>1, <2>2 DEF InCall
    <2>4. QED
      BY <2>2, <2>3, Outside
  <1>17. CASE ListenForString
    <2>1. str'.client = str.client /\ Goto("server", "recv")
      BY <1>0, <1>17 DEF ListenForString, Receive
    <2>2. QED
      BY <1>17, <1>q, <1>m, <2>1 DEF ListenForString, serverVars, radio
  <1>18. CASE ServerStream
    <2>0. Stream("server") /\ UNCHANGED <<frequency, power, faults, performed>>
      BY <1>18 DEF ServerStream, serverVars, radio
    <2>1. CASE Fill("server") \/ Give("server") \/ Final("server") \/ Ack("server")
      BY <1>q, <1>m, <2>0, <2>1 DEF Fill, Give, Final, Ack
    <2>2. CASE Acked("server")
      <3>1. PICK place : Goto("server", place)
        BY <2>2 DEF Acked, Send
      <3>2. UNCHANGED str /\ Meaning(msg'.server) = Meaning(msg.server)
        BY <1>0, <2>2 DEF Acked, Send, Meaning, MessageType
      <3>3. QED
        BY <1>q, <2>0, <3>1, <3>2
    <2>3. CASE GiveUp("server") \/ NoAnswer("server")
      BY <1>0, <2>3 DEF GiveUp, NoAnswer
    <2>4. CASE Take("server")
      <3>1. str'.client = str.client
        BY <1>0, <2>4 DEF Take
      <3>2. QED
        BY <1>q, <1>m, <2>0, <2>4, <3>1 DEF Take
    <2>5. CASE Check("server")
      <3>1. PICK place : Goto("server", place)
        BY <2>5 DEF Check
      <3>2. QED
        BY <1>q, <1>m, <2>0, <2>5, <3>1 DEF Check
    <2>6. QED
      BY <2>0, <2>1, <2>2, <2>3, <2>4, <2>5 DEF Stream
  <1>19. QED
    BY <1>0, <1>1, <1>2, <1>3, <1>4, <1>5, <1>6, <1>7, <1>8, <1>9, <1>10, <1>11, <1>12, <1>13,
       <1>14, <1>15, <1>16, <1>17, <1>18
    DEF ServerStep, Handle

(* A call begins when the request is handed over, and ends when the client  *)
(* has read its answer.                                                     *)
LEMMA ClientImplements ==
  ASSUME Punctual, TypeInv, HandshakeInv, ContentInv, ClientRuns \/ UserAnswers
  PROVE  [Service!Next]_Service!vars
  <1>0. /\ pc \in [Sides -> ServerPc \cup ClientPc] /\ msg \in [Sides -> MessageType]
        /\ str \in [Sides -> Seq(DataType)] /\ data \in DataType
        /\ "server" \in Sides /\ "client" \in Sides
        /\ StageInv /\ (ClientStep \/ SetNumber \/ SendStr) /\ ~Timeouts
        /\ UNCHANGED <<frequency, power, faults, performed>>
    BY DEF TypeInv, TypeOK, Sides, HandshakeInv, ClientRuns, UserAnswers, Punctual, serverVars, radio
  <1>i. InCall <=> pc.client \in {"recv", "ack", "check", "await", "read"}
    BY DEF InCall
  <1>j. InCall' <=> pc'.client \in {"recv", "ack", "check", "await", "read"}
    BY DEF InCall
  <1>o. ASSUME ~InCall, NEW place, Goto("client", place), UNCHANGED str,
               place \notin {"recv", "ack", "check", "await", "read"}
        PROVE  UNCHANGED Service!vars
    BY <1>0, <1>j, <1>o, Outside DEF Goto
  <1>u. ASSUME InCall, NEW place \in {"recv", "ack", "check", "await", "read"}, Goto("client", place),
               UNCHANGED <<cmd, arg, uses, msg>>
        PROVE  UNCHANGED Service!vars
    <2>1. InCall' <=> InCall
      BY <1>0, <1>j, <1>u DEF Goto
    <2>2. Meaning(msg'.server) = Meaning(msg.server)
      BY <1>u
    <2>3. QED
      BY <1>0, <1>u, <2>1, <2>2, Unseen
  <1>1. CASE SetTag
    <2>1. PICK place \in {"number", "text", "request"} : Goto("client", place)
      BY <1>1 DEF SetTag
    <2>2. QED
      BY <1>1, <1>i, <1>o, <2>1 DEF SetTag
  <1>2. CASE SetNumber
    BY <1>2, <1>i, <1>o DEF SetNumber
  <1>3. CASE Request
    <2>1. /\ pc.client = "request" /\ UNCHANGED <<cmd, arg, uses>>
          /\ cmd \in Commands /\ cmd # "exit"
      BY <1>3 DEF Request, clientVars, HandshakeInv, PlaceInv, Punctual
    <2>2. ~Served
      BY <1>0, <2>1 DEF StageInv, Stage
    <2>3. arg \in Numbers \cup {0}
      BY <2>1, <2>2 DEF ContentInv
    <2>4. ~InCall /\ InCall'
      BY <1>0, <1>3, <1>i, <1>j, <2>1 DEF Request, Receive, Goto
    <2>5. CallNow = Service!NoCall /\ CallNow' = [cmd |-> cmd, num |-> arg]
      BY <2>1, <2>4 DEF CallNow, Service!NoCall
    <2>6. ToldNow' = Service!Pending
      BY <2>4, Meanings DEF ToldNow, Meaning
    <2>7. OutcomeNow = Service!Pending /\ OutcomeNow' = Service!Pending
      <3>1. performed[uses] # 1 /\ performed'[uses'] # 1
        BY <1>0, <2>1, <2>2 DEF Served
      <3>2. QED
        BY <3>1, Meanings DEF OutcomeNow, Meaning
    <2>8. CallNow' \in [cmd : Commands, num : Numbers \cup {0}]
      BY <2>1, <2>3, <2>5
    <2>9. Service!Call
      BY <1>0, <2>5, <2>6, <2>7, <2>8, BagStays DEF Service!Call
    <2>10. QED
      BY <2>9 DEF Service!Next
  <1>4. CASE Await
    BY <1>0, <1>4, <1>i, <1>u DEF Await, shared, clientVars
  \* The end of a call, with the last chunk the client received.
  <1>r. ASSUME InCall, Goto("client", "prompt"), NEW d, str'.client = <<d>>,
               Meaning(d) = OutcomeNow, OutcomeNow # Service!Pending,
               cmd \in Commands, UNCHANGED <<cmd, arg, uses>>
        PROVE  Service!Next
    <2>1. ~InCall'
      BY <1>0, <1>j, <1>r DEF Goto
    <2>2. CallNow # Service!NoCall /\ CallNow' = Service!NoCall
      <3>1. cmd # "none"
        BY <1>r, ConstantTypes DEF AllCommands
      <3>2. QED
        BY <1>r, <2>1, <3>1 DEF CallNow, Service!NoCall
    <2>3. OutcomeNow' = Service!Pending
      BY <2>1, Meanings DEF OutcomeNow, Meaning
    <2>4. ToldNow' = OutcomeNow
      <3>1. str'.client # <<>> /\ Last(str'.client) = d
        BY <1>r DEF Last
      <3>2. ToldNow' = Meaning(Last(str'.client))
        BY <2>1, <3>1 DEF ToldNow, Meaning
      <3>3. QED
        BY <1>r, <3>1, <3>2
    <2>5. Service!Return
      BY <1>0, <1>r, <2>2, <2>3, <2>4, BagStays DEF Service!Return
    <2>6. QED
      BY <2>5 DEF Service!Next
  <1>5. CASE ReadNumber
    <2>1. /\ pc.client = "read" /\ Goto("client", "prompt") /\ UNCHANGED <<cmd, arg, uses>>
          /\ str'.client = <<data>>
      BY <1>0, <1>5 DEF ReadNumber, clientVars
    <2>2. /\ cmd \in ForNumber /\ cmd \in Commands /\ Served /\ uses >= 1
      BY <1>0, <2>1 DEF HandshakeInv, PlaceInv, StageInv, Stage
    <2>3. InCall /\ performed[uses] = 1
      BY <1>i, <2>1, <2>2 DEF Served
    <2>4. data.text = "num" /\ data.num = IF cmd = "getfreq" THEN frequency ELSE power
      BY <2>1, <2>2 DEF ContentInv
    <2>5. Meaning(data) = Service!Value(IF cmd = "getfreq" THEN frequency ELSE power)
      BY <2>4 DEF Meaning, Service!Value
    <2>6. OutcomeNow = Service!Value(IF cmd = "getfreq" THEN frequency ELSE power)
      BY <2>2, <2>3, OutcomeIs
    <2>7. OutcomeNow # Service!Pending
      BY <2>6 DEF Service!Value, Service!Pending
    <2>8. QED
      BY <1>r, <2>1, <2>2, <2>3, <2>5, <2>6, <2>7
  <1>6. CASE TakeBack
    BY <1>0, <1>6 DEF TakeBack, StageInv, Stage
  <1>7. CASE ClientStream
    <2>0. Stream("client") /\ UNCHANGED <<cmd, arg, uses>>
      BY <1>7 DEF ClientStream, clientVars
    <2>1. CASE Fill("client") \/ Give("client") \/ Final("client")
      BY <1>i, <1>o, <2>1 DEF Fill, Give, Final, Home
    <2>2. CASE Acked("client")
      <3>1. PICK place \in {"final", "fill"} : Goto("client", place)
        BY <2>2 DEF Acked, Send
      <3>2. QED
        BY <1>i, <1>o, <2>2, <3>1 DEF Acked
    <2>3. CASE GiveUp("client") \/ NoAnswer("client")
      BY <1>0, <2>3 DEF GiveUp, NoAnswer
    <2>4. CASE Take("client") \/ Ack("client")
      BY <1>i, <1>u, <2>0, <2>4 DEF Take, Ack
    <2>5. CASE Check("client")
      <3>1. /\ pc.client = "check" /\ Goto("client", "prompt") /\ UNCHANGED str
        BY <1>0, <2>5 DEF Check, Home, HandshakeInv, ChunkInv
      <3>2. /\ cmd \notin ForNumber /\ cmd \in Commands /\ Served /\ uses >= 1
        BY <1>0, <3>1 DEF HandshakeInv, PlaceInv, StageInv, Stage
      <3>3. InCall /\ performed[uses] = 1
        BY <1>i, <3>1, <3>2 DEF Served
      <3>4. str.client = <<Chunk(msg.server)>>
        BY <3>1 DEF ContentInv
      <3>5. Meaning(Chunk(msg.server)) = Meaning(msg.server) /\ OutcomeNow = Meaning(msg.server)
        BY <3>2, <3>3, OutcomeIs DEF Meaning, Chunk
      <3>6. msg.server.text # "none"
        <4>1. str.client \in Seq(DataType) /\ Len(str.client) = 1
          BY <1>0, <3>4
        <4>2. str.client[1] \in DataType
          BY <4>1
        <4>3. Chunk(msg.server) \in DataType
          BY <3>4, <4>2
        <4>4. QED
          BY <4>3 DEF Chunk, DataType, Texts
      <3>7. OutcomeNow # Service!Pending
        BY <3>5, <3>6 DEF Meaning, Service!Pending
      <3>8. str'.client = <<Chunk(msg.server)>>
        BY <3>1, <3>4
      <3>9. QED
        BY <1>r, <2>0, <3>1, <3>2, <3>3, <3>5, <3>7, <3>8
    <2>6. QED
      BY <2>0, <2>1, <2>2, <2>3, <2>4, <2>5 DEF Stream
  <1>8. CASE SendStr
    <2>1. PICK place \in {"fill", "final"} : Goto("client", place)
      BY <1>8 DEF SendStr, Send
    <2>2. QED
      BY <1>8, <1>i, <1>o, <2>1 DEF SendStr
  <1>9. QED
    BY <1>0, <1>1, <1>2, <1>3, <1>4, <1>5, <1>6, <1>7, <1>8 DEF ClientStep

(* Every step of a punctual session is a step of the service, or unseen.    *)
LEMMA StepImplements ==
  ASSUME Punctual, TypeInv, HandshakeInv, RangeInv, ContentInv, [Next]_sessionVars
  PROVE  [Service!Next]_Service!vars
  <1>0. /\ pc \in [Sides -> ServerPc \cup ClientPc]
        /\ "server" \in Sides /\ "client" \in Sides
    BY DEF TypeInv, TypeOK, Sides
  <1>1. CASE Serve
    BY <1>1, ServeImplements
  <1>2. CASE ClientRuns \/ UserAnswers
    BY <1>2, ClientImplements
  <1>3. CASE UserTypes
    <2>1. /\ pc.client = "prompt" /\ pc'.client = "tag"
          /\ UNCHANGED <<frequency, power, faults, str>>
      BY <1>0, <1>3 DEF UserTypes, Prompt, Goto, serverVars, radio
    <2>2. ~InCall /\ ~InCall'
      BY <2>1 DEF InCall
    <2>3. QED
      BY <2>1, <2>2, Outside
  <1>4. CASE Started
    <2>1. /\ pc'.client = pc.client /\ Meaning(msg'.server) = Meaning(msg.server)
          /\ UNCHANGED <<frequency, power, faults, cmd, arg, uses, performed, str>>
      BY <1>0, <1>4 DEF Started, Start, Goto, serverVars, radio, clientVars
    <2>2. InCall' <=> InCall
      BY <2>1 DEF InCall
    <2>3. QED
      BY <2>1, <2>2, Unseen
  <1>5. CASE Stop
    BY <1>5 DEF Stop, StopWorking, StopSetState, Punctual, HandshakeInv, ChunkInv
  <1>6. CASE Crash
    <2>1. crashes < 0 /\ crashes \in Nat
      BY <1>6 DEF Crash, ServerCrash, ClientCrash, Punctual, TypeInv, TypeOK
    <2>2. QED
      BY <2>1
  <1>7. CASE UNCHANGED sessionVars
    <2>1. /\ UNCHANGED <<pc, str, msg, frequency, power, faults, cmd, arg, uses, performed>>
      BY <1>7 DEF sessionVars, memVars, serverVars, radio, clientVars
    <2>2. (InCall' <=> InCall) /\ Meaning(msg'.server) = Meaning(msg.server)
      BY <2>1 DEF InCall
    <2>3. QED
      BY <2>1, <2>2, Unseen
  <1>8. QED
    BY <1>1, <1>2, <1>3, <1>4, <1>5, <1>6, <1>7 DEF Next

(* The refinement: a punctual session is the atomic radio.  A command takes *)
(* effect once, between its call and its return, and the user is told the   *)
(* outcome of that effect.  A receiver that keeps no chunk at all would     *)
(* tell nothing, hence the bound on MaxKept.                                *)
THEOREM Atomicity ==
  ASSUME Punctual, MaxKept >= 1
  PROVE  Spec => ImplementsService
  <1>1. Init => Service!Init
    <2> SUFFICES ASSUME Init PROVE Service!Init
      OBVIOUS
    <2>1. ~InCall /\ str.client = <<>>
      BY DEF Init, MemInit, InCall, Sides
    <2>2. CallNow = Service!NoCall /\ OutcomeNow = Service!Pending /\ ToldNow = Service!Pending
      BY <2>1, CallIs, OutcomeIs, ToldIs
    <2>3. FaultBag = [n \in Numbers |-> 0]
      <3>1. faults = <<>>
        BY DEF Init, ServerInit
      <3>2. QED
        BY <3>1, BagIs, CountEmpty
    <2>4. QED
      BY <2>2, <2>3 DEF Init, ServerInit, Service!Init
  <1>2. PunctualInv /\ ContentInv /\ [Next]_sessionVars => [Service!Next]_Service!vars
    BY StepImplements DEF PunctualInv, DisciplinedInv
  <1>3. Spec => []PunctualInv /\ []ContentInv
    BY PunctualInductive, ContentAlways
  <1>4. QED
    BY <1>1, <1>2, <1>3, PTL DEF Spec, ImplementsService, Service!Spec

=============================================================================
