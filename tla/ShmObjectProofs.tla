--------------------------- MODULE ShmObjectProofs ---------------------------
(***************************************************************************)
(* For any number of processes, names and starts: as long as a name was    *)
(* not unlinked, everybody who mapped it has the same object, and every    *)
(* Init of it succeeded.                                                   *)
(***************************************************************************)
EXTENDS ShmObject, TLAPS

-----------------------------------------------------------------------------
(* The two ways a process leaves a place, each part of several actions.     *)

\* The variables a process can change, spelled out for the provers.
Pcs == {"off", "open", "test", "map", "up", "closing"}

(* A process is at one of the names it opens.                               *)
LEMMA NameAtType ==
    ASSUME TypeOK, NEW p \in Procs
    PROVE  NameAt(p) \in Names
  BY OpensAssumption DEF TypeOK, NameAt

(* A return of Init keeps the types, whichever code it returns.             *)
LEMMA ReturnType ==
    ASSUME TypeOK, NEW p \in Procs, pc[p] # "off", NEW code \in Codes,
           Return(p, code), fd' \in [Procs -> Objects \cup {None}],
           map' \in [Procs -> [Names -> Objects \cup {None}]]
    PROVE  TypeOK'
<1>1. NameAt(p) \in Names /\ at[p] \in 1..Len(Opens[p]) /\ Len(Opens[p]) \in Nat
  BY NameAtType, OpensAssumption DEF TypeOK
<1>2. UNCHANGED <<linked, objects, sized, unlinked, made, starts>>
  BY DEF Return, names
<1>3. err' \in [Procs -> [Names -> Codes]]
  BY <1>1 DEF Return, TypeOK
<1>4. /\ pc' \in [Procs -> Pcs] /\ errno' \in [Procs -> {"EEXIST", "other"}]
      /\ at' \in [Procs -> Nat] /\ \A q \in Procs : at'[q] \in 1..Len(Opens[q])
  <2>1. Onward(p)
    BY DEF Return
  <2>2. CASE at[p] < Len(Opens[p])
    <3>1. PICK e \in {errno[p], "other"} : errno' = [errno EXCEPT ![p] = e]
      BY <2>1, <2>2, <1>1 DEF Onward
    <3>2. at' = [at EXCEPT ![p] = @ + 1] /\ pc' = [pc EXCEPT ![p] = "open"]
      BY <2>1, <2>2, <1>1 DEF Onward
    <3>3. at[p] + 1 \in 1..Len(Opens[p])
      BY <1>1, <2>2
    <3>4. at' \in [Procs -> Nat] /\ \A q \in Procs : at'[q] \in 1..Len(Opens[q])
      BY <3>2, <3>3 DEF TypeOK
    <3>5. pc' \in [Procs -> Pcs] /\ errno' \in [Procs -> {"EEXIST", "other"}]
      BY <3>1, <3>2 DEF TypeOK, Pcs
    <3>6. QED
      BY <3>4, <3>5
  <2>3. CASE at[p] = Len(Opens[p])
    <3>1. UNCHANGED <<at, errno>> /\ pc' = [pc EXCEPT ![p] = "up"]
      BY <2>1, <2>3, <1>1 DEF Onward
    <3>2. QED
      BY <3>1 DEF TypeOK, Pcs
  <2>4. QED
    BY <2>1, <2>2, <2>3 DEF Onward
<1>5. Objects' = Objects
  BY <1>2 DEF Objects
<1>6. QED
  BY <1>2, <1>3, <1>4, <1>5 DEF TypeOK, Pcs

(* So does the end of a process.                                            *)
LEMMA GoneType ==
    ASSUME TypeOK, NEW p \in Procs, Gone(p), UNCHANGED <<objects, sized>>,
           linked' \in [Names -> Objects \cup {None}], unlinked' \subseteq Names
    PROVE  TypeOK'
<1>1. Objects' = Objects /\ 0 \in Codes /\ 1 \in 1..Len(Opens[p])
  BY OpensAssumption DEF Objects, Codes
<1>2. map' \in [Procs -> [Names -> Objects \cup {None}]] /\ err' \in [Procs -> [Names -> Codes]]
  BY <1>1 DEF Gone, TypeOK, Unmapped, NoErrors
<1>3. /\ pc' \in [Procs -> Pcs] /\ at' \in [Procs -> Nat]
      /\ \A q \in Procs : at'[q] \in 1..Len(Opens[q])
  BY <1>1 DEF Gone, TypeOK, Pcs
<1>4. /\ made' \in [Procs -> SUBSET Objects] /\ starts' = starts
      /\ errno' \in [Procs -> {"EEXIST", "other"}] /\ fd' \in [Procs -> Objects \cup {None}]
  BY DEF Gone, TypeOK
<1>5. QED
  BY <1>1, <1>2, <1>3, <1>4 DEF TypeOK, Pcs

(* So does the next step of closing.                                       *)
LEMMA NextCloseType ==
    ASSUME TypeOK, NEW p \in Procs, NextClose(p), UNCHANGED <<objects, sized>>,
           linked' \in [Names -> Objects \cup {None}], unlinked' \subseteq Names
    PROVE  TypeOK'
<1>1. CASE at[p] > 1 /\ ~Gone(p)
  <2>1. /\ at' = [at EXCEPT ![p] = @ - 1] /\ pc' = [pc EXCEPT ![p] = "closing"]
        /\ map' = [map EXCEPT ![p][NameAt(p)] = None]
        /\ UNCHANGED <<made, errno, fd, err, starts>>
    BY <1>1 DEF NextClose
  <2>2. map' \in [Procs -> [Names -> Objects \cup {None}]]
    BY <2>1, NameAtType DEF TypeOK
  <2>3. pc' \in [Procs -> Pcs]
    BY <2>1 DEF TypeOK, Pcs
  <2>4. at[p] \in 1..Len(Opens[p]) /\ Len(Opens[p]) \in Nat
    BY OpensAssumption DEF TypeOK
  <2>5. at' \in [Procs -> Nat] /\ \A q \in Procs : at'[q] \in 1..Len(Opens[q])
    BY <1>1, <2>1, <2>4 DEF TypeOK
  <2>6. QED
    BY <2>1, <2>2, <2>3, <2>5 DEF TypeOK, Pcs, Objects
<1>2. QED
  BY <1>1, GoneType DEF NextClose

(* Every step of a process keeps the types.                                 *)
LEMMA TypeStep ==
    ASSUME TypeOK, [Next]_vars
    PROVE  TypeOK'
<1>1. CASE UNCHANGED vars
  BY <1>1 DEF vars, names, TypeOK, Objects
<1>2. ASSUME NEW p \in Procs, Step(p)
      PROVE  TypeOK'
  <2>1. CASE Start(p)
    BY <2>1, MaxStartsAssumption DEF Start, TypeOK, names, Objects
  <2>2. CASE Die(p)
    BY <2>2, GoneType DEF Die, names, TypeOK
  <2>3. CASE OpenTaken(p)
    BY <2>3 DEF OpenTaken, TypeOK, names, Objects, None
  <2>4. CASE OpenFree(p)
    BY <2>4, NameAtType DEF OpenFree, TypeOK, Objects, None
  <2>5. CASE Reopen(p)
    BY <2>5, NameAtType DEF Reopen, TypeOK, names, Objects, None
  <2>6. CASE ReopenFails(p)
    <3>1. fd' \in [Procs -> Objects \cup {None}] /\ map' \in [Procs -> [Names -> Objects \cup {None}]]
      BY <2>6 DEF ReopenFails, TypeOK
    <3>2. -2 \in Codes
      BY DEF Codes
    <3>3. QED
      BY <2>6, <3>1, <3>2, ReturnType DEF ReopenFails
  <2>7. CASE Truncate(p)
    <3>1. CASE fd[p] # None
      <4>1. /\ sized' = sized \cup {fd[p]} /\ pc' = [pc EXCEPT ![p] = "map"]
            /\ UNCHANGED <<linked, objects, unlinked, made, at, errno, fd, map, err, starts>>
        BY <2>7, <3>1 DEF Truncate
      <4>2. QED
        BY <3>1, <4>1 DEF TypeOK, Objects
    <3>2. CASE fd[p] = None
      <4>1. fd' = fd /\ map' \in [Procs -> [Names -> Objects \cup {None}]]
        BY <2>7, <3>2 DEF Truncate, TypeOK
      <4>2. Return(p, -1) /\ pc[p] = "test" /\ -1 \in Codes
        BY <2>7, <3>2 DEF Truncate, Codes
      <4>3. QED
        BY <4>1, <4>2, ReturnType DEF TypeOK
    <3>3. QED
      BY <3>1, <3>2
  <2>8. CASE Map(p)
    <3>1. fd' = fd /\ map' \in [Procs -> [Names -> Objects \cup {None}]]
      BY <2>8, NameAtType DEF Map, TypeOK
    <3>2. Return(p, 0) /\ pc[p] = "map" /\ 0 \in Codes
      BY <2>8 DEF Map, Codes
    <3>3. QED
      BY <3>1, <3>2, ReturnType DEF TypeOK
  <2>9. CASE Close(p)
    BY <2>9, NameAtType, NextCloseType DEF Close, TypeOK, None
  <2>10. CASE CloseUnmapped(p)
    BY <2>10, NextCloseType DEF CloseUnmapped, names, TypeOK
  <2>11. QED
    BY <1>2, <2>1, <2>2, <2>3, <2>4, <2>5, <2>6, <2>7, <2>8, <2>9, <2>10 DEF Step
<1>3. QED
  BY <1>1, <1>2 DEF Next

-----------------------------------------------------------------------------
(* Meeting in one object.                                                   *)

(* A return of Init keeps the invariant, if what the process has mapped by  *)
(* then is what its name stands for, and the code tells of an unlinked name.*)
LEMMA ReturnMeets ==
    ASSUME MeetInv, NEW p \in Procs, pc[p] # "off", NEW code \in Codes,
           Return(p, code),
           NameAt(p) \notin unlinked => code = 0,
           \/ map' = map
           \/ /\ map' = [map EXCEPT ![p][NameAt(p)] = fd[p]]
              /\ NameAt(p) \notin unlinked => fd[p] \in {None, linked[NameAt(p)]},
           UNCHANGED <<linked, unlinked>>,
           \A q \in Procs \ {p} : fd'[q] = fd[q]
    PROVE  MeetUntilUnlinked' /\ FailsOnlyByUnlink' /\ AboutToMap' /\ ErrnoTells'
<1>1. NameAt(p) \in Names
  BY NameAtType DEF MeetInv
<1>2. MeetUntilUnlinked'
  <2>1. CASE map' = map
    BY <2>1 DEF MeetInv, MeetUntilUnlinked
  <2>2. CASE map' # map
    <3>1. \A q \in Procs, n \in Names :
            map'[q][n] = IF q = p /\ n = NameAt(p) THEN fd[p] ELSE map[q][n]
      BY <1>1, <2>2 DEF MeetInv, TypeOK
    <3>2. QED
      BY <2>2, <3>1 DEF MeetInv, MeetUntilUnlinked
  <2>3. QED
    BY <2>1, <2>2
<1>3. FailsOnlyByUnlink'
  BY <1>1 DEF Return, MeetInv, FailsOnlyByUnlink, TypeOK
<1>4. Onward(p) /\ pc'[p] \in {"open", "up"}
  BY DEF Return, Onward, MeetInv, TypeOK
<1>5. \A q \in Procs \ {p} :
        pc'[q] = pc[q] /\ at'[q] = at[q] /\ errno'[q] = errno[q] /\ fd'[q] = fd[q]
  BY <1>4 DEF Onward, MeetInv, TypeOK
<1>6. AboutToMap'
  BY <1>4, <1>5 DEF MeetInv, AboutToMap, NameAt
<1>7. ErrnoTells'
  BY <1>4, <1>5 DEF MeetInv, ErrnoTells
<1>8. QED
  BY <1>2, <1>3, <1>6, <1>7

(* A process that is closing or gone maps nothing new, and leaves the others*)
(* alone but for the names it unlinks.                                      *)
LEMMA CloserMeets ==
    ASSUME MeetInv, NEW p \in Procs, pc'[p] \in {"off", "closing"},
           NEW S, unlinked' = unlinked \cup S,
           \A n \in Names \ S : linked'[n] = linked[n],
           \A q \in Procs, n \in Names : map'[q][n] \in {map[q][n], None},
           \A q \in Procs, n \in Names : err'[q][n] \in {err[q][n], 0},
           \A q \in Procs \ {p} :
               pc'[q] = pc[q] /\ at'[q] = at[q] /\ errno'[q] = errno[q] /\ fd'[q] = fd[q]
    PROVE  MeetUntilUnlinked' /\ FailsOnlyByUnlink' /\ AboutToMap' /\ ErrnoTells'
<1>1. MeetUntilUnlinked'
  BY DEF MeetInv, MeetUntilUnlinked
<1>2. FailsOnlyByUnlink'
  BY DEF MeetInv, FailsOnlyByUnlink
<1>3. AboutToMap'
  <2>1. SUFFICES ASSUME NEW q \in Procs \ {p}, pc[q] \in {"test", "map"}, NameAt(q) \notin unlinked'
                 PROVE  /\ linked'[NameAt(q)] # None
                        /\ fd[q] # None => fd[q] = linked'[NameAt(q)]
                        /\ pc[q] = "map" => fd[q] # None
    BY DEF AboutToMap, NameAt
  <2>2. NameAt(q) \in Names
    BY <2>1, NameAtType DEF MeetInv
  <2>3. QED
    BY <2>1, <2>2 DEF MeetInv, AboutToMap
<1>4. ErrnoTells'
  BY DEF MeetInv, ErrnoTells
<1>5. QED
  BY <1>1, <1>2, <1>3, <1>4

(* So a step of closing keeps the invariant.                                *)
LEMMA NextCloseMeets ==
    ASSUME MeetInv, NEW p \in Procs, pc[p] \in {"up", "closing"}, NextClose(p),
           NEW S, unlinked' = unlinked \cup S,
           \A n \in Names \ S : linked'[n] = linked[n]
    PROVE  MeetUntilUnlinked' /\ FailsOnlyByUnlink' /\ AboutToMap' /\ ErrnoTells'
<1>1. NameAt(p) \in Names
  BY NameAtType DEF MeetInv
<1>2. CASE Gone(p)
  <2>1. \A q \in Procs, n \in Names :
          map'[q][n] \in {map[q][n], None} /\ err'[q][n] \in {err[q][n], 0}
    BY <1>2 DEF Gone, Unmapped, NoErrors, MeetInv, TypeOK
  <2>2. /\ pc'[p] = "off"
        /\ \A q \in Procs \ {p} :
             pc'[q] = pc[q] /\ at'[q] = at[q] /\ errno'[q] = errno[q] /\ fd'[q] = fd[q]
    BY <1>2 DEF Gone, MeetInv, TypeOK
  <2>3. QED
    BY <2>1, <2>2, CloserMeets
<1>3. CASE ~Gone(p)
  <2>1. /\ at' = [at EXCEPT ![p] = @ - 1] /\ pc' = [pc EXCEPT ![p] = "closing"]
        /\ map' = [map EXCEPT ![p][NameAt(p)] = None]
        /\ UNCHANGED <<errno, fd, err>>
    BY <1>3 DEF NextClose
  <2>2. \A q \in Procs, n \in Names : map'[q][n] \in {map[q][n], None}
    BY <1>1, <2>1 DEF MeetInv, TypeOK
  <2>3. pc'[p] = "closing" /\ \A q \in Procs \ {p} : pc'[q] = pc[q] /\ at'[q] = at[q]
    BY <2>1 DEF MeetInv, TypeOK
  <2>4. QED
    BY <2>1, <2>2, <2>3, CloserMeets
<1>4. QED
  BY <1>2, <1>3

(* A step of a process inside Init that neither returns nor touches what is *)
(* mapped only has to say what the process knows of its object.             *)
LEMMA InitStepMeets ==
    ASSUME MeetInv, NEW p \in Procs, pc[p] # "off",
           UNCHANGED <<unlinked, at, map, err>>,
           \A q \in Procs \ {p} : pc'[q] = pc[q] /\ errno'[q] = errno[q] /\ fd'[q] = fd[q],
           \A n \in Names : linked[n] # None => linked'[n] = linked[n],
           NameAt(p) \notin unlinked =>
               /\ pc'[p] \in {"test", "map"} => linked'[NameAt(p)] # None
               /\ pc'[p] \in {"test", "map"} /\ fd'[p] # None => fd'[p] = linked'[NameAt(p)]
               /\ pc'[p] = "map" => fd'[p] # None,
           pc'[p] = "test" /\ errno'[p] # "EEXIST" => fd'[p] # None
    PROVE  MeetUntilUnlinked' /\ FailsOnlyByUnlink' /\ AboutToMap' /\ ErrnoTells'
<1>1. MeetUntilUnlinked'
  BY DEF MeetInv, MeetUntilUnlinked
<1>2. FailsOnlyByUnlink'
  BY DEF MeetInv, FailsOnlyByUnlink
<1>3. AboutToMap'
  <2>1. SUFFICES ASSUME NEW q \in Procs \ {p}, pc[q] \in {"test", "map"}, NameAt(q) \notin unlinked
                 PROVE  /\ linked'[NameAt(q)] # None
                        /\ fd[q] # None => fd[q] = linked'[NameAt(q)]
                        /\ pc[q] = "map" => fd[q] # None
    BY DEF AboutToMap, NameAt
  <2>2. NameAt(q) \in Names
    BY <2>1, NameAtType DEF MeetInv
  <2>3. QED
    BY <2>1, <2>2 DEF MeetInv, AboutToMap
<1>4. ErrnoTells'
  BY DEF MeetInv, ErrnoTells
<1>5. QED
  BY <1>1, <1>2, <1>3, <1>4

(* Every step of a process keeps the invariant.                             *)
LEMMA MeetStep ==
    ASSUME MeetInv, [Next]_vars
    PROVE  MeetInv'
<1>t. TypeOK /\ TypeOK'
  BY TypeStep DEF MeetInv
<1> DEFINE Meets == MeetUntilUnlinked' /\ FailsOnlyByUnlink' /\ AboutToMap' /\ ErrnoTells'
<1>1. CASE UNCHANGED vars
  BY <1>1 DEF vars, names, MeetInv, TypeOK, Objects, MeetUntilUnlinked,
      FailsOnlyByUnlink, AboutToMap, ErrnoTells, NameAt
<1>2. ASSUME NEW p \in Procs, Step(p)
      PROVE  Meets
  <2>1. CASE Start(p)
    BY <2>1, <1>t DEF Start, names, MeetInv, MeetUntilUnlinked, FailsOnlyByUnlink,
        AboutToMap, ErrnoTells, NameAt, TypeOK
  <2>2. CASE Die(p)
    BY <2>2, <1>t DEF Die, Gone, names, Unmapped, NoErrors, MeetInv, MeetUntilUnlinked,
        FailsOnlyByUnlink, AboutToMap, ErrnoTells, NameAt, TypeOK
  <2>3. CASE OpenTaken(p)
    <3>1. /\ pc[p] = "open" /\ pc'[p] = "test"
          /\ errno'[p] = "EEXIST" /\ fd'[p] = None
          /\ linked[NameAt(p)] # None
          /\ UNCHANGED <<linked, unlinked, at, map, err>>
          /\ \A q \in Procs \ {p} : pc'[q] = pc[q] /\ errno'[q] = errno[q] /\ fd'[q] = fd[q]
      BY <2>3, <1>t DEF OpenTaken, names, TypeOK
    <3>2. QED
      BY <3>1, InitStepMeets
  <2>4. CASE OpenFree(p)
    <3>1. /\ pc[p] = "open" /\ pc'[p] = "test"
          /\ fd'[p] = objects + 1 /\ linked'[NameAt(p)] = objects + 1
          /\ UNCHANGED <<unlinked, at, map, err>>
          /\ \A q \in Procs \ {p} : pc'[q] = pc[q] /\ errno'[q] = errno[q] /\ fd'[q] = fd[q]
          /\ \A n \in Names : linked[n] # None => linked'[n] = linked[n]
      BY <2>4, <1>t, NameAtType DEF OpenFree, TypeOK
    <3>2. objects + 1 # None
      BY <1>t DEF TypeOK, None
    <3>3. QED
      BY <3>1, <3>2, InitStepMeets
  <2>5. CASE Reopen(p)
    <3>1. /\ pc[p] = "test" /\ pc'[p] = "map"
          /\ linked[NameAt(p)] # None /\ fd'[p] = linked[NameAt(p)]
          /\ UNCHANGED <<linked, unlinked, at, map, err>>
          /\ \A q \in Procs \ {p} : pc'[q] = pc[q] /\ errno'[q] = errno[q] /\ fd'[q] = fd[q]
      BY <2>5, <1>t DEF Reopen, names, TypeOK
    <3>2. QED
      BY <3>1, InitStepMeets
  <2>6. CASE ReopenFails(p)
    <3>1. NameAt(p) \in unlinked
      BY <2>6 DEF ReopenFails, MeetInv, AboutToMap
    <3>2. /\ pc[p] = "test" /\ -2 \in Codes /\ Return(p, -2) /\ map' = map
          /\ UNCHANGED <<linked, unlinked>>
          /\ \A q \in Procs \ {p} : fd'[q] = fd[q]
      BY <2>6, <1>t DEF ReopenFails, Return, names, TypeOK, Codes
    <3>3. QED
      BY <3>1, <3>2, ReturnMeets
  <2>7. CASE Truncate(p)
    <3>1. fd[p] # None
      BY <2>7 DEF Truncate, MeetInv, ErrnoTells
    <3>2. /\ pc[p] = "test" /\ pc'[p] = "map"
          /\ UNCHANGED <<linked, unlinked, at, map, err, errno, fd>>
          /\ \A q \in Procs \ {p} : pc'[q] = pc[q]
      BY <2>7, <3>1, <1>t DEF Truncate, TypeOK
    <3>3. NameAt(p) \notin unlinked => linked[NameAt(p)] # None /\ fd[p] = linked[NameAt(p)]
      BY <3>1, <3>2 DEF MeetInv, AboutToMap
    <3>4. QED
      BY <3>1, <3>2, <3>3, InitStepMeets
  <2>8. CASE Map(p)
    <3>1. NameAt(p) \notin unlinked => fd[p] = linked[NameAt(p)]
      BY <2>8 DEF Map, MeetInv, AboutToMap
    <3>2. /\ pc[p] = "map" /\ 0 \in Codes /\ Return(p, 0)
          /\ map' = [map EXCEPT ![p][NameAt(p)] = fd[p]]
          /\ UNCHANGED <<linked, unlinked, fd>>
      BY <2>8 DEF Map, Return, names, Codes
    <3>3. QED
      BY <3>1, <3>2, ReturnMeets
  <2>9. CASE Close(p)
    <3>1. \A n \in Names \ {NameAt(p)} : linked'[n] = linked[n]
      BY <2>9, <1>t DEF Close, TypeOK
    <3>2. QED
      BY <2>9, <3>1, NextCloseMeets DEF Close
  <2>10. CASE CloseUnmapped(p)
    <3>1. unlinked' = unlinked \cup {} /\ linked' = linked
      BY <2>10 DEF CloseUnmapped, names
    <3>2. QED
      BY <2>10, <3>1, NextCloseMeets DEF CloseUnmapped
  <2>11. QED
    BY <1>2, <2>1, <2>2, <2>3, <2>4, <2>5, <2>6, <2>7, <2>8, <2>9, <2>10 DEF Step
<1>3. QED
  BY <1>t, <1>1, <1>2 DEF Next, MeetInv

(* The invariant holds at the start.                                        *)
LEMMA MeetInit == Init => MeetInv
  BY OpensAssumption, MaxStartsAssumption DEF Init, MeetInv, TypeOK, Objects, None, Unmapped, NoErrors, Codes,
      MeetUntilUnlinked, FailsOnlyByUnlink, AboutToMap, ErrnoTells

(* MeetInv is an inductive invariant.                                       *)
LEMMA MeetInvariance == Spec => []MeetInv
  BY MeetInit, MeetStep, PTL DEF Spec

-----------------------------------------------------------------------------
(* The size of a process's first object.                                    *)

\* What FirstIsSized and FirstErrnoTells say of one process.
KnowsSize(p) ==
    /\ map[p][Opens[p][1]] \in made[p] => map[p][Opens[p][1]] \in sized
    /\ at[p] = 1 =>
        /\ pc[p] \in {"off", "open"} => errno[p] = "other" /\ made[p] = {}
        /\ pc[p] = "test" /\ errno[p] = "EEXIST" => made[p] = {}
        /\ pc[p] = "map" /\ fd[p] \in made[p] => fd[p] \in sized

(* None is no object, so nothing a process has not mapped is one of its own.*)
LEMMA NoneNotMade ==
    ASSUME TypeOK, NEW p \in Procs
    PROVE  /\ None \notin made[p] /\ objects + 1 \notin Objects
           /\ \A n \in Names : map[p][n] # objects + 1
           /\ Opens[p][1] \in Names
<1>1. Opens[p] \in Seq(Names) /\ Opens[p] # <<>>
  BY OpensAssumption
<1>2. Opens[p][1] \in Names
  BY <1>1
<1>3. made[p] \subseteq Objects /\ \A n \in Names : map[p][n] \in Objects \cup {None}
  BY DEF TypeOK
<1>4. QED
  BY <1>2, <1>3 DEF TypeOK, None, Objects

(* At a place that is not its first, a process is not at its first name.    *)
LEMMA LaterName ==
    ASSUME TypeOK, NEW p \in Procs
    PROVE  at[p] # 1 => NameAt(p) # Opens[p][1]
<1>1. at[p] \in 1..Len(Opens[p]) /\ Len(Opens[p]) \in Nat
  BY OpensAssumption DEF TypeOK
<1>2. QED
  BY <1>1, FirstOnceAssumption DEF NameAt

(* A step that leaves a process alone but for the sizes of objects keeps    *)
(* what it knows, and so does one after which it is not inside Init.        *)
LEMMA SizedElsewhere ==
    ASSUME SizedInv, NEW q \in Procs, sized \subseteq sized',
           \/ /\ pc'[q] = pc[q] /\ at'[q] = at[q] /\ errno'[q] = errno[q]
              /\ fd'[q] = fd[q] /\ made'[q] = made[q] /\ map'[q] = map[q]
           \/ /\ pc'[q] \in {"up", "closing"} \/ (pc'[q] = "open" /\ at'[q] # 1)
              /\ made'[q] = made[q]
              /\ map'[q][Opens[q][1]] \in {map[q][Opens[q][1]], None}
           \/ /\ pc'[q] = "off" /\ errno'[q] = "other" /\ made'[q] = {}
    PROVE  KnowsSize(q)'
  BY NoneNotMade DEF SizedInv, FirstIsSized, FirstErrnoTells, KnowsSize

(* Where a return of Init leaves a process.                                 *)
LEMMA ReturnLeaves ==
    ASSUME TypeOK, NEW p \in Procs, NEW code \in Codes, Return(p, code)
    PROVE  /\ pc'[p] = "up" \/ (pc'[p] = "open" /\ at'[p] # 1)
           /\ UNCHANGED <<linked, objects, sized, unlinked, made, starts>>
           /\ \A q \in Procs \ {p} : pc'[q] = pc[q] /\ at'[q] = at[q] /\ errno'[q] = errno[q]
<1>1. at[p] \in 1..Len(Opens[p]) /\ Len(Opens[p]) \in Nat
  BY OpensAssumption DEF TypeOK
<1>2. CASE at[p] < Len(Opens[p])
  <2>1. at' = [at EXCEPT ![p] = @ + 1] /\ pc' = [pc EXCEPT ![p] = "open"]
    BY <1>1, <1>2 DEF Return, Onward
  <2>2. \E e \in {errno[p], "other"} : errno' = [errno EXCEPT ![p] = e]
    BY <1>1, <1>2 DEF Return, Onward
  <2>3. QED
    BY <1>1, <2>1, <2>2 DEF Return, names, TypeOK
<1>3. CASE at[p] = Len(Opens[p])
  BY <1>1, <1>3 DEF Return, Onward, names, TypeOK
<1>4. QED
  BY <1>1, <1>2, <1>3

(* Where a step of closing leaves one.                                      *)
LEMMA NextCloseLeaves ==
    ASSUME TypeOK, NEW p \in Procs, NextClose(p)
    PROVE  /\ \/ pc'[p] = "off" /\ errno'[p] = "other" /\ made'[p] = {}
              \/ /\ pc'[p] = "closing" /\ made'[p] = made[p]
                 /\ \A n \in Names : map'[p][n] \in {map[p][n], None}
           /\ \A q \in Procs \ {p} :
                /\ pc'[q] = pc[q] /\ at'[q] = at[q] /\ errno'[q] = errno[q]
                /\ fd'[q] = fd[q] /\ made'[q] = made[q] /\ map'[q] = map[q]
<1>1. CASE Gone(p)
  BY <1>1 DEF Gone, TypeOK
<1>2. CASE ~Gone(p)
  BY <1>2, NameAtType DEF NextClose, TypeOK
<1>3. QED
  BY <1>1, <1>2

(* Every step keeps the sizes.                                              *)
LEMMA SizedStep ==
    ASSUME SizedInv, [Next]_vars
    PROVE  SizedInv'
<1>t. TypeOK /\ TypeOK'
  BY TypeStep DEF SizedInv
<1>1. CASE UNCHANGED vars
  BY <1>1, <1>t DEF vars, names, SizedInv, FirstIsSized, FirstErrnoTells, KnowsSize
<1>2. ASSUME NEW p \in Procs, Step(p), NEW q \in Procs
      PROVE  KnowsSize(q)'
  <2>1. CASE Start(p)
    <3>1. UNCHANGED <<sized, made, at, errno, fd, map>>
      BY <2>1 DEF Start, names
    <3>2. pc[p] = "off" /\ pc'[p] = "open" /\ (q # p => pc'[q] = pc[q])
      BY <2>1, <1>t DEF Start, TypeOK
    <3>3. QED
      BY <3>1, <3>2, SizedElsewhere DEF SizedInv, FirstIsSized, FirstErrnoTells, KnowsSize
  <2>2. CASE Die(p)
    BY <2>2, <1>t, SizedElsewhere DEF Die, Gone, names, TypeOK
  <2>3. CASE OpenTaken(p)
    <3>1. UNCHANGED <<sized, made, at, map>> /\ pc[p] = "open" /\ pc'[p] = "test"
      BY <2>3, <1>t DEF OpenTaken, names, TypeOK
    <3>2. q # p => pc'[q] = pc[q] /\ errno'[q] = errno[q] /\ fd'[q] = fd[q]
      BY <2>3, <1>t DEF OpenTaken, TypeOK
    <3>3. QED
      BY <3>1, <3>2, SizedElsewhere DEF SizedInv, FirstIsSized, FirstErrnoTells, KnowsSize
  <2>4. CASE OpenFree(p)
    <3>1. UNCHANGED <<sized, at, errno, map>> /\ pc[p] = "open" /\ pc'[p] = "test"
      BY <2>4, <1>t DEF OpenFree, TypeOK
    <3>2. made'[p] = made[p] \cup {objects + 1}
      BY <2>4, <1>t DEF OpenFree, TypeOK
    <3>3. q # p => pc'[q] = pc[q] /\ made'[q] = made[q] /\ fd'[q] = fd[q]
      BY <2>4, <1>t DEF OpenFree, TypeOK
    <3>4. map[p][Opens[p][1]] # objects + 1
      BY <1>t, NoneNotMade
    <3>5. QED
      BY <3>1, <3>2, <3>3, <3>4, SizedElsewhere DEF SizedInv, FirstIsSized, FirstErrnoTells, KnowsSize
  <2>5. CASE Reopen(p)
    <3>1. UNCHANGED <<sized, made, at, errno, map>> /\ pc'[p] = "map"
          /\ pc[p] = "test" /\ errno[p] = "EEXIST"
      BY <2>5, <1>t DEF Reopen, names, TypeOK
    <3>2. q # p => pc'[q] = pc[q] /\ fd'[q] = fd[q]
      BY <2>5, <1>t DEF Reopen, TypeOK
    <3>3. QED
      BY <3>1, <3>2, SizedElsewhere DEF SizedInv, FirstIsSized, FirstErrnoTells, KnowsSize
  <2>6. CASE ReopenFails(p)
    <3>1. Return(p, -2) /\ -2 \in Codes /\ map' = map /\ (q # p => fd'[q] = fd[q])
      BY <2>6, <1>t DEF ReopenFails, Codes, TypeOK
    <3>2. QED
      BY <3>1, <1>t, ReturnLeaves, SizedElsewhere
  <2>7. CASE Truncate(p)
    <3>1. CASE fd[p] # None
      <4>1. UNCHANGED <<made, at, errno, fd, map>> /\ sized' = sized \cup {fd[p]}
            /\ pc'[p] = "map" /\ (q # p => pc'[q] = pc[q])
        BY <2>7, <3>1, <1>t DEF Truncate, TypeOK
      <4>2. QED
        BY <4>1, SizedElsewhere DEF SizedInv, FirstIsSized, FirstErrnoTells, KnowsSize
    <3>2. CASE fd[p] = None
      <4>1. Return(p, -1) /\ -1 \in Codes /\ map' = map /\ fd' = fd
        BY <2>7, <3>2 DEF Truncate, Codes
      <4>2. QED
        BY <4>1, <1>t, ReturnLeaves, SizedElsewhere
    <3>3. QED
      BY <3>1, <3>2
  <2>8. CASE Map(p)
    <3>1. Return(p, 0) /\ 0 \in Codes /\ fd' = fd /\ pc[p] = "map"
          /\ map' = [map EXCEPT ![p][NameAt(p)] = fd[p]]
      BY <2>8 DEF Map, Codes
    <3>2. CASE q # p
      BY <3>1, <3>2, <1>t, ReturnLeaves, SizedElsewhere DEF TypeOK
    <3>3. CASE q = p /\ at[p] # 1
      <4>1. map'[p][Opens[p][1]] = map[p][Opens[p][1]]
        BY <3>1, <3>3, <1>t, LaterName, NameAtType, NoneNotMade DEF TypeOK
      <4>2. QED
        BY <3>1, <3>3, <4>1, <1>t, ReturnLeaves, SizedElsewhere
    <3>4. CASE q = p /\ at[p] = 1
      <4>1. NameAt(p) = Opens[p][1] /\ NameAt(p) \in Names
        BY <3>4, <1>t, NameAtType DEF NameAt
      <4>2. map'[p][Opens[p][1]] = fd[p]
        BY <3>1, <4>1, <1>t DEF TypeOK
      <4>3. UNCHANGED <<made, sized>> /\ (pc'[p] = "up" \/ (pc'[p] = "open" /\ at'[p] # 1))
        BY <3>1, <1>t, ReturnLeaves
      <4>4. fd[p] \in made[p] => fd[p] \in sized
        BY <3>1, <3>4 DEF SizedInv, FirstErrnoTells
      <4>5. QED
        BY <3>4, <4>2, <4>3, <4>4 DEF KnowsSize
    <3>5. QED
      BY <3>2, <3>3, <3>4
  <2>9. CASE Close(p)
    <3>1. NextClose(p) /\ sized' = sized
      BY <2>9 DEF Close
    <3>2. QED
      BY <3>1, <1>t, NextCloseLeaves, NoneNotMade, SizedElsewhere
  <2>10. CASE CloseUnmapped(p)
    <3>1. NextClose(p) /\ sized' = sized
      BY <2>10 DEF CloseUnmapped, names
    <3>2. QED
      BY <3>1, <1>t, NextCloseLeaves, NoneNotMade, SizedElsewhere
  <2>11. QED
    BY <1>2, <2>1, <2>2, <2>3, <2>4, <2>5, <2>6, <2>7, <2>8, <2>9, <2>10 DEF Step
<1>3. ASSUME Next
      PROVE  FirstIsSized' /\ FirstErrnoTells'
  BY <1>2, <1>3 DEF Next, FirstIsSized, FirstErrnoTells, KnowsSize
<1>4. QED
  BY <1>t, <1>1, <1>3 DEF SizedInv

(* SizedInv is an inductive invariant.                                      *)
LEMMA SizedInvariance == Spec => []SizedInv
<1>1. Init => SizedInv
  BY MeetInit, OpensAssumption DEF MeetInv, Init, SizedInv, FirstIsSized, FirstErrnoTells, KnowsSize
<1>2. QED
  BY <1>1, SizedStep, PTL DEF Spec

-----------------------------------------------------------------------------

(* Type correctness of Init and Close.                                      *)
THEOREM TypeCorrect == Spec => []TypeOK
<1>1. MeetInv => TypeOK
  BY DEF MeetInv
<1>2. QED
  BY <1>1, MeetInvariance, PTL

(* Processes that map a name nobody has unlinked map the same object.       *)
THEOREM Meeting == Spec => []MeetUntilUnlinked
<1>1. MeetInv => MeetUntilUnlinked
  BY DEF MeetInv
<1>2. QED
  BY <1>1, MeetInvariance, PTL

(* Init of a name nobody has unlinked returns 0.                            *)
THEOREM InitSucceeds == Spec => []FailsOnlyByUnlink
<1>1. MeetInv => FailsOnlyByUnlink
  BY DEF MeetInv
<1>2. QED
  BY <1>1, MeetInvariance, PTL

(* Whatever others open, close or unlink meanwhile, a process that made the *)
(* object of its first SharedMemory has given it its size by the time it    *)
(* maps it.                                                                 *)
THEOREM FirstSized == Spec => []FirstIsSized
<1>1. SizedInv => FirstIsSized
  BY DEF SizedInv
<1>2. QED
  BY <1>1, SizedInvariance, PTL
=============================================================================
