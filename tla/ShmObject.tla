------------------------------ MODULE ShmObject ------------------------------
(***************************************************************************)
(* The life of the named shared memory objects: the SharedMemory objects a *)
(* process constructs one after the other (Init), their destruction in the *)
(* reverse order when its main() returns (Close), deaths and restarts, and *)
(* the names of the operating system they work on.                         *)
(*                                                                         *)
(* Init takes several system calls, and other processes run between any    *)
(* two of them.  It tests errno whether or not its first shm_open failed;  *)
(* errno lives in the process and a call that succeeds leaves it alone.    *)
(* What Init stores in a new object (SM_SERVER, in memory that is zero     *)
(* already) is the initial state of ShmSession and is left out here, as    *)
(* are a full disk and missing permissions.                                *)
(***************************************************************************)
EXTENDS Integers, Sequences

CONSTANTS
    Procs,      \* the processes
    Names,      \* the names of the objects
    Opens,      \* the names each process opens, in the order it does
    MaxStarts   \* starts of processes, all in all (bound)

ASSUME OpensAssumption == Opens \in [Procs -> Seq(Names)] /\ \A p \in Procs : Opens[p] # <<>>
\* radio.cpp, lines 51 and 52: no process constructs its first SharedMemory twice.
ASSUME FirstOnceAssumption ==
    \A p \in Procs : \A i \in 2..Len(Opens[p]) : Opens[p][i] # Opens[p][1]
ASSUME MaxStartsAssumption == MaxStarts \in Nat

VARIABLES
    linked,     \* the object each name stands for, None if it stands for none
    objects,    \* history: how many objects were made; they are numbered
    made,       \* history: the objects each process made since it was started
    sized,      \* the objects that ftruncate has given their size
    unlinked,   \* history: the names that were ever unlinked
    pc,         \* where each process is
    at,         \* the place in Opens of the SharedMemory it is at
    errno,      \* errno of each process
    fd,         \* the object that fd of the SharedMemory it is at stands for
    map,        \* the object each process has mapped (shmp), by name
    err,        \* SharedMemory::err, by name
    starts      \* history: how often a process was started

names == <<linked, objects, sized, unlinked>>
vars == <<names, made, pc, at, errno, fd, map, err, starts>>

None == 0
Objects == 1..objects
NameAt(p) == Opens[p][at[p]]
Unmapped == [n \in Names |-> None]
NoErrors == [n \in Names |-> 0]
Codes == {0, -1, -2}

(* Type correctness. *)
TypeOK ==
    /\ objects \in Nat
    /\ made \in [Procs -> SUBSET Objects]
    /\ linked \in [Names -> Objects \cup {None}]
    /\ sized \subseteq Objects
    /\ unlinked \subseteq Names
    /\ pc \in [Procs -> {"off", "open", "test", "map", "up", "closing"}]
    /\ at \in [Procs -> Nat]
    /\ \A p \in Procs : at[p] \in 1..Len(Opens[p])
    /\ errno \in [Procs -> {"EEXIST", "other"}]
    /\ fd \in [Procs -> Objects \cup {None}]
    /\ map \in [Procs -> [Names -> Objects \cup {None}]]
    /\ err \in [Procs -> [Names -> Codes]]
    /\ starts \in 0..MaxStarts

Init ==
    /\ linked = Unmapped
    /\ objects = 0
    /\ made = [p \in Procs |-> {}]
    /\ sized = {}
    /\ unlinked = {}
    /\ pc = [p \in Procs |-> "off"]
    /\ at = [p \in Procs |-> 1]
    /\ errno = [p \in Procs |-> "other"]
    /\ fd = [p \in Procs |-> None]
    /\ map = [p \in Procs |-> Unmapped]
    /\ err = [p \in Procs |-> NoErrors]
    /\ starts = 0

-----------------------------------------------------------------------------
(* A process begins and ends.                                               *)

\* Mutant: a process removes what an earlier run may have left.
StartAfresh(p) ==
    /\ pc[p] = "off"
    /\ starts < MaxStarts
    /\ linked' = [linked EXCEPT ![Opens[p][1]] = None]
    /\ starts' = starts + 1
    /\ pc' = [pc EXCEPT ![p] = "open"]
    /\ UNCHANGED <<objects, sized, unlinked, made, at, errno, fd, map, err>>

Start(p) ==
    /\ pc[p] = "off"
    /\ starts < MaxStarts
    /\ starts' = starts + 1
    /\ pc' = [pc EXCEPT ![p] = "open"]
    /\ UNCHANGED <<names, made, at, errno, fd, map, err>>

\* The mappings and descriptors of a process end with it, the names do not.
Gone(p) ==
    /\ pc' = [pc EXCEPT ![p] = "off"]
    /\ at' = [at EXCEPT ![p] = 1]
    /\ errno' = [errno EXCEPT ![p] = "other"]
    /\ fd' = [fd EXCEPT ![p] = None]
    /\ map' = [map EXCEPT ![p] = Unmapped]
    /\ err' = [err EXCEPT ![p] = NoErrors]
    /\ made' = [made EXCEPT ![p] = {}]
    /\ UNCHANGED starts

\* Any death but a return from main(): a signal, std::terminate, or SIGBUS
\* from an access to an object that has no size.
Die(p) ==
    /\ pc[p] # "off"
    /\ Gone(p)
    /\ UNCHANGED names

-----------------------------------------------------------------------------
(* SharedMemory::Init.                                                      *)

\* Mutant: something between the call and the test of errno may change it.
OpenThenLog(p) ==
    /\ pc[p] = "open"
    /\ linked[NameAt(p)] # None
    /\ \E e \in {"EEXIST", "other"} : errno' = [errno EXCEPT ![p] = e]
    /\ fd' = [fd EXCEPT ![p] = None]
    /\ pc' = [pc EXCEPT ![p] = "test"]
    /\ UNCHANGED <<names, made, at, map, err, starts>>

\* shm_open with O_CREAT | O_EXCL, when the name is taken...
OpenTaken(p) ==
    /\ pc[p] = "open"
    /\ linked[NameAt(p)] # None
    /\ errno' = [errno EXCEPT ![p] = "EEXIST"]
    /\ fd' = [fd EXCEPT ![p] = None]
    /\ pc' = [pc EXCEPT ![p] = "test"]
    /\ UNCHANGED <<names, made, at, map, err, starts>>

\* ... and when it is free.
OpenFree(p) ==
    /\ pc[p] = "open"
    /\ linked[NameAt(p)] = None
    /\ objects' = objects + 1
    /\ made' = [made EXCEPT ![p] = @ \cup {objects'}]
    /\ linked' = [linked EXCEPT ![NameAt(p)] = objects']
    /\ fd' = [fd EXCEPT ![p] = objects']
    /\ pc' = [pc EXCEPT ![p] = "test"]
    /\ UNCHANGED <<sized, unlinked, at, errno, map, err, starts>>

\* Mutant: the place moves on after the last SharedMemory too.
OnwardPastLast(p) ==
    /\ at' = [at EXCEPT ![p] = @ + 1]
    /\ pc' = [pc EXCEPT ![p] = IF at[p] < Len(Opens[p]) THEN "open" ELSE "up"]
    /\ UNCHANGED errno

\* The process goes on to its next SharedMemory, if any; what it does in
\* between (a line to syslog) may or may not change errno.
Onward(p) ==
    \/ /\ at[p] < Len(Opens[p])
       /\ at' = [at EXCEPT ![p] = @ + 1]
       /\ \E e \in {errno[p], "other"} : errno' = [errno EXCEPT ![p] = e]
       /\ pc' = [pc EXCEPT ![p] = "open"]
    \/ /\ at[p] = Len(Opens[p])
       /\ pc' = [pc EXCEPT ![p] = "up"]
       /\ UNCHANGED <<at, errno>>

\* Init returns code.
Return(p, code) ==
    /\ err' = [err EXCEPT ![p][NameAt(p)] = code]
    /\ Onward(p)
    /\ UNCHANGED <<names, made, starts>>

\* errno is EEXIST: shm_open again, without O_CREAT.
Reopen(p) ==
    /\ pc[p] = "test"
    /\ errno[p] = "EEXIST"
    /\ linked[NameAt(p)] # None
    /\ fd' = [fd EXCEPT ![p] = linked[NameAt(p)]]
    /\ pc' = [pc EXCEPT ![p] = "map"]
    /\ UNCHANGED <<names, made, at, errno, map, err, starts>>

\* The name is gone: fd is -1 and shmp keeps what it was born with.
ReopenFails(p) ==
    /\ pc[p] = "test"
    /\ errno[p] = "EEXIST"
    /\ linked[NameAt(p)] = None
    /\ fd' = [fd EXCEPT ![p] = None]
    /\ UNCHANGED map
    /\ Return(p, -2)

\* Mutant: the object is not given its size.
TruncateNot(p) ==
    /\ pc[p] = "test"
    /\ errno[p] # "EEXIST"
    /\ fd[p] # None
    /\ pc' = [pc EXCEPT ![p] = "map"]
    /\ UNCHANGED <<names, made, at, errno, fd, map, err, starts>>

\* errno is not EEXIST: ftruncate, which fails if shm_open did.
Truncate(p) ==
    /\ pc[p] = "test"
    /\ errno[p] # "EEXIST"
    /\ IF fd[p] # None
       THEN /\ sized' = sized \cup {fd[p]}
            /\ pc' = [pc EXCEPT ![p] = "map"]
            /\ UNCHANGED <<linked, objects, unlinked, made, at, errno, map, err, starts>>
       ELSE Return(p, -1) /\ UNCHANGED map
    /\ UNCHANGED fd

\* mmap of an object without a size succeeds too.
Map(p) ==
    /\ pc[p] = "map"
    /\ map' = [map EXCEPT ![p][NameAt(p)] = fd[p]]
    /\ UNCHANGED fd
    /\ Return(p, 0)

-----------------------------------------------------------------------------
(* SharedMemory::Close.                                                     *)

\* The destructors of a process that returns from main() run from the last
\* SharedMemory to the first, then it is gone.
NextClose(p) ==
    \/ /\ at[p] > 1
       /\ at' = [at EXCEPT ![p] = @ - 1]
       /\ pc' = [pc EXCEPT ![p] = "closing"]
       /\ map' = [map EXCEPT ![p][NameAt(p)] = None]
       /\ UNCHANGED <<made, errno, fd, err, starts>>
    \/ at[p] = 1 /\ Gone(p)

\* munmap, and shm_unlink of the name, whatever object it stands for by now
\* and whoever else has it mapped.
Close(p) ==
    /\ pc[p] \in {"up", "closing"}
    /\ linked' = [linked EXCEPT ![NameAt(p)] = None]
    /\ unlinked' = unlinked \cup {NameAt(p)}
    /\ UNCHANGED <<objects, sized>>
    /\ NextClose(p)

\* shmp was never set; if munmap fails on it the name is left alone.
CloseUnmapped(p) ==
    /\ pc[p] \in {"up", "closing"}
    /\ map[p][NameAt(p)] = None
    /\ UNCHANGED names
    /\ NextClose(p)

-----------------------------------------------------------------------------

Step(p) ==
    \/ Start(p) \/ Die(p)
    \/ OpenTaken(p) \/ OpenFree(p) \/ Reopen(p) \/ ReopenFails(p)
    \/ Truncate(p) \/ Map(p)
    \/ Close(p) \/ CloseUnmapped(p)

Next == \E p \in Procs : Step(p)

Spec == Init /\ [][Next]_vars

-----------------------------------------------------------------------------
(* Properties.                                                              *)

(* As long as no SharedMemory of a name was closed, everybody who has the   *)
(* name mapped has the object it stands for: the daemons may be started     *)
(* separately, in any order and at once, killed and started again, and      *)
(* still meet in one piece of memory.                                       *)
MeetUntilUnlinked == \A n \in Names \ unlinked, p \in Procs :
    map[p][n] # None => map[p][n] = linked[n]

(* Init never takes another's object for its own to size, nor its own for   *)
(* another's that is gone: it fails only when a Close comes between its two *)
(* calls of shm_open.                                                       *)
FailsOnlyByUnlink == \A n \in Names \ unlinked, p \in Procs : err[p][n] = 0

(* The first SharedMemory a process constructs sizes the object if it made  *)
(* it, whoever opens or unlinks the name meanwhile.                         *)
FirstIsSized == \A p \in Procs :
    map[p][Opens[p][1]] \in made[p] => map[p][Opens[p][1]] \in sized

(* "create shared memory object and mappings" (SharedMemoryCore.hpp): an    *)
(* Init that made the object and returned 0 left memory behind its mapping. *)
(* The code does not keep this: after an Init that found its name taken,    *)
(* errno still says so while the next one makes its object.                 *)
EveryOneIsSized == \A p \in Procs, n \in Names :
    map[p][n] \in made[p] => map[p][n] \in sized

-----------------------------------------------------------------------------
(* The inductive invariant: what a process inside Init knows of the object  *)
(* it is about to map.                                                      *)

\* A process that is to map an object has the one its name stands for.
AboutToMap == \A p \in Procs :
    NameAt(p) \notin unlinked =>
        /\ pc[p] \in {"test", "map"} => linked[NameAt(p)] # None
        /\ pc[p] \in {"test", "map"} /\ fd[p] # None => fd[p] = linked[NameAt(p)]
        /\ pc[p] = "map" => fd[p] # None

\* shm_open failed only by setting errno.
ErrnoTells == \A p \in Procs : pc[p] = "test" /\ errno[p] # "EEXIST" => fd[p] # None

MeetInv == TypeOK /\ MeetUntilUnlinked /\ FailsOnlyByUnlink /\ AboutToMap /\ ErrnoTells

\* A process that was just started has errno from nobody, so at its first
\* SharedMemory errno says EEXIST only if the object is another's, and the
\* object it is about to map has its size if it is its own.
FirstErrnoTells == \A p \in Procs : at[p] = 1 =>
    /\ pc[p] \in {"off", "open"} => errno[p] = "other" /\ made[p] = {}
    /\ pc[p] = "test" /\ errno[p] = "EEXIST" => made[p] = {}
    /\ pc[p] = "map" /\ fd[p] \in made[p] => fd[p] \in sized

SizedInv == TypeOK /\ FirstIsSized /\ FirstErrnoTells
=============================================================================
