\* A server and two clients over two pipes; it ends when all are gone.
SPECIFICATION FairSpec
CONSTANTS
    Procs = {"fault", "radio", "configuration"}
    Server = "fault"
    ReadPipe <- MCRead
    WritePipe <- MCWrite
    MaxNodes = 4
    Commands = {"KEEP_ALIVE", "SET_POWER", "GET_POWER", "RAISE_ALARM", "GET_ALARMS"}
    Bytes = {7}
    MaxRequests = 2
    MaxStarts = 3
    MaxEnds = 1
INVARIANTS
    TypeOK
    FilesOnlyAfterUnlink
    EndsExplained
    HandledOnce
PROPERTIES
    ImplementsDevice
    Answered
    ServerGetsRid
CHECK_DEADLOCK FALSE
