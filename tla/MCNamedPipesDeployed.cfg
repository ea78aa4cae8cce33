\* The pipes as the daemons construct them, one client at least.
SPECIFICATION FairSpec
CONSTANTS
    Procs = {"fault", "radio", "configuration"}
    Server = "fault"
    ReadPipe <- MCRequestPipe
    WritePipe <- MCResponsePipe
    MaxNodes = 2
    Commands = {"KEEP_ALIVE", "SET_POWER", "GET_POWER"}
    Bytes = {7}
    MaxRequests = 1
    MaxStarts = 2
    MaxEnds = 0
PROPERTY
    Answered
CHECK_DEADLOCK FALSE
