\* Punctual sides, nobody stops or dies, texts of one chunk.
SPECIFICATION FairSpec
CONSTANTS
    Timeouts = FALSE
    CanStop = FALSE
    MaxCrashes = 0
    TextNumbers = {7}
    MaxKept = 2
    MinFrequency = 2
    MaxRequests = 3
    Commands = {"ping", "status", "setfreq", "setpwr", "getfreq", "getpwr", "setflt", "clrflt", "toserv"}
    Numbers <- MCNumbers
    StreamSizes = {1}
INVARIANTS
    MutualExclusion
    PerformedOnce
PROPERTIES
    ClientReturns
    ServerReturns
    ClientGetsTurn
    ImplementsService
CHECK_DEADLOCK FALSE
