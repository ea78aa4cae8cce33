\* Everything may happen: give-ups, taking the memory back, Stop(), deaths.
SPECIFICATION FairSpec
CONSTANTS
    Timeouts = TRUE
    CanStop = TRUE
    MaxCrashes = 1
    TextNumbers = {7}
    MaxKept = 1
    MinFrequency = 2
    MaxRequests = 2
    Commands = {"exit", "setfreq", "getfreq", "toserv"}
    Numbers = {3}
    StreamSizes = {0, 1}
INVARIANT
    TypeOK
PROPERTIES
    ClientReturns
    ServerReturns
    StopEndsLoop
CHECK_DEADLOCK FALSE
