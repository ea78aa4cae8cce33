\* Await loops may run out and processes die, but the client uses no command
\* that takes the memory back, and nobody calls Stop().
SPECIFICATION Spec
CONSTANTS
    Timeouts = TRUE
    CanStop = FALSE
    MaxCrashes = 1
    TextNumbers = {7}
    MaxKept = 1
    MinFrequency = 2
    MaxRequests = 2
    Commands = {"exit", "setfreq", "setpwr", "setflt", "listflt", "toserv"}
    Numbers <- MCNumbers
    StreamSizes = {0, 2}
INVARIANTS
    MutualExclusion
    FrequencyInRange
    PowerInRange
CHECK_DEADLOCK FALSE
