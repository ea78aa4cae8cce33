\* Does a call of the client come back, when a string of two chunks was
\* given up?  Nobody stops or dies.
SPECIFICATION FairSpec
CONSTANTS
    Timeouts = TRUE
    CanStop = FALSE
    MaxCrashes = 0
    TextNumbers = {7}
    MaxKept = 1
    MinFrequency = 2
    MaxRequests = 2
    Commands = {"ping", "toserv"}
    Numbers = {3}
    StreamSizes = {2}
PROPERTY
    ClientReturns
CHECK_DEADLOCK FALSE
