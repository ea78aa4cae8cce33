\* Does a returned string hold every part of the message?
SPECIFICATION Spec
CONSTANTS
    MaxChunks = 4
    AwaitIter = 1
INVARIANT
    WholeMessageReceived
