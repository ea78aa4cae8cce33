\* configuration's two threads, and a user each of radio and fault who make three
\* connections: enough for a file number to be used again while an answer is due.
SPECIFICATION FairSpec
CONSTANTS
    Acceptors = {"server_thread", "main"}
    MaxConns = 3
    Users = {"radio main", "fault main"}
    Process <- MCProcess
    Menu = {"RAISE_EMERGENCY", "0", "invalid"}
    Values = {"7"}
    Garbage = {"EXIT"}
    Mortal = {"fault"}
INVARIANTS
    TypeOK
    EndsExplained
PROPERTIES
    ImplementsDevice
    Answered
CHECK_DEADLOCK FALSE
