\* The three daemons, four starts in all; it ends when all are gone.
SPECIFICATION Spec
CONSTANTS
    Procs = {"radio", "configuration", "fault"}
    Names = {"RC", "RF"}
    Opens <- MCOpens
    MaxStarts = 4
INVARIANTS
    TypeOK
    MeetUntilUnlinked
    FailsOnlyByUnlink
    FirstIsSized
CHECK_DEADLOCK FALSE
