\* Does Init size every object it makes?
SPECIFICATION Spec
CONSTANTS
    Procs = {"radio", "configuration", "fault"}
    Names = {"RC", "RF"}
    Opens <- MCOpens
    MaxStarts = 2
INVARIANT
    EveryOneIsSized
CHECK_DEADLOCK FALSE
