\* Every call of the handler may fail, two writes to each pipe.
SPECIFICATION Spec
CONSTANTS
    MaxWrites = 2
    Faults = {"mkdir", "spawn", "poll"}
CHECK_DEADLOCK FALSE
INVARIANTS
    TerminalFrameTrue
    LeavesNoChild
PROPERTIES
    ImplementsExecStream
    ResponseEnds
