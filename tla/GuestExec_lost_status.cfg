\* Expected violation: the SIGCHLD handler takes the command's status.
SPECIFICATION SafetySpec
CONSTANTS
    MaxWrites = 1
    Faults = {}
CHECK_DEADLOCK FALSE
INVARIANT ReportsExitCode
