\* One machine, one HTTP client, one SSH client, one restart, and a host on
\* which best-effort calls and reading a file may fail: start, service and
\* shutdown of the daemon.
SPECIFICATION DSpec
CONSTANTS
  Machine = {m1}
  Caller = {c1}
  Session = {s1}
  m1 = m1
  c1 = c1
  s1 = s1
  NoMachine = NoMachine
  MaxRestarts = 1
  CIDSpace = 16
  Networked = TRUE
  Device <- OneDevice
  HostFaults = {"save", "remove", "release", "read"}
INVARIANT PromptShutdownLeavesNothing
PROPERTY ShutdownEnds
PROPERTY HostKeyKept
\* The behaviour may end: identifiers and restarts are bounded.
CHECK_DEADLOCK FALSE
