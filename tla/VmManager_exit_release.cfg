\* Expected violation: an exited machine keeps its tap until it is deleted.
SPECIFICATION Spec
CONSTANTS
  Machine = {m1}
  Caller = {c1}
  m1 = m1
  c1 = c1
  NoMachine = NoMachine
  MaxRestarts = 0
  CIDSpace = 16
  Networked = TRUE
  Device <- OneDevice
  HostFaults = {}
PROPERTY ExitReleasesNetwork
\* The behaviour may end: identifiers and restarts are bounded.
CHECK_DEADLOCK FALSE
