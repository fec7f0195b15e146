\* Two machines without a network, one DELETE request, shutdown.
SPECIFICATION SafetySpec
CONSTANTS
  Machine = {m1, m2}
  Caller = {c1}
  m1 = m1
  m2 = m2
  c1 = c1
  NoMachine = NoMachine
  MaxRestarts = 0
  CIDSpace = 16
  Networked = FALSE
  Device <- OneDevice
  HostFaults = {}
SYMMETRY Symmetry
INVARIANT CidsDistinct
INVARIANT DrainedMeansStopped
\* The behaviour may end: identifiers and restarts are bounded.
CHECK_DEADLOCK FALSE
