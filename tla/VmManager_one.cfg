\* One machine, two concurrent DELETE requests, two restarts, a lease that may
\* run out: safety, refinement and what must eventually happen.
SPECIFICATION Spec
CONSTANTS
  Machine = {m1}
  Caller = {c1, c2}
  m1 = m1
  c1 = c1
  c2 = c2
  NoMachine = NoMachine
  MaxRestarts = 2
  CIDSpace = 16
  Networked = TRUE
  Device <- OneDevice
  HostFaults = {"renew"}
INVARIANT NeverUnlistedInFlight
 
INVARIANT LeaseOutlivesSnapshot
INVARIANT DeletedStaysDeleted
INVARIANT DoneMeansFinished
INVARIANT RunningIsBacked
PROPERTY ImplementsLifecycle
PROPERTY DeleteAnswered
\* The behaviour may end: identifiers and restarts are bounded.
CHECK_DEADLOCK FALSE
