\* Every call of the renewer may fail, and takes up to a quarter of the lifetime.
SPECIFICATION Spec
CONSTANTS
  LeaseExpiration = 8
  DefaultExpiry = 24
  Minute = 1
  CallTime = 2
  SetupTime = 1
  MayFail = {"create", "add", "delete"}
  MaxLeases = 5
  MaxTime = 17
INVARIANT SnapshotCovered
INVARIANT HolderKept
INVARIANT OnlyStrandedRemain
\* The clock is bounded.
CHECK_DEADLOCK FALSE
