\* Expected violation: machines created in one millisecond share a device name.
SPECIFICATION SetupSpec
CONSTANTS
  Stamp = {t1}
  t1 = t1
  Machine <- SameMillisecond
  NameLen = 2
  HostBits = 3
  Gateway = 1
  Nobody = Nobody
  GatewayOwner = GatewayOwner
  MaxRestarts = 0
  Egress = {e1}
  e1 = e1
  Missable = {}
PROPERTY RemovesOnlyStaleTaps
\* Every machine may be released or failed.
CHECK_DEADLOCK FALSE
