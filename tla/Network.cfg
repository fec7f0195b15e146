\* Five machines and four addresses, the gateway inside the scanned range.
SPECIFICATION SetupSpec
CONSTANTS
  Stamp = {t1, t2, t3, t4, t5}
  t1 = t1
  t2 = t2
  t3 = t3
  t4 = t4
  t5 = t5
  Machine <- OnePerStamp
  NameLen = 2
  HostBits = 3
  Gateway = 3
  Nobody = Nobody
  GatewayOwner = GatewayOwner
  MaxRestarts = 1
  Egress = {e1}
  e1 = e1
  Missable = {1, 3}
SYMMETRY Symmetry
INVARIANT AddressesDistinct
INVARIANT TapReady
INVARIANT SetupIdempotent
PROPERTY ExhaustedMeansFull
\* Every machine may be released or failed.
CHECK_DEADLOCK FALSE
