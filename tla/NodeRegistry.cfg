\* One pool of two addresses, no prefix named twice: the whole life of a row,
\* and of a second one for the same device after a rejection.  The
\* counters are bounded, so a behaviour ends where a bound is reached.
CONSTANTS
  i1 = i1
  i2 = i2
  k1 = k1
  k2 = k2
  p = p
  q = q
  None = None
  Ids = {i1, i2}
  DeviceKeys = {d}
  AdminKeys = {k1, k2}
  Prefixes = {p, q}
  PrefixLists <- MCLists
  Pools = {pool}
  MaxHost = 2
  Addrs = {None, a}
  MaxTime = 2
  MaxTokens = 2
  MaxVersion = 6
SPECIFICATION Spec
SYMMETRY MCSymmetry
INVARIANTS  RevocationCovers
PROPERTY RegistrySteps
CHECK_DEADLOCK FALSE
