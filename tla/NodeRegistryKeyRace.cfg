\* One pool; the admin key list changes between verification and approval.
CONSTANTS
  i1 = i1
  i2 = i2
  k1 = k1
  k2 = k2
  p = p
  q = q
  None = None
  Ids = {i1, i2}
  DeviceKeys = {d}
  AdminKeys = {k1, k2}
  Prefixes = {p, q}
  PrefixLists <- MCLists
  Pools = {pool}
  MaxHost = 1
  Addrs = {None, a}
  MaxTime = 2
  MaxTokens = 2
  MaxVersion = 4
SPECIFICATION Spec
SYMMETRY MCSymmetry
CHECK_DEADLOCK FALSE
INVARIANT ApprovedByListedKey
