\* Lists: one list, one editor, one fetch under way, two changes.
\* Administrators: two people, two browsers, three sessions, two passkeys.
\* Logins: two tabs and three flows, one pending; the limiter: three clients.
CONSTANTS
  alice = alice
  bob = bob
  w1 = w1
  w2 = w2
  t1 = t1
  t2 = t2
  c1 = c1
  c2 = c2
  c3 = c3
  Editors = {e1}
  Fetchers = {f1}
  Names = {"n1", "n2"}
  Kinds = {"ip", "dns"}
  Urls = {"u1", "u2"}
  MaxChanges = 2
  MaxListVersion = 3
  NoList = NoList
  Nobody = Nobody
  Subjects = {alice, bob}
  Workers = {w1, w2}
  MaxSessions = 3
  MaxPasskeys = 2
  Tabs = {t1, t2}
  MaxPending = 1
  Flows = 3
  Clients = {c1, c2, c3}
  Burst = 2
  Period = 2
  MaxBuckets = 2
  SweepAt = 1
  NoBucket = NoBucket
SPECIFICATION ControlSpec
SYMMETRY MCSymmetry
INVARIANTS ListsInv  
PROPERTY ControlSteps
CHECK_DEADLOCK FALSE
