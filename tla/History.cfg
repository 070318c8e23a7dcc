\* Bindings: two nodes and times 0 to 2, any delivery, any failed write.
\* Journal: every kind of change, two changes, two calls, two faults.
\* Networks: two networks, control planes and requests, or one request and
\* one failed write.
CONSTANTS
  me = me
  peer = peer
  Me <- me
  Nodes = {me, peer}
  NoNode = NoNode
  MaxTime = 2
  SignedBindings <- MCSignedBindings
  SignedRevocations <- MCSignedRevocations
  Changes <- MCChanges
  MaxChanges = 2
  MaxCalls = 2
  MaxFaults = 2
  c1 = c1
  q2 = q2
  NetIds = {i1, i2}
  Controls = {c1, c2}
  Root = root
  Nothing = nothing
  NetReqs = {q1, q2}
  NetFaults = 1
  Late = FALSE
SPECIFICATION HistorySpec
INVARIANTS MemoryCoversDisk InUseIsCurrent  
PROPERTY DiskOnlyGrows
