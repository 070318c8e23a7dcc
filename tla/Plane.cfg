\* Feed: one node, two commits, two faults, no restored backup.
\* Sessions: one node, two logins of which one may be open, two people, two
\* tabs per page.
\* Signers: an honest key and a rogue one; one node with a provisioned genesis
\* and one without; an honest control plane and a hostile one.
\* Enrollment: two control planes' keys, one person who enrolls, two changes
\* of who answers, restarts or damaged files.
CONSTANTS
  None = None
  Nodes = {n1}
  Order <- MCOrder
  MaxCommits = 2
  MaxFaults = 2
  MaxRestores = 0
  Nobody = Nobody
  LoginNodes = {n1}
  Flows = {f1, f2}
  Subjects = {u1, u2}
  Tabs = {t1, t2}
  MaxOpen = 1
  FlowTTL = 1
  ConfirmTTL = 1
  SessionTTL = 1
  FlowKept = 0
  Retention = 0
  MaxInFlight = 2
  MaxTime = 2
  MaxLoginVersion = 3
  NoChange = NoChange
  SignerNodes = {n1, n2}
  AdminKeys = {k1, k2}
  Rogue = {k2}
  Provisioned = {n1}
  MaxListVersion = 3
  MaxChain = 2
  MaxProposals = 2
  MaxRogue = 1
  Keys = {k1, k2}
  People = {q1}
  NoKey = nokey
  MaxSwaps = 2
SPECIFICATION PlaneSpec
INVARIANTS LoginInv SignersInv 
PROPERTIES PlaneSteps PlaneProgress
CHECK_DEADLOCK FALSE
