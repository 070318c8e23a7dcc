\* Two nodes, two tables, two commits, one fault, one restored backup.
CONSTANTS
  None = None
  Nodes = {n1, n2}
  Order <- MCOrder
  MaxCommits = 2
  MaxFaults = 1
  MaxRestores = 1
SPECIFICATION Spec
SYMMETRY MCSymmetry
INVARIANTS NothingTorn NoLostWakeup
PROPERTY FeedsView
