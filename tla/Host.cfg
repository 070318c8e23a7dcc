\* Privileged process: two workers of two calls, one answer unread.
\* Device: two devices, two settings, three descriptors, two refusals.
\* Engine: two engines, one configure call each, three nodes.
\* Updates: four versions, three checks, one end of the daemon.
\* Watch: four moves between three routes, one failed look.
\* Log: two events before the columns and one after, one restart.
\* Reports: one tunnel, three events kept, two in a request, one counted drop, two faults.
SPECIFICATION HostSpec
CONSTANTS
  MaxIds = 2
  MaxWorkers = 2
  MaxInFlight = 2
  SocketRoom = 1
  MaxChain = 1
  MaxTuns = 2
  MaxWants = 2
  MaxFd = 3
  MaxGen = 2
  MaxRefusals = 2
  Engines = {e1, e2}
  Planes = {c1, c2}
  Callers = {t1}
  NodeSeq = {n1, n2, n3}
  NoOne = noone
  MaxVersion = 4
  FirstVersion = 2
  MaxChecks = 3
  MaxEnds = 1
  Routes = {r1, r2, r3}
  MaxMoves = 4
  MaxUnread = 1
  AttrValues = {a, b}
  NullColumn = null
  OldEvents = 2
  MaxEvents = 3
  BackfillBatch = 1
  PageLimit = 1
  MaxRestarts = 1
  Tunnels = {u1}
  ShipMax = 3
  ShipMaxEvents = 2
  MaxDropped = 1
  ShipFaults = 2
INVARIANTS  ReportsInv  
PROPERTIES HostSteps HostProgress
CHECK_DEADLOCK FALSE
