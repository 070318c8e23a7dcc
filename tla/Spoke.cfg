\* Tunnel: a change of networks and a recovery, at most three sockets.
\* Hubs: two hubs that advertise one network each, two or three links.
\* Paths: a peer this node dials and one that dials it, two paths, a carrier.
\* Listeners: three connections to one hub.
CONSTANTS
  Changes = {c1}
  NoMove = NoMove
  MaxMigrations = 1
  QueueLen = 1
  SilentWrites = 1
  MaxSockets = 5
  h1 = h1
  h2 = h2
  n1 = n1
  n2 = n2
  None = None
  Hubs = {h1, h2}
  Prefixes = {n1, n2}
  AdvOf <- MCAdvOf
  HubLists <- MCHubLists
  MaxLinks = 3
  MaxTunnels = 2
  MaxUpsets = 1
  me = me
  pd = pd
  pa = pa
  a1 = a1
  a2 = a2
  Nothing = Nothing
  Self = me
  Peers = {pd, pa}
  NodeId <- MCNodeId
  Announces = {pd, pa, me}
  Addrs = {a1, a2}
  Snapshots <- MCSnapshots
  MaxPaths = 2
  Carriers = 1
  MaxStores = 1
  HubConns = 3
  NoServer = NoServer
SPECIFICATION MCSpokeSpec
INVARIANTS ClientInv  PathInv
PROPERTY PathsEnd
CHECK_DEADLOCK FALSE
