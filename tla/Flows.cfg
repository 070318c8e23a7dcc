\* Flows: three flows of two peers, one per peer, two held names, two changes.
\* Policies: every pair of statements, every request.  Entries: addresses of
\* four bits, three ports.  Names: two peers, addresses and names, five ticks.
\* Front: three handshakes of three datagrams, two entries.
CONSTANTS
  p1 = p1
  p2 = p2
  f1 = f1
  f2 = f2
  d1 = d1
  x1 = x1
  x2 = x2
  s1 = s1
  Local = Local
  None = None
  NoName = NoName
  NoSession = NoSession
  Principals = {p1, p2, Local}
  TcpFlows = {f1, f2}
  DnsFlows = {d1}
  PrincipalOf <- MCPrincipalOf
  Names = {x1, x2}
  Snapshots <- MCSnapshots
  MaxPerPeer = 1
  MaxEntries = 2
  MaxHello = 2
  MaxSNI = 2
  MaxQueries = 1
  MaxChanges = 2
  n1 = n1
  n2 = n2
  n3 = n3
  aPool = aPool
  aNet = aNet
  aPub = aPub
  u1 = u1
  g1 = g1
  t1 = t1
  any = any
  Nodes = {n1, n2}
  Stranger = n3
  Subjects = {u1}
  Groups = {g1}
  Tags = {t1}
  Addrs = {aPool, aNet, aPub}
  PublicAddrs = {aPub, aNet}
  Announcements <- MCAnnouncements
  Resolvable <- MCResolvable
  OverlayIP <- MCOverlayIP
  Pool <- MCPool
  HostNames <- MCHostNames
  Statements <- MCStatements
  ListNames <- MCListNames
  Anyone = any
  Bits = 4
  MaxPort = 3
  DnsPeers = {p1, p2}
  DnsAddrs = {a1, a2}
  DnsNames = {x1, x2}
  Lives = {1, 2}
  MapMax = 3
  PerPeer = 2
  MaxNames = 1
  FullScan = 2
  LastTime = 5
  k1 = k1
  k2 = k2
  k3 = k3
  Handshakes = {k1, k2, k3}
  Routed = {k1, k2}
  Parts = 3
  NameEnds = 2
  MaxFlows = 2
  MaxHeld = 3
  MaxBuffered = 12
  MaxArrivals = 4
SPECIFICATION FlowsSpec
INVARIANTS   NamesInv FrontInv
CHECK_DEADLOCK FALSE
