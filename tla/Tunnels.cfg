\* Hub: one device that dials twice, one router beside it, two snapshots.
\* Link: a queue of one, two packets or two that close at once.
\* Relay: one node that listens twice or is dialed three times, two ports.
CONSTANTS
  p1 = p1
  p2 = p2
  k1 = k1
  k2 = k2
  k3 = k3
  None = None
  Peers = {p1, p2}
  Keys = {k1, k2, k3}
  Networks <- MCNetworks
  Tunnels = {t1, t2}
  Snapshots <- MCSnapshots
  MaxStores = 2
  c1 = c1
  c2 = c2
  Closers = {c1, c2}
  QueueLen = 1
  MaxSent = 2
  Packet = Packet
  Foreign = Foreign
  Bye = Bye
  Nobody = Nobody
  na = na
  nb = nb
  nc = nc
  l1 = l1
  l2 = l2
  d1 = d1
  d2 = d2
  d3 = d3
  NoStream = NoStream
  Devices = {na, nb, nc}
  Hosts = {nc}
  Listens = {l1, l2}
  Dials = {d1, d2, d3}
  MaxDialers = 2
  MaxPerDialer = 1
  Width = 4
  MinPort = 2
SPECIFICATION TunnelsSpec
INVARIANTS  LinkInv RelayInv
PROPERTY TunnelsEnd
CHECK_DEADLOCK FALSE
