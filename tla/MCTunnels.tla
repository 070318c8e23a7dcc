------------------------------ MODULE MCTunnels ------------------------------
(***************************************************************************)
(* Instances for TLC of what runs on a hub: its table of tunnels, one link *)
(* over a stream, and the relayed streams.  No two of these share state:   *)
(* focus says which one a behaviour is about, the others stand still, and  *)
(* fairness is asked of that one alone.                                    *)
(***************************************************************************)
EXTENDS HubTunnels, StreamLink, RelayStreams

CONSTANTS p1, p2, k1, k2, k3, c1, c2, na, nb, nc, l1, l2, d1, d2, d3

VARIABLE focus

\* One device that dials again with another key or role, and one router beside
\* it announcing the same network.
MCNetworks == {"lan"}
MCSnapshots ==
  LET Lists(r) == [p \in {p1, p2} |-> IF p = p1 THEN r ELSE [key |-> k3, networks |-> MCNetworks]]
  IN {Lists(r) : r \in {None, [key |-> k1, networks |-> MCNetworks], [key |-> k2, networks |-> {}]}}

TunnelsInit == focus \in {"hub", "queue", "closers", "relay", "ports"} /\ HubInit /\ LinkInit /\ RelayInit

\* Two packets for a queue of one and one that closes, or two that close at
\* once while the peer may close as well.
QueueNext == LinkNext /\ closer'[c2] = "none"
ClosersNext == LinkNext /\ (sent' > sent => arriving' = <<Bye>>)

\* A listener that is replaced and two dials of any node, or a listener and
\* three dials while nobody is removed, after which the port counter has
\* wrapped.
ReplacedNext == RelayNext /\ dial'[d3] = NoDial
PortsNext == RelayNext /\ listen'[l2] = NoListen /\ approved' = Devices

TunnelsNext ==
  /\ UNCHANGED focus
  /\ \/ focus = "hub" /\ HubNext /\ UNCHANGED <<linkVars, relayVars>>
     \/ focus = "queue" /\ QueueNext /\ UNCHANGED <<hubVars, relayVars>>
     \/ focus = "closers" /\ ClosersNext /\ UNCHANGED <<hubVars, relayVars>>
     \/ focus = "relay" /\ ReplacedNext /\ UNCHANGED <<hubVars, linkVars>>
     \/ focus = "ports" /\ PortsNext /\ UNCHANGED <<hubVars, linkVars>>

OnLink == focus \in {"queue", "closers"}

\* Goroutines run, time passes, and the mutex is given to a Close that waits
\* for it (sync.Mutex hands it over to a waiter that starves).  Nothing is assumed of
\* devices, peers or the control plane.
TunnelsSpec ==
  /\ TunnelsInit /\ [][TunnelsNext]_<<focus, hubVars, linkVars, relayVars>>
  /\ \A t \in Tunnels : /\ WF_hubVars(focus = "hub" /\ Step(t))
                        /\ WF_hubVars(focus = "hub" /\ CloseReplaced(t))
  /\ \A p \in Peers : WF_hubVars(focus = "hub" /\ CloseDevice(p))
  /\ WF_linkVars(OnLink /\ ReadLoop)
  /\ WF_linkVars(OnLink /\ DeadlinePasses)
  /\ WF_linkVars(OnLink /\ WriteLoop)
  /\ WF_linkVars(OnLink /\ KeepAliveLoop)
  /\ \A c \in Closers : WF_linkVars(OnLink /\ CloseStep(c))
  /\ SF_linkVars(OnLink /\ \E c \in Closers : CloseLocks(c))

\* What comes to an end: the tunnel of a device the snapshot no longer lists
\* (applyDiff), and every call of Close with the link's goroutines
\* (streamLink.Close), although the peer reads nothing.
TunnelsEnd == RevokedEnds /\ CloseEnds

=============================================================================
