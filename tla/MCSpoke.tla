------------------------------- MODULE MCSpoke -------------------------------
(***************************************************************************)
(* Instances for TLC of what runs on a spoke: its links to the hubs, one   *)
(* tunnel that moves between networks, the paths to its peers and the      *)
(* listeners at its hubs.  Links of one hub and the sockets of one tunnel  *)
(* share no state, nor do paths and listeners: focus says which of them a  *)
(* behaviour is about, the others stand still, and fairness is asked of    *)
(* that one alone.                                                         *)
(***************************************************************************)
EXTENDS ClientLink, SpokeLinks, PeerPaths

CONSTANTS h1, h2, n1, n2, me, pd, pa, a1, a2

VARIABLE focus

\* Two hubs that advertise one network each; a snapshot lists both or one of
\* them, the first one under one record or another.
Hub(h, r) == [id |-> h, rec |-> r]
MCAdvOf == [h \in {h1, h2} |-> IF h = h1 THEN {n1} ELSE {n2}]
MCHubLists == {<<Hub(h1, 1), Hub(h2, 1)>>, <<Hub(h2, 1)>>, <<Hub(h1, 2)>>}

\* One peer this node dials, one that dials it; an address changes hands.
MCNodeId == [x \in {me, pd, pa} |-> IF x = pa THEN 1 ELSE IF x = me THEN 2 ELSE 3]
Addresses(d, a) == [p \in {pd, pa} |-> IF p = pd THEN d ELSE a]
MCSnapshots == {Addresses(a1, a2), Addresses(Nothing, a1), Addresses(a1, Nothing)}

MCSpokeInit ==
  /\ focus \in {"tunnel", "upset", "moves", "replaced", "paths", "listeners"}
  /\ ClientInit /\ SpokeInit /\ PathsInit /\ ListenerInit

\* Links to hubs: two of them with one tunnel and an upset of the host, or
\* with two tunnels, or three of them with one tunnel.
UpsetNext == SpokeNext /\ link'[3] = None /\ tunnel'[2] = None
MovesNext == SpokeNext /\ link'[3] = None /\ upsets' = 0
ReplacedNext == SpokeNext /\ tunnel'[2] = None /\ upsets' = 0

MCSpokeNext ==
  /\ UNCHANGED focus
  /\ \/ focus = "tunnel" /\ ClientNext /\ UNCHANGED <<spokeVars, pathsVars, listenerVars>>
     \/ focus = "upset" /\ UpsetNext /\ UNCHANGED <<clientVars, pathsVars, listenerVars>>
     \/ focus = "moves" /\ MovesNext /\ UNCHANGED <<clientVars, pathsVars, listenerVars>>
     \/ focus = "replaced" /\ ReplacedNext /\ UNCHANGED <<clientVars, pathsVars, listenerVars>>
     \/ focus = "paths" /\ PathsNext /\ UNCHANGED <<clientVars, spokeVars, listenerVars>>
     \/ focus = "listeners" /\ ListenerNext /\ UNCHANGED <<clientVars, spokeVars, pathsVars>>

\* A goroutine that is under way goes on: migrate has a deadline (recover's
\* 5 s), Close waits for nobody, the sender's select takes its ends, and
\* nothing on a path waits for a peer once the tunnel is done.
MCSpokeSpec ==
  /\ MCSpokeInit /\ [][MCSpokeNext]_<<focus, clientVars, spokeVars, pathsVars, listenerVars>>
  /\ WF_clientVars(focus = "tunnel" /\ MoveSteps("recover"))
  /\ WF_clientVars(focus = "tunnel" /\ Recovered)
  /\ WF_clientVars(focus = "tunnel" /\ GiveUpRecover)
  /\ WF_clientVars(focus = "tunnel" /\ CloseSteps)
  /\ WF_clientVars(focus = "tunnel" /\ SenderEnds)
  /\ \A i \in Paths : /\ WF_pathsVars(focus = "paths" /\ PathSteps(i))
                      /\ WF_pathsVars(focus = "paths" /\ CarrierTakesPath(i))
  /\ \A p \in Peers : WF_pathsVars(focus = "paths" /\ ClosePeer(p))

\* One side dials and every entry has an owner (pathManager), and of the
\* listeners at one hub the one that is known is the only one not told to end
\* (serve).
PathInv == PathsInv /\ OneListener

\* What comes to an end: the recovery of a tunnel that is suspected (recover),
\* its sender with the connection (sendQueue.run), and a relayed path with the
\* connection it runs on (dial).
PathsEnd == RecoveryEnds /\ SenderGoes /\ RelayEndsWithCarrier

=============================================================================
