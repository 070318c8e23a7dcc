----------------------------- MODULE HubTunnels -----------------------------
(***************************************************************************)
(* The tunnels a hub accepts: the TLS handshake and the request, both      *)
(* against the current snapshot (internal/transport/peer.go, server.go,    *)
(* tcp.go), the hub's decision and its packet loop (internal/node/hub.go), *)
(* the forwarding table, the counted kernel routes, and what a new         *)
(* snapshot closes (node.go applyDiff, registry.go diff).                  *)
(*                                                                         *)
(* Every tunnel is a goroutine of its own; its place is tun[t].at.  The    *)
(* control loop stores a snapshot and then closes, device by device, what  *)
(* changed.  A step is one critical section of Server.mu, Table.mu or      *)
(* session.mu, or one load of the holder.                                  *)
(*                                                                         *)
(* Abstractions: a record is a key and a set of announced networks (roles, *)
(* addresses and the rest of sameNode change it in the same way); which of *)
(* several announcers a packet goes to is left out, and with it the order  *)
(* of the table's prefixes.  So are packets, counters and the hub's own    *)
(* going down (NodeLifecycle).                                             *)
(***************************************************************************)
EXTENDS Naturals, FiniteSets

CONSTANTS Peers,      \* approved devices
          Keys,       \* device keys
          Networks,   \* announced prefixes
          Tunnels,    \* connections that are ever made to the hub
          Snapshots,  \* what a snapshot may list: a record or None per device
          MaxStores,  \* snapshots that arrive, and times the holder goes stale
          None        \* no record, no tunnel

ASSUME HubAssumption ==
    /\ MaxStores \in Nat
    /\ None \notin [key : Keys, networks : SUBSET Networks]
    /\ Snapshots \subseteq [Peers -> [key : Keys, networks : SUBSET Networks] \cup {None}]
    /\ None \notin Tunnels \cup Peers \cup Keys
    /\ IsFiniteSet(Tunnels)

VARIABLES snap,     \* Holder: the record of every device
          stale,    \* Holder.Stale
          stores,   \* how often either happened
          removed,  \* Diff.RemovedPeers that applyDiff has not closed yet
          tun,      \* the tunnels
          closing,  \* tunnels whose replacement has started a Close
          hosts,    \* Table.hosts
          nets,     \* Table.prefixes
          count,    \* session.peerRoute
          kernel    \* networks routed to the device by the kernel

hubVars == <<snap, stale, stores, removed, tun, closing, hosts, nets, count, kernel>>

table == <<hosts, nets, count, kernel>>

holder == <<snap, stale, stores, removed>>

Records == [key : Keys, networks : SUBSET Networks]

\* A tunnel: seen is the record Serve works with, todo the networks it still
\* has to attach or detach, mid the one between the table and the kernel.
NoTunnel == [at |-> "none", peer |-> None, key |-> None, open |-> FALSE,
             cfg |-> None, seen |-> None, todo |-> {}, mid |-> {}]

Gone == [NoTunnel EXCEPT !.at = "gone"]

\* Places of a tunnel between Server.track and Server.untrack.
Places == {"tracked", "attaching", "serving", "detaching", "untracking"}

Tracked == {t \in Tunnels : tun[t].at \in Places}

OfDevice(p) == {t \in Tracked : tun[t].peer = p}

HubInit ==
    /\ snap \in Snapshots
    /\ stale = FALSE
    /\ stores = 0
    /\ removed = {}
    /\ tun = [t \in Tunnels |-> NoTunnel]
    /\ closing = {}
    /\ hosts = [p \in Peers |-> None]
    /\ nets = {}
    /\ count = [q \in Networks |-> 0]
    /\ kernel = {}
-----------------------------------------------------------------------------
(* Admission.                                                              *)

\* LookupSPKI: nobody is approved by a stale snapshot, and only a key the
\* snapshot lists is.
Lookup(p, k) == ~stale /\ snap[p] # None /\ snap[p].key = k

\* verifyDevice: the handshake of a device with its key.
Handshake(t, p, k) ==
    /\ tun[t].at = "none"
    /\ Lookup(p, k)
    /\ tun' = [tun EXCEPT ![t] = [NoTunnel EXCEPT !.at = "handshaken", !.peer = p, !.key = k, !.open = TRUE]]
    /\ UNCHANGED <<holder, closing, table>>

\* Mutant: the handshake's lookup is taken for the request's.
AcceptUnchecked(t) ==
    /\ tun[t].at = "handshaken" /\ tun[t].open
    /\ tun' = [tun EXCEPT ![t].at = "accepted", ![t].cfg = snap[tun[t].peer]]
    /\ UNCHANGED <<holder, closing, table>>

\* handle: the key is looked up again, then Accept decides on the snapshot
\* it loads; cfg is what the tunnel is assigned.
Accept(t) ==
    /\ tun[t].at = "handshaken" /\ tun[t].open
    /\ Lookup(tun[t].peer, tun[t].key)
    /\ tun' = [tun EXCEPT ![t].at = "accepted", ![t].cfg = snap[tun[t].peer]]
    /\ UNCHANGED <<holder, closing, table>>

\* A refused request, a failed proxy setup or assignment: the handler returns.
Refused(t) ==
    /\ \/ tun[t].at = "handshaken" /\ ~(tun[t].open /\ Lookup(tun[t].peer, tun[t].key))
       \/ tun[t].at = "accepted" /\ ~tun[t].open
    /\ tun' = [tun EXCEPT ![t] = Gone]
    /\ UNCHANGED <<holder, closing, table>>

\* Server.track: the device's older tunnels get a Close of their own.
Replaced(p) == OfDevice(p)

\* Server.track, called once the tunnel is assigned.
Track(t) ==
    /\ tun[t].at = "accepted"
    /\ tun' = [tun EXCEPT ![t].at = "tracked"]
    /\ closing' = closing \cup Replaced(tun[t].peer)
    /\ UNCHANGED <<holder, table>>

\* Tunnel.Close of a replaced tunnel, in its own goroutine.
CloseReplaced(t) ==
    /\ t \in closing
    /\ closing' = closing \ {t}
    /\ tun' = [tun EXCEPT ![t].open = FALSE]
    /\ UNCHANGED <<holder, table>>

\* The device or the network ends the connection.
Ends(t) ==
    /\ tun[t].open
    /\ tun' = [tun EXCEPT ![t].open = FALSE]
    /\ UNCHANGED <<holder, closing, table>>
-----------------------------------------------------------------------------
(* hubService.Serve and what it registers.                                 *)

\* The record Serve works with: the one of the snapshot it loads itself.
ServedRecord(t) == snap[tun[t].peer]

\* Serve begins: the peer is looked up again, its address attached.
ServeStart(t) ==
    LET r == ServedRecord(t) IN
    /\ tun[t].at = "tracked"
    /\ IF r = None
       THEN /\ tun' = [tun EXCEPT ![t].at = "untracking"]
            /\ UNCHANGED hosts
       ELSE /\ tun' = [tun EXCEPT ![t].at = "attaching", ![t].seen = r, ![t].todo = r.networks]
            /\ hosts' = [hosts EXCEPT ![tun[t].peer] = t]
    /\ UNCHANGED <<holder, closing, nets, count, kernel>>

\* Table.AttachPrefix: a network may have several announcers.
AttachPrefix(t, q) ==
    /\ tun[t].at = "attaching" /\ tun[t].mid = {} /\ q \in tun[t].todo
    /\ nets' = nets \cup {<<q, t>>}
    /\ tun' = [tun EXCEPT ![t].todo = @ \ {q}, ![t].mid = {q}]
    /\ UNCHANGED <<holder, closing, hosts, count, kernel>>

\* addPeerRoute: counted, the first one sets the kernel's route.
AddPeerRoute(t, q) ==
    /\ tun[t].at = "attaching" /\ q \in tun[t].mid
    /\ count' = [count EXCEPT ![q] = @ + 1]
    /\ kernel' = IF count[q] = 0 THEN kernel \cup {q} ELSE kernel
    /\ tun' = [tun EXCEPT ![t].mid = {}]
    /\ UNCHANGED <<holder, closing, hosts, nets>>

\* Every network is attached: the packet loop runs.
Loop(t) ==
    /\ tun[t].at = "attaching" /\ tun[t].todo = {} /\ tun[t].mid = {}
    /\ tun' = [tun EXCEPT ![t].at = "serving"]
    /\ UNCHANGED <<holder, closing, table>>

\* ReadPacket fails once the connection is closed: the deferred calls begin.
ReadFails(t) ==
    /\ tun[t].at = "serving" /\ ~tun[t].open
    /\ tun' = [tun EXCEPT ![t].at = "detaching", ![t].todo = tun[t].seen.networks]
    /\ UNCHANGED <<holder, closing, table>>

\* Table.DetachPrefix: the route goes only when nobody serves the network.
DetachPrefix(t, q) ==
    LET left == nets \ {<<q, t>>} IN
    /\ tun[t].at = "detaching" /\ tun[t].mid = {} /\ q \in tun[t].todo
    /\ nets' = left
    /\ tun' = [tun EXCEPT ![t].todo = @ \ {q},
                          ![t].mid = IF \E u \in Tunnels : <<q, u>> \in left THEN {} ELSE {q}]
    /\ UNCHANGED <<holder, closing, hosts, count, kernel>>

\* delPeerRoute: one announcer less, the last one removes the route.
DelPeerRoute(t, q) ==
    LET left == count[q] - 1 IN
    /\ tun[t].at = "detaching" /\ q \in tun[t].mid
    /\ count' = [count EXCEPT ![q] = IF left > 0 THEN left ELSE 0]
    /\ kernel' = IF left > 0 THEN kernel ELSE kernel \ {q}
    /\ tun' = [tun EXCEPT ![t].mid = {}]
    /\ UNCHANGED <<holder, closing, hosts, nets>>

\* Table.Detach: the address stays with a newer tunnel that took it.
Detach(t) ==
    /\ tun[t].at = "detaching" /\ tun[t].todo = {} /\ tun[t].mid = {}
    /\ hosts' = [p \in Peers |-> IF hosts[p] = t THEN None ELSE hosts[p]]
    /\ tun' = [tun EXCEPT ![t].at = "untracking"]
    /\ UNCHANGED <<holder, closing, nets, count, kernel>>

\* Server.untrack, and the handler returns.
Untrack(t) ==
    /\ tun[t].at = "untracking"
    /\ tun' = [tun EXCEPT ![t] = Gone]
    /\ closing' = closing \ {t}
    /\ UNCHANGED <<holder, table>>
-----------------------------------------------------------------------------
(* The control loop.                                                       *)

\* Holder.Store and diff: who is gone or has another record.
Store(new) ==
    /\ stores < MaxStores /\ removed = {} /\ new # snap
    /\ snap' = new
    /\ stale' = FALSE
    /\ stores' = stores + 1
    /\ removed' = {p \in Peers : snap[p] # None /\ new[p] # snap[p]}
    /\ UNCHANGED <<tun, closing, table>>

\* applyDiff: Server.CloseDevice closes what is tracked of one device.
CloseDevice(p) ==
    /\ p \in removed
    /\ removed' = removed \ {p}
    /\ tun' = [t \in Tunnels |-> IF t \in OfDevice(p) THEN [tun[t] EXCEPT !.open = FALSE] ELSE tun[t]]
    /\ UNCHANGED <<snap, stale, stores, closing, table>>

\* The control plane has not answered for max_age; it answers again.
Ages ==
    /\ stores < MaxStores
    /\ ~stale /\ stale' = TRUE
    /\ stores' = stores + 1
    /\ UNCHANGED <<snap, removed, tun, closing, table>>

Touch ==
    /\ stale /\ stale' = FALSE
    /\ UNCHANGED <<snap, stores, removed, tun, closing, table>>

\* The steps of the goroutine of a tunnel.
Step(t) ==
    \/ Accept(t) \/ Refused(t) \/ Track(t) \/ ServeStart(t) \/ Loop(t)
    \/ ReadFails(t) \/ Detach(t) \/ Untrack(t)
    \/ \E q \in Networks : AttachPrefix(t, q) \/ AddPeerRoute(t, q)
                          \/ DetachPrefix(t, q) \/ DelPeerRoute(t, q)

HubNext ==
    \/ \E t \in Tunnels : Step(t) \/ CloseReplaced(t) \/ Ends(t)
    \/ \E t \in Tunnels, p \in Peers, k \in Keys : Handshake(t, p, k)
    \/ \E new \in Snapshots : Store(new)
    \/ \E p \in Peers : CloseDevice(p)
    \/ Ages
    \/ Touch

HubSpec == HubInit /\ [][HubNext]_hubVars

-----------------------------------------------------------------------------
(* Properties.                                                             *)

\* The variables have their types.
HubTypeOK ==
    /\ snap \in Snapshots
    /\ stale \in BOOLEAN
    /\ stores \in 0 .. MaxStores
    /\ removed \subseteq Peers
    /\ closing \subseteq Tunnels
    /\ tun \in [Tunnels -> [at : {"none", "handshaken", "accepted", "gone"} \cup Places,
                            peer : Peers \cup {None}, key : Keys \cup {None}, open : BOOLEAN,
                            cfg : Records \cup {None}, seen : Records \cup {None},
                            todo : SUBSET Networks, mid : SUBSET Networks]]
    /\ \A t \in Tracked : tun[t].cfg # None
    /\ hosts \in [Peers -> Tunnels \cup {None}]
    /\ nets \subseteq Networks \X Tunnels
    /\ count \in [Networks -> Nat]
    /\ kernel \subseteq Networks

\* Once applyDiff is through, an open tunnel that carries packets does so
\* with the record the snapshot has of its peer: a revocation or a new
\* record between Accept, track and Serve is either seen by Serve or closes
\* the tunnel (hub.go Serve, server.go CloseDevice).
NoneServedByOldRecord ==
    \A t \in Tunnels :
        (tun[t].at \in {"attaching", "serving"} /\ tun[t].open /\ tun[t].peer \notin removed)
            => tun[t].seen = snap[tun[t].peer]

\* A network an attached tunnel serves is routed to the device, however the
\* attaching and detaching of its announcers interleave (addPeerRoute,
\* delPeerRoute, Table.DetachPrefix).
ServedIsRouted ==
    \A t \in Tunnels : tun[t].at = "serving" => tun[t].seen.networks \subseteq kernel

\* The forwarding table names only tunnels whose Serve has not returned: no
\* packet goes to a tunnel that is gone (Table.Attach, Table.Detach).
NoDanglingEntry ==
    /\ \A p \in Peers : hosts[p] # None =>
           /\ tun[hosts[p]].at \in {"attaching", "serving", "detaching"}
           /\ tun[hosts[p]].peer = p
    /\ \A e \in nets : tun[e[2]].at \in {"attaching", "serving", "detaching"}

\* Of two tracked tunnels of a device all but one are closed or about to be:
\* a leftover does not keep the device's networks (Server.track).
OneOpenPerDevice ==
    \A p \in Peers : Cardinality({t \in OfDevice(p) : tun[t].open /\ t \notin closing}) <= 1

\* A tunnel of a device the snapshot no longer lists comes to an end,
\* unless the device is listed again (applyDiff, Serve).
RevokedEnds ==
    \A t \in Tunnels : []<>(tun[t].at = "serving" => snap[tun[t].peer] # None)

\* No tunnel is served by a record the hub has replaced (Accept, applyDiff), a
\* served tunnel is reachable and nothing forwards to one that ended
\* (attach, detach), and a device has one open tunnel at a time (track).
HubInv ==
    /\ HubTypeOK
    /\ NoneServedByOldRecord
    /\ ServedIsRouted
    /\ NoDanglingEntry
    /\ OneOpenPerDevice

=============================================================================
