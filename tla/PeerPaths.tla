----------------------------- MODULE PeerPaths ------------------------------
(***************************************************************************)
(* Paths between nodes that do not end at a hub (internal/node/paths.go):  *)
(* who dials, the gate in front of a dial, the path from its dial to its   *)
(* end, what a snapshot does to it, and tunnels from the peers that dial   *)
(* this node.  At the end, the listeners at the hubs for those.            *)
(*                                                                         *)
(* The goroutine of a path is its place; a step is a section of            *)
(* pathManager.mu or of the table's lock.  A peer's record is its overlay  *)
(* address; a dial takes a record from the snapshot and keeps it.  Time    *)
(* opens a gate whenever it likes: an attempt may last longer than the     *)
(* minute its gate is shut for.  Hub connections are numbered in the order *)
(* in which they come up (SpokeLinks).                                     *)
(***************************************************************************)
EXTENDS Naturals, FiniteSets

CONSTANTS Self, Peers,
          NodeId,      \* ids, in their order
          Announces,   \* nodes that announce an address
          Addrs, Snapshots,
          MaxPaths, Carriers, MaxStores,  \* bounds
          Nothing

Paths == 1 .. MaxPaths
Conns == 1 .. Carriers

\* A path that was dialed, and where its goroutine is.
PathRecord ==
    [peer : Peers, addr : Addrs, at : {"dialing", "dialed", "known", "attached", "detached", "gone"},
     open : BOOLEAN, via : 0 .. Carriers]

ASSUME PathAssumption ==
    /\ Self \notin Peers /\ Peers \cap Paths = {}
    /\ Nothing \notin Peers \cup Paths \cup Addrs \cup PathRecord
    /\ NodeId \in [Peers \cup {Self} -> Nat] /\ Announces \subseteq Peers \cup {Self}
    /\ \A x, y \in Peers \cup {Self} : x # y => NodeId[x] # NodeId[y]
    /\ Snapshots \subseteq [Peers -> Addrs \cup {Nothing}]
    /\ {MaxPaths, Carriers, MaxStores} \subseteq Nat

VARIABLES snapshot,  \* the peers' records
          closing,   \* applyDiff: removed peers still to be closed
          stores,
          gate,      \* candidate.next: peers whose attempts have to wait
          want,      \* pathManager.want
          path,      \* paths and their goroutines
          dialed,    \* pathManager.dialed
          accepted,  \* peerService.Serve of a peer: its record, or Nothing
          table,     \* dp.table: an address to a path, a peer's tunnel, Nothing
          hubConn       \* hub connections: "none", "up", "down"

peerVars == <<snapshot, closing, stores>>
dialVars == <<gate, want, path, dialed>>
tunnelVars == <<accepted, table>>
pathsVars == <<peerVars, dialVars, tunnelVars, hubConn>>

PathsInit ==
    /\ snapshot \in Snapshots /\ closing = {} /\ stores = 0
    /\ gate = {} /\ want = {} /\ path = [i \in Paths |-> Nothing]
    /\ dialed = [p \in Peers |-> Nothing]
    /\ accepted = [p \in Peers |-> Nothing] /\ table = [a \in Addrs |-> Nothing]
    /\ hubConn = [c \in Conns |-> "none"]
-----------------------------------------------------------------------------
(* Who dials.                                                              *)

\* Mutant: of two that announce an address, each dials.
DialsBoth(x, y) ==
    IF (x \in Announces) # (y \in Announces) THEN y \in Announces
    ELSE x \in Announces \/ NodeId[x] < NodeId[y]

\* dials.
Dials(x, y) ==
    IF (x \in Announces) # (y \in Announces) THEN y \in Announces ELSE NodeId[x] < NodeId[y]

\* rebuild: a candidate for every listed peer this node dials.
Candidates == {p \in Peers : snapshot[p] # Nothing /\ Dials(Self, p)}

\* noPath: a packet for a peer that no tunnel owns.  A full queue opens the
\* gate again a second later.
NoPath(p) ==
    /\ p \in Candidates \ gate /\ table[snapshot[p]] = Nothing
    /\ want' = IF want = {} THEN {p} ELSE want
    /\ gate' = IF want = {} THEN gate \cup {p} ELSE gate
    /\ UNCHANGED <<peerVars, path, dialed, tunnelVars, hubConn>>

\* candidate.next has passed.
GateOpens(p) ==
    /\ p \in gate
    /\ gate' = gate \ {p}
    /\ UNCHANGED <<peerVars, want, path, dialed, tunnelVars, hubConn>>
-----------------------------------------------------------------------------
(* open.                                                                   *)

Fresh == Cardinality({i \in Paths : path[i] # Nothing}) + 1

\* run and the beginning of open: nothing to do when the peer is gone, has a
\* path, or was faster.
Open(p) ==
    LET peer == snapshot[p] IN
    /\ p \in want
    /\ want' = want \ {p}
    /\ IF peer = Nothing \/ dialed[p] # Nothing \/ table[peer] # Nothing
       THEN UNCHANGED path
       ELSE /\ Fresh \in Paths
            /\ path' = [path EXCEPT ![Fresh] = [peer |-> p, addr |-> peer, at |-> "dialing", open |-> FALSE, via |-> 0]]
    /\ UNCHANGED <<peerVars, gate, dialed, tunnelVars, hubConn>>

PathAt(i, place) == path[i] # Nothing /\ path[i].at = place

PathTo(i, place) == path' = [path EXCEPT ![i].at = place]

\* dial and finish fail on the address and on every hub.
PathDialFails(i) ==
    /\ PathAt(i, "dialing")
    /\ PathTo(i, "gone") /\ gate' = gate \cup {path[i].peer}
    /\ UNCHANGED <<peerVars, want, dialed, tunnelVars, hubConn>>

\* dial: the peer's own address (0), or a relay stream on a hub connection.
PathDialed(i, c) ==
    /\ PathAt(i, "dialing")
    /\ IF c = 0 THEN path[i].peer \in Announces ELSE hubConn[c] = "up"
    /\ path' = [path EXCEPT ![i].at = "dialed", ![i].open = TRUE, ![i].via = c]
    /\ UNCHANGED <<peerVars, gate, want, dialed, tunnelVars, hubConn>>

\* open: the path is known to closePeer, closeIdle and stop from here on.
Remember(i) ==
    /\ PathAt(i, "dialed")
    /\ dialed' = [dialed EXCEPT ![path[i].peer] = i]
    /\ PathTo(i, "known")
    /\ UNCHANGED <<peerVars, gate, want, tunnelVars, hubConn>>

Attach(i) ==
    /\ PathAt(i, "known")
    /\ table' = [table EXCEPT ![path[i].addr] = i]
    /\ PathTo(i, "attached")
    /\ UNCHANGED <<peerVars, gate, want, dialed, accepted, hubConn>>

\* The tunnel is done: Close, Detach.
Detach(i) ==
    /\ PathAt(i, "attached") /\ ~path[i].open
    /\ table' = IF table[path[i].addr] = i THEN [table EXCEPT ![path[i].addr] = Nothing] ELSE table
    /\ PathTo(i, "detached")
    /\ UNCHANGED <<peerVars, gate, want, dialed, accepted, hubConn>>

\* The end of open; the gate opens again after five seconds.
Forget(i) ==
    /\ PathAt(i, "detached")
    /\ dialed' = IF dialed[path[i].peer] = i THEN [dialed EXCEPT ![path[i].peer] = Nothing] ELSE dialed
    /\ PathTo(i, "gone") /\ gate' = gate \cup {path[i].peer}
    /\ UNCHANGED <<peerVars, want, tunnelVars, hubConn>>

\* The tunnel ends by itself, at the peer's end, or in closeIdle.
PathEnds(i) ==
    /\ path[i] # Nothing /\ path[i].open
    /\ path' = [path EXCEPT ![i].open = FALSE]
    /\ UNCHANGED <<peerVars, gate, want, dialed, tunnelVars, hubConn>>

\* dial's goroutine: a relayed path ends with the connection under it.
CarrierTakesPath(i) ==
    /\ path[i] # Nothing /\ path[i].open /\ path[i].via # 0
    /\ hubConn[path[i].via] = "down"
    /\ PathEnds(i)
-----------------------------------------------------------------------------
(* peerService.                                                            *)

\* Accept and Serve of a peer that dials this node.
Serve(p) ==
    LET peer == snapshot[p] IN
    /\ peer # Nothing /\ accepted[p] = Nothing /\ closing = {}
    /\ accepted' = [accepted EXCEPT ![p] = peer]
    /\ table' = [table EXCEPT ![peer] = p]
    /\ UNCHANGED <<peerVars, dialVars, hubConn>>

\* Its tunnel ends.
Serves(p) ==
    /\ accepted[p] # Nothing
    /\ accepted' = [accepted EXCEPT ![p] = Nothing]
    /\ table' = IF table[accepted[p]] = p THEN [table EXCEPT ![accepted[p]] = Nothing] ELSE table
    /\ UNCHANGED <<peerVars, dialVars, hubConn>>
-----------------------------------------------------------------------------
(* Snapshots.                                                              *)

\* applyDiff: rebuild; a peer that is gone or has another record is removed.
Store(new) ==
    /\ closing = {} /\ stores < MaxStores /\ new # snapshot
    /\ snapshot' = new /\ stores' = stores + 1
    /\ closing' = {p \in Peers : snapshot[p] # Nothing /\ new[p] # snapshot[p]}
    /\ gate' = gate \ {p \in Peers : new[p] # snapshot[p]}
    /\ UNCHANGED <<want, path, dialed, tunnelVars, hubConn>>

\* closePeer: the path this node dialed, and the peer's own tunnels
\* (HubTunnels shows that Server.CloseDevice misses none).
ClosePeer(p) ==
    /\ p \in closing
    /\ closing' = closing \ {p}
    /\ path' = IF dialed[p] = Nothing THEN path ELSE [path EXCEPT ![dialed[p]].open = FALSE]
    /\ accepted' = [accepted EXCEPT ![p] = Nothing]
    /\ table' = [a \in Addrs |-> IF table[a] = p THEN Nothing ELSE table[a]]
    /\ UNCHANGED <<snapshot, stores, gate, want, dialed, hubConn>>
-----------------------------------------------------------------------------
(* Hub connections.                                                        *)

\* A hub link connects, or moves to another tunnel (SpokeLinks).
HubUp(c) ==
    /\ hubConn[c] = "none" /\ \A d \in Conns : d < c => hubConn[d] # "none"
    /\ hubConn' = [hubConn EXCEPT ![c] = "up"]
    /\ UNCHANGED <<peerVars, dialVars, tunnelVars>>

HubDown(c) ==
    /\ hubConn[c] = "up"
    /\ hubConn' = [hubConn EXCEPT ![c] = "down"]
    /\ UNCHANGED <<peerVars, dialVars, tunnelVars>>

PathSteps(i) == Remember(i) \/ Attach(i) \/ Detach(i) \/ Forget(i)

PathsNext ==
    \/ \E p \in Peers : NoPath(p) \/ GateOpens(p) \/ Open(p) \/ Serve(p) \/ Serves(p) \/ ClosePeer(p)
    \/ \E i \in Paths : PathDialFails(i) \/ PathSteps(i) \/ PathEnds(i) \/ CarrierTakesPath(i)
    \/ \E i \in Paths, c \in Conns \cup {0} : PathDialed(i, c)
    \/ \E new \in Snapshots : Store(new)
    \/ \E c \in Conns : HubUp(c) \/ HubDown(c)

PathsSpec == PathsInit /\ [][PathsNext]_pathsVars

-----------------------------------------------------------------------------
(* Properties.                                                             *)

\* The variables have their types.
PathsTypeOK ==
    /\ snapshot \in Snapshots /\ closing \subseteq Peers /\ gate \subseteq Peers
    /\ want \subseteq Peers /\ Cardinality(want) <= 1
    /\ \A i \in Paths : path[i] # Nothing => path[i] \in PathRecord
    /\ dialed \in [Peers -> Paths \cup {Nothing}] /\ accepted \in [Peers -> Addrs \cup {Nothing}]

\* Of two nodes exactly one dials the other (dials).
OneSideDials == \A x, y \in Peers \cup {Self} : x # y => Dials(x, y) # Dials(y, x)

\* Whatever owns an address in the table is still there to take it out: no
\* entry stays behind for a path whose goroutine is over (open, Serve).
EntryHasOwner ==
    \A a \in Addrs : table[a] # Nothing =>
        IF table[a] \in Paths THEN PathAt(table[a], "attached") /\ path[table[a]].addr = a
        ELSE accepted[table[a]] = a

\* The path known for a peer has a goroutine that will forget it: none that is
\* over keeps the peer from being dialed again (open).
KnownIsThere ==
    \A p \in Peers : dialed[p] # Nothing => path[dialed[p]].at # "gone"

\* A relayed path does not outlive the hub connection it runs on (dial).
RelayEndsWithCarrier ==
    \A i \in Paths :
        []<>(path[i] # Nothing /\ path[i].via # 0 /\ path[i].open => hubConn[path[i].via] # "down")

\* Of two nodes one dials, and no entry of the table and no known path stays
\* behind without a goroutine that takes it out (dials, open, Serve).
PathsInv == PathsTypeOK /\ OneSideDials /\ EntryHasOwner /\ KnownIsThere

-----------------------------------------------------------------------------
(***************************************************************************)
(* The listeners a node has at its hubs for peers that dial it through a   *)
(* relay (hubUp, serve): one per hub connection, known by the hub's id.    *)
(* hubUp is a goroutine of its own for every connection, so an earlier one *)
(* may come to serve after a later one.  They share no state with the      *)
(* paths above and have a next-state relation of their own.                *)
(***************************************************************************)
CONSTANTS HubConns,   \* number of connections to one hub, one after another
          NoServer

Carried == 1 .. HubConns

ASSUME ListenerAssumption == HubConns \in Nat /\ NoServer \notin Carried

VARIABLES carrier,    \* the connections: "none", "up", "down"
          listener,   \* hubUp and serve of each
          ended,   \* listeners whose context has ended
          servers     \* pathManager.servers of the hub

listenerVars == <<carrier, listener, ended, servers>>

ListenerInit ==
    /\ carrier = [c \in Carried |-> "none"] /\ listener = [c \in Carried |-> "none"]
    /\ ended = {} /\ servers = NoServer

\* A hub link connects, or moves to another tunnel (SpokeLinks).
CarrierUp(c) ==
    /\ carrier[c] = "none" /\ \A d \in Carried : d < c => carrier[d] # "none"
    /\ carrier' = [carrier EXCEPT ![c] = "up"]
    /\ listener' = [listener EXCEPT ![c] = "asked"]
    /\ UNCHANGED <<ended, servers>>

CarrierDown(c) ==
    /\ carrier[c] = "up"
    /\ carrier' = [carrier EXCEPT ![c] = "down"]
    /\ UNCHANGED <<listener, ended, servers>>

\* hubUp: RelayListen works, or the hub does not relay or is gone.
RelayListens(c) ==
    /\ listener[c] = "asked"
    /\ \/ carrier[c] = "up" /\ listener' = [listener EXCEPT ![c] = "listening"]
       \/ listener' = [listener EXCEPT ![c] = "gone"]
    /\ UNCHANGED <<carrier, ended, servers>>

\* serve: the listener before it, if any, is cancelled.
ServePaths(c) ==
    /\ listener[c] = "listening"
    /\ listener' = [listener EXCEPT ![c] = "serving"]
    /\ ended' = IF servers = NoServer THEN ended ELSE ended \cup {servers}
    /\ servers' = c
    /\ UNCHANGED carrier

\* serve's goroutine: the connection the listener is on has ended.
CarrierTakesListener(c) ==
    /\ listener[c] = "serving" /\ carrier[c] = "down" /\ c \notin ended
    /\ ended' = ended \cup {c}
    /\ UNCHANGED <<carrier, listener, servers>>

\* serve's goroutine after Server.Serve.
ListenerGoes(c) ==
    /\ listener[c] = "serving" /\ c \in ended
    /\ listener' = [listener EXCEPT ![c] = "gone"]
    /\ servers' = IF servers = c THEN NoServer ELSE servers
    /\ UNCHANGED <<carrier, ended>>

ListenerNext ==
    \E c \in Carried : \/ CarrierUp(c) \/ CarrierDown(c) \/ RelayListens(c) \/ ServePaths(c)
                       \/ CarrierTakesListener(c) \/ ListenerGoes(c)

ListenerSpec == ListenerInit /\ [][ListenerNext]_listenerVars
-----------------------------------------------------------------------------
(* Properties.                                                             *)

\* closePeer and stop reach every listener: one that serves and is not the
\* one pathManager knows has been told to end (serve).
OneListener ==
    \A c \in Carried : (listener[c] = "serving" /\ c # servers) => c \in ended

=============================================================================
