---------------------------- MODULE RelayStreams ----------------------------
(***************************************************************************)
(* The relay of a hub (internal/transport/relay.go, relaytcp.go): a node   *)
(* listens for its own overlay address, other nodes dial it, the hub moves *)
(* datagrams between the streams.  One stream is one handler goroutine of  *)
(* the hub; a step is one critical section of relay.mu, or one decision of *)
(* the handler.                                                            *)
(*                                                                         *)
(* A dialer is known to the listener by an address and a port that the hub *)
(* hands out; ports are Width wide and start at MinPort, like the uint16   *)
(* and 1024 of the code, and wrap.  An overlay address is its device.      *)
(* Datagrams are not modelled: who gets one is who holds the port.         *)
(***************************************************************************)
EXTENDS Naturals, FiniteSets

CONSTANTS Devices,       \* nodes
          Hosts,         \* those that ask to be reached through the relay
          Listens,       \* streams that ask to listen
          Dials,         \* streams that ask to dial
          MaxDialers,    \* relayMaxDialers
          MaxPerDialer,  \* relayMaxPerDialer
          Width,         \* number of port values, 2^16 in the code
          MinPort,       \* lowest port handed out, 1024 in the code
          NoStream

ASSUME RelayAssumption ==
    /\ Hosts \subseteq Devices
    /\ MaxDialers \in Nat /\ MaxPerDialer \in Nat
    /\ MinPort \in Nat /\ Width \in Nat /\ MinPort < Width
    /\ MaxDialers <= Width - MinPort    \* or no port would be free
    /\ NoStream \notin Listens \cup Dials

VARIABLES approved,   \* devices of the hub's snapshot
          listeners,  \* relay.listeners: address to stream
          listen,     \* the listening streams
          dial        \* the dialing streams

relayVars == <<approved, listeners, listen, dial>>

Ports == 0 .. Width - 1

\* relayListener and relayDialer.
NoListen == [at |-> "none", owner |-> NoStream, cancelled |-> FALSE,
             dialers |-> [q \in Ports |-> NoStream], next |-> MinPort]
NoDial == [at |-> "none", owner |-> NoStream, cancelled |-> FALSE, target |-> NoStream,
           on |-> NoStream, port |-> 0]

RelayInit ==
    /\ approved = Devices
    /\ listeners = [a \in Devices |-> NoStream]
    /\ listen = [s \in Listens |-> NoListen]
    /\ dial = [d \in Dials |-> NoDial]

Slots(s) == {q \in Ports : listen[s].dialers[q] # NoStream}

\* relayListener.room.
Room(s, owner) ==
    /\ Cardinality(Slots(s)) < MaxDialers
    /\ Cardinality({q \in Slots(s) : dial[listen[s].dialers[q]].owner = owner}) < MaxPerDialer
-----------------------------------------------------------------------------
(* Listening.                                                              *)

\* handleRelay, handleRelayTCP: a node may listen at its own address only.
AskListen(s, a) ==
    /\ listen[s].at = "none" /\ a \in approved
    /\ listen' = [listen EXCEPT ![s].at = "granted", ![s].owner = a]
    /\ UNCHANGED <<approved, listeners, dial>>

\* relayListen: the node's older stream is cancelled, this one takes over.
Listen(s) ==
    LET a == listen[s].owner
        old == listeners[a] IN
    /\ listen[s].at = "granted"
    /\ listen' = [u \in Listens |-> CASE u = s -> [listen[s] EXCEPT !.at = "open"]
                                      [] u = old -> [listen[u] EXCEPT !.cancelled = TRUE]
                                      [] OTHER -> listen[u]]
    /\ listeners' = [listeners EXCEPT ![a] = s]
    /\ UNCHANGED <<approved, dial>>

\* The deferred end of relayListen: it unregisters itself, not a successor,
\* and cancels its dialers.
ListenerLeaves(s) ==
    LET a == listen[s].owner IN
    /\ listen[s].at = "open" /\ listen[s].cancelled
    /\ listeners' = IF listeners[a] = s THEN [listeners EXCEPT ![a] = NoStream] ELSE listeners
    /\ dial' = [d \in Dials |-> IF \E q \in Ports : listen[s].dialers[q] = d
                                THEN [dial[d] EXCEPT !.cancelled = TRUE] ELSE dial[d]]
    /\ listen' = [listen EXCEPT ![s].at = "gone"]
    /\ UNCHANGED <<approved>>
-----------------------------------------------------------------------------
(* Dialing.                                                                *)

\* RelayDial and relayRoom: the dialer and the target are approved, the
\* target listens here and has room.  Then the stream is taken over.
AskDial(d, a, target) ==
    /\ dial[d].at = "none"
    /\ {a, target} \subseteq approved /\ a # target
    /\ listeners[target] # NoStream /\ Room(listeners[target], a)
    /\ dial' = [dial EXCEPT ![d] = [NoDial EXCEPT !.at = "granted", !.owner = a, !.target = target]]
    /\ UNCHANGED <<approved, listeners, listen>>

\* relayDialOn, first look: which listener, and is there room.
PickListener(d) ==
    LET s == listeners[dial[d].target] IN
    /\ dial[d].at = "granted"
    /\ dial' = [dial EXCEPT ![d].at = IF s # NoStream /\ Room(s, dial[d].owner)
                                      THEN "picked" ELSE "gone",
                            ![d].on = s]
    /\ UNCHANGED <<approved, listeners, listen>>

\* The ports tried from next on: the first free one at or above MinPort.
NextPort(s) ==
    LET Tried(i) == (listen[s].next + i) % Width
        Free(q) == q >= MinPort /\ listen[s].dialers[q] = NoStream
        i == CHOOSE i \in 0 .. 2 * Width :
                 Free(Tried(i)) /\ \A j \in 0 .. i - 1 : ~Free(Tried(j))
    IN Tried(i)

\* What pairing d with listener s does.
Paired(d, s, q) ==
    /\ listen' = [listen EXCEPT ![s].dialers[q] = d, ![s].next = (q + 1) % Width]
    /\ dial' = [dial EXCEPT ![d].at = "open", ![d].port = q]
    /\ UNCHANGED <<approved, listeners>>

\* relayDialOn, second look under the lock, and the pairing.
Pair(d) ==
    LET s == dial[d].on IN
    /\ dial[d].at = "picked"
    /\ listeners[dial[d].target] = s /\ Room(s, dial[d].owner)
    /\ Paired(d, s, NextPort(s))

\* The listener left in between, or filled up.
PairRefused(d) ==
    LET s == dial[d].on IN
    /\ dial[d].at = "picked"
    /\ ~(listeners[dial[d].target] = s /\ Room(s, dial[d].owner))
    /\ dial' = [dial EXCEPT ![d].at = "gone"]
    /\ UNCHANGED <<approved, listeners, listen>>

\* Mutant: the slot is not given back.
DialerStays(d) ==
    /\ dial[d].at = "open" /\ dial[d].cancelled
    /\ dial' = [dial EXCEPT ![d].at = "gone"]
    /\ UNCHANGED <<approved, listeners, listen>>

\* The deferred end of relayDialOn: its slot is free again.
DialerLeaves(d) ==
    LET s == dial[d].on
        q == dial[d].port IN
    /\ dial[d].at = "open" /\ dial[d].cancelled
    /\ listen' = [listen EXCEPT ![s].dialers[q] = IF @ = d THEN NoStream ELSE @]
    /\ dial' = [dial EXCEPT ![d].at = "gone"]
    /\ UNCHANGED <<approved, listeners>>
-----------------------------------------------------------------------------
(* What ends streams.                                       *)

\* untilClosed: the node ends its stream, or its connection breaks.
ListenEnds(s) ==
    /\ listen[s].at = "open" /\ ~listen[s].cancelled
    /\ listen' = [listen EXCEPT ![s].cancelled = TRUE]
    /\ UNCHANGED <<approved, listeners, dial>>

DialEnds(d) ==
    /\ dial[d].at = "open" /\ ~dial[d].cancelled
    /\ dial' = [dial EXCEPT ![d].cancelled = TRUE]
    /\ UNCHANGED <<approved, listeners, listen>>

\* A snapshot without the device, and relay.closeDevice.
CloseRelayed(a) ==
    /\ a \in approved
    /\ approved' = approved \ {a}
    /\ listen' = [s \in Listens |-> IF listen[s].owner = a /\ listeners[a] = s
                                    THEN [listen[s] EXCEPT !.cancelled = TRUE] ELSE listen[s]]
    /\ dial' = [d \in Dials |-> IF /\ dial[d].owner = a /\ dial[d].at = "open"
                                   /\ listeners[dial[d].target] = dial[d].on
                                THEN [dial[d] EXCEPT !.cancelled = TRUE] ELSE dial[d]]
    /\ UNCHANGED <<listeners>>

\* What the goroutine of a stream does by itself.
StreamStep ==
    \/ \E s \in Listens : Listen(s) \/ ListenerLeaves(s)
    \/ \E d \in Dials : PickListener(d) \/ Pair(d) \/ PairRefused(d) \/ DialerLeaves(d)

RelayNext ==
    \/ StreamStep
    \/ \E s \in Listens : ListenEnds(s) \/ (\E a \in Hosts : AskListen(s, a))
    \/ \E d \in Dials : DialEnds(d) \/ (\E a, b \in Devices : AskDial(d, a, b))
    \/ \E a \in Devices : CloseRelayed(a)

RelaySpec == RelayInit /\ [][RelayNext]_relayVars

-----------------------------------------------------------------------------
(* Properties.                                                             *)

\* The variables have their types.
RelayTypeOK ==
    /\ approved \subseteq Devices
    /\ listeners \in [Devices -> Listens \cup {NoStream}]
    /\ listen \in [Listens -> [at : {"none", "granted", "open", "gone"}, owner : Devices \cup {NoStream},
                               cancelled : BOOLEAN, dialers : [Ports -> Dials \cup {NoStream}], next : Ports]]
    /\ dial \in [Dials -> [at : {"none", "granted", "picked", "open", "gone"}, owner : Devices \cup {NoStream},
                           cancelled : BOOLEAN, target : Devices \cup {NoStream},
                           on : Listens \cup {NoStream}, port : Ports]]
    /\ \A d \in Dials : dial[d].at = "open" => dial[d].port >= MinPort

\* A dialer that is connected holds its port alone, also after the port
\* counter has wrapped: nobody else gets its answers (relayDialOn).
PortIsHeld ==
    \A d \in Dials : dial[d].at = "open" => listen[dial[d].on].dialers[dial[d].port] = d

\* Slots are limited in total and per node although the room is looked at
\* in three places and taken in the last (relayRoom, relayDialOn).
SlotsBounded ==
    \A s \in Listens :
        /\ Cardinality(Slots(s)) <= MaxDialers
        /\ \A a \in Devices :
               Cardinality({q \in Slots(s) : dial[listen[s].dialers[q]].owner = a}) <= MaxPerDialer

\* A dialer whose listener has left is told so: it is cancelled, also when
\* it was paired while the listener left or was replaced (relayListen).
NoOrphanDialer ==
    \A d \in Dials : (dial[d].at = "open" /\ listen[dial[d].on].at = "gone") => dial[d].cancelled

\* A node that listens and was not cancelled is found at its address: the
\* late end of its older stream does not remove it (relayListen).
ListenerIsFound ==
    \A s \in Listens : (listen[s].at = "open" /\ ~listen[s].cancelled) => listeners[listen[s].owner] = s

\* Slots are given back: whoever holds one is connected, in whatever order
\* dialers and listeners leave, are replaced or lose their approval.
SlotsAreFreed ==
    \A s \in Listens : \A q \in Slots(s) : dial[listen[s].dialers[q]].at = "open"

\* The relay's table, ports and limits agree (Relay.listen, Relay.dial): a
\* listener that waits is found and holds its port alone, a dialer is paired
\* with a listener that is there, and the slots of whoever left are free
\* again, however the two ends come and go.
RelayInv ==
    /\ RelayTypeOK
    /\ PortIsHeld
    /\ SlotsBounded
    /\ NoOrphanDialer
    /\ ListenerIsFound
    /\ SlotsAreFreed

=============================================================================
