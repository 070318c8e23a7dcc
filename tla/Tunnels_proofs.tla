--------------------------- MODULE Tunnels_proofs ---------------------------
(***************************************************************************)
(* Proofs about what runs on a hub: its table of tunnels (HubTunnels), one *)
(* link over a stream (StreamLink) and the relayed streams (RelayStreams). *)
(***************************************************************************)
EXTENDS MCTunnels, FiniteSetTheorems, WellFoundedInduction, TLAPS

-----------------------------------------------------------------------------
(***************************************************************************)
(* HubTunnels.  That a served network is routed depends on a count that is *)
(* raised and lowered in steps of their own, apart from the table, and not *)
(* lowered at all when another announcer is left.  It is enough that it    *)
(* never falls below the number of tunnels that hold the route: those that *)
(* were counted and have not been counted out.                             *)
(***************************************************************************)
Serving == {"attaching", "serving", "detaching"}

Tunnel == [at : {"none", "handshaken", "accepted", "gone"} \cup Places,
           peer : Peers \cup {None}, key : Keys \cup {None}, open : BOOLEAN,
           cfg : Records \cup {None}, seen : Records \cup {None},
           todo : SUBSET Networks, mid : SUBSET Networks]

\* What the goroutine of a tunnel has to do agrees with its place.
PlaceFine(r) ==
  /\ r.at \in {"handshaken", "accepted"} \cup Places => r.peer \in Peers
  /\ r.at \in {"accepted"} \cup Places => r.cfg # None
  /\ r.at \in Serving =>
       /\ r.seen \in Records
       /\ r.todo \cup r.mid \subseteq r.seen.networks
       /\ r.todo \cap r.mid = {}
       /\ r.mid = {} \/ \E q \in Networks : r.mid = {q}
  /\ r.at \in {"none", "handshaken", "accepted", "tracked", "serving"} => r.todo = {} /\ r.mid = {}

PlaceOK == \A t \in Tunnels : PlaceFine(tun[t])

\* Networks of which a tunnel may have an entry in the table.
EntriesOf(r) ==
  CASE r.at = "attaching" -> r.seen.networks \ r.todo
    [] r.at = "serving"   -> r.seen.networks
    [] r.at = "detaching" -> r.todo
    [] OTHER -> {}

EntriesOK == \A e \in nets : e[1] \in EntriesOf(tun[e[2]])

\* Networks whose route a tunnel was counted for and not counted out of.
CountedOf(r) ==
  CASE r.at = "attaching" -> r.seen.networks \ (r.todo \cup r.mid)
    [] r.at = "serving"   -> r.seen.networks
    [] r.at = "detaching" -> r.todo \cup r.mid
    [] OTHER -> {}

RouteHolders(q) == {t \in Tunnels : q \in CountedOf(tun[t])}

CountCovers ==
  \A q \in Networks : Cardinality(RouteHolders(q)) <= count[q] /\ (count[q] > 0 => q \in kernel)

HostsOK == \A p \in Peers : hosts[p] # None => tun[hosts[p]].at \in Serving /\ tun[hosts[p]].peer = p

OneOpen ==
  \A p \in Peers : \A t, u \in OfDevice(p) :
    tun[t].open /\ tun[u].open /\ t \notin closing /\ u \notin closing => t = u

HubIInv == HubTypeOK /\ PlaceOK /\ EntriesOK /\ CountCovers /\ HostsOK /\ OneOpen /\ NoneServedByOldRecord

\* The invariant implies what the runs check.
LEMMA HubIInvIsEnough == HubIInv => HubInv
<1> SUFFICES ASSUME HubIInv PROVE HubInv
  OBVIOUS
<1> USE DEF HubIInv
<1>1. ServedIsRouted
  <2> SUFFICES ASSUME NEW t \in Tunnels, tun[t].at = "serving", NEW q \in tun[t].seen.networks PROVE q \in kernel
    BY DEF ServedIsRouted
  <2>1. q \in Networks /\ q \in CountedOf(tun[t])
    BY DEF PlaceOK, PlaceFine, Serving, Records, CountedOf
  <2>2. t \in RouteHolders(q)
    BY <2>1 DEF RouteHolders
  <2>3. IsFiniteSet(RouteHolders(q))
    BY HubAssumption, FS_Subset DEF RouteHolders
  <2>4. Cardinality(RouteHolders(q)) # 0 /\ Cardinality(RouteHolders(q)) \in Nat
    BY <2>2, <2>3, FS_EmptySet, FS_CardinalityType
  <2>5. count[q] \in Nat
    BY <2>1 DEF HubTypeOK
  <2>6. QED
    BY <2>1, <2>4, <2>5 DEF CountCovers
<1>2. NoDanglingEntry
  <2>1. ASSUME NEW e \in nets PROVE tun[e[2]].at \in Serving
    BY DEF EntriesOK, EntriesOf, Serving
  <2>2. QED
    BY <2>1 DEF NoDanglingEntry, HostsOK, Serving
<1>3. OneOpenPerDevice
  <2> SUFFICES ASSUME NEW p \in Peers PROVE Cardinality({t \in OfDevice(p) : tun[t].open /\ t \notin closing}) <= 1
    BY DEF OneOpenPerDevice
  <2> DEFINE O == {t \in OfDevice(p) : tun[t].open /\ t \notin closing}
  <2>1. CASE O = {}
    BY <2>1, FS_EmptySet
  <2>2. CASE O # {}
    <3>1. PICK t \in O : TRUE
      BY <2>2
    <3>2. O = {t}
      BY <3>1 DEF OneOpen
    <3>3. Cardinality({t}) = 1
      BY FS_Singleton
    <3>4. QED
      BY <3>2, <3>3
  <2>3. QED
    BY <2>1, <2>2
<1>4. QED
  BY <1>1, <1>2, <1>3 DEF HubInv

\* No tunnel, no entry and no route at first.
LEMMA InitHub == HubInit => HubIInv
<1> SUFFICES ASSUME HubInit PROVE HubIInv
  OBVIOUS
<1> USE HubAssumption
<1>1. \A t \in Tunnels : tun[t] = NoTunnel
  BY DEF HubInit
<1>2. HubTypeOK
  <2>1. NoTunnel \in Tunnel
    BY DEF NoTunnel, Tunnel
  <2>2. tun \in [Tunnels -> Tunnel] /\ Tracked = {}
    BY <1>1, <2>1 DEF HubInit, Tracked, Places, NoTunnel
  <2>3. hosts \in [Peers -> Tunnels \cup {None}] /\ count \in [Networks -> Nat]
    BY DEF HubInit
  <2>4. stores \in 0 .. MaxStores /\ stale \in BOOLEAN
    <3>1. 0 \in 0 .. MaxStores
      OBVIOUS
    <3>2. QED
      BY <3>1 DEF HubInit
  <2>5. /\ snap \in Snapshots /\ removed \subseteq Peers /\ closing \subseteq Tunnels
        /\ nets \subseteq Networks \X Tunnels /\ kernel \subseteq Networks
    BY DEF HubInit
  <2>6. \A t \in Tracked : tun[t].cfg # None
    BY <2>2
  <2>7. QED
    BY <2>2, <2>3, <2>4, <2>5, <2>6 DEF HubTypeOK, Tunnel
<1>3. PlaceOK /\ NoneServedByOldRecord /\ OneOpen
  BY <1>1 DEF PlaceOK, PlaceFine, NoneServedByOldRecord, OneOpen, OfDevice, Tracked, Places, Serving, NoTunnel
<1>4. EntriesOK /\ HostsOK
  BY DEF HubInit, EntriesOK, HostsOK
<1>5. CountCovers
  <2>1. \A q \in Networks : RouteHolders(q) = {}
    BY <1>1 DEF RouteHolders, CountedOf, NoTunnel
  <2>2. Cardinality({}) = 0 /\ \A q \in Networks : count[q] = 0
    BY FS_EmptySet DEF HubInit
  <2>3. ASSUME NEW q \in Networks
        PROVE  Cardinality(RouteHolders(q)) <= count[q] /\ (count[q] > 0 => q \in kernel)
    <3>1. Cardinality(RouteHolders(q)) = 0 /\ count[q] = 0
      BY <2>1, <2>2
    <3>2. QED
      BY <3>1
  <2>4. QED
    BY <2>3 DEF CountCovers
<1>6. QED
  BY <1>2, <1>3, <1>4, <1>5 DEF HubIInv

\* A step of one tunnel.
LEMMA OneTunnel ==
  ASSUME HubIInv, NEW t \in Tunnels, NEW r \in Tunnel, PlaceFine(r), tun' = [tun EXCEPT ![t] = r],
         UNCHANGED holder, closing' \subseteq Tunnels, OneOpen',
         r.at \in {"attaching", "serving"} /\ r.open /\ r.peer \notin removed => r.seen = snap[r.peer],
         hosts' \in [Peers -> Tunnels \cup {None}], \A p \in Peers : hosts'[p] \in {hosts[p], None, t},
         \A p \in Peers : hosts'[p] = t => r.at \in Serving /\ r.peer = p,
         nets' \subseteq Networks \X Tunnels, \A e \in nets' : IF e[2] = t THEN e[1] \in EntriesOf(r) ELSE e \in nets,
         count' \in [Networks -> Nat], kernel' \subseteq Networks, CountCovers'
  PROVE  HubIInv'
<1> USE DEF HubIInv
<1>1. tun \in [Tunnels -> Tunnel]
  BY DEF HubTypeOK, Tunnel
<1>2. tun' \in [Tunnels -> Tunnel] /\ \A u \in Tunnels : tun'[u] = IF u = t THEN r ELSE tun[u]
  BY <1>1
<1>3. PlaceOK'
  BY <1>2 DEF PlaceOK, PlaceFine
<1>4. HubTypeOK'
  <2>1. \A u \in Tracked' : tun'[u].cfg # None
    BY <1>3 DEF PlaceOK, PlaceFine, Tracked
  <2>2. UNCHANGED <<snap, stale, stores, removed>>
    BY DEF holder
  <2>3. QED
    BY <1>2, <2>1, <2>2 DEF HubTypeOK, Tunnel
<1>5. EntriesOK'
  <2> SUFFICES ASSUME NEW e \in nets' PROVE e[1] \in EntriesOf(tun'[e[2]])
    BY DEF EntriesOK, EntriesOf
  <2>1. e[2] \in Tunnels
    OBVIOUS
  <2>2. QED
    BY <1>2, <2>1 DEF EntriesOK
<1>6. HostsOK'
  <2> SUFFICES ASSUME NEW p \in Peers, hosts'[p] # None PROVE tun'[hosts'[p]].at \in Serving /\ tun'[hosts'[p]].peer = p
    BY DEF HostsOK
  <2>1. CASE hosts'[p] = t
    BY <1>2, <2>1
  <2>2. CASE hosts'[p] # t
    BY <1>2, <2>2 DEF HostsOK
  <2>3. QED
    BY <2>1, <2>2
<1>7. NoneServedByOldRecord'
  BY <1>2 DEF NoneServedByOldRecord, holder
<1>8. QED
  BY <1>3, <1>4, <1>5, <1>6, <1>7

\* A tunnel that opens nothing leaves at most one open of its device.
LEMMA OpensNone ==
  ASSUME HubIInv, NEW t \in Tunnels, NEW r \in Tunnel, tun' = [tun EXCEPT ![t] = r], closing \ {t} \subseteq closing',
         r.at \in Places /\ r.open /\ t \notin closing' =>
           tun[t].at \in Places /\ tun[t].open /\ t \notin closing /\ r.peer = tun[t].peer
  PROVE  OneOpen'
<1>1. \A u \in Tunnels : tun'[u] = IF u = t THEN r ELSE tun[u]
  BY DEF HubIInv, HubTypeOK
<1>2. ASSUME NEW p \in Peers, NEW u \in OfDevice(p)', tun'[u].open, u \notin closing'
      PROVE  u \in OfDevice(p) /\ tun[u].open /\ u \notin closing
  BY <1>1, <1>2 DEF OfDevice, Tracked
<1>3. QED
  BY <1>2 DEF OneOpen, HubIInv

\* A tunnel that is counted for nothing new leaves the counts right.
LEMMA CountsNone ==
  ASSUME HubIInv, NEW t \in Tunnels, NEW r \in Tunnel, tun' = [tun EXCEPT ![t] = r],
         CountedOf(r) \subseteq CountedOf(tun[t]), UNCHANGED <<count, kernel>>
  PROVE  CountCovers'
<1>1. \A u \in Tunnels : tun'[u] = IF u = t THEN r ELSE tun[u]
  BY DEF HubIInv, HubTypeOK
<1> SUFFICES ASSUME NEW q \in Networks PROVE Cardinality(RouteHolders(q)') <= count[q] /\ (count[q] > 0 => q \in kernel)
  BY DEF CountCovers
<1>2. RouteHolders(q)' \subseteq RouteHolders(q)
  BY <1>1 DEF RouteHolders, CountedOf
<1>3. IsFiniteSet(RouteHolders(q))
  BY HubAssumption, FS_Subset DEF RouteHolders
<1>4. /\ Cardinality(RouteHolders(q)') <= Cardinality(RouteHolders(q))
      /\ Cardinality(RouteHolders(q)') \in Nat /\ Cardinality(RouteHolders(q)) \in Nat
  BY <1>2, <1>3, FS_Subset, FS_CardinalityType
<1>5. count[q] \in Nat /\ Cardinality(RouteHolders(q)) <= count[q] /\ (count[q] > 0 => q \in kernel)
  BY DEF HubIInv, HubTypeOK, CountCovers
<1>6. QED
  BY <1>4, <1>5

\* Both, where the table does not change.
LEMMA QuietTunnel ==
  ASSUME HubIInv, NEW t \in Tunnels, NEW r \in Tunnel, PlaceFine(r), tun' = [tun EXCEPT ![t] = r],
         UNCHANGED <<holder, table>>, closing' \subseteq Tunnels, closing \ {t} \subseteq closing',
         r.at \in Places /\ r.open /\ t \notin closing' =>
           tun[t].at \in Places /\ tun[t].open /\ t \notin closing /\ r.peer = tun[t].peer,
         r.at \in {"attaching", "serving"} /\ r.open /\ r.peer \notin removed => r.seen = snap[r.peer],
         CountedOf(r) \subseteq CountedOf(tun[t]), EntriesOf(tun[t]) \subseteq EntriesOf(r),
         tun[t].at \in Serving => r.at \in Serving /\ r.peer = tun[t].peer
  PROVE  HubIInv'
<1>1. UNCHANGED <<hosts, nets, count, kernel>>
  BY DEF table
<1>2. OneOpen'
  BY OpensNone
<1>3. CountCovers'
  BY <1>1, CountsNone
<1>4. \A p \in Peers : hosts[p] = t => r.at \in Serving /\ r.peer = p
  BY HubAssumption DEF HubIInv, HostsOK
<1>5. \A e \in nets : IF e[2] = t THEN e[1] \in EntriesOf(r) ELSE e \in nets
  BY DEF HubIInv, EntriesOK
<1>6. QED
  BY <1>1, <1>2, <1>3, <1>4, <1>5, OneTunnel DEF HubIInv, HubTypeOK

\* A step of the goroutine of a tunnel that leaves the table alone.
LEMMA QuietSteps ==
  ASSUME HubIInv, NEW t \in Tunnels,
         \/ \E p \in Peers, k \in Keys : Handshake(t, p, k)
         \/ Accept(t) \/ Refused(t) \/ CloseReplaced(t) \/ Ends(t) \/ Loop(t) \/ ReadFails(t) \/ Untrack(t)
  PROVE  HubIInv'
<1> USE HubAssumption
<1>0. /\ tun \in [Tunnels -> Tunnel] /\ tun[t] \in Tunnel /\ closing \subseteq Tunnels
      /\ PlaceFine(tun[t]) /\ snap \in [Peers -> Records \cup {None}]
      /\ tun[t].at \in {"attaching", "serving"} /\ tun[t].open /\ tun[t].peer \notin removed
           => tun[t].seen = snap[tun[t].peer]
  BY DEF HubIInv, HubTypeOK, Tunnel, PlaceOK, Records, NoneServedByOldRecord
<1>1. ASSUME NEW p \in Peers, NEW k \in Keys, Handshake(t, p, k) PROVE HubIInv'
  <2> DEFINE r == [NoTunnel EXCEPT !.at = "handshaken", !.peer = p, !.key = k, !.open = TRUE]
  <2>1. /\ r \in Tunnel /\ PlaceFine(r) /\ CountedOf(r) = {} /\ EntriesOf(r) = {}
        /\ r.at = "handshaken"
    BY DEF NoTunnel, Tunnel, PlaceFine, CountedOf, EntriesOf, Serving, Places
  <2>2. tun[t].at = "none" /\ tun' = [tun EXCEPT ![t] = r] /\ UNCHANGED <<holder, closing, table>>
    BY <1>1 DEF Handshake
  <2>3. EntriesOf(tun[t]) = {}
    BY <2>2 DEF EntriesOf
  <2> HIDE DEF r
  <2>4. QED
    BY <1>0, <2>1, <2>2, <2>3, QuietTunnel DEF Places, Serving
<1>2. CASE Accept(t)
  <2> DEFINE r == [tun[t] EXCEPT !.at = "accepted", !.cfg = snap[tun[t].peer]]
  <2>1. tun[t].at = "handshaken" /\ tun' = [tun EXCEPT ![t] = r] /\ UNCHANGED <<holder, closing, table>>
    BY <1>0, <1>2 DEF Accept
  <2>2. snap[tun[t].peer] \in Records
    BY <1>0, <1>2, <2>1 DEF Accept, Lookup, PlaceFine
  <2>3. r \in Tunnel /\ r.at = "accepted"
    BY <1>0, <2>2 DEF Tunnel
  <2>4. PlaceFine(r)
    BY <1>0, <2>1, <2>2 DEF PlaceFine, Tunnel, Serving, Places, Records
  <2>5. CountedOf(r) = {} /\ EntriesOf(tun[t]) = {}
    BY <2>1, <2>3 DEF CountedOf, EntriesOf
  <2> HIDE DEF r
  <2>6. QED
    BY <1>0, <2>1, <2>3, <2>4, <2>5, QuietTunnel DEF Places, Serving
<1>3. CASE Refused(t) \/ Untrack(t)
  <2>1. Gone \in Tunnel /\ Gone.at = "gone" /\ PlaceFine(Gone) /\ CountedOf(Gone) = {}
    BY DEF Gone, NoTunnel, Tunnel, PlaceFine, CountedOf, Serving, Places
  <2>2. /\ tun[t].at \in {"handshaken", "accepted", "untracking"} /\ tun' = [tun EXCEPT ![t] = Gone]
        /\ UNCHANGED <<holder, table>> /\ (closing' = closing \/ closing' = closing \ {t})
    BY <1>3 DEF Refused, Untrack
  <2>3. EntriesOf(tun[t]) = {}
    BY <2>2 DEF EntriesOf
  <2>4. QED
    BY <1>0, <2>1, <2>2, <2>3, QuietTunnel DEF Places, Serving
<1>4. CASE CloseReplaced(t) \/ Ends(t)
  <2> DEFINE r == [tun[t] EXCEPT !.open = FALSE]
  <2>1. /\ tun' = [tun EXCEPT ![t] = r]
        /\ UNCHANGED <<holder, table>> /\ (closing' = closing \/ closing' = closing \ {t})
    BY <1>0, <1>4 DEF CloseReplaced, Ends
  <2>2. /\ r \in Tunnel /\ r.at = tun[t].at /\ r.peer = tun[t].peer /\ r.seen = tun[t].seen
        /\ r.todo = tun[t].todo /\ r.mid = tun[t].mid /\ r.cfg = tun[t].cfg /\ ~r.open
    BY <1>0 DEF Tunnel
  <2> HIDE DEF r
  <2>3. PlaceFine(r)
    BY <1>0, <2>2 DEF PlaceFine
  <2>4. CountedOf(r) = CountedOf(tun[t]) /\ EntriesOf(tun[t]) = EntriesOf(r)
    BY <2>2 DEF CountedOf, EntriesOf
  <2>5. QED
    BY <1>0, <2>1, <2>2, <2>3, <2>4, QuietTunnel
<1>5. CASE Loop(t)
  <2> DEFINE r == [tun[t] EXCEPT !.at = "serving"]
  <2>1. /\ tun[t].at = "attaching" /\ tun[t].todo = {} /\ tun[t].mid = {} /\ tun' = [tun EXCEPT ![t] = r]
        /\ UNCHANGED <<holder, closing, table>>
    BY <1>0, <1>5 DEF Loop
  <2>2. /\ r \in Tunnel /\ r.at = "serving" /\ r.peer = tun[t].peer /\ r.seen = tun[t].seen
        /\ r.todo = {} /\ r.mid = {} /\ r.cfg = tun[t].cfg /\ r.open = tun[t].open
    BY <1>0, <2>1 DEF Tunnel, Places
  <2> HIDE DEF r
  <2>3. PlaceFine(r)
    BY <1>0, <2>1, <2>2 DEF PlaceFine, Serving, Places
  <2>4. CountedOf(r) = CountedOf(tun[t]) /\ EntriesOf(tun[t]) = EntriesOf(r)
    BY <2>1, <2>2 DEF CountedOf, EntriesOf
  <2>5. QED
    BY <1>0, <2>1, <2>2, <2>3, <2>4, QuietTunnel DEF Places, Serving
<1>6. CASE ReadFails(t)
  <2> DEFINE r == [tun[t] EXCEPT !.at = "detaching", !.todo = tun[t].seen.networks]
  <2>1. /\ tun[t].at = "serving" /\ tun' = [tun EXCEPT ![t] = r] /\ ~tun[t].open
        /\ UNCHANGED <<holder, closing, table>>
    BY <1>0, <1>6 DEF ReadFails
  <2>2. tun[t].seen \in Records /\ tun[t].seen.networks \subseteq Networks /\ tun[t].mid = {}
    BY <1>0, <2>1 DEF PlaceFine, Serving, Records
  <2>3. /\ r \in Tunnel /\ r.at = "detaching" /\ r.peer = tun[t].peer /\ r.seen = tun[t].seen
        /\ r.todo = tun[t].seen.networks /\ r.mid = {} /\ r.cfg = tun[t].cfg /\ r.open = tun[t].open
    BY <1>0, <2>2 DEF Tunnel, Places
  <2> HIDE DEF r
  <2>4. PlaceFine(r)
    BY <1>0, <2>1, <2>2, <2>3 DEF PlaceFine, Serving, Places
  <2>5. CountedOf(r) = CountedOf(tun[t]) /\ EntriesOf(tun[t]) = EntriesOf(r)
    BY <2>1, <2>3 DEF CountedOf, EntriesOf
  <2>6. QED
    BY <1>0, <2>1, <2>3, <2>4, <2>5, QuietTunnel DEF Places, Serving
<1>7. QED
  BY <1>1, <1>2, <1>3, <1>4, <1>5, <1>6

\* What one tunnel's step changes in who holds a route.
LEMMA OneHolder ==
  ASSUME HubIInv, NEW t \in Tunnels, NEW r \in Tunnel, tun' = [tun EXCEPT ![t] = r], NEW q \in Networks
  PROVE  /\ RouteHolders(q)' = (RouteHolders(q) \ {t}) \cup (IF q \in CountedOf(r) THEN {t} ELSE {})
         /\ IsFiniteSet(RouteHolders(q)) /\ Cardinality(RouteHolders(q)) \in Nat
         /\ IsFiniteSet(RouteHolders(q)') /\ Cardinality(RouteHolders(q)') \in Nat
         /\ Cardinality(RouteHolders(q)) <= count[q] /\ count[q] \in Nat
         /\ count[q] > 0 => q \in kernel
<1>1. \A u \in Tunnels : tun'[u] = IF u = t THEN r ELSE tun[u]
  BY DEF HubIInv, HubTypeOK
<1>2. RouteHolders(q)' = (RouteHolders(q) \ {t}) \cup (IF q \in CountedOf(r) THEN {t} ELSE {})
  BY <1>1 DEF RouteHolders, CountedOf
<1>3. IsFiniteSet(RouteHolders(q)) /\ IsFiniteSet(RouteHolders(q)')
  <2>1. RouteHolders(q) \subseteq Tunnels /\ RouteHolders(q)' \subseteq Tunnels
    BY DEF RouteHolders
  <2>2. QED
    BY <2>1, HubAssumption, FS_Subset
<1>4. QED
  BY <1>2, <1>3, FS_CardinalityType DEF HubIInv, HubTypeOK, CountCovers

\* Steps of a tunnel that write the table, or that replace older tunnels.
LEMMA TableSteps ==
  ASSUME HubIInv, NEW t \in Tunnels,
         \/ Track(t) \/ ServeStart(t) \/ Detach(t)
         \/ \E q \in Networks : AttachPrefix(t, q) \/ AddPeerRoute(t, q) \/ DetachPrefix(t, q) \/ DelPeerRoute(t, q)
  PROVE  HubIInv'
<1> USE HubAssumption
<1>0. /\ tun \in [Tunnels -> Tunnel] /\ tun[t] \in Tunnel /\ closing \subseteq Tunnels
      /\ PlaceFine(tun[t]) /\ snap \in [Peers -> Records \cup {None}]
      /\ tun[t].at \in {"attaching", "serving"} /\ tun[t].open /\ tun[t].peer \notin removed
           => tun[t].seen = snap[tun[t].peer]
      /\ hosts \in [Peers -> Tunnels \cup {None}] /\ nets \subseteq Networks \X Tunnels
      /\ count \in [Networks -> Nat] /\ kernel \subseteq Networks
  BY DEF HubIInv, HubTypeOK, Tunnel, PlaceOK, Records, NoneServedByOldRecord
<1>n. \A e \in nets : e[1] \in Networks /\ e[2] \in Tunnels /\ e[1] \in EntriesOf(tun[e[2]])
  BY <1>0 DEF HubIInv, EntriesOK
<1>h. \A p \in Peers : hosts[p] = t => tun[t].at \in Serving /\ tun[t].peer = p
  BY DEF HubIInv, HostsOK
<1>1. CASE Track(t)
  <2> DEFINE r == [tun[t] EXCEPT !.at = "tracked"]
  <2>1. /\ tun[t].at = "accepted" /\ tun' = [tun EXCEPT ![t] = r]
        /\ UNCHANGED <<holder, table>> /\ closing' = closing \cup OfDevice(tun[t].peer)
    BY <1>0, <1>1 DEF Track, Replaced
  <2>2. /\ r \in Tunnel /\ r.at = "tracked" /\ r.peer = tun[t].peer
        /\ r.todo = {} /\ r.mid = {} /\ r.cfg = tun[t].cfg
    BY <1>0, <2>1 DEF Tunnel, Places, PlaceFine
  <2> HIDE DEF r
  <2>3. PlaceFine(r)
    BY <1>0, <2>1, <2>2 DEF PlaceFine, Serving, Places
  <2>4. CountedOf(r) = {} /\ EntriesOf(tun[t]) = {}
    BY <2>1, <2>2 DEF CountedOf, EntriesOf
  <2>5. OneOpen'
    <3>1. \A u \in Tunnels : tun'[u] = IF u = t THEN r ELSE tun[u]
      BY <1>0, <2>1
    <3> SUFFICES ASSUME NEW p \in Peers, NEW u \in OfDevice(p)', NEW v \in OfDevice(p)', tun'[u].open, tun'[v].open,
                        u \notin closing', v \notin closing', u # v
                 PROVE  FALSE
      BY DEF OneOpen
    <3>2. ASSUME NEW w \in OfDevice(p)', w # t PROVE w \in OfDevice(p) /\ tun'[w] = tun[w]
      BY <3>1, <3>2 DEF OfDevice, Tracked
    <3>3. CASE u = t
      <4>1. r.peer = p
        BY <3>1, <3>3 DEF OfDevice, Tracked
      <4>2. QED
        BY <2>1, <2>2, <3>2, <3>3, <4>1
    <3>4. CASE v = t
      <4>1. r.peer = p
        BY <3>1, <3>4 DEF OfDevice, Tracked
      <4>2. QED
        BY <2>1, <2>2, <3>2, <3>4, <4>1
    <3>5. CASE u # t /\ v # t
      BY <2>1, <3>2, <3>5 DEF HubIInv, OneOpen
    <3>6. QED
      BY <3>3, <3>4, <3>5
  <2>6. CountCovers'
    BY <2>1, <2>2, <2>4, CountsNone DEF table
  <2>7. /\ closing' \subseteq Tunnels /\ \A p \in Peers : hosts[p] # t
        /\ \A e \in nets : e[2] # t
    BY <1>0, <1>n, <1>h, <2>1, <2>4 DEF OfDevice, Tracked, Serving
  <2>8. QED
    BY <1>0, <2>1, <2>2, <2>3, <2>5, <2>6, <2>7, OneTunnel DEF table
<1>2. CASE ServeStart(t) /\ snap[tun[t].peer] = None
  <2> DEFINE r == [tun[t] EXCEPT !.at = "untracking"]
  <2>1. /\ tun[t].at = "tracked" /\ tun' = [tun EXCEPT ![t] = r] /\ UNCHANGED <<holder, closing, table>>
    BY <1>0, <1>2 DEF ServeStart, ServedRecord, table
  <2>2. /\ r \in Tunnel /\ r.at = "untracking" /\ r.peer = tun[t].peer /\ r.cfg = tun[t].cfg /\ r.open = tun[t].open
    BY <1>0, <2>1 DEF Tunnel, Places
  <2> HIDE DEF r
  <2>3. PlaceFine(r)
    BY <1>0, <2>1, <2>2 DEF PlaceFine, Serving, Places
  <2>4. CountedOf(r) = {} /\ EntriesOf(tun[t]) = {}
    BY <2>1, <2>2 DEF CountedOf, EntriesOf
  <2>5. QED
    BY <1>0, <2>1, <2>2, <2>3, <2>4, QuietTunnel DEF Places, Serving
<1>3. CASE ServeStart(t) /\ snap[tun[t].peer] # None
  <2> DEFINE g == snap[tun[t].peer]
             r == [tun[t] EXCEPT !.at = "attaching", !.seen = g, !.todo = g.networks]
  <2>1. /\ tun[t].at = "tracked" /\ tun' = [tun EXCEPT ![t] = r] /\ UNCHANGED <<holder, closing, nets, count, kernel>>
        /\ hosts' = [hosts EXCEPT ![tun[t].peer] = t]
    BY <1>0, <1>3 DEF ServeStart, ServedRecord
  <2>2. tun[t].peer \in Peers /\ tun[t].mid = {}
    BY <1>0, <2>1 DEF PlaceFine, Places
  <2>3. g \in Records /\ g.networks \subseteq Networks
    BY <1>0, <1>3, <2>2 DEF Records
  <2>4. /\ r \in Tunnel /\ r.at = "attaching" /\ r.peer = tun[t].peer /\ r.cfg = tun[t].cfg /\ r.open = tun[t].open
        /\ r.seen = g /\ r.todo = g.networks /\ r.mid = {}
    BY <1>0, <2>2, <2>3 DEF Tunnel, Places
  <2> HIDE DEF r
  <2>5. PlaceFine(r)
    BY <1>0, <2>1, <2>2, <2>3, <2>4 DEF PlaceFine, Serving, Places
  <2>6. CountedOf(r) = {} /\ EntriesOf(tun[t]) = {}
    BY <2>1, <2>4 DEF CountedOf, EntriesOf
  <2>7. OneOpen'
    BY <1>0, <2>1, <2>4, OpensNone DEF Places
  <2>8. CountCovers'
    BY <2>1, <2>4, <2>6, CountsNone
  <2>9. hosts' \in [Peers -> Tunnels \cup {None}] /\ \A p \in Peers : hosts'[p] = IF p = tun[t].peer THEN t ELSE hosts[p]
    BY <1>0, <2>1, <2>2
  <2>10. /\ \A p \in Peers : hosts'[p] \in {hosts[p], None, t}
         /\ \A p \in Peers : hosts'[p] = t => r.at \in Serving /\ r.peer = p
         /\ \A e \in nets' : IF e[2] = t THEN e[1] \in EntriesOf(r) ELSE e \in nets
    BY <1>n, <1>h, <2>1, <2>4, <2>6, <2>9 DEF Serving
  <2>11. QED
    BY <1>0, <2>1, <2>4, <2>5, <2>7, <2>8, <2>9, <2>10, OneTunnel
<1>4. CASE Detach(t)
  <2> DEFINE r == [tun[t] EXCEPT !.at = "untracking"]
  <2>1. /\ tun[t].at = "detaching" /\ tun[t].todo = {} /\ tun[t].mid = {} /\ tun' = [tun EXCEPT ![t] = r]
        /\ UNCHANGED <<holder, closing, nets, count, kernel>>
        /\ hosts' = [p \in Peers |-> IF hosts[p] = t THEN None ELSE hosts[p]]
    BY <1>0, <1>4 DEF Detach
  <2>2. r \in Tunnel /\ r.at = "untracking" /\ r.peer = tun[t].peer /\ r.cfg = tun[t].cfg /\ r.open = tun[t].open
    BY <1>0 DEF Tunnel, Places
  <2> HIDE DEF r
  <2>3. PlaceFine(r)
    BY <1>0, <2>1, <2>2 DEF PlaceFine, Serving, Places
  <2>4. CountedOf(r) = {} /\ EntriesOf(tun[t]) = {}
    BY <2>1, <2>2 DEF CountedOf, EntriesOf
  <2>5. OneOpen'
    BY <1>0, <2>1, <2>2, OpensNone DEF Places
  <2>6. CountCovers'
    BY <2>1, <2>2, <2>4, CountsNone
  <2>7. /\ hosts' \in [Peers -> Tunnels \cup {None}] /\ \A p \in Peers : hosts'[p] \in {hosts[p], None, t}
        /\ \A p \in Peers : hosts'[p] # t
    BY <1>0, <2>1
  <2>8. \A e \in nets' : IF e[2] = t THEN e[1] \in EntriesOf(r) ELSE e \in nets
    BY <1>n, <2>1, <2>4
  <2>9. QED
    BY <1>0, <2>1, <2>2, <2>3, <2>5, <2>6, <2>7, <2>8, OneTunnel
<1>5. ASSUME NEW q \in Networks, AttachPrefix(t, q) PROVE HubIInv'
  <2> DEFINE r == [tun[t] EXCEPT !.todo = @ \ {q}, !.mid = {q}]
  <2>1. /\ tun[t].at = "attaching" /\ tun[t].mid = {} /\ q \in tun[t].todo /\ tun' = [tun EXCEPT ![t] = r]
        /\ UNCHANGED <<holder, closing, hosts, count, kernel>> /\ nets' = nets \cup {<<q, t>>}
    BY <1>0, <1>5 DEF AttachPrefix
  <2>2. /\ r \in Tunnel /\ r.at = tun[t].at /\ r.peer = tun[t].peer /\ r.cfg = tun[t].cfg /\ r.open = tun[t].open
        /\ r.seen = tun[t].seen /\ r.todo = tun[t].todo \ {q} /\ r.mid = {q}
    BY <1>0 DEF Tunnel
  <2> HIDE DEF r
  <2>3. PlaceFine(r)
    BY <1>0, <2>1, <2>2 DEF PlaceFine, Serving, Places
  <2>4. CountedOf(r) \subseteq CountedOf(tun[t])
    BY <2>1, <2>2 DEF CountedOf
  <2>5. EntriesOf(tun[t]) \subseteq EntriesOf(r) /\ q \in EntriesOf(r)
    BY <1>0, <2>1, <2>2 DEF EntriesOf, PlaceFine, Serving
  <2>6. OneOpen'
    BY <1>0, <2>1, <2>2, OpensNone DEF Places
  <2>7. CountCovers'
    BY <2>1, <2>2, <2>4, CountsNone
  <2>8. nets' \subseteq Networks \X Tunnels /\ \A e \in nets' : IF e[2] = t THEN e[1] \in EntriesOf(r) ELSE e \in nets
    BY <1>0, <1>n, <2>1, <2>5
  <2>9. \A p \in Peers : hosts[p] = t => r.at \in Serving /\ r.peer = p
    BY <1>h, <2>2
  <2>10. r.at \in {"attaching", "serving"} /\ r.open /\ r.peer \notin removed => r.seen = snap[r.peer]
    BY <1>0, <2>2
  <2>11. QED
    <3>1. /\ hosts' \in [Peers -> Tunnels \cup {None}] /\ \A p \in Peers : hosts'[p] \in {hosts[p], None, t}
          /\ count' \in [Networks -> Nat] /\ kernel' \subseteq Networks /\ closing' \subseteq Tunnels
          /\ \A p \in Peers : hosts'[p] = t => r.at \in Serving /\ r.peer = p
      BY <1>0, <2>1, <2>9
    <3>2. r \in Tunnel /\ UNCHANGED holder /\ tun' = [tun EXCEPT ![t] = r]
      BY <2>1, <2>2
    <3>3. QED
      BY <2>3, <2>6, <2>7, <2>8, <2>10, <3>1, <3>2, OneTunnel
<1>6. ASSUME NEW q \in Networks, DetachPrefix(t, q) PROVE HubIInv'
  <2> DEFINE m == IF \E u \in Tunnels : <<q, u>> \in nets \ {<<q, t>>} THEN {} ELSE {q}
             r == [tun[t] EXCEPT !.todo = @ \ {q}, !.mid = m]
  <2>1. /\ tun[t].at = "detaching" /\ tun[t].mid = {} /\ q \in tun[t].todo /\ tun' = [tun EXCEPT ![t] = r]
        /\ UNCHANGED <<holder, closing, hosts, count, kernel>> /\ nets' = nets \ {<<q, t>>}
    BY <1>0, <1>6 DEF DetachPrefix
  <2>2. m = {} \/ m = {q}
    OBVIOUS
  <2> HIDE DEF m
  <2>3. /\ r \in Tunnel /\ r.at = tun[t].at /\ r.peer = tun[t].peer /\ r.cfg = tun[t].cfg /\ r.open = tun[t].open
        /\ r.seen = tun[t].seen /\ r.todo = tun[t].todo \ {q} /\ r.mid = m
    BY <1>0, <2>2 DEF Tunnel
  <2> HIDE DEF r
  <2>4. PlaceFine(r)
    BY <1>0, <2>1, <2>2, <2>3 DEF PlaceFine, Serving, Places
  <2>5. CountedOf(r) \subseteq CountedOf(tun[t])
    BY <2>1, <2>2, <2>3 DEF CountedOf
  <2>6. EntriesOf(r) = EntriesOf(tun[t]) \ {q}
    BY <2>1, <2>3 DEF EntriesOf
  <2>7. OneOpen'
    BY <1>0, <2>1, <2>3, OpensNone DEF Places
  <2>8. CountCovers'
    BY <2>1, <2>3, <2>5, CountsNone
  <2>9. nets' \subseteq Networks \X Tunnels /\ \A e \in nets' : IF e[2] = t THEN e[1] \in EntriesOf(r) ELSE e \in nets
    <3>1. ASSUME NEW e \in nets', e[2] = t PROVE e[1] # q
      <4>1. e \in Networks \X Tunnels /\ e # <<q, t>>
        BY <1>0, <2>1
      <4>2. e = <<e[1], e[2]>>
        BY <4>1
      <4>3. QED
        BY <3>1, <4>1, <4>2
    <3>2. QED
      BY <1>0, <1>n, <2>1, <2>6, <3>1
  <2>10. \A p \in Peers : hosts[p] = t => r.at \in Serving /\ r.peer = p
    BY <1>h, <2>3
  <2>11. r.at \notin {"attaching", "serving"}
    BY <2>1, <2>3
  <2>12. QED
    BY <1>0, <2>1, <2>3, <2>4, <2>7, <2>8, <2>9, <2>10, <2>11, OneTunnel
<1>7. ASSUME NEW q \in Networks, AddPeerRoute(t, q) \/ DelPeerRoute(t, q) PROVE HubIInv'
  <2> DEFINE r == [tun[t] EXCEPT !.mid = {}]
  <2>1. /\ tun[t].at \in {"attaching", "detaching"} /\ q \in tun[t].mid /\ tun' = [tun EXCEPT ![t] = r]
        /\ UNCHANGED <<holder, closing, hosts, nets>>
    BY <1>0, <1>7 DEF AddPeerRoute, DelPeerRoute
  <2>2. /\ r \in Tunnel /\ r.at = tun[t].at /\ r.peer = tun[t].peer /\ r.cfg = tun[t].cfg /\ r.open = tun[t].open
        /\ r.seen = tun[t].seen /\ r.todo = tun[t].todo /\ r.mid = {}
    BY <1>0 DEF Tunnel
  <2> HIDE DEF r
  <2>3. PlaceFine(r)
    BY <1>0, <2>1, <2>2 DEF PlaceFine, Serving, Places
  <2>4. tun[t].mid = {q} /\ q \in tun[t].seen.networks /\ q \notin tun[t].todo
    BY <1>0, <2>1 DEF PlaceFine, Serving
  <2>5. EntriesOf(r) = EntriesOf(tun[t])
    BY <2>1, <2>2 DEF EntriesOf
  <2>6. OneOpen'
    BY <1>0, <2>1, <2>2, OpensNone DEF Places
  <2>7. \A e \in nets : IF e[2] = t THEN e[1] \in EntriesOf(r) ELSE e \in nets
    BY <1>n, <2>5
  <2>8. \A p \in Peers : hosts[p] = t => r.at \in Serving /\ r.peer = p
    BY <1>h, <2>2
  <2>s. r.at \in {"attaching", "serving"} /\ r.open /\ r.peer \notin removed => r.seen = snap[r.peer]
    BY <1>0, <2>2
  <2>9. CASE AddPeerRoute(t, q)
    <3>1. tun[t].at = "attaching" /\ count' = [count EXCEPT ![q] = @ + 1]
          /\ kernel' = (IF count[q] = 0 THEN kernel \cup {q} ELSE kernel)
      BY <2>9 DEF AddPeerRoute
    <3>2. CountedOf(r) = CountedOf(tun[t]) \cup {q} /\ q \notin CountedOf(tun[t])
      BY <2>2, <2>4, <3>1 DEF CountedOf
    <3>3. CountCovers'
      <4> SUFFICES ASSUME NEW x \in Networks
                   PROVE  Cardinality(RouteHolders(x)') <= count'[x] /\ (count'[x] > 0 => x \in kernel')
        BY DEF CountCovers
      <4>1. CASE x = q
        <5>1. RouteHolders(x)' = RouteHolders(x) \cup {t} /\ t \notin RouteHolders(x)
          <6>1. t \notin RouteHolders(x)
            BY <3>2, <4>1 DEF RouteHolders
          <6>2. RouteHolders(x)' = (RouteHolders(x) \ {t}) \cup (IF x \in CountedOf(r) THEN {t} ELSE {})
            BY <2>1, <2>2, OneHolder
          <6>3. QED
            BY <3>2, <4>1, <6>1, <6>2
        <5>2. Cardinality(RouteHolders(x)') = Cardinality(RouteHolders(x)) + 1
          BY <2>1, <2>2, <5>1, OneHolder, FS_AddElement
        <5>3. count'[x] = count[x] + 1
          BY <1>0, <3>1, <4>1
        <5>4. /\ Cardinality(RouteHolders(x)) <= count[x] /\ count[x] \in Nat /\ Cardinality(RouteHolders(x)) \in Nat
              /\ count[x] > 0 => x \in kernel
          BY <2>1, <2>2, OneHolder
        <5>5. Cardinality(RouteHolders(x)') <= count'[x]
          BY <5>2, <5>3, <5>4
        <5>6. x \in kernel'
          BY <3>1, <4>1, <5>4
        <5>7. QED
          BY <5>5, <5>6
      <4>2. CASE x # q
        <5>1. RouteHolders(x)' = RouteHolders(x)
          <6>1. t \in RouteHolders(x) <=> x \in CountedOf(r)
            BY <3>2, <4>2 DEF RouteHolders
          <6>2. RouteHolders(x)' = (RouteHolders(x) \ {t}) \cup (IF x \in CountedOf(r) THEN {t} ELSE {})
            BY <2>1, <2>2, OneHolder
          <6>3. QED
            BY <6>1, <6>2
        <5>2. count'[x] = count[x] /\ kernel \subseteq kernel'
          BY <1>0, <3>1, <4>2
        <5>3. Cardinality(RouteHolders(x)) <= count[x] /\ (count[x] > 0 => x \in kernel)
          BY <2>1, <2>2, OneHolder
        <5>4. QED
          BY <5>1, <5>2, <5>3
      <4>3. QED
        BY <4>1, <4>2
    <3>4. count' \in [Networks -> Nat] /\ kernel' \subseteq Networks
      BY <1>0, <3>1
    <3>5. QED
      BY <1>0, <2>1, <2>2, <2>3, <2>6, <2>7, <2>8, <2>s, <3>3, <3>4, OneTunnel
  <2>10. CASE DelPeerRoute(t, q)
    <3> DEFINE left == count[q] - 1
    <3>1. tun[t].at = "detaching" /\ count' = [count EXCEPT ![q] = IF left > 0 THEN left ELSE 0]
          /\ kernel' = (IF left > 0 THEN kernel ELSE kernel \ {q})
      BY <2>10 DEF DelPeerRoute
    <3>2. CountedOf(r) = CountedOf(tun[t]) \ {q} /\ q \in CountedOf(tun[t])
      BY <2>2, <2>4, <3>1 DEF CountedOf
    <3>3. CountCovers'
      <4> SUFFICES ASSUME NEW x \in Networks
                   PROVE  Cardinality(RouteHolders(x)') <= count'[x] /\ (count'[x] > 0 => x \in kernel')
        BY DEF CountCovers
      <4>1. CASE x = q
        <5>1. RouteHolders(x)' = RouteHolders(x) \ {t} /\ t \in RouteHolders(x)
          <6>1. t \in RouteHolders(x)
            BY <3>2, <4>1 DEF RouteHolders
          <6>2. RouteHolders(x)' = (RouteHolders(x) \ {t}) \cup (IF x \in CountedOf(r) THEN {t} ELSE {})
            BY <2>1, <2>2, OneHolder
          <6>3. QED
            BY <3>2, <4>1, <6>1, <6>2
        <5>2. Cardinality(RouteHolders(x)') = Cardinality(RouteHolders(x)) - 1
          BY <2>1, <2>2, <5>1, OneHolder, FS_RemoveElement
        <5>3. count'[x] = IF left > 0 THEN left ELSE 0
          BY <1>0, <3>1, <4>1
        <5>4. /\ Cardinality(RouteHolders(x)) <= count[x] /\ count[x] \in Nat /\ Cardinality(RouteHolders(x)) \in Nat
              /\ count[x] > 0 => x \in kernel
          BY <2>1, <2>2, OneHolder
        <5>5. Cardinality(RouteHolders(x)') <= count'[x]
          BY <4>1, <5>2, <5>3, <5>4
        <5>6. ASSUME count'[x] > 0 PROVE x \in kernel'
          <6>1. left > 0
            BY <5>3, <5>6
          <6>2. count[x] > 0
            BY <4>1, <5>4, <6>1
          <6>3. QED
            BY <3>1, <5>4, <6>1, <6>2
        <5>7. QED
          BY <5>5, <5>6
      <4>2. CASE x # q
        <5>1. RouteHolders(x)' = RouteHolders(x)
          <6>1. t \in RouteHolders(x) <=> x \in CountedOf(r)
            BY <3>2, <4>2 DEF RouteHolders
          <6>2. RouteHolders(x)' = (RouteHolders(x) \ {t}) \cup (IF x \in CountedOf(r) THEN {t} ELSE {})
            BY <2>1, <2>2, OneHolder
          <6>3. QED
            BY <6>1, <6>2
        <5>2. count'[x] = count[x] /\ (x \in kernel => x \in kernel')
          BY <1>0, <3>1, <4>2
        <5>3. Cardinality(RouteHolders(x)) <= count[x] /\ (count[x] > 0 => x \in kernel)
          BY <2>1, <2>2, OneHolder
        <5>4. QED
          BY <5>1, <5>2, <5>3
      <4>3. QED
        BY <4>1, <4>2
    <3>4. count' \in [Networks -> Nat] /\ kernel' \subseteq Networks
      <4>1. (IF left > 0 THEN left ELSE 0) \in Nat
        BY <1>0
      <4>2. QED
        BY <1>0, <3>1, <4>1
    <3>5. QED
      BY <1>0, <2>1, <2>2, <2>3, <2>6, <2>7, <2>8, <2>s, <3>3, <3>4, OneTunnel
  <2>11. QED
    BY <1>7, <2>9, <2>10
<1>8. QED
  BY <1>1, <1>2, <1>3, <1>4, <1>5, <1>6, <1>7

\* The control loop's steps.
LEMMA ControlSteps ==
  ASSUME HubIInv, (\E new \in Snapshots : Store(new)) \/ (\E p \in Peers : CloseDevice(p)) \/ Ages \/ Touch
  PROVE  HubIInv'
<1> USE HubAssumption
<1>0. /\ tun \in [Tunnels -> Tunnel] /\ snap \in [Peers -> Records \cup {None}]
      /\ \A t \in Tunnels : PlaceFine(tun[t])
  BY DEF HubIInv, HubTypeOK, Tunnel, PlaceOK, Records
<1>1. ASSUME NEW new \in Snapshots, Store(new) PROVE HubIInv'
  <2>1. /\ snap' = new /\ stale' = FALSE /\ stores' = stores + 1 /\ stores < MaxStores /\ removed = {}
        /\ removed' = {p \in Peers : snap[p] # None /\ new[p] # snap[p]}
        /\ UNCHANGED <<tun, closing, hosts, nets, count, kernel>>
    BY <1>1 DEF Store, table
  <2>2. stores' \in 0 .. MaxStores
    BY <2>1 DEF HubIInv, HubTypeOK
  <2>3. HubTypeOK'
    BY <2>1, <2>2 DEF HubIInv, HubTypeOK, Tracked
  <2>4. NoneServedByOldRecord'
    <3> SUFFICES ASSUME NEW t \in Tunnels, tun[t].at \in {"attaching", "serving"}, tun[t].open, tun[t].peer \notin removed'
                 PROVE  tun[t].seen = new[tun[t].peer]
      BY <2>1 DEF NoneServedByOldRecord
    <3>1. tun[t].seen = snap[tun[t].peer]
      BY <2>1 DEF HubIInv, NoneServedByOldRecord
    <3>2. tun[t].seen # None /\ tun[t].peer \in Peers
      BY <1>0 DEF PlaceFine, Serving, Places, Records
    <3>3. QED
      BY <2>1, <3>1, <3>2
  <2>5. PlaceOK' /\ EntriesOK' /\ HostsOK' /\ OneOpen'
    BY <2>1 DEF HubIInv, PlaceOK, EntriesOK, HostsOK, OneOpen, OfDevice, Tracked
  <2>6. CountCovers'
    BY <2>1 DEF HubIInv, CountCovers, RouteHolders
  <2>7. QED
    BY <2>3, <2>4, <2>5, <2>6 DEF HubIInv
<1>2. ASSUME NEW p \in Peers, CloseDevice(p) PROVE HubIInv'
  <2>1. /\ removed' = removed \ {p} /\ UNCHANGED <<snap, stale, stores, closing, hosts, nets, count, kernel>>
        /\ tun' = [t \in Tunnels |-> IF t \in OfDevice(p) THEN [tun[t] EXCEPT !.open = FALSE] ELSE tun[t]]
    BY <1>2 DEF CloseDevice, table
  <2>2. ASSUME NEW t \in Tunnels
        PROVE  /\ tun'[t] \in Tunnel /\ tun'[t].at = tun[t].at /\ tun'[t].peer = tun[t].peer
               /\ tun'[t].cfg = tun[t].cfg /\ tun'[t].seen = tun[t].seen
               /\ tun'[t].todo = tun[t].todo /\ tun'[t].mid = tun[t].mid
               /\ tun'[t].open => tun[t].open /\ t \notin OfDevice(p)
    <3>1. CASE t \in OfDevice(p)
      <4>1. tun'[t] = [tun[t] EXCEPT !.open = FALSE] /\ tun[t] \in Tunnel
        BY <1>0, <2>1, <3>1
      <4>2. QED
        BY <4>1 DEF Tunnel
    <3>2. CASE t \notin OfDevice(p)
      BY <1>0, <2>1, <3>2
    <3>3. QED
      BY <3>1, <3>2
  <2>3. tun' \in [Tunnels -> Tunnel]
    BY <2>1, <2>2
  <2>4. PlaceOK'
    BY <1>0, <2>2 DEF PlaceOK, PlaceFine
  <2>5. HubTypeOK'
    <3>1. \A t \in Tracked' : tun'[t].cfg # None
      BY <2>4 DEF PlaceOK, PlaceFine, Tracked
    <3>2. QED
      BY <2>1, <2>3, <3>1 DEF HubIInv, HubTypeOK, Tunnel
  <2>6. \A t \in Tunnels : EntriesOf(tun'[t]) = EntriesOf(tun[t]) /\ CountedOf(tun'[t]) = CountedOf(tun[t])
    BY <2>2 DEF EntriesOf, CountedOf
  <2>7. EntriesOK'
    <3> SUFFICES ASSUME NEW e \in nets PROVE e[1] \in EntriesOf(tun'[e[2]])
      BY <2>1 DEF EntriesOK, EntriesOf
    <3>1. e[2] \in Tunnels
      BY DEF HubIInv, HubTypeOK
    <3>2. QED
      BY <2>6, <3>1 DEF HubIInv, EntriesOK
  <2>8. CountCovers'
    <3>1. \A q \in Networks : RouteHolders(q)' = RouteHolders(q)
      BY <2>6 DEF RouteHolders, CountedOf
    <3>2. QED
      BY <2>1, <3>1 DEF HubIInv, CountCovers
  <2>9. HostsOK'
    BY <2>1, <2>2 DEF HubIInv, HubTypeOK, HostsOK
  <2>10. OneOpen'
    <3>1. ASSUME NEW x \in Peers, NEW t \in OfDevice(x)' PROVE t \in Tunnels /\ t \in OfDevice(x)
      BY <2>2, <3>1 DEF OfDevice, Tracked
    <3>2. QED
      BY <2>1, <2>2, <3>1 DEF HubIInv, OneOpen
  <2>11. NoneServedByOldRecord'
    <3> SUFFICES ASSUME NEW t \in Tunnels, tun'[t].at \in {"attaching", "serving"}, tun'[t].open, tun'[t].peer \notin removed'
                 PROVE  tun'[t].seen = snap'[tun'[t].peer]
      BY DEF NoneServedByOldRecord
    <3>1. tun[t].peer # p
      BY <2>2 DEF OfDevice, Tracked, Places
    <3>2. QED
      BY <2>1, <2>2, <3>1 DEF HubIInv, NoneServedByOldRecord
  <2>12. QED
    BY <2>4, <2>5, <2>7, <2>8, <2>9, <2>10, <2>11 DEF HubIInv
<1>3. CASE Ages \/ Touch
  <2>1. UNCHANGED <<snap, removed, tun, closing, hosts, nets, count, kernel>> /\ stale' \in BOOLEAN
    BY <1>3 DEF Ages, Touch, table
  <2>2. stores' \in 0 .. MaxStores
    BY <1>3 DEF Ages, Touch, HubIInv, HubTypeOK
  <2>3. HubTypeOK'
    BY <2>1, <2>2 DEF HubIInv, HubTypeOK, Tracked
  <2>4. PlaceOK' /\ EntriesOK' /\ HostsOK' /\ OneOpen' /\ NoneServedByOldRecord'
    BY <2>1 DEF HubIInv, PlaceOK, EntriesOK, HostsOK, OneOpen, OfDevice, Tracked, NoneServedByOldRecord
  <2>5. CountCovers'
    BY <2>1 DEF HubIInv, CountCovers, RouteHolders
  <2>6. QED
    BY <2>3, <2>4, <2>5 DEF HubIInv
<1>4. QED
  BY <1>1, <1>2, <1>3

\* For any number of devices, networks, tunnels and snapshots: an open tunnel
\* is served by the record the hub has now, what it serves is routed, nothing
\* forwards to a tunnel that ended, and of a device's tunnels one at most is
\* open and not about to be closed (hub.go, server.go, node.go applyDiff).
THEOREM HubSound == HubSpec => []HubInv
<1>1. HubIInv /\ [HubNext]_hubVars => HubIInv'
  <2> SUFFICES ASSUME HubIInv, [HubNext]_hubVars PROVE HubIInv'
    OBVIOUS
  <2>1. CASE HubNext
    BY <2>1, QuietSteps, TableSteps, ControlSteps DEF HubNext, Step
  <2>2. CASE UNCHANGED hubVars
    <3>1. UNCHANGED <<snap, stale, stores, removed, tun, closing, hosts, nets, count, kernel>>
      BY <2>2 DEF hubVars
    <3>2. HubTypeOK' /\ PlaceOK' /\ EntriesOK' /\ HostsOK' /\ OneOpen' /\ NoneServedByOldRecord'
      BY <3>1 DEF HubIInv, HubTypeOK, PlaceOK, EntriesOK, HostsOK, OneOpen, OfDevice, Tracked, NoneServedByOldRecord
    <3>3. CountCovers'
      BY <3>1 DEF HubIInv, CountCovers, RouteHolders
    <3>4. QED
      BY <3>2, <3>3 DEF HubIInv
  <2>3. QED
    BY <2>1, <2>2
<1>2. QED
  BY <1>1, InitHub, HubIInvIsEnough, PTL DEF HubSpec

-----------------------------------------------------------------------------
(***************************************************************************)
(* StreamLink.  The mutex is held by whoever writes because every holder   *)
(* takes it when it is free; nothing is queued once the end was reported   *)
(* because the loop that queues has ended by then.                         *)
(***************************************************************************)
Arrives == arriving \in Seq({Packet, Foreign, Bye}) /\ sent \in 0 .. MaxSent

Reading ==
  /\ loop \in {"read", "queue", "done"} /\ owner \in {"reads", "failed", "left"}
  /\ in \in 0 .. QueueLen
  /\ owner = "failed" => loop = "done" /\ in = 0

Flags ==
  /\ reads \in BOOLEAN /\ conn \in BOOLEAN /\ fresh \in BOOLEAN /\ stop \in BOOLEAN
  /\ out \in 0 .. QueueLen
  /\ closeErr \in {Nobody, "local", "remote"}

Mutex ==
  /\ closer \in [Closers -> {"none", "called", "marked", "expired", "locked", "waiting", "returned"}]
  /\ wmu = "writer" <=> writer = "writing"
  /\ wmu = "keeper" <=> keeper = "writing"
  /\ \A c \in Closers : wmu = c <=> closer[c] = "locked"

LinkIInv == Arrives /\ Reading /\ Flags /\ Mutex

\* What a step does to the stream of the peer.
LEMMA ArrivesStep == ASSUME LinkIInv, LinkNext PROVE Arrives'
<1> USE LinkAssumption DEF LinkIInv, Arrives
<1>1. ASSUME NEW x \in {Packet, Foreign, Bye}, PeerSends(x) PROVE Arrives'
  <2>1. arriving' = Append(arriving, x) /\ sent' = sent + 1 /\ sent < MaxSent
    BY <1>1 DEF PeerSends
  <2>2. sent' \in 0 .. MaxSent
    BY <2>1
  <2>3. arriving' \in Seq({Packet, Foreign, Bye})
    BY <2>1
  <2>4. QED
    BY <2>2, <2>3
<1>2. CASE ReadDatagram \/ Skip
  <2>1. arriving' = Tail(arriving) /\ arriving # <<>> /\ sent' = sent
    BY <1>2 DEF ReadDatagram, Skip
  <2>2. Tail(arriving) \in Seq({Packet, Foreign, Bye})
    BY <2>1
  <2>3. QED
    BY <2>1, <2>2
<1>3. CASE ReadClose \/ StreamFails \/ QueueStopped
  <2>1. arriving' = <<>> /\ sent' = sent
    BY <1>3 DEF ReadClose, StreamFails, QueueStopped, Leave
  <2>2. <<>> \in Seq({Packet, Foreign, Bye})
    OBVIOUS
  <2>3. QED
    BY <2>1, <2>2
<1>4. ASSUME UNCHANGED <<arriving, sent>> PROVE Arrives'
  BY <1>4
<1>5. CASE PeerStopsReading \/ OwnerLeaves \/ QueuePacket \/ ReadPacket \/ ReadEnds \/ WritePacket \/ WriteLoop
           \/ KeeperTicks \/ KeepAliveLoop \/ DeadlinePasses
  BY <1>4, <1>5 DEF PeerStopsReading, OwnerLeaves, QueuePacket, ReadPacket, ReadEnds, WritePacket, WriteLoop, KeeperTicks,
     KeepAliveLoop, DeadlinePasses, WriterTakes, WriterLocks, WriterWrites, WriterFails, WriterStops,
     KeeperLocks, KeeperWrites, KeeperStops, peerVars
<1>6. ASSUME NEW c \in Closers, CloseCalled(c) \/ CloseStep(c) \/ CloseLocks(c) PROVE Arrives'
  BY <1>4, <1>6 DEF CloseCalled, CloseStep, CloseLocks, CloseBegins, CloseExpires, CloseSends, CloseFollows,
     CloseReturns, peerVars
<1>7. QED
  BY <1>1, <1>2, <1>3, <1>5, <1>6 DEF LinkNext, ReadLoop

\* What a step does to the read loop, its queue and its reader.
LEMMA ReadingStep == ASSUME LinkIInv, LinkNext PROVE Reading'
<1> USE LinkAssumption DEF LinkIInv, Reading
<1>1. ASSUME UNCHANGED <<loop, in, owner>> PROVE Reading'
  BY <1>1
<1>2. ASSUME NEW x \in {Packet, Foreign, Bye}, PeerSends(x) PROVE Reading'
  BY <1>1, <1>2 DEF PeerSends, readVars
<1>3. CASE ReadDatagram \/ Skip \/ ReadClose \/ StreamFails \/ QueueStopped
  BY <1>3 DEF ReadDatagram, Skip, ReadClose, StreamFails, QueueStopped, Leave, readVars
<1>4. CASE QueuePacket
  BY <1>4 DEF QueuePacket
<1>5. CASE ReadPacket
  BY <1>5 DEF ReadPacket
<1>6. CASE ReadEnds \/ OwnerLeaves
  BY <1>6 DEF ReadEnds, OwnerLeaves, Done
<1>7. CASE PeerStopsReading \/ WritePacket \/ WriteLoop \/ KeeperTicks \/ KeepAliveLoop \/ DeadlinePasses
  BY <1>1, <1>7 DEF PeerStopsReading, WritePacket, WriteLoop, KeeperTicks,
     KeepAliveLoop, DeadlinePasses, WriterTakes, WriterLocks, WriterWrites, WriterFails, WriterStops,
     KeeperLocks, KeeperWrites, KeeperStops, readVars
<1>8. ASSUME NEW c \in Closers, CloseCalled(c) \/ CloseStep(c) \/ CloseLocks(c) PROVE Reading'
  BY <1>1, <1>8 DEF CloseCalled, CloseStep, CloseLocks, CloseBegins, CloseExpires, CloseSends, CloseFollows,
     CloseReturns, readVars
<1>9. QED
  BY <1>2, <1>3, <1>4, <1>5, <1>6, <1>7, <1>8 DEF LinkNext, ReadLoop

\* What a step does to the flags and the queue of the write loop.
LEMMA FlagsStep == ASSUME LinkIInv, LinkNext PROVE Flags'
<1> USE LinkAssumption DEF LinkIInv, Flags
<1>1. out' \in 0 .. QueueLen
  <2>1. ASSUME UNCHANGED out PROVE out' \in 0 .. QueueLen
    BY <2>1
  <2>2. CASE WritePacket
    BY <2>2 DEF WritePacket
  <2>3. CASE WriterTakes
    BY <2>3 DEF WriterTakes
  <2>4. ASSUME NEW x \in {Packet, Foreign, Bye}, PeerSends(x) PROVE UNCHANGED out
    BY <2>4 DEF PeerSends, writeVars
  <2>5. CASE PeerStopsReading \/ OwnerLeaves \/ ReadLoop \/ ReadPacket \/ ReadEnds
    BY <2>1, <2>5 DEF PeerStopsReading, OwnerLeaves, ReadLoop, ReadPacket, ReadEnds, ReadDatagram, Skip, ReadClose,
       StreamFails, QueuePacket, QueueStopped, writeVars
  <2>6. CASE WriterLocks \/ WriterWrites \/ WriterFails \/ WriterStops \/ KeeperTicks \/ KeepAliveLoop \/ DeadlinePasses
    BY <2>1, <2>6 DEF WriterLocks, WriterWrites, WriterFails, WriterStops, KeeperTicks, KeepAliveLoop, KeeperLocks,
       KeeperWrites, KeeperStops, DeadlinePasses, writeVars
  <2>7. ASSUME NEW c \in Closers, CloseCalled(c) \/ CloseStep(c) \/ CloseLocks(c) PROVE UNCHANGED out
    BY <2>7 DEF CloseCalled, CloseStep, CloseLocks, CloseBegins, CloseExpires, CloseSends, CloseFollows,
       CloseReturns, writeVars
  <2>8. QED
    BY <2>1, <2>2, <2>3, <2>4, <2>5, <2>6, <2>7 DEF LinkNext, WriteLoop
<1>2. closeErr' \in {Nobody, "local", "remote"}
  BY DEF LinkNext, PeerSends, PeerStopsReading, OwnerLeaves, ReadLoop, ReadPacket, ReadEnds, ReadDatagram, Skip, ReadClose,
     StreamFails, QueuePacket, QueueStopped, WritePacket, WriteLoop, WriterTakes, WriterLocks, WriterWrites, WriterFails,
     WriterStops, KeeperTicks, KeepAliveLoop, KeeperLocks, KeeperWrites, KeeperStops, DeadlinePasses,
     CloseCalled, CloseStep, CloseLocks, CloseBegins, CloseExpires, CloseSends, CloseFollows, CloseReturns
<1>3. reads' \in BOOLEAN /\ conn' \in BOOLEAN /\ fresh' \in BOOLEAN /\ stop' \in BOOLEAN
  BY DEF LinkNext, PeerSends, PeerStopsReading, OwnerLeaves, ReadLoop, ReadPacket, ReadEnds, ReadDatagram, Skip, ReadClose,
     StreamFails, QueuePacket, QueueStopped, WritePacket, WriteLoop, WriterTakes, WriterLocks, WriterWrites, WriterFails,
     WriterStops, KeeperTicks, KeepAliveLoop, KeeperLocks, KeeperWrites, KeeperStops, DeadlinePasses,
     CloseCalled, CloseStep, CloseLocks, CloseBegins, CloseExpires, CloseSends, CloseFollows, CloseReturns,
     Leave, Unlocks, peerVars
<1>4. QED
  BY <1>1, <1>2, <1>3

\* What a step does to the write mutex.
LEMMA MutexStep == ASSUME LinkIInv, LinkNext PROVE Mutex'
<1> USE LinkAssumption DEF LinkIInv, Mutex
<1>1. ASSUME UNCHANGED <<closer, wmu, writer, keeper>> PROVE Mutex'
  BY <1>1
<1>2. ASSUME NEW x \in {Packet, Foreign, Bye}, PeerSends(x) PROVE Mutex'
  BY <1>1, <1>2 DEF PeerSends, writeVars
<1>3. CASE PeerStopsReading \/ OwnerLeaves \/ ReadLoop \/ ReadPacket \/ ReadEnds \/ WritePacket \/ DeadlinePasses
  BY <1>1, <1>3 DEF PeerStopsReading, OwnerLeaves, ReadLoop, ReadPacket, ReadEnds, ReadDatagram, Skip, ReadClose,
     StreamFails, QueuePacket, QueueStopped, WritePacket, DeadlinePasses, writeVars
<1>4. CASE WriteLoop
  BY <1>4 DEF WriteLoop, WriterTakes, WriterLocks, WriterWrites, WriterFails, WriterStops, Unlocks
<1>5. CASE KeeperTicks \/ KeepAliveLoop
  BY <1>5 DEF KeeperTicks, KeepAliveLoop, KeeperLocks, KeeperWrites, KeeperStops, Unlocks
<1>6. ASSUME NEW c \in Closers, CloseCalled(c) \/ CloseBegins(c) \/ CloseExpires(c) \/ CloseFollows(c) \/ CloseReturns(c)
      PROVE  Mutex'
  <2>1. PICK x \in {"called", "marked", "expired", "waiting", "returned"} : closer' = [closer EXCEPT ![c] = x]
    BY <1>6 DEF CloseCalled, CloseBegins, CloseExpires, CloseFollows, CloseReturns
  <2>2. closer[c] # "locked" /\ UNCHANGED <<wmu, writer, keeper>>
    BY <1>6 DEF CloseCalled, CloseBegins, CloseExpires, CloseFollows, CloseReturns, writeVars
  <2>3. QED
    BY <2>1, <2>2
<1>7. ASSUME NEW c \in Closers, CloseLocks(c) PROVE Mutex'
  <2>1. wmu = Nobody /\ wmu' = c /\ closer' = [closer EXCEPT ![c] = "locked"] /\ UNCHANGED <<writer, keeper>>
    BY <1>7 DEF CloseLocks, writeVars
  <2>2. QED
    BY <2>1
<1>8. ASSUME NEW c \in Closers, CloseSends(c) PROVE Mutex'
  <2>1. closer[c] = "locked" /\ wmu' = Nobody /\ closer' = [closer EXCEPT ![c] = "waiting"] /\ UNCHANGED <<writer, keeper>>
    BY <1>8 DEF CloseSends, Unlocks, writeVars
  <2>2. QED
    BY <2>1
<1>9. QED
  BY <1>2, <1>3, <1>4, <1>5, <1>6, <1>7, <1>8 DEF LinkNext, CloseStep

\* However many goroutines close the link and whatever the peer does: the
\* write mutex has one holder, the queues keep to their length, and ReadPacket
\* reports the end only when every queued packet was taken (capsule.go).
THEOREM LinkSound == LinkSpec => []LinkInv
<1>1. LinkInit => LinkIInv
  <2> SUFFICES ASSUME LinkInit PROVE LinkIInv
    OBVIOUS
  <2> USE LinkAssumption DEF LinkInit
  <2>1. 0 \in 0 .. MaxSent /\ 0 \in 0 .. QueueLen
    OBVIOUS
  <2>2. Arrives /\ Reading /\ Flags
    <3>1. Arrives
      BY <2>1 DEF Arrives
    <3>2. Reading
      BY <2>1 DEF Reading
    <3>3. Flags
      BY <2>1 DEF Flags
    <3>4. QED
      BY <3>1, <3>2, <3>3
  <2>3. Mutex
    BY DEF Mutex
  <2>4. QED
    BY <2>2, <2>3 DEF LinkIInv
<1>2. LinkIInv /\ [LinkNext]_linkVars => LinkIInv'
  <2> SUFFICES ASSUME LinkIInv, [LinkNext]_linkVars PROVE LinkIInv'
    OBVIOUS
  <2>1. CASE LinkNext
    BY <2>1, ArrivesStep, ReadingStep, FlagsStep, MutexStep DEF LinkIInv
  <2>2. CASE UNCHANGED linkVars
    BY <2>2 DEF linkVars, peerVars, readVars, writeVars, LinkIInv, Arrives, Reading, Flags, Mutex
  <2>3. QED
    BY <2>1, <2>2
<1>3. LinkIInv => LinkInv
  BY DEF LinkIInv, Arrives, Reading, Flags, Mutex, LinkInv, LinkTypeOK, QueuedIsRead
<1>4. QED
  BY <1>1, <1>2, <1>3, PTL DEF LinkSpec

-----------------------------------------------------------------------------
(***************************************************************************)
(* RelayStreams.  A slot and its dialer name each other, so that a port is *)
(* held by one dialer and giving it back frees it; an entry of the table   *)
(* is an open stream of its device.                                        *)
(***************************************************************************)
Listening == [at : {"none", "granted", "open", "gone"}, owner : Devices \cup {NoStream},
              cancelled : BOOLEAN, dialers : [Ports -> Dials \cup {NoStream}], next : Ports]

Dialing == [at : {"none", "granted", "picked", "open", "gone"}, owner : Devices \cup {NoStream},
            cancelled : BOOLEAN, target : Devices \cup {NoStream},
            on : Listens \cup {NoStream}, port : Ports]

RelayTypes ==
  /\ approved \subseteq Devices
  /\ listeners \in [Devices -> Listens \cup {NoStream}]
  /\ listen \in [Listens -> Listening]
  /\ dial \in [Dials -> Dialing]

EntryIsOpen ==
  \A a \in Devices : listeners[a] # NoStream => listen[listeners[a]].at = "open" /\ listen[listeners[a]].owner = a

\* What a stream knows by its place.
KnowsEnds ==
  /\ \A s \in Listens : listen[s].at # "none" => listen[s].owner \in Devices
  /\ \A d \in Dials :
       /\ dial[d].at \in {"granted", "picked", "open"} => dial[d].owner \in Devices /\ dial[d].target \in Devices
       /\ dial[d].at \in {"picked", "open"} => dial[d].on \in Listens
       /\ dial[d].at = "open" => dial[d].port >= MinPort

SlotHasDialer ==
  \A s \in Listens : \A q \in Ports :
    LET d == listen[s].dialers[q] IN
    d # NoStream => dial[d].at = "open" /\ dial[d].on = s /\ dial[d].port = q

RelayIInv ==
  /\ RelayTypes
  /\ EntryIsOpen
  /\ KnowsEnds
  /\ SlotHasDialer
  /\ PortIsHeld
  /\ SlotsBounded
  /\ NoOrphanDialer
  /\ ListenerIsFound

\* The slots of a listener that one node holds.
SlotsOf(s, a) == {q \in Slots(s) : dial[listen[s].dialers[q]].owner = a}

\* A set of naturals has a least element.
LEMMA LeastIndex == ASSUME NEW T \in SUBSET Nat, T # {} PROVE \E x \in T : \A y \in T : x <= y
<1>1. PICK x \in T : \A y \in T : ~ (<<y, x>> \in OpToRel(<, Nat))
  BY NatLessThanWellFounded, WFMin, Zenon
<1>2. \A y \in T : ~ (y < x)
  BY <1>1 DEF OpToRel
<1>3. QED
  BY <1>2

\* The slots of a listener can be counted.
LEMMA SlotsFinite ==
  ASSUME NEW s
  PROVE  /\ IsFiniteSet(Slots(s)) /\ Cardinality(Slots(s)) \in Nat
         /\ \A a : IsFiniteSet(SlotsOf(s, a)) /\ Cardinality(SlotsOf(s, a)) \in Nat
<1>1. IsFiniteSet(Ports)
  BY RelayAssumption, FS_Interval DEF Ports
<1>2. Slots(s) \subseteq Ports /\ \A a : SlotsOf(s, a) \subseteq Ports
  BY DEF Slots, SlotsOf
<1>3. IsFiniteSet(Slots(s)) /\ \A a : IsFiniteSet(SlotsOf(s, a))
  BY <1>1, <1>2, FS_Subset
<1>4. QED
  BY <1>3, FS_CardinalityType

\* While there is room a port is free, and NextPort finds one: at or above
\* MinPort, also when the counter has to wrap to get there.
LEMMA FreePort ==
  ASSUME NEW s \in Listens, listen[s] \in Listening, Cardinality(Slots(s)) < MaxDialers
  PROVE  NextPort(s) \in Ports /\ NextPort(s) >= MinPort /\ listen[s].dialers[NextPort(s)] = NoStream
<1> USE RelayAssumption
<1> DEFINE Tried(i) == (listen[s].next + i) % Width
           Free(q) == q >= MinPort /\ listen[s].dialers[q] = NoStream
           First(i) == Free(Tried(i)) /\ \A j \in 0 .. i - 1 : ~Free(Tried(j))
<1>0. listen[s].next \in 0 .. Width - 1 /\ Width \in Nat \ {0}
  BY DEF Listening, Ports
<1>1. PICK q \in MinPort .. Width - 1 : listen[s].dialers[q] = NoStream
  <2> SUFFICES ASSUME \A q \in MinPort .. Width - 1 : listen[s].dialers[q] # NoStream PROVE FALSE
    OBVIOUS
  <2>1. MinPort .. Width - 1 \subseteq Slots(s)
    BY DEF Slots, Ports
  <2>2. Cardinality(MinPort .. Width - 1) = Width - MinPort
    BY FS_Interval
  <2>3. Cardinality(MinPort .. Width - 1) <= Cardinality(Slots(s))
    BY <2>1, SlotsFinite, FS_Subset
  <2>4. QED
    BY <2>2, <2>3, SlotsFinite
<1>2. \E i \in 0 .. 2 * Width : Free(Tried(i))
  <2>1. q % Width = q /\ (q + Width) % Width = q
    BY <1>0, <1>1
  <2>2. CASE q >= listen[s].next
    <3>1. q - listen[s].next \in 0 .. 2 * Width /\ listen[s].next + (q - listen[s].next) = q
      BY <1>0, <1>1, <2>2
    <3>2. Free(Tried(q - listen[s].next))
      BY <1>1, <2>1, <3>1
    <3>3. QED
      BY <3>1, <3>2
  <2>3. CASE q < listen[s].next
    <3> DEFINE i == (q + Width) - listen[s].next
    <3>1. i \in 0 .. 2 * Width /\ listen[s].next + i = q + Width
      BY <1>0, <1>1, <2>3
    <3>2. Free(Tried(i))
      BY <1>1, <2>1, <3>1
    <3>3. QED
      BY <3>1, <3>2
  <2>4. QED
    BY <1>0, <1>1, <2>2, <2>3
<1>3. \E i \in 0 .. 2 * Width : First(i)
  <2> DEFINE T == {i \in 0 .. 2 * Width : Free(Tried(i))}
  <2>1. T \in SUBSET Nat /\ T # {}
    BY <1>2
  <2>2. PICK i \in T : \A j \in T : i <= j
    BY <2>1, LeastIndex
  <2>3. ASSUME NEW j \in 0 .. i - 1 PROVE ~Free(Tried(j))
    <3>1. j \in 0 .. 2 * Width /\ ~(i <= j)
      BY <2>2
    <3>2. QED
      BY <2>2, <3>1
  <2>4. QED
    BY <2>2, <2>3
<1> DEFINE c == CHOOSE i \in 0 .. 2 * Width : First(i)
<1>4. c \in 0 .. 2 * Width /\ First(c)
  <2> HIDE DEF First
  <2>1. QED
    BY <1>3
<1>5. NextPort(s) = Tried(c)
  BY DEF NextPort
<1> HIDE DEF c
<1>6. Tried(c) \in 0 .. Width - 1
  <2>1. listen[s].next + c \in Nat
    BY <1>0, <1>4
  <2>2. QED
    BY <1>0, <2>1
<1>7. QED
  BY <1>4, <1>5, <1>6 DEF Ports

\* Slots that are only given back stay within the limits.
LEMMA FewerSlots ==
  ASSUME RelayIInv, NEW s \in Listens, Slots(s)' \subseteq Slots(s), \A a \in Devices : SlotsOf(s, a)' \subseteq SlotsOf(s, a)
  PROVE  /\ Cardinality(Slots(s)') <= MaxDialers
         /\ \A a \in Devices : Cardinality(SlotsOf(s, a)') <= MaxPerDialer
<1> USE RelayAssumption
<1>1. Cardinality(Slots(s)) <= MaxDialers /\ \A a \in Devices : Cardinality(SlotsOf(s, a)) <= MaxPerDialer
  BY DEF RelayIInv, SlotsBounded, SlotsOf
<1>2. Cardinality(Slots(s)') <= MaxDialers
  <2>1. Cardinality(Slots(s)') <= Cardinality(Slots(s)) /\ IsFiniteSet(Slots(s)')
    BY SlotsFinite, FS_Subset
  <2>2. Cardinality(Slots(s)') \in Nat /\ Cardinality(Slots(s)) \in Nat
    BY <2>1, SlotsFinite, FS_CardinalityType
  <2>3. QED
    BY <1>1, <2>1, <2>2
<1>3. ASSUME NEW a \in Devices PROVE Cardinality(SlotsOf(s, a)') <= MaxPerDialer
  <2>1. Cardinality(SlotsOf(s, a)') <= Cardinality(SlotsOf(s, a)) /\ IsFiniteSet(SlotsOf(s, a)')
    BY SlotsFinite, FS_Subset
  <2>2. Cardinality(SlotsOf(s, a)') \in Nat /\ Cardinality(SlotsOf(s, a)) \in Nat
    BY <2>1, SlotsFinite, FS_CardinalityType
  <2>3. QED
    BY <1>1, <2>1, <2>2
<1>4. QED
  BY <1>2, <1>3

\* A step that neither pairs nor parts leaves the slots right.
LEMMA SlotsKept ==
  ASSUME RelayIInv, RelayTypes',
         \A s \in Listens : listen'[s].dialers = listen[s].dialers,
         \A d \in Dials : dial'[d].at = "open" <=> dial[d].at = "open",
         \A d \in Dials : dial[d].at = "open" =>
           dial'[d].owner = dial[d].owner /\ dial'[d].on = dial[d].on /\ dial'[d].port = dial[d].port
  PROVE  SlotHasDialer' /\ PortIsHeld' /\ SlotsBounded'
<1>0. \A s \in Listens : \A q \in Ports : listen[s].dialers[q] \in Dials \cup {NoStream}
  BY DEF RelayIInv, RelayTypes, Listening
<1>1. SlotHasDialer'
  BY <1>0 DEF RelayIInv, SlotHasDialer, Ports
<1>2. PortIsHeld'
  BY DEF RelayIInv, PortIsHeld, KnowsEnds
<1>3. ASSUME NEW s \in Listens
      PROVE  Slots(s)' = Slots(s) /\ \A a \in Devices : SlotsOf(s, a)' = SlotsOf(s, a)
  <2>1. Slots(s)' = Slots(s)
    BY DEF Slots, Ports
  <2>2. \A q \in Slots(s) : dial'[listen[s].dialers[q]].owner = dial[listen[s].dialers[q]].owner
    BY <1>0 DEF RelayIInv, SlotHasDialer, Slots
  <2>3. QED
    BY <2>1, <2>2 DEF SlotsOf
<1>4. SlotsBounded'
  BY <1>3, FewerSlots DEF SlotsBounded, SlotsOf
<1>5. QED
  BY <1>1, <1>2, <1>4

\* Asking, picking and being refused: one dialer's stream that is not open.
LEMMA DialAsks ==
  ASSUME RelayIInv, NEW d \in Dials,
         (\E a, b \in Devices : AskDial(d, a, b)) \/ PickListener(d) \/ PairRefused(d) \/ DialEnds(d)
  PROVE  RelayIInv'
<1> USE RelayAssumption
<1>0. dial \in [Dials -> Dialing] /\ dial[d] \in Dialing /\ RelayTypes /\ 0 \in Ports
  BY DEF RelayIInv, RelayTypes, Ports
<1>1. ASSUME NEW r \in Dialing, dial' = [dial EXCEPT ![d] = r], UNCHANGED <<approved, listeners, listen>>,
             r.at = "open" <=> dial[d].at = "open",
             r.at = "open" => /\ r.owner = dial[d].owner /\ r.on = dial[d].on /\ r.port = dial[d].port
                              /\ r.target = dial[d].target /\ (dial[d].cancelled => r.cancelled),
             r.at \in {"granted", "picked"} => r.owner \in Devices /\ r.target \in Devices,
             r.at = "picked" => r.on \in Listens
      PROVE  RelayIInv'
  <2>1. \A e \in Dials : dial'[e] = IF e = d THEN r ELSE dial[e]
    BY <1>0, <1>1
  <2>2. RelayTypes'
    BY <1>0, <1>1, <2>1 DEF RelayTypes
  <2>3. SlotHasDialer' /\ PortIsHeld' /\ SlotsBounded'
    BY <1>1, <2>1, <2>2, SlotsKept
  <2>4. EntryIsOpen' /\ ListenerIsFound'
    BY <1>1 DEF RelayIInv, EntryIsOpen, ListenerIsFound
  <2>5. KnowsEnds'
    BY <1>1, <2>1 DEF RelayIInv, KnowsEnds
  <2>6. NoOrphanDialer'
    BY <1>1, <2>1 DEF RelayIInv, NoOrphanDialer
  <2>7. QED
    BY <2>2, <2>3, <2>4, <2>5, <2>6 DEF RelayIInv
<1>2. ASSUME NEW a \in Devices, NEW b \in Devices, AskDial(d, a, b) PROVE RelayIInv'
  <2> DEFINE r == [NoDial EXCEPT !.at = "granted", !.owner = a, !.target = b]
  <2>1. dial[d].at = "none" /\ dial' = [dial EXCEPT ![d] = r] /\ UNCHANGED <<approved, listeners, listen>>
    BY <1>2 DEF AskDial
  <2>2. r \in Dialing /\ r.at = "granted" /\ r.owner = a /\ r.target = b
    BY <1>0 DEF NoDial, Dialing
  <2> HIDE DEF r
  <2>3. QED
    BY <1>1, <2>1, <2>2
<1>3. CASE PickListener(d)
  <2> DEFINE s == listeners[dial[d].target]
             x == IF s # NoStream /\ Room(s, dial[d].owner) THEN "picked" ELSE "gone"
             r == [dial[d] EXCEPT !.at = x, !.on = s]
  <2>1. dial[d].at = "granted" /\ dial' = [dial EXCEPT ![d] = r] /\ UNCHANGED <<approved, listeners, listen>>
    BY <1>0, <1>3 DEF PickListener
  <2>2. dial[d].owner \in Devices /\ dial[d].target \in Devices
    BY <2>1 DEF RelayIInv, KnowsEnds
  <2>3. s \in Listens \cup {NoStream} /\ x \in {"picked", "gone"} /\ (x = "picked" => s # NoStream)
    BY <1>0, <2>2 DEF RelayTypes
  <2> HIDE DEF x, s
  <2>4. r \in Dialing /\ r.at = x /\ r.owner = dial[d].owner /\ r.target = dial[d].target /\ r.on = s
    BY <1>0, <2>3 DEF Dialing
  <2> HIDE DEF r
  <2>5. QED
    BY <1>1, <2>1, <2>2, <2>3, <2>4
<1>4. CASE PairRefused(d)
  <2> DEFINE r == [dial[d] EXCEPT !.at = "gone"]
  <2>1. dial[d].at = "picked" /\ dial' = [dial EXCEPT ![d] = r] /\ UNCHANGED <<approved, listeners, listen>>
    BY <1>0, <1>4 DEF PairRefused
  <2>2. r \in Dialing /\ r.at = "gone"
    BY <1>0 DEF Dialing
  <2> HIDE DEF r
  <2>3. QED
    BY <1>1, <2>1, <2>2
<1>5. CASE DialEnds(d)
  <2> DEFINE r == [dial[d] EXCEPT !.cancelled = TRUE]
  <2>1. dial[d].at = "open" /\ dial' = [dial EXCEPT ![d] = r] /\ UNCHANGED <<approved, listeners, listen>>
    BY <1>0, <1>5 DEF DialEnds
  <2>2. /\ r \in Dialing /\ r.at = dial[d].at /\ r.owner = dial[d].owner /\ r.target = dial[d].target
        /\ r.on = dial[d].on /\ r.port = dial[d].port /\ r.cancelled
    BY <1>0 DEF Dialing
  <2> HIDE DEF r
  <2>3. QED
    BY <1>1, <2>1, <2>2
<1>6. QED
  BY <1>2, <1>3, <1>4, <1>5

\* The steps of a listening stream.
LEMMA ListenSteps ==
  ASSUME RelayIInv, NEW s \in Listens,
         (\E a \in Hosts : AskListen(s, a)) \/ Listen(s) \/ ListenerLeaves(s) \/ ListenEnds(s)
  PROVE  RelayIInv'
<1> USE RelayAssumption
<1>0. /\ listen \in [Listens -> Listening] /\ dial \in [Dials -> Dialing] /\ listen[s] \in Listening
      /\ listeners \in [Devices -> Listens \cup {NoStream}] /\ RelayTypes
  BY DEF RelayIInv, RelayTypes
<1>1. CASE (\E a \in Hosts : AskListen(s, a)) \/ ListenEnds(s)
  <2>1. PICK r \in Listening :
          /\ listen' = [listen EXCEPT ![s] = r] /\ r.dialers = listen[s].dialers /\ r.next = listen[s].next
          /\ listen[s].at # "gone" /\ r.at # "gone" /\ r.owner \in Devices
          /\ listen[s].at = "open" => r.at = "open" /\ r.owner = listen[s].owner
          /\ r.at = "open" => listen[s].at = "open" /\ r.cancelled
    <3>1. ASSUME NEW a \in Hosts, AskListen(s, a)
          PROVE  \E r \in Listening :
                   /\ listen' = [listen EXCEPT ![s] = r] /\ r.dialers = listen[s].dialers /\ r.next = listen[s].next
                   /\ listen[s].at # "gone" /\ r.at # "gone" /\ r.owner \in Devices
                   /\ listen[s].at = "open" => r.at = "open" /\ r.owner = listen[s].owner
                   /\ r.at = "open" => listen[s].at = "open" /\ r.cancelled
      <4> DEFINE r == [listen[s] EXCEPT !.at = "granted", !.owner = a]
      <4>1. r \in Listening /\ r.at = "granted" /\ r.owner = a /\ r.dialers = listen[s].dialers /\ r.next = listen[s].next
        BY <1>0 DEF Listening
      <4>2. listen' = [listen EXCEPT ![s] = r] /\ listen[s].at = "none"
        BY <1>0, <3>1 DEF AskListen
      <4> HIDE DEF r
      <4>3. QED
        BY <4>1, <4>2
    <3>2. ASSUME ListenEnds(s)
          PROVE  \E r \in Listening :
                   /\ listen' = [listen EXCEPT ![s] = r] /\ r.dialers = listen[s].dialers /\ r.next = listen[s].next
                   /\ listen[s].at # "gone" /\ r.at # "gone" /\ r.owner \in Devices
                   /\ listen[s].at = "open" => r.at = "open" /\ r.owner = listen[s].owner
                   /\ r.at = "open" => listen[s].at = "open" /\ r.cancelled
      <4> DEFINE r == [listen[s] EXCEPT !.cancelled = TRUE]
      <4>1. /\ r \in Listening /\ r.at = listen[s].at /\ r.owner = listen[s].owner /\ r.cancelled
            /\ r.dialers = listen[s].dialers /\ r.next = listen[s].next
        BY <1>0 DEF Listening
      <4>2. listen' = [listen EXCEPT ![s] = r] /\ listen[s].at = "open"
        BY <1>0, <3>2 DEF ListenEnds
      <4>3. listen[s].owner \in Devices
        BY <4>2 DEF RelayIInv, KnowsEnds
      <4> HIDE DEF r
      <4>4. QED
        BY <4>1, <4>2, <4>3
    <3>3. QED
      BY <1>1, <3>1, <3>2
  <2>2. UNCHANGED <<approved, listeners, dial>>
    BY <1>1 DEF AskListen, ListenEnds
  <2>3. \A u \in Listens : listen'[u] = IF u = s THEN r ELSE listen[u]
    BY <1>0, <2>1
  <2>4. RelayTypes'
    BY <1>0, <2>1, <2>2, <2>3 DEF RelayTypes
  <2>5. SlotHasDialer' /\ PortIsHeld' /\ SlotsBounded'
    BY <2>1, <2>2, <2>3, <2>4, SlotsKept
  <2>6. EntryIsOpen'
    BY <1>0, <2>1, <2>2, <2>3 DEF RelayIInv, EntryIsOpen
  <2>7. KnowsEnds'
    BY <2>1, <2>2, <2>3 DEF RelayIInv, KnowsEnds
  <2>8. NoOrphanDialer'
    BY <2>1, <2>2, <2>3 DEF RelayIInv, NoOrphanDialer, KnowsEnds
  <2>9. ListenerIsFound'
    BY <2>1, <2>2, <2>3 DEF RelayIInv, ListenerIsFound
  <2>10. QED
    BY <2>4, <2>5, <2>6, <2>7, <2>8, <2>9 DEF RelayIInv
<1>2. CASE Listen(s)
  <2> DEFINE a == listen[s].owner
             old == listeners[a]
  <2>1. /\ listen[s].at = "granted" /\ listeners' = [listeners EXCEPT ![a] = s] /\ UNCHANGED <<approved, dial>>
        /\ listen' = [u \in Listens |-> CASE u = s -> [listen[s] EXCEPT !.at = "open"]
                                          [] u = old -> [listen[u] EXCEPT !.cancelled = TRUE]
                                          [] OTHER -> listen[u]]
    BY <1>2 DEF Listen
  <2>2. a \in Devices /\ s # old
    BY <2>1 DEF RelayIInv, KnowsEnds, EntryIsOpen
  <2> HIDE DEF old, a
  <2>3. ASSUME NEW u \in Listens
        PROVE  /\ listen'[u] \in Listening /\ listen'[u].owner = listen[u].owner
               /\ listen'[u].dialers = listen[u].dialers
               /\ listen'[u].at = IF u = s THEN "open" ELSE listen[u].at
               /\ u = old => listen'[u].cancelled
               /\ u # old => listen'[u].cancelled = listen[u].cancelled
    <3>1. CASE u = s
      <4>1. listen'[u] = [listen[s] EXCEPT !.at = "open"]
        BY <2>1, <2>2, <3>1
      <4>2. QED
        BY <1>0, <2>2, <3>1, <4>1 DEF Listening
    <3>2. CASE u = old
      <4>1. listen'[u] = [listen[u] EXCEPT !.cancelled = TRUE] /\ listen[u] \in Listening
        BY <1>0, <2>1, <2>2, <3>2
      <4>2. QED
        BY <2>2, <3>2, <4>1 DEF Listening
    <3>3. CASE u # s /\ u # old
      <4>1. listen'[u] = listen[u]
        BY <2>1, <3>3
      <4>2. QED
        BY <1>0, <3>3, <4>1
    <3>4. QED
      BY <3>1, <3>2, <3>3
  <2>4. \A x \in Devices : listeners'[x] = IF x = a THEN s ELSE listeners[x]
    BY <1>0, <2>1, <2>2
  <2>5. RelayTypes'
    BY <1>0, <2>1, <2>2, <2>3 DEF RelayTypes
  <2>6. SlotHasDialer' /\ PortIsHeld' /\ SlotsBounded'
    BY <2>1, <2>3, <2>5, SlotsKept
  <2>7. EntryIsOpen'
    <3> SUFFICES ASSUME NEW x \in Devices, listeners'[x] # NoStream
                 PROVE  listen'[listeners'[x]].at = "open" /\ listen'[listeners'[x]].owner = x
      BY DEF EntryIsOpen
    <3>1. CASE x = a
      BY <2>3, <2>4, <3>1 DEF a
    <3>2. CASE x # a
      <4>1. listeners'[x] = listeners[x] /\ listeners[x] \in Listens
        BY <1>0, <2>4, <3>2
      <4>2. listen[listeners[x]].at = "open" /\ listen[listeners[x]].owner = x
        BY <4>1 DEF RelayIInv, EntryIsOpen
      <4>3. QED
        BY <2>1, <2>3, <4>1, <4>2
    <3>3. QED
      BY <3>1, <3>2
  <2>8. KnowsEnds'
    BY <2>1, <2>2, <2>3 DEF RelayIInv, KnowsEnds, a
  <2>9. NoOrphanDialer'
    BY <2>1, <2>3 DEF RelayIInv, NoOrphanDialer, KnowsEnds
  <2>10. ListenerIsFound'
    <3> SUFFICES ASSUME NEW u \in Listens, listen'[u].at = "open", ~listen'[u].cancelled
                 PROVE  listeners'[listen'[u].owner] = u
      BY DEF ListenerIsFound
    <3>1. CASE u = s
      BY <2>2, <2>3, <2>4, <3>1 DEF a
    <3>2. CASE u # s
      <4>1. u # old /\ listen[u].at = "open" /\ ~listen[u].cancelled /\ listen'[u].owner = listen[u].owner
        BY <2>3, <3>2
      <4>2. listeners[listen[u].owner] = u /\ listen[u].owner \in Devices
        BY <4>1 DEF RelayIInv, ListenerIsFound, KnowsEnds
      <4>3. listen[u].owner # a
        BY <4>1, <4>2 DEF old
      <4>4. QED
        BY <2>4, <4>1, <4>2, <4>3
    <3>3. QED
      BY <3>1, <3>2
  <2>11. QED
    BY <2>5, <2>6, <2>7, <2>8, <2>9, <2>10 DEF RelayIInv
<1>3. CASE ListenerLeaves(s)
  <2> DEFINE a == listen[s].owner
             r == [listen[s] EXCEPT !.at = "gone"]
  <2>1. /\ listen[s].at = "open" /\ listen[s].cancelled /\ UNCHANGED approved
        /\ listeners' = (IF listeners[a] = s THEN [listeners EXCEPT ![a] = NoStream] ELSE listeners)
        /\ dial' = [d \in Dials |-> IF \E q \in Ports : listen[s].dialers[q] = d
                                    THEN [dial[d] EXCEPT !.cancelled = TRUE] ELSE dial[d]]
        /\ listen' = [listen EXCEPT ![s] = r]
    BY <1>0, <1>3 DEF ListenerLeaves
  <2>2. a \in Devices
    BY <2>1 DEF RelayIInv, KnowsEnds
  <2>3. r \in Listening /\ r.at = "gone" /\ r.owner = a /\ r.dialers = listen[s].dialers
    BY <1>0 DEF Listening
  <2> HIDE DEF r
  <2>4. \A u \in Listens : listen'[u] = IF u = s THEN r ELSE listen[u]
    BY <1>0, <2>1
  <2>5. ASSUME NEW d \in Dials
        PROVE  /\ dial'[d] \in Dialing /\ dial'[d].at = dial[d].at /\ dial'[d].owner = dial[d].owner
               /\ dial'[d].target = dial[d].target /\ dial'[d].on = dial[d].on /\ dial'[d].port = dial[d].port
               /\ dial[d].cancelled \/ (\E q \in Ports : listen[s].dialers[q] = d) => dial'[d].cancelled
    <3>1. CASE \E q \in Ports : listen[s].dialers[q] = d
      <4>1. dial'[d] = [dial[d] EXCEPT !.cancelled = TRUE] /\ dial[d] \in Dialing
        BY <1>0, <2>1, <3>1
      <4>2. QED
        BY <4>1 DEF Dialing
    <3>2. CASE ~ \E q \in Ports : listen[s].dialers[q] = d
      BY <1>0, <2>1, <3>2
    <3>3. QED
      BY <3>1, <3>2
  <2>6. \A x \in Devices : listeners'[x] = IF listeners[x] = s THEN NoStream ELSE listeners[x]
    <3>1. ASSUME NEW x \in Devices, listeners[x] = s PROVE x = a
      BY <3>1 DEF RelayIInv, EntryIsOpen
    <3>2. QED
      BY <1>0, <2>1, <2>2, <3>1
  <2>7. RelayTypes'
    BY <1>0, <2>1, <2>2, <2>3, <2>5 DEF RelayTypes
  <2>8. SlotHasDialer' /\ PortIsHeld' /\ SlotsBounded'
    BY <2>3, <2>4, <2>5, <2>7, SlotsKept
  <2>9. EntryIsOpen'
    BY <1>0, <2>4, <2>6 DEF RelayIInv, EntryIsOpen
  <2>10. KnowsEnds'
    BY <2>2, <2>3, <2>4, <2>5 DEF RelayIInv, KnowsEnds
  <2>11. NoOrphanDialer'
    <3> SUFFICES ASSUME NEW d \in Dials, dial'[d].at = "open", listen'[dial'[d].on].at = "gone" PROVE dial'[d].cancelled
      BY DEF NoOrphanDialer
    <3>1. dial[d].at = "open" /\ dial[d].on \in Listens /\ dial'[d].on = dial[d].on
      BY <2>5 DEF RelayIInv, KnowsEnds
    <3>2. CASE dial[d].on = s
      <4>1. listen[s].dialers[dial[d].port] = d /\ dial[d].port \in Ports
        BY <1>0, <3>1, <3>2 DEF RelayIInv, PortIsHeld, Dialing
      <4>2. QED
        BY <2>5, <4>1
    <3>3. CASE dial[d].on # s
      <4>1. dial[d].cancelled
        BY <2>4, <3>1, <3>3 DEF RelayIInv, NoOrphanDialer
      <4>2. QED
        BY <2>5, <4>1
    <3>4. QED
      BY <3>2, <3>3
  <2>12. ListenerIsFound'
    <3> SUFFICES ASSUME NEW u \in Listens, listen'[u].at = "open", ~listen'[u].cancelled
                 PROVE  listeners'[listen'[u].owner] = u
      BY DEF ListenerIsFound
    <3>1. u # s /\ listen'[u] = listen[u]
      BY <2>3, <2>4
    <3>2. listeners[listen[u].owner] = u /\ listen[u].owner \in Devices
      BY <3>1 DEF RelayIInv, ListenerIsFound, KnowsEnds
    <3>3. QED
      BY <2>6, <3>1, <3>2
  <2>13. QED
    BY <2>7, <2>8, <2>9, <2>10, <2>11, <2>12 DEF RelayIInv
<1>4. QED
  BY <1>1, <1>2, <1>3

\* A device that is no longer approved: what it has open is cancelled.
LEMMA CloseRelayedStep ==
  ASSUME RelayIInv, NEW a \in Devices, CloseRelayed(a)
  PROVE  RelayIInv'
<1>0. /\ listen \in [Listens -> Listening] /\ dial \in [Dials -> Dialing] /\ RelayTypes
  BY DEF RelayIInv, RelayTypes
<1>1. /\ approved' = approved \ {a} /\ UNCHANGED listeners
      /\ listen' = [s \in Listens |-> IF listen[s].owner = a /\ listeners[a] = s
                                      THEN [listen[s] EXCEPT !.cancelled = TRUE] ELSE listen[s]]
      /\ dial' = [d \in Dials |-> IF /\ dial[d].owner = a /\ dial[d].at = "open"
                                     /\ listeners[dial[d].target] = dial[d].on
                                  THEN [dial[d] EXCEPT !.cancelled = TRUE] ELSE dial[d]]
  BY DEF CloseRelayed
<1>2. ASSUME NEW s \in Listens
      PROVE  /\ listen'[s] \in Listening /\ listen'[s].at = listen[s].at /\ listen'[s].owner = listen[s].owner
             /\ listen'[s].dialers = listen[s].dialers /\ (listen[s].cancelled => listen'[s].cancelled)
  <2>1. CASE listen[s].owner = a /\ listeners[a] = s
    <3>1. listen'[s] = [listen[s] EXCEPT !.cancelled = TRUE] /\ listen[s] \in Listening
      BY <1>0, <1>1, <2>1
    <3>2. QED
      BY <3>1 DEF Listening
  <2>2. CASE ~(listen[s].owner = a /\ listeners[a] = s)
    BY <1>0, <1>1, <2>2
  <2>3. QED
    BY <2>1, <2>2
<1>3. ASSUME NEW d \in Dials
      PROVE  /\ dial'[d] \in Dialing /\ dial'[d].at = dial[d].at /\ dial'[d].owner = dial[d].owner
             /\ dial'[d].target = dial[d].target /\ dial'[d].on = dial[d].on /\ dial'[d].port = dial[d].port
             /\ dial[d].cancelled => dial'[d].cancelled
  <2> DEFINE Hit == dial[d].owner = a /\ dial[d].at = "open" /\ listeners[dial[d].target] = dial[d].on
  <2>1. CASE Hit
    <3>1. dial'[d] = [dial[d] EXCEPT !.cancelled = TRUE] /\ dial[d] \in Dialing
      BY <1>0, <1>1, <2>1
    <3>2. QED
      BY <3>1 DEF Dialing
  <2>2. CASE ~Hit
    BY <1>0, <1>1, <2>2
  <2>3. QED
    BY <2>1, <2>2
<1>4. RelayTypes'
  BY <1>0, <1>1, <1>2, <1>3 DEF RelayTypes
<1>5. SlotHasDialer' /\ PortIsHeld' /\ SlotsBounded'
  BY <1>2, <1>3, <1>4, SlotsKept
<1>6. EntryIsOpen'
  BY <1>0, <1>1, <1>2 DEF RelayIInv, RelayTypes, EntryIsOpen
<1>7. KnowsEnds'
  BY <1>2, <1>3 DEF RelayIInv, KnowsEnds
<1>8. NoOrphanDialer'
  BY <1>2, <1>3 DEF RelayIInv, NoOrphanDialer, KnowsEnds
<1>9. ListenerIsFound'
  BY <1>1, <1>2 DEF RelayIInv, ListenerIsFound
<1>10. QED
  BY <1>4, <1>5, <1>6, <1>7, <1>8, <1>9 DEF RelayIInv

\* Pairing takes a free slot; parting gives the dialer's own one back.
LEMMA PairAndPart ==
  ASSUME RelayIInv, NEW d \in Dials, Pair(d) \/ DialerLeaves(d)
  PROVE  RelayIInv'
<1> USE RelayAssumption
<1> DEFINE s == dial[d].on
<1>0. /\ listen \in [Listens -> Listening] /\ dial \in [Dials -> Dialing] /\ RelayTypes /\ dial[d] \in Dialing
      /\ \A u \in Listens : listen[u] \in Listening /\ listen[u].dialers \in [Ports -> Dials \cup {NoStream}]
  BY DEF RelayIInv, RelayTypes, Listening
<1>1. CASE Pair(d)
  <2> DEFINE q == NextPort(s)
             f == [listen[s].dialers EXCEPT ![q] = d]
             l == [listen[s] EXCEPT !.dialers = f, !.next = (q + 1) % Width]
             r == [dial[d] EXCEPT !.at = "open", !.port = q]
  <2>1. /\ dial[d].at = "picked" /\ listeners[dial[d].target] = s /\ Room(s, dial[d].owner)
        /\ UNCHANGED <<approved, listeners>>
    BY <1>1 DEF Pair, Paired
  <2>2. s \in Listens /\ dial[d].owner \in Devices /\ dial[d].target \in Devices
    BY <2>1 DEF RelayIInv, KnowsEnds
  <2>3. q \in Ports /\ q >= MinPort /\ listen[s].dialers[q] = NoStream
    BY <1>0, <2>1, <2>2, FreePort DEF Room
  <2>4. listen' = [listen EXCEPT ![s] = l] /\ dial' = [dial EXCEPT ![d] = r]
    BY <1>0, <1>1, <2>2 DEF Pair, Paired
  <2> HIDE DEF q, s
  <2>5. f \in [Ports -> Dials \cup {NoStream}] /\ \A x \in Ports : f[x] = IF x = q THEN d ELSE listen[s].dialers[x]
    BY <1>0, <2>2, <2>3
  <2> HIDE DEF f
  <2>6. l \in Listening /\ l.at = listen[s].at /\ l.owner = listen[s].owner /\ l.cancelled = listen[s].cancelled /\ l.dialers = f
    <3>1. q + 1 \in Nat /\ Width \in Nat \ {0}
      BY <2>3 DEF Ports
    <3>2. (q + 1) % Width \in Ports
      BY <3>1 DEF Ports
    <3>3. QED
      BY <1>0, <2>2, <2>5, <3>2 DEF Listening
  <2>7. /\ r \in Dialing /\ r.at = "open" /\ r.owner = dial[d].owner /\ r.target = dial[d].target
        /\ r.on = s /\ r.port = q /\ r.cancelled = dial[d].cancelled
    BY <1>0, <2>3 DEF Dialing, s
  <2> HIDE DEF l, r
  <2>8. /\ \A u \in Listens : listen'[u] = IF u = s THEN l ELSE listen[u]
        /\ \A e \in Dials : dial'[e] = IF e = d THEN r ELSE dial[e]
    BY <1>0, <2>4
  <2>9. RelayTypes'
    BY <1>0, <2>1, <2>4, <2>6, <2>7 DEF RelayTypes
  <2>10. \A u \in Listens : \A x \in Ports : listen[u].dialers[x] # d
    BY <2>1 DEF RelayIInv, SlotHasDialer
  <2>11. \A u \in Listens : \A x \in Ports : listen'[u].dialers[x] = IF u = s /\ x = q THEN d ELSE listen[u].dialers[x]
    BY <2>5, <2>6, <2>8
  <2>12. SlotHasDialer'
    <3> SUFFICES ASSUME NEW u \in Listens, NEW x \in Ports, listen'[u].dialers[x] # NoStream
                 PROVE  LET e == listen'[u].dialers[x] IN dial'[e].at = "open" /\ dial'[e].on = u /\ dial'[e].port = x
      BY DEF SlotHasDialer, Ports
    <3>1. CASE u = s /\ x = q
      BY <2>7, <2>8, <2>11, <3>1
    <3>2. CASE ~(u = s /\ x = q)
      <4>1. listen'[u].dialers[x] = listen[u].dialers[x] /\ listen[u].dialers[x] \in Dials
        BY <1>0, <2>11, <3>2
      <4>2. QED
        BY <2>8, <2>10, <4>1 DEF RelayIInv, SlotHasDialer
    <3>3. QED
      BY <3>1, <3>2
  <2>13. PortIsHeld'
    <3> SUFFICES ASSUME NEW e \in Dials, dial'[e].at = "open" PROVE listen'[dial'[e].on].dialers[dial'[e].port] = e
      BY DEF PortIsHeld
    <3>1. CASE e = d
      BY <2>2, <2>3, <2>7, <2>8, <2>11, <3>1
    <3>2. CASE e # d
      <4>1. dial'[e] = dial[e] /\ dial[e] \in Dialing /\ dial[e].on \in Listens /\ dial[e].port \in Ports
        BY <1>0, <2>8, <3>2 DEF RelayIInv, KnowsEnds, Dialing
      <4>2. listen[dial[e].on].dialers[dial[e].port] = e
        BY <4>1 DEF RelayIInv, PortIsHeld
      <4>3. ~(dial[e].on = s /\ dial[e].port = q)
        BY <2>3, <4>2
      <4>4. QED
        BY <2>11, <4>1, <4>2, <4>3
    <3>3. QED
      BY <3>1, <3>2
  <2>14. \A u \in Listens : Slots(u)' = IF u = s THEN Slots(s) \cup {q} ELSE Slots(u)
    BY <2>3, <2>11 DEF Slots, Ports
  <2>15. ASSUME NEW u \in Listens, NEW a \in Devices
         PROVE  SlotsOf(u, a)' = IF u = s /\ a = dial[d].owner THEN SlotsOf(s, a) \cup {q} ELSE SlotsOf(u, a)
    <3>1. ASSUME NEW x \in Slots(u)
          PROVE  listen'[u].dialers[x] = listen[u].dialers[x] /\ dial'[listen[u].dialers[x]] = dial[listen[u].dialers[x]]
      <4>1. x \in Ports /\ listen[u].dialers[x] # NoStream /\ listen[u].dialers[x] \in Dials
        BY <1>0 DEF Slots
      <4>2. QED
        BY <2>3, <2>8, <2>10, <2>11, <4>1
    <3>2. CASE u # s
      <4>1. Slots(u)' = Slots(u)
        BY <2>14, <3>2
      <4>2. QED
        BY <3>1, <3>2, <4>1 DEF SlotsOf
    <3>3. CASE u = s
      <4>1. Slots(u)' = Slots(u) \cup {q}
        BY <2>14, <3>3
      <4>2. dial'[listen'[u].dialers[q]].owner = dial[d].owner
        BY <2>2, <2>3, <2>7, <2>8, <2>11, <3>3
      <4>3. QED
        BY <3>1, <3>3, <4>1, <4>2 DEF SlotsOf
    <3>4. QED
      BY <3>2, <3>3
  <2>16. SlotsBounded'
    <3> SUFFICES ASSUME NEW u \in Listens
                 PROVE  /\ Cardinality(Slots(u)') <= MaxDialers
                        /\ \A a \in Devices : Cardinality(SlotsOf(u, a)') <= MaxPerDialer
      BY DEF SlotsBounded, SlotsOf
    <3>1. Cardinality(Slots(s)) < MaxDialers /\ Cardinality(SlotsOf(s, dial[d].owner)) < MaxPerDialer
      BY <2>1 DEF Room, SlotsOf
    <3>2. \A v \in Listens : /\ Cardinality(Slots(v)) <= MaxDialers
                             /\ \A a \in Devices : Cardinality(SlotsOf(v, a)) <= MaxPerDialer
      BY DEF RelayIInv, SlotsBounded, SlotsOf
    <3>3. q \notin Slots(s) /\ \A a \in Devices : q \notin SlotsOf(s, a)
      BY <2>3 DEF Slots, SlotsOf
    <3>4. Cardinality(Slots(u)') <= MaxDialers
      <4>1. CASE u = s
        <5>1. Cardinality(Slots(s) \cup {q}) = Cardinality(Slots(s)) + 1
          BY <3>3, SlotsFinite, FS_AddElement
        <5>2. Cardinality(Slots(s)) \in Nat
          BY SlotsFinite
        <5>3. Slots(u)' = Slots(s) \cup {q}
          BY <2>14, <4>1
        <5>4. QED
          BY <3>1, <5>1, <5>2, <5>3
      <4>2. CASE u # s
        BY <2>14, <3>2, <4>2
      <4>3. QED
        BY <4>1, <4>2
    <3>5. ASSUME NEW a \in Devices PROVE Cardinality(SlotsOf(u, a)') <= MaxPerDialer
      <4>1. CASE u = s /\ a = dial[d].owner
        <5>1. Cardinality(SlotsOf(s, a) \cup {q}) = Cardinality(SlotsOf(s, a)) + 1
          BY <3>3, SlotsFinite, FS_AddElement
        <5>2. Cardinality(SlotsOf(s, a)) \in Nat
          BY SlotsFinite
        <5>3. SlotsOf(u, a)' = SlotsOf(s, a) \cup {q}
          BY <2>15, <4>1
        <5>4. QED
          BY <3>1, <4>1, <5>1, <5>2, <5>3
      <4>2. CASE ~(u = s /\ a = dial[d].owner)
        <5>1. SlotsOf(u, a)' = SlotsOf(u, a)
          BY <2>15, <4>2
        <5>2. QED
          BY <3>2, <5>1
      <4>3. QED
        BY <4>1, <4>2
    <3>6. QED
      BY <3>4, <3>5
  <2>17. listen[s].at = "open"
    BY <2>1, <2>2 DEF RelayIInv, EntryIsOpen
  <2>18. EntryIsOpen'
    BY <1>0, <2>1, <2>6, <2>8 DEF RelayIInv, RelayTypes, EntryIsOpen
  <2>19. KnowsEnds'
    BY <2>2, <2>3, <2>6, <2>7, <2>8 DEF RelayIInv, KnowsEnds
  <2>20. NoOrphanDialer'
    <3> SUFFICES ASSUME NEW e \in Dials, dial'[e].at = "open", listen'[dial'[e].on].at = "gone" PROVE dial'[e].cancelled
      BY DEF NoOrphanDialer
    <3>1. e # d
      BY <2>2, <2>6, <2>7, <2>8, <2>17
    <3>2. dial'[e] = dial[e] /\ dial[e].on \in Listens
      BY <2>8, <3>1 DEF RelayIInv, KnowsEnds
    <3>3. listen[dial[e].on].at = "gone"
      BY <2>6, <2>8, <2>17, <3>2
    <3>4. QED
      BY <3>2, <3>3 DEF RelayIInv, NoOrphanDialer
  <2>21. ListenerIsFound'
    BY <2>1, <2>6, <2>8 DEF RelayIInv, ListenerIsFound
  <2>22. QED
    BY <2>9, <2>12, <2>13, <2>16, <2>18, <2>19, <2>20, <2>21 DEF RelayIInv
<1>2. CASE DialerLeaves(d)
  <2> DEFINE q == dial[d].port
             f == [listen[s].dialers EXCEPT ![q] = NoStream]
             l == [listen[s] EXCEPT !.dialers = f]
             r == [dial[d] EXCEPT !.at = "gone"]
  <2>1. dial[d].at = "open" /\ UNCHANGED <<approved, listeners>>
    BY <1>2 DEF DialerLeaves
  <2>2. s \in Listens /\ q \in Ports /\ listen[s].dialers[q] = d
    BY <1>0, <2>1 DEF RelayIInv, KnowsEnds, PortIsHeld, Dialing
  <2>3. listen' = [listen EXCEPT ![s] = l] /\ dial' = [dial EXCEPT ![d] = r]
    BY <1>0, <1>2, <2>2 DEF DialerLeaves
  <2> HIDE DEF q, s
  <2>4. f \in [Ports -> Dials \cup {NoStream}] /\ \A x \in Ports : f[x] = IF x = q THEN NoStream ELSE listen[s].dialers[x]
    BY <1>0, <2>2
  <2> HIDE DEF f
  <2>5. l \in Listening /\ l.at = listen[s].at /\ l.owner = listen[s].owner /\ l.cancelled = listen[s].cancelled /\ l.dialers = f
    BY <1>0, <2>2, <2>4 DEF Listening
  <2>6. r \in Dialing /\ r.at = "gone"
    BY <1>0 DEF Dialing
  <2> HIDE DEF l, r
  <2>7. /\ \A u \in Listens : listen'[u] = IF u = s THEN l ELSE listen[u]
        /\ \A e \in Dials : dial'[e] = IF e = d THEN r ELSE dial[e]
    BY <1>0, <2>3
  <2>8. RelayTypes'
    BY <1>0, <2>1, <2>3, <2>5, <2>6 DEF RelayTypes
  <2>9. \A u \in Listens : \A x \in Ports : listen'[u].dialers[x] = IF u = s /\ x = q THEN NoStream ELSE listen[u].dialers[x]
    BY <2>4, <2>5, <2>7
  <2>10. \A u \in Listens : \A x \in Ports : listen[u].dialers[x] = d => u = s /\ x = q
    BY DEF RelayIInv, SlotHasDialer, s, q
  <2>11. SlotHasDialer'
    <3> SUFFICES ASSUME NEW u \in Listens, NEW x \in Ports, listen'[u].dialers[x] # NoStream
                 PROVE  LET e == listen'[u].dialers[x] IN dial'[e].at = "open" /\ dial'[e].on = u /\ dial'[e].port = x
      BY DEF SlotHasDialer, Ports
    <3>1. /\ listen'[u].dialers[x] = listen[u].dialers[x] /\ listen[u].dialers[x] \in Dials
          /\ listen[u].dialers[x] # d
      BY <1>0, <2>9, <2>10
    <3>2. QED
      BY <2>7, <3>1 DEF RelayIInv, SlotHasDialer
  <2>12. PortIsHeld'
    <3> SUFFICES ASSUME NEW e \in Dials, dial'[e].at = "open" PROVE listen'[dial'[e].on].dialers[dial'[e].port] = e
      BY DEF PortIsHeld
    <3>1. e # d /\ dial'[e] = dial[e] /\ dial[e] \in Dialing
      BY <1>0, <2>6, <2>7
    <3>2. dial[e].on \in Listens /\ dial[e].port \in Ports /\ listen[dial[e].on].dialers[dial[e].port] = e
      BY <3>1 DEF RelayIInv, KnowsEnds, PortIsHeld, Dialing
    <3>3. ~(dial[e].on = s /\ dial[e].port = q)
      BY <2>2, <3>1, <3>2
    <3>4. QED
      BY <2>9, <3>1, <3>2, <3>3
  <2>13. ASSUME NEW u \in Listens
         PROVE  Slots(u)' \subseteq Slots(u) /\ \A a \in Devices : SlotsOf(u, a)' \subseteq SlotsOf(u, a)
    <3>1. Slots(u)' \subseteq Slots(u)
      BY <2>9 DEF Slots, Ports
    <3>2. ASSUME NEW x \in Slots(u)'
          PROVE  listen'[u].dialers[x] = listen[u].dialers[x] /\ dial'[listen[u].dialers[x]] = dial[listen[u].dialers[x]]
      <4>1. x \in Ports /\ listen'[u].dialers[x] # NoStream
        BY DEF Slots, Ports
      <4>2. listen'[u].dialers[x] = listen[u].dialers[x] /\ listen[u].dialers[x] \in Dials /\ listen[u].dialers[x] # d
        BY <1>0, <2>9, <2>10, <4>1
      <4>3. QED
        BY <2>7, <4>2
    <3>3. QED
      BY <3>1, <3>2 DEF SlotsOf
  <2>14. SlotsBounded'
    BY <2>13, FewerSlots DEF SlotsBounded, SlotsOf
  <2>15. EntryIsOpen'
    BY <1>0, <2>1, <2>5, <2>7 DEF RelayIInv, RelayTypes, EntryIsOpen
  <2>16. KnowsEnds'
    BY <2>2, <2>5, <2>6, <2>7 DEF RelayIInv, KnowsEnds
  <2>17. NoOrphanDialer'
    BY <2>5, <2>6, <2>7 DEF RelayIInv, NoOrphanDialer, KnowsEnds
  <2>18. ListenerIsFound'
    BY <2>1, <2>5, <2>7 DEF RelayIInv, ListenerIsFound
  <2>19. QED
    BY <2>8, <2>11, <2>12, <2>14, <2>15, <2>16, <2>17, <2>18 DEF RelayIInv
<1>3. QED
  BY <1>1, <1>2

\* For any number of devices and streams, and ports of any width: a dialer
\* holds its port alone, slots keep to both limits and are given back, a
\* dialer whose listener left is cancelled, and a listener that was not
\* replaced is found (relay.go, relaytcp.go).
THEOREM RelaySound == RelaySpec => []RelayInv
<1>1. RelayInit => RelayIInv
  <2> SUFFICES ASSUME RelayInit PROVE RelayIInv
    OBVIOUS
  <2> USE RelayAssumption
  <2>1. 0 \in Ports /\ MinPort \in Ports
    BY DEF Ports
  <2>2. NoListen \in Listening /\ NoDial \in Dialing
    BY <2>1 DEF NoListen, NoDial, Listening, Dialing
  <2>3. (\A s \in Listens : listen[s] = NoListen) /\ (\A d \in Dials : dial[d] = NoDial)
    BY DEF RelayInit
  <2>4. RelayTypes
    BY <2>2 DEF RelayInit, RelayTypes
  <2>5. EntryIsOpen
    BY DEF RelayInit, EntryIsOpen
  <2>6. KnowsEnds /\ PortIsHeld /\ NoOrphanDialer /\ ListenerIsFound
    BY <2>3 DEF KnowsEnds, PortIsHeld, NoOrphanDialer, ListenerIsFound, NoListen, NoDial
  <2>7. \A s \in Listens : \A q \in Ports : listen[s].dialers[q] = NoStream
    BY <2>3 DEF NoListen
  <2>8. SlotHasDialer
    BY <2>7 DEF SlotHasDialer
  <2>9. SlotsBounded
    <3>1. \A s \in Listens : Slots(s) = {} /\ \A a \in Devices : SlotsOf(s, a) = {}
      BY <2>7 DEF Slots, SlotsOf
    <3>2. Cardinality({}) = 0 /\ 0 <= MaxDialers /\ 0 <= MaxPerDialer
      BY FS_EmptySet
    <3>3. QED
      BY <3>1, <3>2 DEF SlotsBounded, SlotsOf
  <2>10. QED
    BY <2>4, <2>5, <2>6, <2>8, <2>9 DEF RelayIInv
<1>2. RelayIInv /\ [RelayNext]_relayVars => RelayIInv'
  <2> SUFFICES ASSUME RelayIInv, [RelayNext]_relayVars PROVE RelayIInv'
    OBVIOUS
  <2>1. CASE RelayNext
    BY <2>1, DialAsks, ListenSteps, CloseRelayedStep, PairAndPart DEF RelayNext, StreamStep
  <2>2. CASE UNCHANGED relayVars
    <3>1. UNCHANGED <<approved, listeners, listen, dial>>
      BY <2>2 DEF relayVars
    <3>2. RelayTypes'
      BY <3>1 DEF RelayIInv, RelayTypes
    <3>3. SlotHasDialer' /\ PortIsHeld' /\ SlotsBounded'
      BY <3>1, <3>2, SlotsKept
    <3>4. EntryIsOpen' /\ KnowsEnds' /\ NoOrphanDialer' /\ ListenerIsFound'
      BY <3>1 DEF RelayIInv, EntryIsOpen, KnowsEnds, NoOrphanDialer, ListenerIsFound
    <3>5. QED
      BY <3>2, <3>3, <3>4 DEF RelayIInv
  <2>3. QED
    BY <2>1, <2>2
<1>3. RelayIInv => RelayInv
  <2> SUFFICES ASSUME RelayIInv PROVE RelayInv
    OBVIOUS
  <2>1. RelayTypeOK
    BY DEF RelayIInv, RelayTypes, KnowsEnds, Listening, Dialing, RelayTypeOK
  <2>2. SlotsAreFreed
    BY DEF RelayIInv, SlotHasDialer, SlotsAreFreed, Slots
  <2>3. QED
    BY <2>1, <2>2 DEF RelayIInv, RelayInv
<1>4. QED
  BY <1>1, <1>2, <1>3, PTL DEF RelaySpec

-----------------------------------------------------------------------------
\* The composition that is model-checked is one of behaviours of its parts,
\* and has all that was shown of them.
THEOREM TunnelsSound == TunnelsSpec => [](HubInv /\ LinkInv /\ RelayInv)
<1>1. TunnelsInit => HubInit /\ LinkInit /\ RelayInit
  BY DEF TunnelsInit
<1>2. [TunnelsNext]_<<focus, hubVars, linkVars, relayVars>> =>
        [HubNext]_hubVars /\ [LinkNext]_linkVars /\ [RelayNext]_relayVars
  BY DEF TunnelsNext, QueueNext, ClosersNext, ReplacedNext, PortsNext
<1>3. TunnelsSpec => HubSpec /\ LinkSpec /\ RelaySpec
  BY <1>1, <1>2, PTL DEF TunnelsSpec, HubSpec, LinkSpec, RelaySpec
<1>4. QED
  BY <1>3, HubSound, LinkSound, RelaySound, PTL

=============================================================================
