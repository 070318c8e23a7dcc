----------------------------- MODULE FlowTable ------------------------------
(***************************************************************************)
(* The flow table of a hub (internal/node/flow/flow.go), the decisions it  *)
(* asks for (internal/node/policy.go decide, internal/acl/acl.go), and     *)
(* everything that takes a decision back: a new snapshot (node.go          *)
(* onSnapshot, applyDiff), a user session that ends (enforceSessions), a   *)
(* snapshot that goes stale and idle flows (flowSweeper).                  *)
(*                                                                         *)
(* A packet is one critical section of Table.mu, the decision included;    *)
(* the control loop's stores, closings and reevaluations are steps of      *)
(* their own between packets.  A flow is a key; its principal is fixed.    *)
(* A ClientHello has one or two pieces of one unit each; a policy permits  *)
(* a flow as such, by a name (server name or DNS question), only with a    *)
(* user session, and forbids names: what Cedar makes of policies that the  *)
(* table can tell apart.  Timeouts are an Expire that may come any time.   *)
(***************************************************************************)
EXTENDS Naturals, FiniteSets, FiniteSetsExt

CONSTANTS Principals,   \* peers, and Local for the node's own stack
          Local,
          TcpFlows, DnsFlows,
          PrincipalOf,  \* who opens a flow
          Names, NoName,
          Snapshots,    \* what the control plane may deliver:
                        \* [policy : [any, named, forbidden, signedin], peers, session]
          NoSession,
          MaxPerPeer, MaxEntries, MaxHello, MaxSNI, MaxQueries,
          MaxChanges,   \* bound on stores, expiries, reconnects and staleness
          None

Flows == TcpFlows \cup DnsFlows

Peers == Principals \ {Local}

\* Entry.
EntryType ==
    [allowed : BOOLEAN, decided : BOOLEAN, probing : BOOLEAN, name : Names \cup {NoName},
     done : BOOLEAN, buf : 0 .. MaxHello, started : BOOLEAN, nameless : BOOLEAN,
     queries : {q \in SUBSET Names : Cardinality(q) <= MaxQueries}]

ASSUME FlowAssumption ==
    /\ Local \in Principals
    /\ IsFiniteSet(Flows) /\ TcpFlows \cap DnsFlows = {}
    /\ \A s \in Snapshots : s.peers \subseteq Peers
    /\ PrincipalOf \in [Flows -> Principals]
    /\ \A f \in DnsFlows : PrincipalOf[f] # Local
    /\ {MaxPerPeer, MaxEntries, MaxHello, MaxSNI, MaxQueries, MaxChanges} \subseteq Nat
    /\ IsFiniteSet(Names) /\ NoName \notin Names
    /\ None \notin EntryType

VARIABLES flow,      \* Table.m
          perPeer,   \* Table.perPeer
          sniFree,   \* Table.sniFree
          snap,      \* Holder: [policy, peers, session]
          engine,    \* the snapshot the engine was compiled from
          stale,     \* Holder.Stale
          swept,     \* flowSweeper: stale at its last tick
          over,      \* sessions that have run out by time
          active,    \* peers with a tunnel
          signedIn,  \* session.signedIn
          ctl,       \* the control loop: [at, removed, reevaluate, sessions]
          changes

tableVars == <<flow, perPeer, sniFree>>
feedVars == <<snap, engine, stale, ctl>>
watchVars == <<swept, over, active, signedIn>>
flowVars == <<tableVars, feedVars, watchVars, changes>>

NoDiff == [at |-> "idle", removed |-> {}, reevaluate |-> FALSE, sessions |-> FALSE]

\* A new entry.
Fresh(f) == [allowed |-> FALSE, decided |-> PrincipalOf[f] # Local, probing |-> FALSE,
             name |-> NoName, done |-> FALSE, buf |-> 0,
             started |-> FALSE, nameless |-> FALSE, queries |-> {}]

FlowInit ==
    /\ flow = [f \in Flows |-> None]
    /\ perPeer = [p \in Principals |-> 0]
    /\ sniFree = MaxSNI
    /\ snap \in Snapshots /\ engine = snap
    /\ stale = FALSE /\ swept = FALSE
    /\ over = {} /\ active = {} /\ signedIn = {}
    /\ ctl = NoDiff
    /\ changes = 0
-----------------------------------------------------------------------------
(* Decisions.                                                              *)

\* Engine.evaluate: an unknown principal is denied; then a permit must match
\* and no forbid.
EvaluateFlow(s, f, n, signed) ==
    LET p == s.policy IN
    /\ PrincipalOf[f] \in s.peers
    /\ <<f, n>> \notin p.forbidden
    /\ f \in p.any \/ <<f, n>> \in p.named
    /\ f \in p.signedin => signed

\* SessionFor: listed and not run out.
SignedIn(s, f) == s.session[PrincipalOf[f]] \notin {NoSession} \cup over

\* session.decide: a stale snapshot denies.
Decide(f, n) == ~stale /\ EvaluateFlow(engine, f, n, SignedIn(engine, f))

\* Decision.PermitBySNI: some permit reads the server name.
PermitBySNI(f) == \E n \in Names, g \in TcpFlows : <<g, n>> \in engine.policy.named
-----------------------------------------------------------------------------
(* The server name.                                                        *)

Result(e, free, changed, hold) == [e |-> e, free |-> free, changed |-> changed, hold |-> hold]

\* releaseSNI.
ReleaseSNI(e, free) == [e |-> [e EXCEPT !.buf = 0, !.done = TRUE], free |-> free + e.buf]

\* inspectTCP, the originator's side.  "odd": a segment after a gap, or one
\* that covers bytes already read with other bytes; it is held back.
Inspect(e, pk, free) ==
    IF pk.payload = "none" \/ (e.done /\ e.buf = 0) THEN Result(e, free, FALSE, FALSE)
    ELSE IF pk.payload = "odd" THEN Result(e, free, FALSE, TRUE)
    ELSE IF e.done THEN Result(e, free, FALSE, FALSE)
    ELSE IF e.buf + 1 > MaxHello \/ free = 0
    THEN LET r == ReleaseSNI(e, free) IN Result(r.e, r.free, FALSE, FALSE)
    ELSE Result([e EXCEPT !.buf = @ + 1, !.done = pk.payload # "part",
                          !.name = IF pk.payload = "hello" THEN pk.name ELSE @],
                free - 1, pk.payload = "hello", FALSE)

\* inspectTCP, the other side: what is acknowledged need not be kept.
Acknowledged(e, free) ==
    IF e.done THEN LET r == ReleaseSNI(e, free) IN Result(r.e, r.free, FALSE, FALSE)
              ELSE Result(e, free, FALSE, FALSE)

Look(e, pk, free) == IF pk.back THEN Acknowledged(e, free) ELSE Inspect(e, pk, free)
-----------------------------------------------------------------------------
(* Packets.                                                                *)

\* What a packet does to its flow: the entry, the outcome, the budget.
Answer(e, out, free) == [e |-> e, out |-> out, free |-> free]

\* probe: the handshake passes, the first payload decides.
Probe(f, e, pk) ==
    LET r == Look(e, pk, sniFree)
        named == ~pk.back /\ r.e.name # NoName /\ Decide(f, r.e.name)
    IN IF pk.payload = "none" THEN Answer(e, "pass", sniFree)
       ELSE IF ~pk.back /\ (r.hold \/ ~r.e.done) THEN Answer(r.e, "drop", r.free)
       ELSE LET x == IF pk.back THEN e ELSE r.e IN
            Answer([x EXCEPT !.probing = FALSE, !.allowed = named],
                   IF named THEN "pass" ELSE "reset",
                   IF pk.back THEN sniFree ELSE r.free)

\* handle, no entry yet: a flow of the node itself is tracked, not decided.
OpenTcp(f, pk) ==
    LET r == Look(Fresh(f), pk, sniFree)
        ok == Decide(f, r.e.name)
    IN IF PrincipalOf[f] = Local \/ ok THEN Answer([r.e EXCEPT !.allowed = TRUE], "pass", r.free)
       ELSE IF pk.syn /\ r.e.name = NoName /\ PermitBySNI(f)
       THEN Answer([r.e EXCEPT !.probing = TRUE], "pass", r.free)
       ELSE Answer(r.e, "drop", r.free)

\* handle, a flow that is known.
KnownTcp(f, e, pk) ==
    LET r == Look(e, pk, sniFree) IN
    IF e.probing THEN Probe(f, e, pk)
    ELSE IF ~e.allowed THEN Answer(e, "drop", sniFree)
    ELSE IF r.hold /\ e.decided THEN Answer(r.e, "drop", r.free)
    ELSE IF r.changed /\ e.decided /\ ~Decide(f, r.e.name)
    THEN Answer([r.e EXCEPT !.allowed = FALSE], "reset", r.free)
    ELSE Answer(r.e, "pass", r.free)

\* dnsPacket, from the resolver: the answer to a query that passed, or
\* anything if the address itself is permitted.
DnsBack(e, pk) ==
    IF pk.name \in e.queries
    THEN Answer([e EXCEPT !.queries = @ \ {pk.name}], "pass", sniFree)
    ELSE Answer(e, IF e.nameless THEN "pass" ELSE "drop", sniFree)

\* dnsPacket, from the peer: every query is decided under its own name; the
\* oldest question is forgotten when there are too many.
DnsQuery(f, e, pk) ==
    LET s == IF e.started THEN e ELSE [e EXCEPT !.started = TRUE, !.nameless = Decide(f, NoName)]
        kept == IF Cardinality(e.queries) = MaxQueries
                THEN {{q \in e.queries : q # o} : o \in e.queries} ELSE {e.queries}
    IN IF Decide(f, pk.name)
       THEN {Answer([s EXCEPT !.name = pk.name, !.allowed = TRUE,
                              !.queries = IF pk.name = NoName THEN e.queries ELSE k \cup {pk.name}],
                    "pass", sniFree) : k \in kept}
       ELSE {Answer([s EXCEPT !.name = pk.name], "drop", sniFree)}

\* Table.handle for one packet of flow f.
Handle(f, e, pk) ==
    IF f \in DnsFlows THEN IF pk.back THEN {DnsBack(e, pk)} ELSE DnsQuery(f, e, pk)
    ELSE IF flow[f] = None THEN {OpenTcp(f, pk)} ELSE {KnownTcp(f, e, pk)}

\* The table and the principal's share have room for one more flow.
Room(f) ==
    /\ Cardinality({g \in Flows : flow[g] # None}) < MaxEntries
    /\ perPeer[PrincipalOf[f]] < MaxPerPeer

TcpPackets == [back : {FALSE}, syn : {TRUE}, payload : {"none"}, name : {NoName}]
         \cup [back : {FALSE}, syn : {FALSE}, payload : {"part", "plain", "odd"}, name : {NoName}]
         \cup [back : {FALSE}, syn : {FALSE}, payload : {"hello"}, name : Names]
         \cup [back : {TRUE}, syn : {FALSE}, payload : {"none", "plain"}, name : {NoName}]
DnsPackets == [back : BOOLEAN, syn : {FALSE}, payload : {"plain"}, name : Names \cup {NoName}]

PacketsOf(f) == IF f \in DnsFlows THEN DnsPackets ELSE TcpPackets

\* Table.Handle: a packet that opens a flow, or one of a flow that is known.
\* The first packet of a flow comes from its originator.
Packet(f, pk) ==
    LET e == IF flow[f] = None THEN Fresh(f) ELSE flow[f] IN
    /\ flow[f] = None => Room(f) /\ ~pk.back
    /\ \E a \in Handle(f, e, pk) :
          /\ flow' = [flow EXCEPT ![f] = a.e]
          /\ sniFree' = a.free
    /\ perPeer' = IF flow[f] = None THEN [perPeer EXCEPT ![PrincipalOf[f]] = @ + 1] ELSE perPeer
    /\ UNCHANGED <<feedVars, watchVars, changes>>

\* forget: the entry's share and its part of the budget are given back.
RemoveFlow(gone) ==
    /\ flow' = [f \in Flows |-> IF f \in gone THEN None ELSE flow[f]]
    /\ sniFree' = sniFree + SumFunction([f \in gone |-> flow[f].buf])
    /\ perPeer' = [p \in Principals |-> perPeer[p] - Cardinality({f \in gone : PrincipalOf[f] = p})]

\* Table.Expire: idle flows.
Expire(f) ==
    /\ flow[f] # None
    /\ RemoveFlow({f})
    /\ UNCHANGED <<feedVars, watchVars, changes>>

\* Mutant: the questions under way are still answered.
AgainKeepsQueries(f, e) ==
    IF e = None \/ ~e.decided \/ ~e.allowed THEN e
    ELSE LET ok == Decide(f, e.name) IN
         IF f \in DnsFlows
         THEN [e EXCEPT !.nameless = Decide(f, NoName), !.allowed = ok]
         ELSE [e EXCEPT !.allowed = ok]

\* Reevaluate of one entry: only what is allowed is looked at again.
Again(f, e) ==
    IF e = None \/ ~e.decided \/ ~e.allowed THEN e
    ELSE LET ok == Decide(f, e.name) IN
         IF f \in DnsFlows
         THEN [e EXCEPT !.queries = {}, !.nameless = Decide(f, NoName), !.allowed = ok]
         ELSE [e EXCEPT !.allowed = ok]

Reevaluate ==
    /\ flow' = [f \in Flows |-> Again(f, flow[f])]
    /\ UNCHANGED <<perPeer, sniFree>>
-----------------------------------------------------------------------------
(* What takes decisions back.                                              *)

\* Holder.Store and its diff.
StoreSnapshot(new) ==
    LET SameSessions == new.session = snap.session IN
    /\ ctl.at = "idle" /\ new # snap /\ changes < MaxChanges
    /\ snap' = new /\ stale' = FALSE /\ changes' = changes + 1
    /\ ctl' = [at |-> "stored", removed |-> snap.peers \ new.peers,
               reevaluate |-> new.policy # snap.policy \/ ~SameSessions \/ snap.peers \ new.peers # {},
               sessions |-> ~SameSessions]
    /\ UNCHANGED <<tableVars, engine, watchVars>>

\* onSnapshot: the engine of the new snapshot.
StoreEngine ==
    /\ ctl.at = "stored"
    /\ engine' = snap
    /\ ctl' = [ctl EXCEPT !.at = "closing"]
    /\ UNCHANGED <<tableVars, snap, stale, watchVars, changes>>

\* applyDiff: the tunnels and the flows of a removed peer.
CloseRemoved(p) ==
    /\ ctl.at = "closing" /\ p \in ctl.removed
    /\ RemoveFlow({f \in Flows : flow[f] # None /\ PrincipalOf[f] = p})
    /\ active' = active \ {p}
    /\ ctl' = [ctl EXCEPT !.removed = @ \ {p}]
    /\ UNCHANGED <<snap, engine, stale, swept, over, signedIn, changes>>

\* applyDiff: the open flows are decided again.
ReevaluateDiff ==
    /\ ctl.at = "closing" /\ ctl.removed = {}
    /\ IF ctl.reevaluate THEN Reevaluate ELSE UNCHANGED tableVars
    /\ ctl' = [ctl EXCEPT !.at = "sessions"]
    /\ UNCHANGED <<snap, engine, stale, watchVars, changes>>

\* enforceSessions: who is signed in and connected has changed.
EnforceSessions ==
    LET now == {p \in active : snap.session[p] \notin {NoSession} \cup over} IN
    /\ signedIn' = now
    /\ IF now # signedIn THEN Reevaluate ELSE UNCHANGED tableVars

\* applyDiff ends.
EnforceDiff ==
    /\ ctl.at = "sessions"
    /\ IF ctl.sessions THEN EnforceSessions ELSE UNCHANGED <<tableVars, signedIn>>
    /\ ctl' = NoDiff
    /\ UNCHANGED <<snap, engine, stale, swept, over, active, changes>>

\* sessionWatch.
SessionWatch ==
    /\ EnforceSessions
    /\ UNCHANGED <<feedVars, swept, over, active, changes>>

\* flowSweeper, besides Expire: the first tick of a stale snapshot.
Sweep ==
    /\ IF stale /\ ~swept THEN Reevaluate ELSE UNCHANGED tableVars
    /\ swept' = stale
    /\ UNCHANGED <<feedVars, over, active, signedIn, changes>>

\* The control plane has not answered for max_age.  The sweeper has ticked
\* since it last did: its period is far below any max_age.
SnapshotAges ==
    /\ ~stale /\ ~swept /\ ctl.at = "idle" /\ changes < MaxChanges
    /\ stale' = TRUE /\ changes' = changes + 1
    /\ UNCHANGED <<tableVars, snap, engine, ctl, watchVars>>

\* Holder.Touch.
Confirmed ==
    /\ stale /\ ctl.at = "idle"
    /\ stale' = FALSE
    /\ UNCHANGED <<tableVars, snap, engine, ctl, watchVars, changes>>

\* A session runs out by time.
RunsOut(se) ==
    /\ se \notin over /\ changes < MaxChanges
    /\ over' = over \cup {se} /\ changes' = changes + 1
    /\ UNCHANGED <<tableVars, feedVars, swept, active, signedIn>>

\* A peer's tunnel begins or ends (HubTunnels).
Connects(p) ==
    /\ p \in snap.peers \ active /\ changes < MaxChanges
    /\ active' = active \cup {p} /\ changes' = changes + 1
    /\ UNCHANGED <<tableVars, feedVars, swept, over, signedIn>>

Disconnects(p) ==
    /\ p \in active
    /\ active' = active \ {p}
    /\ UNCHANGED <<tableVars, feedVars, swept, over, signedIn, changes>>

Sessions == UNION {{s.session[p] : p \in Peers} : s \in Snapshots} \ {NoSession}

FlowNext ==
    \/ \E f \in Flows : Expire(f) \/ \E pk \in PacketsOf(f) : Packet(f, pk)
    \/ \E new \in Snapshots : StoreSnapshot(new)
    \/ StoreEngine \/ ReevaluateDiff \/ EnforceDiff
    \/ \E p \in Peers : CloseRemoved(p) \/ Connects(p) \/ Disconnects(p)
    \/ SessionWatch \/ Sweep \/ SnapshotAges \/ Confirmed
    \/ \E se \in Sessions : RunsOut(se)

FlowSpec == FlowInit /\ [][FlowNext]_flowVars
-----------------------------------------------------------------------------
(* Properties.                                                             *)

Tracked(f) == flow[f] # None

\* The variables have their types.
FlowTypeOK ==
    /\ \A f \in Flows : Tracked(f) => flow[f] \in EntryType
    /\ sniFree \in 0 .. MaxSNI
    /\ {snap, engine} \subseteq Snapshots
    /\ over \subseteq Sessions /\ active \subseteq Peers /\ signedIn \subseteq Peers

\* Every peer's share and the ClientHello budget are what the flows in the
\* table use, after any mix of splits, aborts, expiry and closing; so a
\* peer's share is never exceeded and never lost (forget, releaseSNI).
AccountsMatch ==
    /\ \A p \in Principals :
           /\ perPeer[p] = Cardinality({f \in Flows : Tracked(f) /\ PrincipalOf[f] = p})
           /\ perPeer[p] <= MaxPerPeer
    /\ sniFree + SumFunction([f \in {g \in Flows : Tracked(g)} |-> flow[f].buf]) = MaxSNI

\* Whatever packet comes next: no byte of payload passes on a flow that is
\* not permitted with the name it then carries, not while the name is open,
\* and not with the packet that brings a forbidden name (handle, probe).
PayloadIsPermitted ==
    \A f \in TcpFlows : \A pk \in {k \in TcpPackets : k.payload # "none"} :
        LET e == IF flow[f] = None THEN Fresh(f) ELSE flow[f] IN
        \A a \in Handle(f, e, pk) :
            (a.out = "pass" /\ e.decided /\ (flow[f] # None \/ ~pk.back)) =>
                /\ a.e.allowed
                /\ ctl.at = "idle" => EvaluateFlow(snap, f, a.e.name, snap.session[PrincipalOf[f]] # NoSession)

\* Once the control loop is through, an open flow and the questions it waits
\* for are permitted by the snapshot, whatever packets came between the
\* snapshot, its engine and the reevaluation (onSnapshot, Reevaluate).  A
\* session that has run out by time counts as one here.
NoFlowByOldRules ==
    ctl.at = "idle" =>
        \A f \in Flows : (Tracked(f) /\ flow[f].decided) =>
            LET Ok(n) == EvaluateFlow(snap, f, n, snap.session[PrincipalOf[f]] # NoSession) IN
            /\ (f \in TcpFlows /\ flow[f].allowed) => Ok(flow[f].name)
            /\ \A q \in flow[f].queries : Ok(q)

\* A stale snapshot keeps no flow alive: after the sweeper's first tick none
\* that was decided is open (flowSweeper).
StaleClosesAll ==
    (stale /\ swept) => \A f \in Flows : (Tracked(f) /\ flow[f].decided) => ~flow[f].allowed

\* The counts per peer are those of the table (remove), payload passes only
\* under a name that is permitted (Probe), once the control loop is through no
\* open flow is one the snapshot forbids (Reevaluate), and a stale snapshot
\* keeps none alive (flowSweeper).
FlowInv == FlowTypeOK /\ AccountsMatch /\ PayloadIsPermitted /\ NoFlowByOldRules /\ StaleClosesAll

=============================================================================
