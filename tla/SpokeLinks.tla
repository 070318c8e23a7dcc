----------------------------- MODULE SpokeLinks -----------------------------
(***************************************************************************)
(* The hub links of a node (internal/node/spoke.go) with the address book  *)
(* they dial from (resolve.go) and the overlap guard (overlap.go): one     *)
(* goroutine per link that dials, serves and dials again, the election of  *)
(* the primary, the routes and the resolver the host is given, the grace   *)
(* of a lost tunnel, and repair (repair.go).                               *)
(*                                                                         *)
(* A section of spokeManager.mu is one step, the host's answers to route   *)
(* and resolver changes included.  A link is an object with its goroutine: *)
(* one that sync replaced goes on until it sees its context end.  A hub    *)
(* has one true address; what its name resolves to is the resolver's word. *)
(***************************************************************************)
EXTENDS Naturals, Sequences, FiniteSets

CONSTANTS Hubs, Prefixes,
          AdvOf,       \* what a hub advertises
          HubLists,    \* lists of [id, rec] a snapshot may name
          MaxLinks, MaxTunnels,  \* bounds on links and tunnels ever made
          MaxUpsets,   \* bound on what the host does: networks joined, routes
                       \* lost, changes refused
          None

Links == 1 .. MaxLinks
Tunnels == 1 .. MaxTunnels

\* A link, where its goroutine is, and how a tunnel is.
LinkRecord ==
    [hub : Hubs, rec : Nat, cancelled : BOOLEAN, at : {"dialing", "connected", "gone"},
     tunnel : Tunnels \cup {None}, adv : SUBSET Prefixes, lost : {"no", "kept", "over"}]
TunnelStates == {"open", "closed", "lost", "revoked", "refused"}

ASSUME SpokeAssumption ==
    /\ IsFiniteSet(Hubs) /\ Hubs \cap Prefixes = {}
    /\ AdvOf \in [Hubs -> SUBSET Prefixes]
    /\ HubLists \subseteq Seq([id : Hubs, rec : Nat])
    /\ {MaxLinks, MaxTunnels, MaxUpsets} \subseteq Nat
    /\ None \notin Links \cup Tunnels \cup Hubs \cup LinkRecord \cup TunnelStates

VARIABLES order,     \* m.order, with the record each hub was listed with
          links,     \* m.links
          link,      \* hubLink objects and their goroutines
          primary, uplink,
          hosts,     \* dp.table, the hubs' overlay addresses
          tunnel,    \* ClientTunnels: how each is, "open" or why it ended
          installed, \* m.installed
          kernel,    \* routes the host has
          locals,    \* advertised networks the machine lives in
          resolver,  \* s.resolver: the host was pointed at the tunnel
          hostDns,   \* whose resolver the host asks
          good,      \* hosts.good
          stopped, upsets

linkVars == <<order, links, link>>
pathVars == <<primary, uplink, hosts, tunnel>>
hostVars == <<installed, kernel, resolver, hostDns, upsets>>
spokeVars == <<linkVars, pathVars, hostVars, locals, good, stopped>>

NewLink(h, r, dead) ==
    [hub |-> h, rec |-> r, cancelled |-> dead, at |-> "dialing", tunnel |-> None,
     adv |-> {}, lost |-> "no"]

Made == {l \in Links : link[l] # None}
MadeTunnels == {t \in Tunnels : tunnel[t] # None}
FreshTunnel == Cardinality(MadeTunnels) + 1

SpokeInit ==
    /\ order = <<>> /\ links = [h \in Hubs |-> None] /\ link = [l \in Links |-> None]
    /\ primary = None /\ uplink = None /\ hosts = [h \in Hubs |-> None]
    /\ tunnel = [t \in Tunnels |-> None]
    /\ installed = {} /\ kernel = {} /\ locals = {}
    /\ resolver = FALSE /\ hostDns = None
    /\ good = [h \in Hubs |-> "unknown"]
    /\ stopped = FALSE /\ upsets = 0
-----------------------------------------------------------------------------
(* The primary, the routes and the resolver.                               *)

\* hubLink.kept, while the grace lasts.
Kept(e) == e.tunnel = None /\ e.lost = "kept"

\* The first hub of the list with a link that meets Ok.
First(L, C, O, Ok(_)) ==
    LET at == {i \in 1 .. Len(O) : C[O[i].id] # None /\ Ok(L[C[O[i].id]])} IN
    IF at = {} THEN None ELSE C[O[CHOOSE i \in at : \A j \in at : i <= j].id]

\* electLocked.
Elect(L, C, O, was) ==
    LET best == First(L, C, O, LAMBDA e : e.tunnel # None) IN
    /\ primary' = best
    /\ uplink' = IF best = was THEN uplink
                 ELSE IF best = None THEN None ELSE L[best].tunnel

\* resolversLocked.
Resolvers(L, C, O, P) ==
    LET k == IF P # None THEN P ELSE First(L, C, O, Kept) IN
    IF k = None THEN None ELSE L[k].hub

\* What applyRoutesLocked wants: what hubs advertise that are connected or
\* lost a moment ago, without what the machine lives in, and a route to the
\* resolver.
Wanted(L, C, O, P, loc) ==
    LET standing == {h \in Hubs : C[h] # None /\ (L[C[h]].tunnel # None \/ Kept(L[C[h]]))} IN
    (UNION {L[C[h]].adv : h \in standing} \ loc) \cup ({Resolvers(L, C, O, P)} \ {None})

\* applyDNSLocked when the host does not do as told: a resolver that cannot
\* be given back stays recorded, and one that may have been set is recorded
\* as set.
DNSFails(h) ==
    \/ h = None /\ resolver /\ UNCHANGED <<resolver, hostDns>>
    \/ h # None /\ UNCHANGED <<resolver, hostDns>>
    \/ h # None /\ resolver' = TRUE /\ hostDns' = h

\* applyDNSLocked.
ApplyDNS(h) == resolver' = (h # None) /\ hostDns' = h

\* applyRoutesLocked.  What the host refuses to take is tried again the next
\* time, what it refuses to give back is forgotten.
ApplyRoutes(L, C, O, P, loc) ==
    LET W == Wanted(L, C, O, P, loc) IN
    \/ /\ installed' = W
       /\ kernel' = (kernel \ (installed \ W)) \cup (W \ installed)
       /\ ApplyDNS(Resolvers(L, C, O, P)) /\ UNCHANGED upsets
    \/ /\ upsets < MaxUpsets /\ upsets' = upsets + 1
       /\ \/ /\ \E add \in {W \ installed, {}}, del \in {installed \ W, {}} :
                    /\ installed' = (installed \cap W) \cup add
                    /\ kernel' = (kernel \ del) \cup add
             /\ ApplyDNS(Resolvers(L, C, O, P))
          \/ /\ installed' = W
             /\ kernel' = (kernel \ (installed \ W)) \cup (W \ installed)
             /\ DNSFails(Resolvers(L, C, O, P))
-----------------------------------------------------------------------------
(* The list of hubs.                                                       *)

Listed(list, h) == {list[i].rec : i \in {j \in 1 .. Len(list) : list[j].id = h}}

\* sync: links to hubs that are gone or changed end, new hubs get one.
Sync(list) ==
    LET stays(h) == links[h] # None /\ link[links[h]].rec \in Listed(list, h)
        new == {h \in Hubs : Listed(list, h) # {} /\ ~stays(h)}
        base == Cardinality(Made)
        ended == {links[h] : h \in {g \in Hubs : links[g] # None /\ ~stays(g)}}
    IN
    /\ base + Cardinality(new) <= MaxLinks /\ list # order
    /\ LET place == CHOOSE p \in [new -> base + 1 .. base + Cardinality(new)] :
                        \A g, h \in new : p[g] = p[h] => g = h IN
          /\ order' = list
          /\ links' = [h \in Hubs |-> IF h \in new THEN place[h]
                                      ELSE IF stays(h) THEN links[h] ELSE None]
          /\ link' = [l \in Links |->
                 IF l \in ended THEN [link[l] EXCEPT !.cancelled = TRUE]
                 ELSE IF \E h \in new : place[h] = l
                 THEN LET h == CHOOSE g \in new : place[g] = l IN
                      NewLink(h, CHOOSE r \in Listed(list, h) : TRUE, stopped)
                 ELSE link[l]]
          /\ Elect(link', links', list, primary)
    /\ UNCHANGED <<hosts, tunnel, hostVars, locals, good, stopped>>

\* stop: every link is cancelled and its tunnel closed.
Stop ==
    LET current == {links[h] : h \in Hubs} \ {None} IN
    /\ ~stopped
    /\ stopped' = TRUE
    /\ link' = [l \in Links |-> IF link[l] # None THEN [link[l] EXCEPT !.cancelled = TRUE] ELSE None]
    /\ tunnel' = [t \in Tunnels |->
           IF \E l \in current : link[l].tunnel = t /\ tunnel[t] = "open" THEN "closed" ELSE tunnel[t]]
    /\ links' = [h \in Hubs |-> None] /\ primary' = None /\ uplink' = None
    /\ UNCHANGED <<order, hosts, hostVars, locals, good>>
-----------------------------------------------------------------------------
(* The goroutine of a link.                                                *)

Set(l, e) == link' = [link EXCEPT ![l] = e]

At(l, place) == l \in Made /\ link[l].at = place

\* run after a dial that failed, with the wait before the next one (backoff,
\* loginRetry, retryNow), which also ends with the context.  dialWith tries what the name resolves to
\* and then the address that worked before; a refusal is an answer, and
\* nothing the hub advertised stands any more.
DialFails(l, refused) ==
    LET e == link[l]
        failed == [e EXCEPT !.at = IF e.cancelled THEN "gone" ELSE @,
                            !.adv = IF refused THEN {} ELSE @, !.lost = IF refused THEN "no" ELSE @] IN
    /\ At(l, "dialing") /\ (refused => ~e.cancelled)
    /\ Set(l, failed)
    /\ IF refused THEN ApplyRoutes(link', links, order, primary, locals) ELSE UNCHANGED hostVars
    /\ UNCHANGED <<order, links, pathVars, locals, good, stopped>>

\* hosts.confirm with the address that answered.
Confirms(h, resolved) == good' = [good EXCEPT ![h] = "true"]

\* dialWith reaches the hub: only its true address has its key.  The name
\* may have resolved to another one, then the address that worked is tried.
Reached(h, resolved) == resolved = "true" \/ good[h] = "true"

\* run after a dial that worked: the link has its tunnel, the table, the
\* primary and the routes follow.  The context is not looked at again.
Connects(l, resolved) ==
    LET e == link[l] t == FreshTunnel IN
    /\ At(l, "dialing") /\ t \in Tunnels /\ Reached(e.hub, resolved)
    /\ Confirms(e.hub, resolved)
    /\ tunnel' = [tunnel EXCEPT ![t] = "open"]
    /\ hosts' = [hosts EXCEPT ![e.hub] = t]
    /\ Set(l, [e EXCEPT !.at = "connected", !.tunnel = t, !.adv = AdvOf[e.hub], !.lost = "no"])
    /\ Elect(link', links, order, primary)
    /\ ApplyRoutes(link', links, order, primary', locals)
    /\ UNCHANGED <<order, links, locals, stopped>>

\* The tunnel ends by itself (ClientLink, StreamLink) or the hub ends it.
TunnelEnds(t, cause) ==
    /\ tunnel[t] = "open"
    /\ tunnel' = [tunnel EXCEPT ![t] = cause]
    /\ UNCHANGED <<linkVars, primary, uplink, hosts, hostVars, locals, good, stopped>>

\* Mutant: the uplink stays with the tunnel that was.
MovesBackAside(l) ==
    LET e == link[l] t == FreshTunnel IN
    /\ At(l, "connected") /\ ~e.cancelled /\ tunnel[e.tunnel] = "open" /\ t \in Tunnels
    /\ tunnel' = [tunnel EXCEPT ![t] = "open", ![e.tunnel] = "closed"]
    /\ hosts' = [hosts EXCEPT ![e.hub] = t]
    /\ Set(l, [e EXCEPT !.tunnel = t, !.adv = AdvOf[e.hub]])
    /\ Elect(link', links, order, primary)
    /\ ApplyRoutes(link', links, order, primary', locals)
    /\ UNCHANGED <<order, links, locals, good, stopped>>

\* wait: from the TCP fallback back to QUIC, without a gap.
MovesBack(l) ==
    LET e == link[l] t == FreshTunnel IN
    /\ At(l, "connected") /\ ~e.cancelled /\ tunnel[e.tunnel] = "open" /\ t \in Tunnels
    /\ tunnel' = [tunnel EXCEPT ![t] = "open", ![e.tunnel] = "closed"]
    /\ hosts' = [hosts EXCEPT ![e.hub] = t]
    /\ Set(l, [e EXCEPT !.tunnel = t, !.adv = AdvOf[e.hub]])
    /\ Elect(link', links, order, None)
    /\ ApplyRoutes(link', links, order, primary', locals)
    /\ UNCHANGED <<order, links, locals, good, stopped>>

\* keepsRoutes: not when the hub answered that this device is not welcome.
KeepsRoutes(cause) == cause \in {"lost", "closed"}

\* run after wait: the tunnel has ended or the link is cancelled.
Loses(l) ==
    LET e == link[l]
        cause == IF tunnel[e.tunnel] = "open" THEN "closed" ELSE tunnel[e.tunnel]
        keep == ~e.cancelled /\ KeepsRoutes(cause)
        next == IF e.cancelled \/ cause = "revoked" THEN "gone" ELSE "dialing"
    IN
    /\ At(l, "connected") /\ (e.cancelled \/ tunnel[e.tunnel] # "open")
    /\ tunnel' = [tunnel EXCEPT ![e.tunnel] = "closed"]
    /\ hosts' = IF hosts[e.hub] = e.tunnel THEN [hosts EXCEPT ![e.hub] = None] ELSE hosts
    /\ Set(l, [e EXCEPT !.tunnel = None, !.at = next, !.adv = IF keep THEN @ ELSE {},
                        !.lost = IF keep THEN "kept" ELSE "no"])
    /\ Elect(link', links, order, primary)
    /\ ApplyRoutes(link', links, order, primary', locals)
    /\ UNCHANGED <<order, links, locals, good, stopped>>

\* routeGrace has passed since the tunnel was lost.
GracePasses(l) ==
    /\ l \in Made /\ link[l].lost = "kept"
    /\ Set(l, [link[l] EXCEPT !.lost = "over"])
    /\ UNCHANGED <<order, links, pathVars, hostVars, locals, good, stopped>>

\* graceEnds: the timer that belongs to that loss.
GraceEnds(l) ==
    /\ l \in Made /\ link[l].lost = "over" /\ ~link[l].cancelled /\ link[l].tunnel = None
    /\ Set(l, [link[l] EXCEPT !.lost = "no", !.adv = {}])
    /\ ApplyRoutes(link', links, order, primary, locals)
    /\ UNCHANGED <<order, links, pathVars, locals, good, stopped>>
-----------------------------------------------------------------------------
(* The host.                                                               *)

\* The machine joins or leaves a network that a hub advertises; conflictWith
\* then answers differently.  watchLocalNets, NetworkChanged and Repair
\* apply the routes again.
LocalNetsChange(p) ==
    /\ upsets < MaxUpsets /\ upsets' = upsets + 1
    /\ locals' = IF p \in locals THEN locals \ {p} ELSE locals \cup {p}
    /\ UNCHANGED <<linkVars, pathVars, installed, kernel, resolver, hostDns, good, stopped>>

\* The host loses a route.
HostLoses(p) ==
    /\ p \in kernel /\ upsets < MaxUpsets /\ upsets' = upsets + 1
    /\ kernel' = kernel \ {p}
    /\ UNCHANGED <<linkVars, pathVars, installed, resolver, hostDns, locals, good, stopped>>

\* recheckRoutes.
RecheckRoutes ==
    /\ ~stopped
    /\ ApplyRoutes(link, links, order, primary, locals)
    /\ UNCHANGED <<linkVars, pathVars, locals, good, stopped>>

SpokeNext ==
    \/ \E list \in HubLists : Sync(list)
    \/ Stop
    \/ \E l \in Links :
          \/ \E refused \in BOOLEAN : DialFails(l, refused)
          \/ \E a \in {"true", "other"} : Connects(l, a)
          \/ MovesBack(l) \/ Loses(l) \/ GracePasses(l) \/ GraceEnds(l)
    \/ \E t \in Tunnels, cause \in {"lost", "revoked", "refused"} : TunnelEnds(t, cause)
    \/ \E p \in Prefixes : LocalNetsChange(p) \/ HostLoses(p)
    \/ RecheckRoutes

SpokeSpec == SpokeInit /\ [][SpokeNext]_spokeVars
-----------------------------------------------------------------------------
(* Properties.                                                             *)

\* The variables have their types.
SpokeTypeOK ==
    /\ links \in [Hubs -> Links \cup {None}] /\ primary \in Links \cup {None}
    /\ \A l \in Made : link[l] \in LinkRecord
    /\ uplink \in Tunnels \cup {None} /\ hosts \in [Hubs -> Tunnels \cup {None}]
    /\ \A t \in MadeTunnels : tunnel[t] \in TunnelStates
    /\ installed \subseteq Prefixes \cup Hubs /\ kernel \subseteq Prefixes \cup Hubs
    /\ resolver \in BOOLEAN /\ hostDns \in Hubs \cup {None}
    /\ good \in [Hubs -> {"unknown", "true"}]

\* Packets without a route of their own go to the first hub of the list that
\* has a tunnel, and to the tunnel that hub has now, through syncs, losses
\* and moves between transports (electLocked).
UplinkIsFirst ==
    /\ primary = First(link, links, order, LAMBDA e : e.tunnel # None)
    /\ uplink = IF primary = None THEN None ELSE link[primary].tunnel

\* A tunnel that is open has a goroutine that will close it, also when its
\* link was replaced or the session stopped while it was dialed (run, wait).
OpenHasOwner ==
    \A t \in MadeTunnels : tunnel[t] = "open" =>
        \E l \in Made : link[l].at = "connected" /\ link[l].tunnel = t

\* A route the node knows to be installed was advertised by a hub that has
\* not since refused this device or been away for the grace (run, graceEnds).
RoutesAreAdvertised == installed \cap Prefixes \subseteq UNION {link[l].adv : l \in Made}

\* While the host asks a hub's resolver the session knows that it has to
\* give it back (applyDNSLocked).
ResolverIsKnown == hostDns # None => resolver

\* The uplink is the tunnel of the first hub of the list that has one
\* (electLocked), an open tunnel has a goroutine that will close it (run), a
\* route that is installed was advertised by a hub that has neither refused
\* the device nor been away for the grace (graceEnds), and a resolver that was
\* set is known (applyDNSLocked).
SpokeInv == SpokeTypeOK /\ UplinkIsFirst /\ OpenHasOwner /\ RoutesAreAdvertised /\ ResolverIsKnown

=============================================================================
