------------------------------- MODULE DnsMap -------------------------------
(***************************************************************************)
(* The names an enforcing node learned from the DNS answers it forwarded,  *)
(* per peer and address (internal/node/dnsmap): a connection is decided    *)
(* under them later.  A cache with two limits, one over all peers and one  *)
(* per peer; entries run out, and while the map is full it is searched for *)
(* such entries only now and then.                                         *)
(*                                                                         *)
(* Every operation is one critical section of Map.mu.  Time is counted in  *)
(* units; the clamped time to live with its grace is one of Lives.         *)
(***************************************************************************)
EXTENDS Naturals, Sequences, FiniteSets

CONSTANTS
  DnsPeers, DnsAddrs, DnsNames,
  Lives,      \* possible lives of an entry
  MapMax,     \* Map.max
  PerPeer,    \* Map.perPeer
  MaxNames,
  FullScan,
  LastTime    \* bound on the clock

ASSUME DnsAssumption ==
  /\ Lives \subseteq Nat \ {0}
  /\ {MapMax, PerPeer, MaxNames, FullScan} \subseteq Nat \ {0}
  /\ LastTime \in Nat /\ FullScan <= LastTime
  /\ IsFiniteSet(DnsPeers) /\ IsFiniteSet(DnsAddrs)

VARIABLES
  dnsMap,     \* [m, count, scanned, dropped]
  dnsNow

dnsVars == <<dnsMap, dnsNow>>

DnsKeys == DnsPeers \X DnsAddrs
NameEntry == [name : DnsNames, until : Nat]

\* A key without names is one the map does not hold.
Held(mp) == {k \in DnsKeys : mp.m[k] # <<>>}
MapIsFull(mp, p) == Cardinality(Held(mp)) >= MapMax \/ mp.count[p] >= PerPeer

DnsInit ==
  /\ dnsMap = [m |-> [k \in DnsKeys |-> <<>>], count |-> [p \in DnsPeers |-> 0], scanned |-> 0, dropped |-> FALSE]
  /\ dnsNow = FullScan \* the zero time is long ago

-----------------------------------------------------------------------------
\* What Names returns and what a search keeps.
Alive(es, now) ==
  LET kept[i \in 0 .. Len(es)] ==
        IF i = 0 THEN <<>> ELSE IF now < es[i].until THEN Append(kept[i - 1], es[i]) ELSE kept[i - 1]
  IN kept[Len(es)]

\* Mutant: only the names go, the peer's account stays.
ExpireLockedKeeps(mp, now) == [mp EXCEPT !.m = [k \in DnsKeys |-> Alive(mp.m[k], now)]]

\* expireLocked.
ExpireLocked(mp, now) ==
  LET left == [k \in DnsKeys |-> Alive(mp.m[k], now)]
      Gone(p) == {a \in DnsAddrs : mp.m[<<p, a>>] # <<>> /\ left[<<p, a>>] = <<>>}
  IN [mp EXCEPT !.m = left, !.count = [p \in DnsPeers |-> mp.count[p] - Cardinality(Gone(p))]]

\* The search of a map that is full, at most every FullScan.
MakeRoom(mp, p, now) ==
  IF MapIsFull(mp, p) /\ now - mp.scanned >= FullScan
  THEN ExpireLocked([mp EXCEPT !.scanned = now], now)
  ELSE mp

\* The names of one address with one more: a name that is there is
\* refreshed in its place, and at the limit the first one gives way.
Named(es, name, until) ==
  IF \E i \in DOMAIN es : es[i].name = name
  THEN [i \in DOMAIN es |-> IF es[i].name = name THEN [es[i] EXCEPT !.until = until] ELSE es[i]]
  ELSE Append(IF Len(es) >= MaxNames THEN Tail(es) ELSE es, [name |-> name, until |-> until])

\* One address of an answer.
LearnOne(mp, p, a, name, until, now) ==
  LET k == <<p, a>>
      roomy == IF mp.m[k] = <<>> THEN MakeRoom(mp, p, now) ELSE mp
      known == roomy.m[k] # <<>>
  IN IF ~known /\ MapIsFull(roomy, p) THEN [roomy EXCEPT !.dropped = TRUE]
     ELSE [roomy EXCEPT !.m[k] = Named(@, name, until), !.count[p] = IF known THEN @ ELSE @ + 1]

\* Learn, with the addresses of one answer in order.
Learn(p, name, addrs, life) ==
  LET learned[i \in 0 .. Len(addrs)] ==
        IF i = 0 THEN [dnsMap EXCEPT !.dropped = FALSE]
        ELSE LearnOne(learned[i - 1], p, addrs[i], name, dnsNow + life, dnsNow)
  IN /\ dnsMap' = learned[Len(addrs)]
     /\ UNCHANGED dnsNow

ExpireNames ==
  /\ dnsMap' = ExpireLocked([dnsMap EXCEPT !.dropped = FALSE], dnsNow)
  /\ UNCHANGED dnsNow

DnsTick ==
  /\ dnsNow < LastTime
  /\ dnsNow' = dnsNow + 1
  /\ dnsMap' = [dnsMap EXCEPT !.dropped = FALSE]

Answers == {<<a>> : a \in DnsAddrs} \cup {<<a, b>> : a, b \in DnsAddrs}

DnsNext ==
  \/ \E p \in DnsPeers, name \in DnsNames, addrs \in Answers, life \in Lives : Learn(p, name, addrs, life)
  \/ ExpireNames
  \/ DnsTick

DnsSpec == DnsInit /\ [][DnsNext]_dnsVars

-----------------------------------------------------------------------------
DnsTypeOK ==
  /\ \A k \in DnsKeys : /\ Len(dnsMap.m[k]) <= MaxNames
                        /\ \A i \in DOMAIN dnsMap.m[k] : dnsMap.m[k][i] \in NameEntry
  /\ dnsMap.scanned \in 0..LastTime
  /\ dnsNow \in 0..LastTime

\* The accounts are the truth, so that no peer is locked out by addresses it
\* no longer has and none goes past its share: after every answer with an
\* address twice, every refresh and every search.  ("one device that
\* resolves a flood of names must not push every other device's names out",
\* New)
AccountsAreExact ==
  /\ \A p \in DnsPeers : /\ dnsMap.count[p] = Cardinality({a \in DnsAddrs : dnsMap.m[<<p, a>>] # <<>>})
                         /\ dnsMap.count[p] <= PerPeer
  /\ Cardinality(Held(dnsMap)) <= MapMax

\* An answer is refused only for addresses that are in use, or were within
\* the last FullScan: what ran out does not fill the map for longer.
RefusedForLive ==
  dnsMap.dropped => \A k \in Held(dnsMap) : \E i \in DOMAIN dnsMap.m[k] : dnsMap.m[k][i].until + FullScan > dnsNow

\* The counts of learned addresses are exact, and an address is refused only
\* for ones that are alive or were a moment ago (Map.Learn, expireLocked).
DnsInv == DnsTypeOK /\ AccountsAreExact /\ RefusedForLive

=============================================================================
