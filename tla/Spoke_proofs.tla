---------------------------- MODULE Spoke_proofs ----------------------------
(***************************************************************************)
(* Proofs about what runs on a spoke: the sockets of a tunnel that moves   *)
(* (ClientLink), the links to its hubs (SpokeLinks), the paths to its      *)
(* peers and the listeners for them (PeerPaths), and the composition of    *)
(* these (MCSpoke).                                                        *)
(***************************************************************************)
EXTENDS MCSpoke, FiniteSetTheorems, SequenceTheorems, WellFoundedInduction, TLAPS

-----------------------------------------------------------------------------
(***************************************************************************)
(* PeerPaths.  What is known of a path is its peer's, paths are numbered   *)
(* without a gap, and the queue of wanted paths holds one.                 *)
(***************************************************************************)
Born == {i \in Paths : path[i] # Nothing}

PathTypes ==
    /\ snapshot \in Snapshots /\ closing \subseteq Peers /\ gate \subseteq Peers
    /\ want \subseteq Peers /\ \A p, q \in want : p = q
    /\ path \in [Paths -> PathRecord \cup {Nothing}]
    /\ dialed \in [Peers -> Paths \cup {Nothing}] /\ accepted \in [Peers -> Addrs \cup {Nothing}]
    /\ table \in [Addrs -> Paths \cup Peers \cup {Nothing}]

NoGap == \E n \in Nat : Born = 1 .. n

\* What open remembers is the path of that peer, and its goroutine is between
\* Remember and Forget.
Known == \A p \in Peers : \A i \in Paths :
    dialed[p] = i => path[i] # Nothing /\ path[i].peer = p /\ path[i].at \in {"known", "attached", "detached"}

PathsIInv == PathTypes /\ NoGap /\ Known /\ EntryHasOwner

LEMMA PathsIInvIsEnough == PathsIInv => PathsInv
<1> SUFFICES ASSUME PathsIInv PROVE PathsInv
  OBVIOUS
<1> USE PathAssumption
<1>1. Cardinality(want) <= 1
  <2>1. CASE want = {}
    BY <2>1, FS_EmptySet
  <2>2. CASE want # {}
    <3>1. PICK p \in want : want = {p}
      BY <2>2 DEF PathsIInv, PathTypes
    <3>2. Cardinality({p}) = 1
      BY FS_Singleton
    <3>3. QED
      BY <3>1, <3>2
  <2>3. QED
    BY <2>1, <2>2
<1>2. PathsTypeOK
  BY <1>1 DEF PathsIInv, PathTypes, PathsTypeOK
<1>3. OneSideDials
  <2> SUFFICES ASSUME NEW x \in Peers \cup {Self}, NEW y \in Peers \cup {Self}, x # y
               PROVE  Dials(x, y) # Dials(y, x)
    BY DEF OneSideDials
  <2>1. NodeId[x] \in Nat /\ NodeId[y] \in Nat /\ NodeId[x] # NodeId[y]
    OBVIOUS
  <2>2. (NodeId[x] < NodeId[y]) = ~(NodeId[y] < NodeId[x])
    BY <2>1
  <2>3. CASE (x \in Announces) # (y \in Announces)
    BY <2>3, Zenon DEF Dials
  <2>4. CASE (x \in Announces) = (y \in Announces)
    <3>1. Dials(x, y) = (NodeId[x] < NodeId[y]) /\ Dials(y, x) = (NodeId[y] < NodeId[x])
      BY <2>4 DEF Dials
    <3>2. QED
      BY <2>2, <3>1
  <2>5. QED
    BY <2>3, <2>4
<1>4. KnownIsThere
  BY DEF PathsIInv, PathTypes, Known, KnownIsThere
<1>5. QED
  BY <1>2, <1>3, <1>4 DEF PathsInv, PathsIInv

LEMMA InitPaths == PathsInit => PathsIInv
<1> SUFFICES ASSUME PathsInit PROVE PathsIInv
  OBVIOUS
<1> USE PathAssumption
<1>1. PathTypes
  BY DEF PathsInit, PathTypes
<1>2. NoGap
  <2>1. Born = 1 .. 0
    BY DEF PathsInit, Born
  <2>2. QED
    BY <2>1 DEF NoGap
<1>3. Known /\ EntryHasOwner
  BY DEF PathsInit, Known, EntryHasOwner
<1>4. QED
  BY <1>1, <1>2, <1>3 DEF PathsIInv

\* A step of one path that leaves its peer and address.
LEMMA PathKeeps ==
  ASSUME PathsIInv, NEW i \in Paths, path[i] # Nothing, NEW r \in PathRecord,
         path' = [path EXCEPT ![i] = r], r.peer = path[i].peer, r.addr = path[i].addr
  PROVE  /\ path' \in [Paths -> PathRecord \cup {Nothing}] /\ NoGap'
         /\ path'[i] = r /\ r # Nothing /\ \A j \in Paths : j # i => path'[j] = path[j]
<1> USE PathAssumption
<1>1. /\ path' \in [Paths -> PathRecord \cup {Nothing}]
      /\ path'[i] = r /\ r # Nothing /\ \A j \in Paths : j # i => path'[j] = path[j]
  BY DEF PathsIInv, PathTypes
<1>2. Born' = Born
  BY <1>1 DEF Born
<1>3. QED
  BY <1>1, <1>2 DEF PathsIInv, NoGap

\* The path a peer's packet opens is a new one.
LEMMA FreshIsFree ==
  ASSUME PathsIInv
  PROVE  /\ Fresh \in Nat /\ Born = 1 .. (Fresh - 1) /\ (Fresh \in Paths => path[Fresh] = Nothing)
<1>1. PICK n \in Nat : Born = 1 .. n
  BY DEF PathsIInv, NoGap
<1>2. Cardinality(Born) = n
  BY <1>1, FS_Interval
<1>3. Fresh = n + 1
  BY <1>2 DEF Fresh, Born
<1>4. Fresh \notin Born
  BY <1>1, <1>3
<1>5. QED
  BY <1>1, <1>3, <1>4 DEF Born

\* Packets, gates and snapshots touch no path.
LEMMA WantKeeps ==
  ASSUME PathsIInv, NEW p \in Peers, NoPath(p) \/ GateOpens(p)
  PROVE  PathsIInv'
<1>1. UNCHANGED <<peerVars, path, dialed, tunnelVars>> /\ gate' \subseteq gate \cup {p}
      /\ (want' = want \/ want' = {p})
  BY DEF NoPath, GateOpens
<1>2. PathTypes'
  BY <1>1 DEF PathsIInv, PathTypes, peerVars, tunnelVars
<1>3. NoGap' /\ Known' /\ EntryHasOwner'
  BY <1>1 DEF PathsIInv, NoGap, Born, Known, EntryHasOwner, PathAt, tunnelVars
<1>4. QED
  BY <1>2, <1>3 DEF PathsIInv

LEMMA StoreKeeps ==
  ASSUME PathsIInv, NEW new \in Snapshots, Store(new)
  PROVE  PathsIInv'
<1>1. /\ UNCHANGED <<want, path, dialed, tunnelVars>> /\ gate' \subseteq gate
      /\ closing' \subseteq Peers /\ snapshot' \in Snapshots
  BY DEF Store
<1>2. PathTypes'
  BY <1>1 DEF PathsIInv, PathTypes, tunnelVars
<1>3. NoGap' /\ Known' /\ EntryHasOwner'
  BY <1>1 DEF PathsIInv, NoGap, Born, Known, EntryHasOwner, PathAt, tunnelVars
<1>4. QED
  BY <1>2, <1>3 DEF PathsIInv

LEMMA OpenKeeps ==
  ASSUME PathsIInv, NEW p \in Peers, Open(p)
  PROVE  PathsIInv'
<1> USE PathAssumption
<1> DEFINE r == [peer |-> p, addr |-> snapshot[p], at |-> "dialing", open |-> FALSE, via |-> 0]
<1>1. want' \subseteq want /\ UNCHANGED <<peerVars, gate, dialed, tunnelVars>>
  BY DEF Open
<1>2. CASE UNCHANGED path
  <2>1. PathTypes'
    BY <1>1, <1>2 DEF PathsIInv, PathTypes, peerVars, tunnelVars
  <2>2. NoGap' /\ Known' /\ EntryHasOwner'
    BY <1>1, <1>2 DEF PathsIInv, NoGap, Born, Known, EntryHasOwner, PathAt, tunnelVars
  <2>3. QED
    BY <2>1, <2>2 DEF PathsIInv
<1>3. CASE ~UNCHANGED path
  <2>1. Fresh \in Paths /\ path' = [path EXCEPT ![Fresh] = r] /\ snapshot[p] # Nothing
    BY <1>3 DEF Open
  <2>2. r \in PathRecord /\ r # Nothing
    <3>1. snapshot[p] \in Addrs /\ 0 \in 0 .. Carriers
      BY <2>1 DEF PathsIInv, PathTypes
    <3>2. r \in PathRecord
      BY <3>1 DEF PathRecord
    <3>3. QED
      BY <3>2
  <2>3. Fresh \in Nat /\ Born = 1 .. (Fresh - 1) /\ path[Fresh] = Nothing
    BY <2>1, FreshIsFree
  <2> HIDE DEF r
  <2>4. /\ path' \in [Paths -> PathRecord \cup {Nothing}] /\ path'[Fresh] = r
        /\ \A j \in Paths : j # Fresh => path'[j] = path[j]
    BY <2>1, <2>2 DEF PathsIInv, PathTypes
  <2>5. PathTypes'
    BY <1>1, <2>4 DEF PathsIInv, PathTypes, peerVars, tunnelVars
  <2>6. NoGap'
    <3>1. Born' = Born \cup {Fresh}
      BY <2>1, <2>2, <2>4 DEF Born
    <3>2. Born' = 1 .. Fresh
      BY <2>1, <2>3, <3>1 DEF Paths
    <3>3. QED
      BY <2>3, <3>2 DEF NoGap
  <2>7. Known'
    BY <1>1, <2>3, <2>4 DEF PathsIInv, Known
  <2>8. EntryHasOwner'
    BY <1>1, <2>3, <2>4 DEF PathsIInv, EntryHasOwner, PathAt, tunnelVars
  <2>9. QED
    BY <2>5, <2>6, <2>7, <2>8 DEF PathsIInv
<1>4. QED
  BY <1>2, <1>3

\* A path whose goroutine is between two places, or whose tunnel ends: what
\* it must not be is known or in the table when it goes.
LEMMA MoveKeeps ==
  ASSUME PathsIInv, NEW i \in Paths, path[i] # Nothing, NEW r \in PathRecord,
         path' = [path EXCEPT ![i] = r], r.peer = path[i].peer, r.addr = path[i].addr,
         path[i].at \in {"known", "attached", "detached"} => r.at = path[i].at,
         path[i].at \notin {"known", "attached", "detached"} => r.at # "attached",
         gate' \subseteq gate \cup {path[i].peer},
         UNCHANGED <<peerVars, want, dialed, tunnelVars>>
  PROVE  PathsIInv'
<1>1. /\ path' \in [Paths -> PathRecord \cup {Nothing}] /\ NoGap'
      /\ path'[i] = r /\ r # Nothing /\ \A j \in Paths : j # i => path'[j] = path[j]
  BY PathKeeps
<1>2. path[i].peer \in Peers
  BY DEF PathsIInv, PathTypes, PathRecord
<1>3. PathTypes'
  BY <1>1, <1>2 DEF PathsIInv, PathTypes, peerVars, tunnelVars
<1>4. Known'
  BY <1>1 DEF PathsIInv, Known
<1>5. EntryHasOwner'
  BY <1>1 DEF PathsIInv, EntryHasOwner, PathAt, tunnelVars
<1>6. QED
  BY <1>1, <1>3, <1>4, <1>5 DEF PathsIInv

LEMMA DialsKeep ==
  ASSUME PathsIInv, NEW i \in Paths,
         PathDialFails(i) \/ PathEnds(i) \/ CarrierTakesPath(i) \/ \E c \in Conns \cup {0} : PathDialed(i, c)
  PROVE  PathsIInv'
<1> USE PathAssumption
<1>0. path[i] # Nothing
  BY DEF PathDialFails, PathEnds, CarrierTakesPath, PathDialed, PathAt
<1>1. path[i] \in PathRecord /\ path \in [Paths -> PathRecord \cup {Nothing}]
  BY <1>0 DEF PathsIInv, PathTypes
<1>2. CASE PathDialFails(i)
  <2> DEFINE r == [path[i] EXCEPT !.at = "gone"]
  <2>1. path[i].at = "dialing" /\ path' = [path EXCEPT ![i] = r] /\ gate' = gate \cup {path[i].peer}
        /\ UNCHANGED <<peerVars, want, dialed, tunnelVars>>
    BY <1>1, <1>2 DEF PathDialFails, PathAt, PathTo
  <2>2. r \in PathRecord /\ r.peer = path[i].peer /\ r.addr = path[i].addr /\ r.at = "gone"
    BY <1>1 DEF PathRecord
  <2> HIDE DEF r
  <2>3. QED
    BY <1>0, <2>1, <2>2, MoveKeeps
<1>3. CASE PathEnds(i) \/ CarrierTakesPath(i)
  <2> DEFINE r == [path[i] EXCEPT !.open = FALSE]
  <2>1. path' = [path EXCEPT ![i] = r] /\ UNCHANGED <<peerVars, gate, want, dialed, tunnelVars>>
    BY <1>1, <1>3 DEF PathEnds, CarrierTakesPath
  <2>2. r \in PathRecord /\ r.peer = path[i].peer /\ r.addr = path[i].addr /\ r.at = path[i].at
    BY <1>1 DEF PathRecord
  <2> HIDE DEF r
  <2>3. QED
    BY <1>0, <2>1, <2>2, MoveKeeps
<1>4. ASSUME NEW c \in Conns \cup {0}, PathDialed(i, c) PROVE PathsIInv'
  <2> DEFINE r == [path[i] EXCEPT !.at = "dialed", !.open = TRUE, !.via = c]
  <2>1. path[i].at = "dialing" /\ path' = [path EXCEPT ![i] = r]
        /\ UNCHANGED <<peerVars, gate, want, dialed, tunnelVars>>
    BY <1>1, <1>4 DEF PathDialed, PathAt
  <2>2. c \in 0 .. Carriers
    BY DEF Conns
  <2>3. r \in PathRecord /\ r.peer = path[i].peer /\ r.addr = path[i].addr /\ r.at = "dialed"
    BY <1>1, <2>2 DEF PathRecord
  <2> HIDE DEF r
  <2>4. QED
    BY <1>0, <2>1, <2>3, MoveKeeps
<1>5. QED
  BY <1>2, <1>3, <1>4

\* From Remember to Forget: what is known and what is in the table goes with
\* the goroutine.
LEMMA PathStepsKeep ==
  ASSUME PathsIInv, NEW i \in Paths, PathSteps(i)
  PROVE  PathsIInv'
<1> USE PathAssumption
<1>0. path[i] # Nothing
  BY DEF PathSteps, Remember, Attach, Detach, Forget, PathAt
<1>1. path[i] \in PathRecord /\ path \in [Paths -> PathRecord \cup {Nothing}]
  BY <1>0 DEF PathsIInv, PathTypes
<1>2. path[i].peer \in Peers /\ path[i].addr \in Addrs
  BY <1>1 DEF PathRecord
<1>3. ASSUME NEW place \in {"known", "attached", "detached", "gone"}, PathTo(i, place)
      PROVE  /\ path' \in [Paths -> PathRecord \cup {Nothing}] /\ NoGap'
             /\ path'[i] # Nothing /\ path'[i].peer = path[i].peer /\ path'[i].addr = path[i].addr
             /\ path'[i].at = place /\ \A j \in Paths : j # i => path'[j] = path[j]
  <2> DEFINE r == [path[i] EXCEPT !.at = place]
  <2>1. path' = [path EXCEPT ![i] = r]
    BY <1>1, <1>3 DEF PathTo
  <2>2. r \in PathRecord /\ r.peer = path[i].peer /\ r.addr = path[i].addr /\ r.at = place
    BY <1>1 DEF PathRecord
  <2> HIDE DEF r
  <2>3. QED
    BY <1>0, <2>1, <2>2, PathKeeps
<1>4. CASE Remember(i)
  <2>1. /\ path[i].at = "dialed" /\ dialed' = [dialed EXCEPT ![path[i].peer] = i] /\ PathTo(i, "known")
        /\ UNCHANGED <<peerVars, gate, want, tunnelVars>>
    BY <1>4 DEF Remember, PathAt
  <2>2. /\ path' \in [Paths -> PathRecord \cup {Nothing}] /\ NoGap'
        /\ path'[i] # Nothing /\ path'[i].peer = path[i].peer /\ path'[i].addr = path[i].addr
        /\ path'[i].at = "known" /\ \A j \in Paths : j # i => path'[j] = path[j]
    BY <1>3, <2>1
  <2>3. PathTypes'
    BY <1>2, <2>1, <2>2 DEF PathsIInv, PathTypes, peerVars, tunnelVars
  <2>4. Known'
    BY <1>2, <2>1, <2>2 DEF PathsIInv, PathTypes, Known
  <2>5. EntryHasOwner'
    BY <2>1, <2>2 DEF PathsIInv, EntryHasOwner, PathAt, tunnelVars
  <2>6. QED
    BY <2>2, <2>3, <2>4, <2>5 DEF PathsIInv
<1>5. CASE Attach(i)
  <2>1. /\ path[i].at = "known" /\ table' = [table EXCEPT ![path[i].addr] = i] /\ PathTo(i, "attached")
        /\ UNCHANGED <<peerVars, gate, want, dialed, accepted>>
    BY <1>5 DEF Attach, PathAt
  <2>2. /\ path' \in [Paths -> PathRecord \cup {Nothing}] /\ NoGap'
        /\ path'[i] # Nothing /\ path'[i].peer = path[i].peer /\ path'[i].addr = path[i].addr
        /\ path'[i].at = "attached" /\ \A j \in Paths : j # i => path'[j] = path[j]
    BY <1>3, <2>1
  <2>3. PathTypes'
    BY <1>2, <2>1, <2>2 DEF PathsIInv, PathTypes, peerVars
  <2>4. Known'
    BY <2>1, <2>2 DEF PathsIInv, Known
  <2>5. EntryHasOwner'
    BY <1>2, <2>1, <2>2 DEF PathsIInv, PathTypes, EntryHasOwner, PathAt
  <2>6. QED
    BY <2>2, <2>3, <2>4, <2>5 DEF PathsIInv
<1>6. CASE Detach(i)
  <2>1. /\ path[i].at = "attached" /\ PathTo(i, "detached")
        /\ table' = IF table[path[i].addr] = i THEN [table EXCEPT ![path[i].addr] = Nothing] ELSE table
        /\ UNCHANGED <<peerVars, gate, want, dialed, accepted>>
    BY <1>6 DEF Detach, PathAt
  <2>2. /\ path' \in [Paths -> PathRecord \cup {Nothing}] /\ NoGap'
        /\ path'[i] # Nothing /\ path'[i].peer = path[i].peer /\ path'[i].addr = path[i].addr
        /\ path'[i].at = "detached" /\ \A j \in Paths : j # i => path'[j] = path[j]
    BY <1>3, <2>1
  <2>3. PathTypes'
    BY <1>2, <2>1, <2>2 DEF PathsIInv, PathTypes, peerVars
  <2>4. Known'
    BY <2>1, <2>2 DEF PathsIInv, Known
  <2>5. EntryHasOwner'
    <3>1. \A a \in Addrs : table[a] # i => table'[a] = table[a]
      BY <1>2, <2>1 DEF PathsIInv, PathTypes
    <3>2. \A a \in Addrs : table[a] = i => table'[a] = Nothing
      BY <1>2, <2>1 DEF PathsIInv, PathTypes, EntryHasOwner
    <3>3. QED
      BY <2>1, <2>2, <3>1, <3>2 DEF PathsIInv, PathTypes, EntryHasOwner, PathAt
  <2>6. QED
    BY <2>2, <2>3, <2>4, <2>5 DEF PathsIInv
<1>7. CASE Forget(i)
  <2>1. /\ path[i].at = "detached" /\ PathTo(i, "gone") /\ gate' = gate \cup {path[i].peer}
        /\ dialed' = IF dialed[path[i].peer] = i THEN [dialed EXCEPT ![path[i].peer] = Nothing] ELSE dialed
        /\ UNCHANGED <<peerVars, want, tunnelVars>>
    BY <1>7 DEF Forget, PathAt
  <2>2. /\ path' \in [Paths -> PathRecord \cup {Nothing}] /\ NoGap'
        /\ path'[i] # Nothing /\ path'[i].peer = path[i].peer /\ path'[i].addr = path[i].addr
        /\ path'[i].at = "gone" /\ \A j \in Paths : j # i => path'[j] = path[j]
    BY <1>3, <2>1
  <2>3. PathTypes'
    BY <1>2, <2>1, <2>2 DEF PathsIInv, PathTypes, peerVars, tunnelVars
  <2>4. Known'
    <3>1. \A p \in Peers : dialed[p] # i => dialed'[p] = dialed[p]
      BY <1>2, <2>1 DEF PathsIInv, PathTypes
    <3>2. \A p \in Peers : dialed[p] = i => dialed'[p] = Nothing
      BY <1>2, <2>1 DEF PathsIInv, PathTypes, Known
    <3>3. QED
      BY <2>2, <3>1, <3>2 DEF PathsIInv, Known
  <2>5. EntryHasOwner'
    BY <2>1, <2>2 DEF PathsIInv, EntryHasOwner, PathAt, tunnelVars
  <2>6. QED
    BY <2>2, <2>3, <2>4, <2>5 DEF PathsIInv
<1>8. QED
  BY <1>4, <1>5, <1>6, <1>7 DEF PathSteps

\* Tunnels of peers.
LEMMA ServeKeeps ==
  ASSUME PathsIInv, NEW p \in Peers, Serve(p) \/ Serves(p)
  PROVE  PathsIInv'
<1> USE PathAssumption
<1>1. UNCHANGED <<snapshot, closing, gate, want, path, dialed>>
  BY DEF Serve, Serves, peerVars, dialVars
<1>2. CASE Serve(p)
  <2>1. /\ snapshot[p] \in Addrs /\ accepted[p] = Nothing
        /\ accepted' = [accepted EXCEPT ![p] = snapshot[p]] /\ table' = [table EXCEPT ![snapshot[p]] = p]
    BY <1>2 DEF Serve, PathsIInv, PathTypes
  <2>2. PathTypes'
    BY <1>1, <2>1 DEF PathsIInv, PathTypes
  <2>3. \A a \in Addrs : table[a] # p
    BY <2>1 DEF PathsIInv, EntryHasOwner
  <2>4. EntryHasOwner'
    BY <1>1, <2>1, <2>3 DEF PathsIInv, PathTypes, EntryHasOwner, PathAt
  <2>5. QED
    BY <1>1, <2>2, <2>4 DEF PathsIInv, NoGap, Born, Known
<1>3. CASE Serves(p)
  <2>1. /\ accepted[p] \in Addrs /\ accepted' = [accepted EXCEPT ![p] = Nothing]
        /\ table' = IF table[accepted[p]] = p THEN [table EXCEPT ![accepted[p]] = Nothing] ELSE table
    BY <1>3 DEF Serves, PathsIInv, PathTypes
  <2>2. PathTypes'
    BY <1>1, <2>1 DEF PathsIInv, PathTypes
  <2>3. \A a \in Addrs : table[a] # p => table'[a] = table[a]
    BY <2>1 DEF PathsIInv, PathTypes
  <2>4. \A a \in Addrs : table[a] = p => table'[a] = Nothing
    BY <2>1 DEF PathsIInv, PathTypes, EntryHasOwner
  <2>5. EntryHasOwner'
    BY <1>1, <2>1, <2>3, <2>4 DEF PathsIInv, PathTypes, EntryHasOwner, PathAt
  <2>6. QED
    BY <1>1, <2>2, <2>5 DEF PathsIInv, NoGap, Born, Known
<1>4. QED
  BY <1>2, <1>3

\* closePeer: the peer's entries go with its tunnels, its own path ends.
LEMMA ClosePeerKeeps ==
  ASSUME PathsIInv, NEW p \in Peers, ClosePeer(p)
  PROVE  PathsIInv'
<1> USE PathAssumption
<1>1. /\ closing' \subseteq closing /\ UNCHANGED <<snapshot, gate, want, dialed>>
      /\ accepted' = [accepted EXCEPT ![p] = Nothing]
      /\ table' = [a \in Addrs |-> IF table[a] = p THEN Nothing ELSE table[a]]
      /\ path' = IF dialed[p] = Nothing THEN path ELSE [path EXCEPT ![dialed[p]].open = FALSE]
  BY DEF ClosePeer
<1>2. /\ path' \in [Paths -> PathRecord \cup {Nothing}] /\ NoGap'
      /\ \A j \in Paths : /\ path[j] = Nothing <=> path'[j] = Nothing
                          /\ path[j] # Nothing => /\ path'[j].peer = path[j].peer /\ path'[j].addr = path[j].addr
                                                  /\ path'[j].at = path[j].at
  <2>1. CASE dialed[p] = Nothing
    BY <1>1, <2>1 DEF PathsIInv, PathTypes, NoGap, Born
  <2>2. CASE dialed[p] # Nothing
    <3> DEFINE i == dialed[p]
               r == [path[i] EXCEPT !.open = FALSE]
    <3>1. i \in Paths /\ path[i] # Nothing /\ path[i] \in PathRecord
      BY <2>2 DEF PathsIInv, PathTypes, Known
    <3>2. path' = [path EXCEPT ![i] = r]
      BY <1>1, <2>2, <3>1 DEF PathsIInv, PathTypes
    <3>3. r \in PathRecord /\ r.peer = path[i].peer /\ r.addr = path[i].addr /\ r.at = path[i].at
      BY <3>1 DEF PathRecord
    <3> HIDE DEF r, i
    <3>4. /\ path' \in [Paths -> PathRecord \cup {Nothing}] /\ NoGap'
          /\ path'[i] = r /\ r # Nothing /\ \A j \in Paths : j # i => path'[j] = path[j]
      BY <3>1, <3>2, <3>3, PathKeeps
    <3>5. QED
      BY <3>1, <3>3, <3>4
  <2>3. QED
    BY <2>1, <2>2
<1>3. PathTypes'
  BY <1>1, <1>2 DEF PathsIInv, PathTypes
<1>4. Known'
  BY <1>1, <1>2 DEF PathsIInv, Known
<1>5. EntryHasOwner'
  BY <1>1, <1>2 DEF PathsIInv, PathTypes, EntryHasOwner, PathAt
<1>6. QED
  BY <1>2, <1>3, <1>4, <1>5 DEF PathsIInv

LEMMA NextPaths == PathsIInv /\ [PathsNext]_pathsVars => PathsIInv'
<1> SUFFICES ASSUME PathsIInv, [PathsNext]_pathsVars PROVE PathsIInv'
  OBVIOUS
<1>1. ASSUME UNCHANGED <<peerVars, dialVars, tunnelVars>> PROVE PathsIInv'
  BY <1>1 DEF PathsIInv, PathTypes, NoGap, Born, Known, EntryHasOwner, PathAt, peerVars, dialVars, tunnelVars
<1>2. CASE UNCHANGED pathsVars
  BY <1>1, <1>2 DEF pathsVars
<1>3. ASSUME NEW c \in Conns, HubUp(c) \/ HubDown(c) PROVE PathsIInv'
  BY <1>1, <1>3 DEF HubUp, HubDown
<1>4. ASSUME NEW p \in Peers, NoPath(p) \/ GateOpens(p) \/ Open(p) \/ Serve(p) \/ Serves(p) \/ ClosePeer(p)
      PROVE  PathsIInv'
  BY <1>4, WantKeeps, OpenKeeps, ServeKeeps, ClosePeerKeeps
<1>5. ASSUME NEW i \in Paths, PathDialFails(i) \/ PathSteps(i) \/ PathEnds(i) \/ CarrierTakesPath(i)
      PROVE  PathsIInv'
  BY <1>5, DialsKeep, PathStepsKeep
<1>6. ASSUME NEW i \in Paths, NEW c \in Conns \cup {0}, PathDialed(i, c) PROVE PathsIInv'
  BY <1>6, DialsKeep
<1>7. ASSUME NEW new \in Snapshots, Store(new) PROVE PathsIInv'
  BY <1>7, StoreKeeps
<1>8. QED
  BY <1>2, <1>3, <1>4, <1>5, <1>6, <1>7 DEF PathsNext

\* Of two nodes exactly one dials, and neither an entry of the table nor a
\* known path stays behind without a goroutine that takes it out, whatever
\* snapshots, peers and hubs do meanwhile (dials, open, Serve, closePeer).
THEOREM PathsSound == PathsSpec => []PathsInv
<1>1. PathsSpec => []PathsIInv
  BY InitPaths, NextPaths, PTL DEF PathsSpec
<1>2. QED
  BY <1>1, PathsIInvIsEnough, PTL

-----------------------------------------------------------------------------
(***************************************************************************)
(* The listeners.                                                          *)
(***************************************************************************)

\* A listener that serves and is not the one that closePeer and stop would
\* find has been told to end, whichever connection comes to serve first
\* (hubUp, serve).
THEOREM ListenersSound == ListenerSpec => []OneListener
<1> DEFINE Typed == listener \in [Carried -> {"none", "asked", "listening", "serving", "gone"}]
           Inv == Typed /\ OneListener
<1>1. ListenerInit => Inv
  BY DEF ListenerInit, OneListener
<1>2. Inv /\ [ListenerNext]_listenerVars => Inv'
  <2> SUFFICES ASSUME Inv, [ListenerNext]_listenerVars PROVE Inv'
    OBVIOUS
  <2>1. CASE UNCHANGED listenerVars
    BY <2>1 DEF listenerVars, OneListener
  <2>2. ASSUME NEW c \in Carried, CarrierUp(c) \/ CarrierDown(c) \/ RelayListens(c) PROVE Inv'
    BY <2>2 DEF CarrierUp, CarrierDown, RelayListens, OneListener
  <2>3. ASSUME NEW c \in Carried, ServePaths(c) PROVE Inv'
    BY <2>3, ListenerAssumption DEF ServePaths, OneListener
  <2>4. ASSUME NEW c \in Carried, CarrierTakesListener(c) PROVE Inv'
    BY <2>4 DEF CarrierTakesListener, OneListener
  <2>5. ASSUME NEW c \in Carried, ListenerGoes(c) PROVE Inv'
    BY <2>5 DEF ListenerGoes, OneListener
  <2>6. QED
    BY <2>1, <2>2, <2>3, <2>4, <2>5 DEF ListenerNext
<1>3. QED
  BY <1>1, <1>2, PTL DEF ListenerSpec

-----------------------------------------------------------------------------
(***************************************************************************)
(* ClientLink.  A socket in the hand of a migration is its own: bound, not *)
(* the link's yet, and no other migration's.  Before the dial is done      *)
(* nobody moves.  A migration that has looked at the number of sockets     *)
(* stands for one that it may add.                                         *)
(***************************************************************************)
MoverRecord == [at : Places, socket : 0 .. MaxSockets, ctx : {"live", "cancelled", "deadline"}]

HandsApart ==
    \A m \in Movers : mover[m].at = "added" =>
        /\ mover[m].socket \in bound \ qts
        /\ \A n \in Movers : mover[n].at = "added" /\ mover[n].socket = mover[m].socket => n = m

BeforeDone ==
    dial # "done" => /\ qts = {} /\ closer = "idle" /\ \A m \in Movers : mover[m].at = "idle"
                     /\ bound = IF dial \in {"socket", "connect"} THEN {1} ELSE {}

\* A recovery that was not given its chance is not under way.
RecoverIdle == ~given => mover["recover"].at = "idle"

Upcoming == {m \in Movers : mover[m].at \in {"checked", "added"}}
RoomForAll == Cardinality(qts) + Cardinality(Upcoming) <= MaxMigrations + Cardinality(Movers)

ClientIInv == ClientTypeOK /\ HandsApart /\ BeforeDone /\ RecoverIdle /\ SocketIsOwned /\ RoomForAll

LEMMA MoversFinite == IsFiniteSet(Movers) /\ Cardinality(Movers) \in Nat \ {0}
<1>1. IsFiniteSet(Movers)
  BY ClientAssumption, FS_Singleton, FS_Union DEF Movers
<1>2. Cardinality(Movers) # 0
  BY <1>1, FS_EmptySet DEF Movers
<1>3. QED
  BY <1>1, <1>2, FS_CardinalityType

LEMMA ClientCounts ==
  ASSUME ClientTypeOK
  PROVE  /\ IsFiniteSet(qts) /\ Cardinality(qts) \in Nat
         /\ IsFiniteSet(Upcoming) /\ Cardinality(Upcoming) \in Nat /\ Cardinality(Upcoming) <= Cardinality(Movers)
<1>1. IsFiniteSet(1 .. MaxSockets) /\ qts \subseteq 1 .. MaxSockets
  BY ClientAssumption, FS_Interval DEF ClientTypeOK
<1>2. Upcoming \subseteq Movers
  BY DEF Upcoming
<1>3. QED
  BY <1>1, <1>2, MoversFinite, FS_Subset, FS_CardinalityType

LEMMA ClientIInvIsEnough == ClientIInv => ClientInv
<1> SUFFICES ASSUME ClientIInv PROVE ClientInv
  OBVIOUS
<1>1. SocketsBounded
  BY ClientAssumption, ClientCounts, MoversFinite DEF ClientIInv, RoomForAll, SocketsBounded
<1>2. QED
  BY <1>1 DEF ClientIInv, ClientInv

LEMMA InitClient == ClientInit => ClientIInv
<1> SUFFICES ASSUME ClientInit PROVE ClientIInv
  OBVIOUS
<1> USE ClientAssumption
<1>1. Idle \in MoverRecord /\ Idle.at = "idle"
  BY DEF Idle, MoverRecord, Places
<1>2. \A m \in Movers : mover[m].at = "idle"
  BY <1>1 DEF ClientInit
<1>3. mover \in [Movers -> MoverRecord]
  BY <1>1 DEF ClientInit
<1>4. queued \in 0 .. QueueLen /\ writes \in 0 .. SilentWrites
  BY DEF ClientInit
<1>5. ClientTypeOK
  BY <1>3, <1>4 DEF ClientInit, ClientTypeOK, MoverRecord
<1>6. Upcoming = {} /\ qts = {}
  BY <1>2 DEF Upcoming, ClientInit
<1>7. RoomForAll
  BY <1>6, FS_EmptySet, MoversFinite DEF RoomForAll
<1>8. "recover" \in Movers
  BY DEF Movers
<1>9. QED
  BY <1>2, <1>5, <1>6, <1>7, <1>8 DEF ClientIInv, HandsApart, BeforeDone, RecoverIdle, SocketIsOwned, ClientInit

\* A step that touches neither sockets nor movers.
LEMMA StillKeeps ==
  ASSUME ClientIInv, ClientTypeOK', UNCHANGED <<bound, qts, mover>>,
         given' = given, (dial' = dial \/ (dial = "socket" /\ dial' = "connect")),
         (closer' = "closed" <=> closer = "closed"), dial # "done" => closer' = closer
  PROVE  ClientIInv'
<1>1. HandsApart' /\ RecoverIdle'
  BY DEF ClientIInv, HandsApart, RecoverIdle
<1>2. BeforeDone'
  BY DEF ClientIInv, BeforeDone
<1>3. SocketIsOwned'
  BY DEF ClientIInv, SocketIsOwned, InHand
<1>4. RoomForAll'
  BY DEF ClientIInv, RoomForAll, Upcoming
<1>5. QED
  BY <1>1, <1>2, <1>3, <1>4 DEF ClientIInv

\* A step of movers that neither take up nor put down a socket.
LEMMA MoversKeep ==
  ASSUME ClientIInv, ClientTypeOK', UNCHANGED <<bound, qts>>, dial = "done", dial' = dial,
         closer' = "closed" <=> closer = "closed",
         \A m \in Movers : /\ mover'[m].at = "added" <=> mover[m].at = "added"
                           /\ mover'[m].at = "added" => mover'[m].socket = mover[m].socket
                           /\ mover'[m].at = "checked" => mover[m].at = "checked",
         RecoverIdle'
  PROVE  ClientIInv'
<1>1. HandsApart'
  BY DEF ClientIInv, HandsApart
<1>2. BeforeDone'
  BY DEF BeforeDone
<1>3. SocketIsOwned'
  <2>1. InHand' = InHand
    BY DEF InHand
  <2>2. QED
    BY <2>1 DEF ClientIInv, SocketIsOwned
<1>4. RoomForAll'
  <2>1. Upcoming' \subseteq Upcoming
    BY DEF Upcoming
  <2>2. Cardinality(Upcoming') <= Cardinality(Upcoming) /\ Cardinality(Upcoming') \in Nat
    BY <2>1, ClientCounts, FS_Subset, FS_CardinalityType DEF ClientIInv
  <2>3. QED
    BY <2>2, ClientCounts, MoversFinite, ClientAssumption DEF ClientIInv, RoomForAll
<1>5. QED
  BY <1>1, <1>2, <1>3, <1>4 DEF ClientIInv

\* Nothing of the link but what a lemma names.
Rest == <<dial, relayed, linkState, socketVars, moves, closer, quietVars>>

LEMMA DialKeeps ==
  ASSUME ClientIInv, DialSocket \/ ClientDialFails \/ DialQuic \/ DialDone
  PROVE  ClientIInv'
<1> USE ClientAssumption
<1>1. /\ UNCHANGED <<relayed, stop, queued, mover, moves, closer, quietVars>>
      /\ dial \in {"none", "socket", "connect"} /\ dial' \in {"socket", "failed", "connect", "done"}
  <2>1. CASE DialSocket
    BY <2>1 DEF DialSocket, linkState
  <2>2. CASE ClientDialFails
    BY <2>2 DEF ClientDialFails
  <2>3. CASE DialQuic
    BY <2>3 DEF DialQuic
  <2>4. CASE DialDone
    BY <2>4 DEF DialDone
  <2>5. QED
    BY <2>1, <2>2, <2>3, <2>4
<1>2. /\ qts = {} /\ closer = "idle" /\ (\A m \in Movers : mover[m].at = "idle")
      /\ bound = IF dial \in {"socket", "connect"} THEN {1} ELSE {}
  BY <1>1 DEF ClientIInv, BeforeDone
<1>3. \/ dial' \in {"socket", "connect"} /\ bound' = {1} /\ qts' = {}
      \/ dial' = "failed" /\ bound' = {} /\ qts' = {}
      \/ dial' = "done" /\ bound' = {1} /\ qts' = {1}
  BY <1>2 DEF DialSocket, ClientDialFails, DialQuic, DialDone, socketVars
<1>4. ClientTypeOK'
  <2>1. conn' \in {"none", "open", "ended"} /\ sender' \in BOOLEAN
    BY DEF DialSocket, ClientDialFails, DialQuic, DialDone, linkState, ClientIInv, ClientTypeOK
  <2>2. bound' \subseteq 1 .. MaxSockets /\ qts' \subseteq bound'
    BY <1>3
  <2>3. QED
    BY <1>1, <2>1, <2>2 DEF ClientIInv, ClientTypeOK, quietVars
<1>5. HandsApart' /\ RecoverIdle'
  BY <1>1, <1>2 DEF ClientIInv, HandsApart, RecoverIdle, quietVars
<1>6. BeforeDone'
  BY <1>1, <1>2, <1>3 DEF BeforeDone
<1>7. SocketIsOwned'
  BY <1>3 DEF SocketIsOwned
<1>8. RoomForAll'
  <2>1. Upcoming' = {}
    BY <1>1, <1>2 DEF Upcoming
  <2>2. Cardinality(qts') \in 0 .. 1 /\ Cardinality(Upcoming') = 0
    <3>1. CASE qts' = {}
      BY <2>1, <3>1, FS_EmptySet
    <3>2. CASE qts' = {1}
      <4>1. Cardinality({1}) = 1 /\ Cardinality({}) = 0
        BY FS_EmptySet, FS_Singleton
      <4>2. QED
        BY <2>1, <3>2, <4>1
    <3>3. QED
      BY <1>3, <3>1, <3>2
  <2>3. QED
    BY <2>2, MoversFinite DEF RoomForAll
<1>9. QED
  BY <1>4, <1>5, <1>6, <1>7, <1>8 DEF ClientIInv

LEMMA FlowKeeps ==
  ASSUME ClientIInv, ConnectionEnds \/ TimePasses \/ ReadPacket \/ SendOne \/ SenderEnds \/ CloseCalled \/ CloseConn
  PROVE  ClientIInv'
<1> USE ClientAssumption
<1>1. ClientTypeOK'
  <2>1. CASE ConnectionEnds
    BY <2>1 DEF ConnectionEnds, ClientIInv, ClientTypeOK, linkState, socketVars, quietVars
  <2>2. CASE TimePasses
    BY <2>2 DEF TimePasses, ClientIInv, ClientTypeOK, linkState, socketVars, quietVars
  <2>3. CASE ReadPacket
    BY <2>3 DEF ReadPacket, ClientIInv, ClientTypeOK, linkState, socketVars, quietVars
  <2>4. CASE SendOne
    BY <2>4 DEF SendOne, ClientIInv, ClientTypeOK, linkState, socketVars, quietVars
  <2>5. CASE SenderEnds
    BY <2>5 DEF SenderEnds, ClientIInv, ClientTypeOK, linkState, socketVars, quietVars
  <2>6. CASE CloseCalled
    BY <2>6 DEF CloseCalled, ClientIInv, ClientTypeOK, linkState, socketVars, quietVars
  <2>7. CASE CloseConn
    BY <2>7 DEF CloseConn, ClientIInv, ClientTypeOK, linkState, socketVars, quietVars
  <2>8. QED
    BY <2>1, <2>2, <2>3, <2>4, <2>5, <2>6, <2>7
<1>2. /\ UNCHANGED <<bound, qts, mover>> /\ given' = given /\ dial' = dial
      /\ (closer' = "closed" <=> closer = "closed") /\ (dial # "done" => closer' = closer)
  BY DEF ConnectionEnds, TimePasses, ReadPacket, SendOne, SenderEnds, CloseCalled, CloseConn, ClientIInv,
         BeforeDone, socketVars, quietVars
<1>3. QED
  BY <1>1, <1>2, StillKeeps

\* A tunnel that is suspected is given its one chance.
LEMMA WritePacketKeeps ==
  ASSUME ClientIInv, WritePacket
  PROVE  ClientIInv'
<1> USE ClientAssumption
<1>1. /\ dial = "done" /\ UNCHANGED <<dial, relayed, conn, stop, sender, socketVars, moves, closer>>
      /\ queued' \in 0 .. QueueLen /\ writes' \in 0 .. SilentWrites /\ silence' \in {"none", "short", "long"}
  BY DEF WritePacket, ClientIInv, ClientTypeOK
<1>2. CASE UNCHANGED <<given, mover>>
  <2>1. ClientTypeOK'
    BY <1>1, <1>2 DEF ClientIInv, ClientTypeOK, socketVars
  <2>2. QED
    BY <1>1, <1>2, <2>1, StillKeeps DEF socketVars
<1>3. CASE ~UNCHANGED <<given, mover>>
  <2>1. ~given /\ given' = TRUE /\ mover' = [mover EXCEPT !["recover"].at = "asked"]
    BY <1>3 DEF WritePacket
  <2>2. mover \in [Movers -> MoverRecord] /\ "recover" \in Movers /\ mover["recover"].at = "idle"
    BY <2>1 DEF ClientIInv, ClientTypeOK, MoverRecord, RecoverIdle, Movers
  <2>3. /\ mover' \in [Movers -> MoverRecord] /\ mover'["recover"].at = "asked"
        /\ \A m \in Movers : m # "recover" => mover'[m] = mover[m]
    BY <2>1, <2>2 DEF MoverRecord, Places
  <2>4. ClientTypeOK'
    BY <1>1, <2>1, <2>3 DEF ClientIInv, ClientTypeOK, MoverRecord, socketVars
  <2>5. RecoverIdle'
    BY <2>1 DEF RecoverIdle
  <2>6. QED
    BY <1>1, <2>2, <2>3, <2>4, <2>5, MoversKeep DEF socketVars
<1>4. QED
  BY <1>2, <1>3

\* Networks change, and what the change before did is cancelled.
LEMMA ChangeKeeps ==
  ASSUME ClientIInv, NEW c \in Changes, Changed(c) \/ Deadline(c) \/ ChangeEnds(c)
  PROVE  ClientIInv'
<1> USE ClientAssumption
<1>1. /\ UNCHANGED <<dial, relayed, linkState, socketVars, quietVars>> /\ dial = "done"
      /\ c \in Movers /\ c # "recover" /\ "recover" \in Movers
  BY DEF Changed, Deadline, ChangeEnds, ClientIInv, BeforeDone, Movers
<1>2. mover \in [Movers -> MoverRecord]
  BY DEF ClientIInv, ClientTypeOK, MoverRecord
<1>3. /\ mover' \in [Movers -> MoverRecord]
      /\ \A m \in Movers : /\ mover'[m].at = "added" <=> mover[m].at = "added"
                           /\ mover'[m].at = "added" => mover'[m].socket = mover[m].socket
                           /\ mover'[m].at = "checked" => mover[m].at = "checked"
      /\ mover'["recover"].at = mover["recover"].at
  <2>1. CASE Changed(c)
    <3> DEFINE f(m) == IF m = c THEN [Idle EXCEPT !.at = "asked"]
                       ELSE IF m = moves /\ mover[m].ctx = "live" THEN [mover[m] EXCEPT !.ctx = "cancelled"]
                       ELSE mover[m]
    <3>1. mover' = [m \in Movers |-> f(m)] /\ mover[c] = Idle
      BY <2>1 DEF Changed
    <3>2. ASSUME NEW m \in Movers
          PROVE  f(m) \in MoverRecord /\ (m # c => f(m).at = mover[m].at /\ f(m).socket = mover[m].socket)
      BY <1>2 DEF MoverRecord, Idle, Places
    <3>3. f(c).at = "asked" /\ Idle.at = "idle"
      BY DEF Idle
    <3> HIDE DEF f
    <3>4. QED
      BY <1>1, <3>1, <3>2, <3>3
  <2>2. CASE Deadline(c)
    BY <1>1, <1>2, <2>2 DEF Deadline, MoverRecord
  <2>3. CASE ChangeEnds(c)
    BY <1>1, <1>2, <2>3 DEF ChangeEnds, MoverRecord, Idle, Places
  <2>4. QED
    BY <2>1, <2>2, <2>3
<1>4. /\ moves' \in Changes \cup {NoMove} /\ closer' \in {"idle", "stopping", "draining", "closed"}
      /\ closer' = "closed" <=> closer = "closed"
  BY DEF Changed, Deadline, ChangeEnds, Abandon, ClientIInv, ClientTypeOK
<1>5. ClientTypeOK'
  BY <1>1, <1>3, <1>4 DEF ClientIInv, ClientTypeOK, MoverRecord, linkState, socketVars, quietVars
<1>6. RecoverIdle'
  BY <1>1, <1>3 DEF ClientIInv, RecoverIdle, quietVars
<1>7. QED
  BY <1>1, <1>3, <1>4, <1>5, <1>6, MoversKeep DEF socketVars

\* recover ends: the tunnel is trusted again, or abandoned.
LEMMA RecoverKeeps ==
  ASSUME ClientIInv, Recovered \/ GiveUpRecover
  PROVE  ClientIInv'
<1> USE ClientAssumption
<1>1. /\ UNCHANGED <<dial, relayed, linkState, socketVars, moves>> /\ "recover" \in Movers
      /\ mover["recover"].at \in {"moved", "failed"} /\ mover' = [mover EXCEPT !["recover"] = Idle]
  BY DEF Recovered, GiveUpRecover, Movers
<1>2. dial = "done"
  BY <1>1 DEF ClientIInv, BeforeDone
<1>3. /\ mover' \in [Movers -> MoverRecord] /\ mover'["recover"].at = "idle"
      /\ \A m \in Movers : m # "recover" => mover'[m] = mover[m]
  BY <1>1 DEF ClientIInv, ClientTypeOK, MoverRecord, Idle, Places
<1>4. /\ closer' \in {"idle", "stopping", "draining", "closed"} /\ (closer' = "closed" <=> closer = "closed")
      /\ silence' \in {"none", "short", "long"} /\ writes' \in 0 .. SilentWrites /\ given' \in BOOLEAN
  <2>1. CASE Recovered
    <3>1. closer' = closer /\ silence' = "none" /\ writes' = 0 /\ given' = FALSE
      BY <2>1 DEF Recovered
    <3>2. closer \in {"idle", "stopping", "draining", "closed"}
      BY DEF ClientIInv, ClientTypeOK
    <3>3. 0 \in 0 .. SilentWrites
      OBVIOUS
    <3>4. QED
      BY <3>1, <3>2, <3>3
  <2>2. CASE GiveUpRecover
    BY <2>2 DEF GiveUpRecover, Abandon, quietVars, ClientIInv, ClientTypeOK
  <2>3. QED
    BY <2>1, <2>2
<1>5. ClientTypeOK'
  BY <1>1, <1>3, <1>4 DEF ClientIInv, ClientTypeOK, MoverRecord, linkState, socketVars
<1>6. RecoverIdle'
  BY <1>3 DEF RecoverIdle
<1>7. QED
  BY <1>1, <1>2, <1>3, <1>4, <1>5, <1>6, MoversKeep DEF socketVars

\* The steps of a migration that leave the sockets alone.
LEMMA WalkKeeps ==
  ASSUME ClientIInv, NEW m \in Movers, Refuse(m) \/ Check(m) \/ BindFails(m) \/ ProbeFails(m) \/ Switch(m)
  PROVE  ClientIInv'
<1> USE ClientAssumption
<1>1. /\ UNCHANGED Rest
      /\ mover[m].at \in {"asked", "checked", "probing"}
  BY DEF Refuse, Check, BindFails, ProbeFails, Switch, Rest
<1>2. PICK place \in {"failed", "checked", "moved"} :
        MoverTo(m, place) /\ (place = "checked" => mover[m].at = "asked" /\ Cardinality(qts) <= MaxMigrations)
  BY DEF Refuse, Check, BindFails, ProbeFails, Switch
<1>3. dial = "done" /\ mover \in [Movers -> MoverRecord]
  BY <1>1 DEF ClientIInv, BeforeDone, ClientTypeOK, MoverRecord
<1>4. /\ mover' \in [Movers -> MoverRecord] /\ mover'[m].at = place
      /\ \A n \in Movers : n # m => mover'[n] = mover[n]
  BY <1>2, <1>3 DEF MoverTo, MoverRecord, Places
<1>5. ClientTypeOK'
  BY <1>1, <1>4 DEF ClientIInv, ClientTypeOK, MoverRecord, Rest, linkState, socketVars, quietVars
<1>6. RecoverIdle'
  BY <1>1, <1>4 DEF ClientIInv, RecoverIdle, Rest, quietVars, Movers
<1>7. HandsApart'
  BY <1>1, <1>4 DEF ClientIInv, HandsApart, Rest, socketVars
<1>8. SocketIsOwned'
  <2>1. InHand' = InHand
    BY <1>1, <1>4 DEF InHand
  <2>2. QED
    BY <1>1, <2>1 DEF ClientIInv, SocketIsOwned, Rest, socketVars
<1>9. RoomForAll'
  <2>1. CASE place = "checked"
    <3>1. Cardinality(qts') <= MaxMigrations /\ Cardinality(qts') \in Nat
      BY <1>1, <1>2, <2>1, ClientCounts DEF Rest, socketVars, ClientIInv
    <3>2. Upcoming' \subseteq Movers
      BY DEF Upcoming
    <3>3. Cardinality(Upcoming') <= Cardinality(Movers) /\ Cardinality(Upcoming') \in Nat
      BY <3>2, MoversFinite, FS_Subset, FS_CardinalityType
    <3>4. QED
      BY <3>1, <3>3, MoversFinite DEF RoomForAll
  <2>2. CASE place # "checked"
    <3>1. Upcoming' \subseteq Upcoming
      BY <1>2, <1>4, <2>2 DEF Upcoming
    <3>2. Cardinality(Upcoming') <= Cardinality(Upcoming) /\ Cardinality(Upcoming') \in Nat
      BY <3>1, ClientCounts, FS_Subset, FS_CardinalityType DEF ClientIInv
    <3>3. Cardinality(qts') = Cardinality(qts)
      BY <1>1 DEF Rest, socketVars
    <3>4. QED
      BY <3>2, <3>3, ClientCounts, MoversFinite DEF ClientIInv, RoomForAll
  <2>3. QED
    BY <2>1, <2>2
<1>10. BeforeDone'
  BY <1>1, <1>3 DEF BeforeDone, Rest
<1>11. QED
  BY <1>5, <1>6, <1>7, <1>8, <1>9, <1>10 DEF ClientIInv

\* A new socket is in one hand only.
LEMMA BindKeeps ==
  ASSUME ClientIInv, NEW m \in Movers, Bind(m)
  PROVE  ClientIInv'
<1> USE ClientAssumption
<1>1. /\ mover[m].at = "checked" /\ bound # 1 .. MaxSockets /\ bound' = bound \cup {Free}
      /\ mover' = [mover EXCEPT ![m] = [at |-> "added", socket |-> Free, ctx |-> @.ctx]]
      /\ UNCHANGED <<dial, relayed, linkState, qts, moves, closer, quietVars>>
  BY DEF Bind
<1>2. Free \in 1 .. MaxSockets /\ Free \notin bound
  BY <1>1 DEF Free, ClientIInv, ClientTypeOK
<1>3. dial = "done" /\ mover \in [Movers -> MoverRecord] /\ qts \subseteq bound
  BY <1>1 DEF ClientIInv, BeforeDone, ClientTypeOK, MoverRecord
<1>4. /\ mover' \in [Movers -> MoverRecord] /\ mover'[m].at = "added" /\ mover'[m].socket = Free
      /\ \A n \in Movers : n # m => mover'[n] = mover[n]
  <2> DEFINE r == [at |-> "added", socket |-> Free, ctx |-> mover[m].ctx]
  <2>1. mover' = [mover EXCEPT ![m] = r]
    BY <1>1
  <2>2. r \in MoverRecord /\ r.at = "added" /\ r.socket = Free
    BY <1>2, <1>3 DEF MoverRecord, Places
  <2> HIDE DEF r
  <2>3. QED
    BY <1>3, <2>1, <2>2
<1>5. ClientTypeOK'
  BY <1>1, <1>2, <1>4 DEF ClientIInv, ClientTypeOK, MoverRecord, linkState, quietVars
<1>6. RecoverIdle'
  BY <1>1, <1>4 DEF ClientIInv, RecoverIdle, quietVars, Movers
<1>7. HandsApart'
  BY <1>1, <1>2, <1>3, <1>4 DEF ClientIInv, HandsApart
<1>8. SocketIsOwned'
  <2>1. InHand' = InHand \cup {Free}
    BY <1>1, <1>4 DEF InHand
  <2>2. QED
    BY <1>1, <2>1 DEF ClientIInv, SocketIsOwned
<1>9. RoomForAll'
  <2>1. Upcoming' = Upcoming
    BY <1>1, <1>4 DEF Upcoming
  <2>2. QED
    BY <1>1, <2>1 DEF ClientIInv, RoomForAll
<1>10. QED
  BY <1>1, <1>3, <1>5, <1>6, <1>7, <1>8, <1>9 DEF ClientIInv, BeforeDone

\* The socket joins the link's.
LEMMA KeepKeeps ==
  ASSUME ClientIInv, NEW m \in Movers, Keep(m)
  PROVE  ClientIInv'
<1> USE ClientAssumption
<1> DEFINE k == mover[m].socket
<1>1. /\ mover[m].at = "added" /\ qts' = qts \cup {k}
      /\ mover' = [mover EXCEPT ![m] = [at |-> "probing", socket |-> 0, ctx |-> @.ctx]]
      /\ UNCHANGED <<dial, relayed, linkState, bound, moves, closer, quietVars>>
  BY DEF Keep
<1>2. dial = "done" /\ mover \in [Movers -> MoverRecord] /\ qts \subseteq bound /\ k \in bound /\ k \notin qts
  BY <1>1 DEF ClientIInv, BeforeDone, ClientTypeOK, MoverRecord, HandsApart
<1>3. /\ mover' \in [Movers -> MoverRecord] /\ mover'[m].at = "probing"
      /\ \A n \in Movers : n # m => mover'[n] = mover[n]
  <2> DEFINE r == [at |-> "probing", socket |-> 0, ctx |-> mover[m].ctx]
  <2>1. mover' = [mover EXCEPT ![m] = r]
    BY <1>1
  <2>2. r \in MoverRecord /\ r.at = "probing"
    BY <1>2 DEF MoverRecord, Places
  <2> HIDE DEF r
  <2>3. QED
    BY <1>2, <2>1, <2>2
<1>4. ClientTypeOK'
  BY <1>1, <1>2, <1>3 DEF ClientIInv, ClientTypeOK, MoverRecord, linkState, quietVars
<1>5. RecoverIdle'
  BY <1>1, <1>3 DEF ClientIInv, RecoverIdle, quietVars, Movers
<1>6. HandsApart'
  BY <1>1, <1>2, <1>3 DEF ClientIInv, HandsApart
<1>7. SocketIsOwned'
  <2>1. InHand \subseteq InHand' \cup {k}
    BY <1>1, <1>3 DEF InHand
  <2>2. QED
    BY <1>1, <2>1 DEF ClientIInv, SocketIsOwned
<1>8. RoomForAll'
  <2>1. Upcoming' = Upcoming \ {m} /\ m \in Upcoming
    BY <1>1, <1>3 DEF Upcoming
  <2>2. Cardinality(Upcoming') = Cardinality(Upcoming) - 1
    BY <2>1, ClientCounts, FS_RemoveElement DEF ClientIInv
  <2>3. Cardinality(qts') = Cardinality(qts) + 1
    BY <1>1, <1>2, ClientCounts, FS_AddElement DEF ClientIInv
  <2>4. QED
    BY <2>2, <2>3, ClientCounts, MoversFinite DEF ClientIInv, RoomForAll
<1>9. QED
  BY <1>1, <1>2, <1>4, <1>5, <1>6, <1>7, <1>8 DEF ClientIInv, BeforeDone

\* What is in a migration's hand outlives the drain.
LEMMA DrainKeeps ==
  ASSUME ClientIInv, Drain
  PROVE  ClientIInv'
<1> USE ClientAssumption
<1>1. /\ closer = "draining" /\ closer' = "closed" /\ qts' = {} /\ bound' = bound \ qts
      /\ UNCHANGED <<dial, relayed, linkState, mover, moves, quietVars>>
  BY DEF Drain
<1>2. dial = "done"
  BY <1>1 DEF ClientIInv, BeforeDone
<1>3. ClientTypeOK'
  BY <1>1 DEF ClientIInv, ClientTypeOK, linkState, quietVars
<1>4. HandsApart' /\ RecoverIdle' /\ SocketIsOwned' /\ BeforeDone'
  BY <1>1, <1>2 DEF ClientIInv, HandsApart, RecoverIdle, SocketIsOwned, BeforeDone, quietVars
<1>5. RoomForAll'
  <2>1. Upcoming' = Upcoming /\ Cardinality(qts') = 0
    BY <1>1, FS_EmptySet DEF Upcoming
  <2>2. QED
    BY <2>1, ClientCounts, MoversFinite DEF ClientIInv, RoomForAll
<1>6. QED
  BY <1>3, <1>4, <1>5 DEF ClientIInv

LEMMA NextClient == ClientIInv /\ [ClientNext]_clientVars => ClientIInv'
<1> SUFFICES ASSUME ClientIInv, [ClientNext]_clientVars PROVE ClientIInv'
  OBVIOUS
<1>1. CASE UNCHANGED clientVars
  <2>1. ClientTypeOK'
    BY <1>1 DEF clientVars, linkState, socketVars, quietVars, ClientIInv, ClientTypeOK
  <2>2. QED
    BY <1>1, <2>1, StillKeeps DEF clientVars, socketVars, quietVars
<1>2. CASE DialSocket \/ ClientDialFails \/ DialQuic \/ DialDone
  BY <1>2, DialKeeps
<1>3. CASE ConnectionEnds \/ TimePasses \/ ReadPacket \/ SendOne \/ SenderEnds \/ CloseCalled \/ CloseConn
  BY <1>3, FlowKeeps
<1>4. CASE WritePacket \/ Drain \/ Recovered \/ GiveUpRecover
  BY <1>4, WritePacketKeeps, DrainKeeps, RecoverKeeps
<1>5. ASSUME NEW c \in Changes, Changed(c) \/ Deadline(c) \/ ChangeEnds(c) PROVE ClientIInv'
  BY <1>5, ChangeKeeps
<1>6. ASSUME NEW m \in Movers, MoveSteps(m) PROVE ClientIInv'
  BY <1>6, WalkKeeps, BindKeeps, KeepKeeps DEF MoveSteps
<1>7. QED
  BY <1>1, <1>2, <1>3, <1>4, <1>5, <1>6 DEF ClientNext, CloseSteps

\* Until a link is closed every socket it opened belongs to it or to a
\* migration that still holds it, and it keeps no more of them than
\* maxMigrations and the migrations under way allow (Dial, migrate, Close).
THEOREM ClientSound == ClientSpec => []ClientInv
<1>1. ClientSpec => []ClientIInv
  BY InitClient, NextClient, PTL DEF ClientSpec
<1>2. QED
  BY <1>1, ClientIInvIsEnough, PTL

-----------------------------------------------------------------------------
(***************************************************************************)
(* SpokeLinks.  Links are numbered without a gap, a link has a tunnel      *)
(* exactly while its goroutine is connected, what m.links names has been   *)
(* made, and what is installed is what applyRoutesLocked wanted.           *)
(***************************************************************************)
LinksOk ==
    /\ order \in HubLists \cup {<<>>} /\ stopped \in BOOLEAN
    /\ links \in [Hubs -> Links \cup {None}] /\ link \in [Links -> LinkRecord \cup {None}]
    /\ \E n \in Nat : Made = 1 .. n
    /\ \A h \in Hubs : links[h] # None => links[h] \in Made
    /\ \A l \in Made : link[l].at = "connected" <=> link[l].tunnel # None

PathOk ==
    /\ tunnel \in [Tunnels -> TunnelStates \cup {None}] /\ hosts \in [Hubs -> Tunnels \cup {None}]
    /\ good \in [Hubs -> {"unknown", "true"}]

HostOk ==
    /\ installed \subseteq Prefixes \cup Hubs /\ kernel \subseteq Prefixes \cup Hubs
    /\ resolver \in BOOLEAN /\ hostDns \in Hubs \cup {None}

SpokeIInv ==
    /\ LinksOk /\ PathOk /\ HostOk
    /\ UplinkIsFirst /\ OpenHasOwner /\ RoutesAreAdvertised /\ ResolverIsKnown

\* The hub of the least index of a set, and the two sets electLocked and
\* resolversLocked go through.
PickOf(S, C, O) == IF S = {} THEN None ELSE C[O[CHOOSE i \in S : \A j \in S : i <= j].id]
UpAt(L, C, O) == {i \in 1 .. Len(O) : C[O[i].id] # None /\ L[C[O[i].id]].tunnel # None}
KeptAt(L, C, O) == {i \in 1 .. Len(O) : C[O[i].id] # None /\ Kept(L[C[O[i].id]])}
FirstUp(L, C, O) == PickOf(UpAt(L, C, O), C, O)
UplinkOf(L, P) == IF P = None THEN None ELSE L[P].tunnel

LEMMA FirstIsPick ==
  ASSUME NEW L, NEW C, NEW O
  PROVE  /\ First(L, C, O, LAMBDA e : e.tunnel # None) = FirstUp(L, C, O)
         /\ First(L, C, O, Kept) = PickOf(KeptAt(L, C, O), C, O)
  BY DEF First, FirstUp, PickOf, UpAt, KeptAt

LEMMA UplinkIs == UplinkIsFirst <=> primary = FirstUp(link, links, order) /\ uplink = UplinkOf(link, primary)
  BY FirstIsPick DEF UplinkIsFirst, UplinkOf

LEMMA UplinkIsNext ==
  UplinkIsFirst' <=> primary' = FirstUp(link', links', order') /\ uplink' = UplinkOf(link', primary')
  BY DEF UplinkIsFirst, UplinkOf, First, FirstUp, PickOf, UpAt

\* A set of naturals has a least element.
LEMMA LeastOf == ASSUME NEW T \in SUBSET Nat, T # {} PROVE \E x \in T : \A y \in T : x <= y
<1>1. PICK x \in T : \A y \in T : ~ (<<y, x>> \in OpToRel(<, Nat))
  BY NatLessThanWellFounded, WFMin, Zenon
<1>2. \A y \in T : ~ (y < x)
  BY <1>1 DEF OpToRel
<1>3. QED
  BY <1>2

LEMMA PickMeans ==
  ASSUME NEW C, NEW O, NEW S \in SUBSET Nat
  PROVE  PickOf(S, C, O) # None => \E i \in S : PickOf(S, C, O) = C[O[i].id]
<1> SUFFICES ASSUME S # {} PROVE \E i \in S : PickOf(S, C, O) = C[O[i].id]
  BY DEF PickOf
<1>1. \E i \in S : \A j \in S : i <= j
  BY LeastOf
<1> DEFINE i == CHOOSE k \in S : \A j \in S : k <= j
<1>2. i \in S
  BY <1>1
<1>3. PickOf(S, C, O) = C[O[i].id]
  BY DEF PickOf
<1>4. QED
  BY <1>2, <1>3

\* What the lists and the links have to be for what follows.
Fit(L, C, O) ==
    /\ O \in HubLists \cup {<<>>} /\ C \in [Hubs -> Links \cup {None}] /\ L \in [Links -> LinkRecord \cup {None}]
    /\ \A h \in Hubs : C[h] # None => L[C[h]] # None

LEMMA ListsAreLists ==
  ASSUME NEW O \in HubLists \cup {<<>>}
  PROVE  /\ O \in Seq([id : Hubs, rec : Nat]) /\ Len(O) \in Nat
         /\ \A i \in 1 .. Len(O) : O[i] \in [id : Hubs, rec : Nat] /\ O[i].id \in Hubs
<1> DEFINE R == [id : Hubs, rec : Nat]
<1>1. O \in Seq(R)
  <2> HIDE DEF R
  <2>1. HubLists \subseteq Seq(R)
    BY SpokeAssumption DEF R
  <2>2. <<>> \in Seq(R)
    BY EmptySeq
  <2>3. QED
    BY <2>1, <2>2
<1>2. Len(O) \in Nat /\ \A i \in 1 .. Len(O) : O[i] \in R
  <2> HIDE DEF R
  <2>1. QED
    BY <1>1
<1>3. QED
  BY <1>1, <1>2

LEMMA FirstUpMeans ==
  ASSUME NEW L, NEW C, NEW O, Fit(L, C, O)
  PROVE  LET f == FirstUp(L, C, O) IN
         f # None => f \in Links /\ L[f] \in LinkRecord /\ L[f].tunnel # None /\ L[f].tunnel \in Tunnels
<1> DEFINE f == FirstUp(L, C, O)
<1> SUFFICES ASSUME f # None
             PROVE  f \in Links /\ L[f] \in LinkRecord /\ L[f].tunnel # None /\ L[f].tunnel \in Tunnels
  OBVIOUS
<1>1. UpAt(L, C, O) \in SUBSET Nat
  BY ListsAreLists DEF UpAt, Fit
<1>2. PICK i \in UpAt(L, C, O) : f = C[O[i].id]
  BY <1>1, PickMeans DEF FirstUp
<1>3. C[O[i].id] # None /\ L[C[O[i].id]].tunnel # None /\ O[i].id \in Hubs
  BY ListsAreLists DEF UpAt, Fit
<1>4. f \in Links /\ L[f] \in LinkRecord /\ L[f].tunnel # None
  BY <1>2, <1>3 DEF Fit
<1>5. QED
  BY <1>4 DEF LinkRecord

\* Who has a tunnel decides who is first.
SameUps(L, M) == \A l \in Links : L[l] # None => (M[l].tunnel # None <=> L[l].tunnel # None)

LEMMA FirstUpSame ==
  ASSUME NEW L, NEW M, NEW C, NEW O, Fit(L, C, O), SameUps(L, M)
  PROVE  FirstUp(M, C, O) = FirstUp(L, C, O)
<1>1. \A i \in 1 .. Len(O) : C[O[i].id] # None =>
        C[O[i].id] \in Links /\ L[C[O[i].id]] # None
  BY ListsAreLists DEF Fit
<1>2. UpAt(M, C, O) = UpAt(L, C, O)
  BY <1>1 DEF UpAt, SameUps
<1>3. QED
  BY <1>2 DEF FirstUp

LEMMA ResolversMeans ==
  ASSUME NEW L, NEW C, NEW O, NEW P, Fit(L, C, O), P # None => P \in Links /\ L[P] \in LinkRecord
  PROVE  Resolvers(L, C, O, P) \in Hubs \cup {None}
<1> DEFINE f == PickOf(KeptAt(L, C, O), C, O)
<1>1. f # None => f \in Links /\ L[f] \in LinkRecord
  <2> SUFFICES ASSUME f # None PROVE f \in Links /\ L[f] \in LinkRecord
    OBVIOUS
  <2>1. KeptAt(L, C, O) \in SUBSET Nat
    BY ListsAreLists DEF KeptAt, Fit
  <2>2. PICK i \in KeptAt(L, C, O) : f = C[O[i].id]
    BY <2>1, PickMeans
  <2>3. C[O[i].id] # None /\ O[i].id \in Hubs
    BY ListsAreLists DEF KeptAt, Fit
  <2>4. QED
    BY <2>2, <2>3 DEF Fit
<1>2. Resolvers(L, C, O, P) = LET k == IF P # None THEN P ELSE f IN IF k = None THEN None ELSE L[k].hub
  BY FirstIsPick DEF Resolvers
<1> HIDE DEF f
<1>3. QED
  BY <1>1, <1>2 DEF LinkRecord

LEMMA WantedMeans ==
  ASSUME NEW L, NEW C, NEW O, NEW P, NEW loc, Fit(L, C, O), P # None => P \in Links /\ L[P] \in LinkRecord
  PROVE  /\ Wanted(L, C, O, P, loc) \subseteq Prefixes \cup Hubs
         /\ Wanted(L, C, O, P, loc) \cap Prefixes \subseteq UNION {L[l].adv : l \in {k \in Links : L[k] # None}}
<1> DEFINE standing == {h \in Hubs : C[h] # None /\ (L[C[h]].tunnel # None \/ Kept(L[C[h]]))}
           some == {k \in Links : L[k] # None}
<1>1. Wanted(L, C, O, P, loc)
        = (UNION {L[C[h]].adv : h \in standing} \ loc) \cup ({Resolvers(L, C, O, P)} \ {None})
  BY DEF Wanted
<1>2. {Resolvers(L, C, O, P)} \ {None} \subseteq Hubs
  BY ResolversMeans
<1>3. \A h \in standing : C[h] \in some /\ L[C[h]].adv \subseteq Prefixes
  BY DEF Fit, LinkRecord
<1>4. UNION {L[C[h]].adv : h \in standing} \subseteq Prefixes
  BY <1>3
<1>5. UNION {L[C[h]].adv : h \in standing} \subseteq UNION {L[l].adv : l \in some}
  BY <1>3
<1> HIDE DEF standing, some
<1>6. QED
  BY <1>1, <1>2, <1>4, <1>5, SpokeAssumption DEF some

\* Whatever the host answers, what is installed was wanted.
LEMMA RoutesKeep ==
  ASSUME NEW L, NEW C, NEW O, NEW P, NEW loc, Fit(L, C, O), P # None => P \in Links /\ L[P] \in LinkRecord,
         HostOk, ResolverIsKnown, ApplyRoutes(L, C, O, P, loc)
  PROVE  /\ HostOk' /\ ResolverIsKnown'
         /\ installed' \cap Prefixes \subseteq UNION {L[l].adv : l \in {k \in Links : L[k] # None}}
<1> DEFINE W == Wanted(L, C, O, P, loc)
           k == Resolvers(L, C, O, P)
<1>1. W \subseteq Prefixes \cup Hubs /\ W \cap Prefixes \subseteq UNION {L[l].adv : l \in {n \in Links : L[n] # None}}
  BY WantedMeans
<1>2. k \in Hubs \cup {None}
  BY ResolversMeans
<1> HIDE DEF W, k
<1>3. /\ \/ installed' = W
         \/ \E add \in {W \ installed, {}} : installed' = (installed \cap W) \cup add
      /\ \/ kernel' = (kernel \ (installed \ W)) \cup (W \ installed)
         \/ \E add \in {W \ installed, {}}, del \in {installed \ W, {}} : kernel' = (kernel \ del) \cup add
      /\ ApplyDNS(k) \/ DNSFails(k)
  BY DEF ApplyRoutes, W, k
<1>4. installed' \subseteq W /\ kernel' \subseteq kernel \cup W
  BY <1>3
<1>5. resolver' \in BOOLEAN /\ hostDns' \in Hubs \cup {None} /\ ResolverIsKnown'
  <2>1. CASE ApplyDNS(k)
    BY <1>2, <2>1 DEF ApplyDNS, ResolverIsKnown
  <2>2. CASE DNSFails(k)
    BY <1>2, <2>2 DEF DNSFails, ResolverIsKnown, HostOk
  <2>3. QED
    BY <1>3, <2>1, <2>2
<1>6. HostOk'
  BY <1>1, <1>4, <1>5 DEF HostOk
<1>7. QED
  BY <1>1, <1>4, <1>5, <1>6

LEMMA NoneIsNoLink == /\ None \notin LinkRecord /\ None \notin Links /\ None \notin Tunnels /\ None \notin Hubs
                      /\ None \notin TunnelStates
  BY SpokeAssumption

LEMMA FitNow == LinksOk => Fit(link, links, order)
  BY DEF LinksOk, Fit, Made

LEMMA MadeIsMade == LinksOk => \A l \in Made : l \in Links /\ link[l] \in LinkRecord
  BY DEF LinksOk, Made

\* The primary is a link with a tunnel.
LEMMA PrimaryIs ==
  ASSUME LinksOk, UplinkIsFirst
  PROVE  /\ primary # None => /\ primary \in Links /\ link[primary] \in LinkRecord
                              /\ link[primary].tunnel # None /\ link[primary].tunnel \in Tunnels
         /\ primary = FirstUp(link, links, order) /\ uplink = UplinkOf(link, primary)
  BY FitNow, FirstUpMeans, UplinkIs

LEMMA PrimaryNext ==
  ASSUME Fit(link', links', order'), UplinkIsFirst'
  PROVE  primary' # None => primary' \in Links /\ link'[primary'] \in LinkRecord
  BY FirstUpMeans, UplinkIsNext

\* One field of a link changes.
LEMMA WithAt ==
  ASSUME NEW e \in LinkRecord, NEW v \in {"dialing", "connected", "gone"}
  PROVE  LET x == [e EXCEPT !.at = v] IN
         /\ x \in LinkRecord /\ x.at = v
         /\ x.hub = e.hub /\ x.rec = e.rec /\ x.cancelled = e.cancelled
         /\ x.tunnel = e.tunnel /\ x.adv = e.adv /\ x.lost = e.lost
  BY DEF LinkRecord

LEMMA WithTunnel ==
  ASSUME NEW e \in LinkRecord, NEW v \in Tunnels \cup {None}
  PROVE  LET x == [e EXCEPT !.tunnel = v] IN
         /\ x \in LinkRecord /\ x.tunnel = v
         /\ x.hub = e.hub /\ x.rec = e.rec /\ x.cancelled = e.cancelled
         /\ x.at = e.at /\ x.adv = e.adv /\ x.lost = e.lost
  BY DEF LinkRecord

LEMMA WithAdv ==
  ASSUME NEW e \in LinkRecord, NEW v \in SUBSET Prefixes
  PROVE  LET x == [e EXCEPT !.adv = v] IN
         /\ x \in LinkRecord /\ x.adv = v
         /\ x.hub = e.hub /\ x.rec = e.rec /\ x.cancelled = e.cancelled
         /\ x.at = e.at /\ x.tunnel = e.tunnel /\ x.lost = e.lost
  BY DEF LinkRecord

LEMMA WithLost ==
  ASSUME NEW e \in LinkRecord, NEW v \in {"no", "kept", "over"}
  PROVE  LET x == [e EXCEPT !.lost = v] IN
         /\ x \in LinkRecord /\ x.lost = v
         /\ x.hub = e.hub /\ x.rec = e.rec /\ x.cancelled = e.cancelled
         /\ x.at = e.at /\ x.tunnel = e.tunnel /\ x.adv = e.adv
  BY DEF LinkRecord

LEMMA WithCancelled ==
  ASSUME NEW e \in LinkRecord, NEW v \in BOOLEAN
  PROVE  LET x == [e EXCEPT !.cancelled = v] IN
         /\ x \in LinkRecord /\ x.cancelled = v
         /\ x.hub = e.hub /\ x.rec = e.rec /\ x.at = e.at
         /\ x.tunnel = e.tunnel /\ x.adv = e.adv /\ x.lost = e.lost
  BY DEF LinkRecord

\* One link changes.
LEMMA OneLink ==
  ASSUME LinksOk, NEW l \in Made, NEW e \in LinkRecord, e.at = "connected" <=> e.tunnel # None,
         link' = [link EXCEPT ![l] = e], UNCHANGED <<order, links, stopped>>
  PROVE  /\ LinksOk' /\ Made' = Made /\ Fit(link', links', order') /\ link'[l] = e
         /\ \A k \in Links : k # l => link'[k] = link[k]
<1>1. l \in Links /\ link[l] # None /\ link \in [Links -> LinkRecord \cup {None}]
  BY DEF LinksOk, Made
<1>2. /\ link' \in [Links -> LinkRecord \cup {None}] /\ link'[l] = e
      /\ \A k \in Links : k # l => link'[k] = link[k]
  BY <1>1
<1>3. Made' = Made
  BY <1>1, <1>2, NoneIsNoLink DEF Made
<1>4. LinksOk'
  BY <1>2, <1>3 DEF LinksOk, Made
<1>5. Fit(link', links', order')
  BY <1>2, <1>3, <1>4 DEF Fit, LinksOk, Made
<1>6. QED
  BY <1>2, <1>3, <1>4, <1>5

\* A link that keeps its tunnel changes: the paths stay.
LEMMA LinkStays ==
  ASSUME SpokeIInv, NEW l \in Made, NEW e \in LinkRecord, e.tunnel = link[l].tunnel,
         e.at = "connected" <=> link[l].at = "connected",
         link' = [link EXCEPT ![l] = e], UNCHANGED <<order, links, pathVars, good, stopped>>
  PROVE  /\ LinksOk' /\ PathOk' /\ UplinkIsFirst' /\ OpenHasOwner' /\ Fit(link', links', order') /\ Made' = Made
         /\ primary' # None => primary' \in Links /\ link'[primary'] \in LinkRecord
<1>1. /\ LinksOk' /\ Made' = Made /\ Fit(link', links', order') /\ link'[l] = e
      /\ \A k \in Links : k # l => link'[k] = link[k]
  BY OneLink DEF SpokeIInv, LinksOk
<1>2. PathOk'
  BY DEF SpokeIInv, PathOk, pathVars
<1>3. UplinkIsFirst'
  <2>1. FirstUp(link', links, order) = FirstUp(link, links, order)
    <3>1. SameUps(link, link')
      BY <1>1 DEF SameUps
    <3>2. Fit(link, links, order)
      BY FitNow DEF SpokeIInv
    <3>3. QED
      BY <3>1, <3>2, FirstUpSame
  <2>2. primary' = FirstUp(link', links', order')
    BY <2>1, PrimaryIs DEF SpokeIInv, pathVars
  <2>3. uplink' = UplinkOf(link', primary')
    BY <1>1, PrimaryIs DEF SpokeIInv, pathVars, UplinkOf
  <2>4. QED
    BY <2>2, <2>3, UplinkIsNext
<1>4. OpenHasOwner'
  BY <1>1 DEF SpokeIInv, OpenHasOwner, MadeTunnels, pathVars, Made
<1>5. QED
  BY <1>1, <1>2, <1>3, <1>4, PrimaryNext

\* electLocked after a link got a tunnel or lost it.
LEMMA ElectKeeps ==
  ASSUME SpokeIInv, NEW l \in Made, link[l].tunnel = None \/ link'[l].tunnel = None,
         \A k \in Links : k # l => link'[k] = link[k], Fit(link', links', order'),
         UNCHANGED <<order, links>>, Elect(link', links, order, primary)
  PROVE  /\ UplinkIsFirst'
         /\ primary' # None => primary' \in Links /\ link'[primary'] \in LinkRecord
<1> DEFINE best == FirstUp(link', links, order)
<1>1. /\ primary' = best
      /\ uplink' = IF best = primary THEN uplink ELSE IF best = None THEN None ELSE link'[best].tunnel
  BY FirstIsPick DEF Elect
<1>2. best # None => best \in Links /\ link'[best] \in LinkRecord /\ link'[best].tunnel # None
  BY FirstUpMeans
<1>3. /\ primary # None => primary \in Links /\ link[primary].tunnel # None
      /\ uplink = UplinkOf(link, primary)
  BY PrimaryIs DEF SpokeIInv
<1> HIDE DEF best
<1>4. uplink' = UplinkOf(link', best)
  <2>1. CASE best = primary /\ best # None
    <3>1. best # l
      BY <1>2, <1>3, <2>1
    <3>2. QED
      BY <1>1, <1>2, <1>3, <2>1, <3>1 DEF UplinkOf
  <2>2. CASE best # primary \/ best = None
    BY <1>1, <1>3, <2>2 DEF UplinkOf
  <2>3. QED
    BY <2>1, <2>2
<1>5. UplinkIsFirst'
  BY <1>1, <1>4, UplinkIsNext DEF best
<1>6. QED
  BY <1>1, <1>2, <1>5

\* What is installed was advertised, in terms of the links.
LEMMA AdvertisedNext ==
  ASSUME installed' \cap Prefixes \subseteq UNION {link'[l].adv : l \in {k \in Links : link'[k] # None}}
  PROVE  RoutesAreAdvertised'
  BY DEF RoutesAreAdvertised, Made

\* What nothing of a link took away is still advertised.
LEMMA AdvertisedStays ==
  ASSUME SpokeIInv, Made \subseteq Made', \A l \in Made : link'[l].adv = link[l].adv, installed' \subseteq installed
  PROVE  RoutesAreAdvertised'
<1>1. UNION {link[l].adv : l \in Made} \subseteq UNION {link'[l].adv : l \in Made'}
  OBVIOUS
<1>2. QED
  BY <1>1 DEF SpokeIInv, RoutesAreAdvertised

LEMMA DialFailsKeeps ==
  ASSUME SpokeIInv, NEW l \in Links, NEW refused \in BOOLEAN, DialFails(l, refused)
  PROVE  SpokeIInv'
<1> DEFINE e == link[l]
           place == IF e.cancelled THEN "gone" ELSE e.at
           nets == IF refused THEN {} ELSE e.adv
           loss == IF refused THEN "no" ELSE e.lost
           x1 == [e EXCEPT !.at = place]
           x2 == [x1 EXCEPT !.adv = nets]
           x == [x2 EXCEPT !.lost = loss]
<1>1. l \in Made /\ e \in LinkRecord /\ e.at = "dialing" /\ e.tunnel = None
  BY MadeIsMade DEF DialFails, At, SpokeIInv, LinksOk
<1>2. link' = [link EXCEPT ![l] = x]
  BY DEF DialFails, Set
<1>3. x \in LinkRecord /\ x.tunnel = e.tunnel /\ x.at # "connected" /\ (~refused => x.adv = e.adv)
  <2>1. /\ place \in {"dialing", "connected", "gone"} /\ place # "connected"
        /\ nets \in SUBSET Prefixes /\ loss \in {"no", "kept", "over"} /\ (~refused => nets = e.adv)
    BY <1>1 DEF LinkRecord
  <2> HIDE DEF e, place, nets, loss
  <2>2. x1 \in LinkRecord /\ x1.at = place /\ x1.tunnel = e.tunnel
    BY <1>1, <2>1, WithAt
  <2> HIDE DEF x1
  <2>3. x2 \in LinkRecord /\ x2.at = place /\ x2.tunnel = e.tunnel /\ x2.adv = nets
    BY <2>1, <2>2, WithAdv
  <2> HIDE DEF x2
  <2>4. x \in LinkRecord /\ x.at = place /\ x.tunnel = e.tunnel /\ x.adv = nets
    BY <2>1, <2>3, WithLost
  <2>5. QED
    BY <2>1, <2>4
<1>4. UNCHANGED <<order, links, pathVars, good, stopped>>
  BY DEF DialFails
<1> HIDE DEF e, place, x
<1>5. /\ LinksOk' /\ PathOk' /\ UplinkIsFirst' /\ OpenHasOwner' /\ Fit(link', links', order') /\ Made' = Made
      /\ primary' # None => primary' \in Links /\ link'[primary'] \in LinkRecord
  BY <1>1, <1>2, <1>3, <1>4, LinkStays DEF e
<1>6. CASE refused
  <2>1. ApplyRoutes(link', links', order', primary', locals)
    BY <1>4, <1>6 DEF DialFails, pathVars
  <2>2. /\ HostOk' /\ ResolverIsKnown'
        /\ installed' \cap Prefixes \subseteq UNION {link'[k].adv : k \in {n \in Links : link'[n] # None}}
    BY <1>5, <2>1, RoutesKeep DEF SpokeIInv
  <2>3. QED
    BY <1>5, <2>2, AdvertisedNext DEF SpokeIInv
<1>7. CASE ~refused
  <2>1. UNCHANGED hostVars
    BY <1>7 DEF DialFails
  <2>2. \A k \in Made : link'[k].adv = link[k].adv
    BY <1>1, <1>2, <1>3, <1>7 DEF e, SpokeIInv, LinksOk, Made
  <2>3. RoutesAreAdvertised'
    BY <1>5, <2>1, <2>2, AdvertisedStays DEF hostVars
  <2>4. HostOk' /\ ResolverIsKnown'
    BY <2>1 DEF SpokeIInv, HostOk, ResolverIsKnown, hostVars
  <2>5. QED
    BY <1>5, <2>3, <2>4 DEF SpokeIInv
<1>8. QED
  BY <1>6, <1>7

LEMMA GracePassesKeeps ==
  ASSUME SpokeIInv, NEW l \in Links, GracePasses(l)
  PROVE  SpokeIInv'
<1> DEFINE x == [link[l] EXCEPT !.lost = "over"]
<1>1. l \in Made /\ link[l] \in LinkRecord /\ link' = [link EXCEPT ![l] = x]
  BY MadeIsMade DEF GracePasses, Set, SpokeIInv
<1>2. x \in LinkRecord /\ x.tunnel = link[l].tunnel /\ x.at = link[l].at /\ x.adv = link[l].adv
  BY <1>1 DEF LinkRecord
<1>3. UNCHANGED <<order, links, pathVars, hostVars, good, stopped>>
  BY DEF GracePasses
<1> HIDE DEF x
<1>4. /\ LinksOk' /\ PathOk' /\ UplinkIsFirst' /\ OpenHasOwner' /\ Made' = Made
  BY <1>1, <1>2, <1>3, LinkStays
<1>5. \A k \in Made : link'[k].adv = link[k].adv
  BY <1>1, <1>2 DEF SpokeIInv, LinksOk, Made
<1>6. RoutesAreAdvertised'
  BY <1>3, <1>4, <1>5, AdvertisedStays DEF hostVars
<1>7. HostOk' /\ ResolverIsKnown'
  BY <1>3 DEF SpokeIInv, HostOk, ResolverIsKnown, hostVars
<1>8. QED
  BY <1>4, <1>6, <1>7 DEF SpokeIInv

LEMMA GraceEndsKeeps ==
  ASSUME SpokeIInv, NEW l \in Links, GraceEnds(l)
  PROVE  SpokeIInv'
<1> DEFINE e == link[l]
           x1 == [e EXCEPT !.lost = "no"]
           x == [x1 EXCEPT !.adv = {}]
<1>1. l \in Made /\ e \in LinkRecord
  BY MadeIsMade DEF GraceEnds, SpokeIInv
<1>2. link' = [link EXCEPT ![l] = x]
  BY DEF GraceEnds, Set
<1>3. x \in LinkRecord /\ x.tunnel = e.tunnel /\ x.at = e.at
  <2> HIDE DEF e
  <2>1. x1 \in LinkRecord /\ x1.tunnel = e.tunnel /\ x1.at = e.at
    BY <1>1, WithLost
  <2> HIDE DEF x1
  <2>2. QED
    BY <2>1, WithAdv
<1>4. UNCHANGED <<order, links, pathVars, good, stopped>> /\ ApplyRoutes(link', links, order, primary, locals)
  BY DEF GraceEnds
<1> HIDE DEF e, x
<1>5. /\ LinksOk' /\ PathOk' /\ UplinkIsFirst' /\ OpenHasOwner' /\ Fit(link', links', order') /\ Made' = Made
      /\ primary' # None => primary' \in Links /\ link'[primary'] \in LinkRecord
  BY <1>1, <1>2, <1>3, <1>4, LinkStays DEF e
<1>6. ApplyRoutes(link', links', order', primary', locals)
  BY <1>4 DEF pathVars
<1>7. /\ HostOk' /\ ResolverIsKnown'
      /\ installed' \cap Prefixes \subseteq UNION {link'[k].adv : k \in {n \in Links : link'[n] # None}}
  BY <1>5, <1>6, RoutesKeep DEF SpokeIInv
<1>8. QED
  BY <1>5, <1>7, AdvertisedNext DEF SpokeIInv

LEMMA ConnectsKeeps ==
  ASSUME SpokeIInv, NEW l \in Links, NEW a \in {"true", "other"}, Connects(l, a)
  PROVE  SpokeIInv'
<1> DEFINE e == link[l]
           t == FreshTunnel
           x1 == [e EXCEPT !.at = "connected"]
           x2 == [x1 EXCEPT !.tunnel = t]
           x3 == [x2 EXCEPT !.adv = AdvOf[e.hub]]
           x == [x3 EXCEPT !.lost = "no"]
<1>1. l \in Made /\ e \in LinkRecord /\ e.at = "dialing" /\ e.tunnel = None /\ t \in Tunnels /\ e.hub \in Hubs
  BY MadeIsMade DEF Connects, At, SpokeIInv, LinksOk, LinkRecord
<1>2. link' = [link EXCEPT ![l] = x]
  BY DEF Connects, Set
<1>3. x \in LinkRecord /\ x.tunnel = t /\ x.at = "connected"
  <2>1. AdvOf[e.hub] \in SUBSET Prefixes
    BY <1>1, SpokeAssumption
  <2> HIDE DEF e, t
  <2>2. x1 \in LinkRecord /\ x1.at = "connected"
    BY <1>1, WithAt
  <2> HIDE DEF x1
  <2>3. x2 \in LinkRecord /\ x2.at = "connected" /\ x2.tunnel = t
    BY <1>1, <2>2, WithTunnel
  <2> HIDE DEF x2
  <2>4. x3 \in LinkRecord /\ x3.at = "connected" /\ x3.tunnel = t
    BY <2>1, <2>3, WithAdv
  <2> HIDE DEF x3
  <2>5. QED
    BY <2>4, WithLost
<1>4. /\ UNCHANGED <<order, links, stopped>> /\ tunnel' = [tunnel EXCEPT ![t] = "open"]
      /\ hosts' = [hosts EXCEPT ![e.hub] = t] /\ good' = [good EXCEPT ![e.hub] = "true"]
      /\ Elect(link', links, order, primary) /\ ApplyRoutes(link', links, order, primary', locals)
  BY DEF Connects, Confirms
<1> HIDE DEF e, t, x
<1>5. t # None
  BY <1>1, NoneIsNoLink
<1>6. /\ LinksOk' /\ Made' = Made /\ Fit(link', links', order') /\ link'[l] = x
      /\ \A k \in Links : k # l => link'[k] = link[k]
  BY <1>1, <1>2, <1>3, <1>4, <1>5, OneLink DEF SpokeIInv
<1>7. PathOk'
  BY <1>1, <1>4 DEF SpokeIInv, PathOk, TunnelStates
<1>8. /\ UplinkIsFirst'
      /\ primary' # None => primary' \in Links /\ link'[primary'] \in LinkRecord
  BY <1>1, <1>4, <1>6, ElectKeeps DEF e
<1>9. OpenHasOwner'
  <2> SUFFICES ASSUME NEW u \in Tunnels, tunnel'[u] = "open"
               PROVE  \E k \in Made' : link'[k].at = "connected" /\ link'[k].tunnel = u
    BY DEF OpenHasOwner, MadeTunnels
  <2>1. CASE u = t
    BY <1>1, <1>3, <1>6, <2>1
  <2>2. CASE u # t
    <3>1. tunnel[u] = "open"
      BY <1>1, <1>4, <2>2 DEF SpokeIInv, PathOk
    <3>2. PICK k \in Made : link[k].at = "connected" /\ link[k].tunnel = u
      BY <3>1, NoneIsNoLink DEF SpokeIInv, OpenHasOwner, MadeTunnels, TunnelStates
    <3>3. k # l /\ k \in Links
      BY <1>1, <3>2 DEF Made, e
    <3>4. QED
      BY <1>6, <3>2, <3>3
  <2>3. QED
    BY <2>1, <2>2
<1>10. /\ HostOk' /\ ResolverIsKnown'
       /\ installed' \cap Prefixes \subseteq UNION {link'[k].adv : k \in {n \in Links : link'[n] # None}}
  <2>1. ApplyRoutes(link', links', order', primary', locals)
    BY <1>4
  <2>2. QED
    BY <1>6, <1>8, <2>1, RoutesKeep DEF SpokeIInv
<1>11. QED
  BY <1>6, <1>7, <1>8, <1>9, <1>10, AdvertisedNext DEF SpokeIInv

LEMMA MovesBackKeeps ==
  ASSUME SpokeIInv, NEW l \in Links, MovesBack(l)
  PROVE  SpokeIInv'
<1> DEFINE e == link[l]
           t == FreshTunnel
           x1 == [e EXCEPT !.tunnel = t]
           x == [x1 EXCEPT !.adv = AdvOf[e.hub]]
<1>1. /\ l \in Made /\ e \in LinkRecord /\ e.at = "connected" /\ e.tunnel # None /\ e.tunnel \in Tunnels
      /\ t \in Tunnels /\ e.hub \in Hubs
  BY MadeIsMade DEF MovesBack, At, SpokeIInv, LinksOk, LinkRecord
<1>2. link' = [link EXCEPT ![l] = x]
  BY DEF MovesBack, Set
<1>3. x \in LinkRecord /\ x.tunnel = t /\ x.at = "connected"
  <2>1. AdvOf[e.hub] \in SUBSET Prefixes
    BY <1>1, SpokeAssumption
  <2> HIDE DEF e, t
  <2>2. x1 \in LinkRecord /\ x1.at = "connected" /\ x1.tunnel = t
    BY <1>1, WithTunnel
  <2> HIDE DEF x1
  <2>3. QED
    BY <2>1, <2>2, WithAdv
<1>4. /\ UNCHANGED <<order, links, good, stopped>>
      /\ tunnel' = [[tunnel EXCEPT ![t] = "open"] EXCEPT ![e.tunnel] = "closed"]
      /\ hosts' = [hosts EXCEPT ![e.hub] = t]
      /\ Elect(link', links, order, None) /\ ApplyRoutes(link', links, order, primary', locals)
  BY DEF MovesBack
<1> HIDE DEF e, t, x1, x
<1>5. t # None
  BY <1>1, NoneIsNoLink
<1>6. /\ LinksOk' /\ Made' = Made /\ Fit(link', links', order') /\ link'[l] = x
      /\ \A k \in Links : k # l => link'[k] = link[k]
  BY <1>1, <1>2, <1>3, <1>4, <1>5, OneLink DEF SpokeIInv
<1>7. PathOk'
  BY <1>1, <1>4 DEF SpokeIInv, PathOk, TunnelStates
<1>8. UplinkIsFirst'
  <2> DEFINE best == FirstUp(link', links, order)
  <2>1. /\ primary' = best
        /\ uplink' = IF best = None THEN uplink ELSE IF best = None THEN None ELSE link'[best].tunnel
    BY <1>4, FirstIsPick DEF Elect
  <2>2. SameUps(link, link')
    BY <1>1, <1>3, <1>5, <1>6 DEF SameUps, e
  <2>3. best = primary
    BY <2>2, FitNow, FirstUpSame, PrimaryIs DEF SpokeIInv
  <2>4. best = None => uplink = None
    BY <2>3, PrimaryIs DEF SpokeIInv, UplinkOf
  <2>5. uplink' = UplinkOf(link', best)
    BY <2>1, <2>4 DEF UplinkOf
  <2>6. QED
    BY <1>4, <2>1, <2>5, UplinkIsNext
<1>9. OpenHasOwner'
  <2> SUFFICES ASSUME NEW u \in Tunnels, tunnel'[u] = "open"
               PROVE  \E k \in Made' : link'[k].at = "connected" /\ link'[k].tunnel = u
    BY DEF OpenHasOwner, MadeTunnels
  <2>1. CASE u = t
    BY <1>1, <1>3, <1>6, <2>1
  <2>2. CASE u # t
    <3>1. tunnel[u] = "open" /\ u # e.tunnel
      BY <1>1, <1>4, <2>2 DEF SpokeIInv, PathOk
    <3>2. PICK k \in Made : link[k].at = "connected" /\ link[k].tunnel = u
      BY <3>1, NoneIsNoLink DEF SpokeIInv, OpenHasOwner, MadeTunnels, TunnelStates
    <3>3. k # l /\ k \in Links
      BY <1>1, <3>1, <3>2 DEF Made, e
    <3>4. QED
      BY <1>6, <3>2, <3>3
  <2>3. QED
    BY <2>1, <2>2
<1>10. /\ HostOk' /\ ResolverIsKnown'
       /\ installed' \cap Prefixes \subseteq UNION {link'[k].adv : k \in {n \in Links : link'[n] # None}}
  <2>1. ApplyRoutes(link', links', order', primary', locals)
    BY <1>4
  <2>2. QED
    BY <1>6, <1>8, <2>1, PrimaryNext, RoutesKeep DEF SpokeIInv
<1>11. QED
  BY <1>6, <1>7, <1>8, <1>9, <1>10, AdvertisedNext DEF SpokeIInv

LEMMA LosesKeeps ==
  ASSUME SpokeIInv, NEW l \in Links, Loses(l)
  PROVE  SpokeIInv'
<1> DEFINE e == link[l]
           cause == IF tunnel[e.tunnel] = "open" THEN "closed" ELSE tunnel[e.tunnel]
           keep == ~e.cancelled /\ KeepsRoutes(cause)
           next == IF e.cancelled \/ cause = "revoked" THEN "gone" ELSE "dialing"
           nets == IF keep THEN e.adv ELSE {}
           loss == IF keep THEN "kept" ELSE "no"
           x1 == [e EXCEPT !.tunnel = None]
           x2 == [x1 EXCEPT !.at = next]
           x3 == [x2 EXCEPT !.adv = nets]
           x == [x3 EXCEPT !.lost = loss]
<1>1. l \in Made /\ e \in LinkRecord /\ e.at = "connected" /\ e.tunnel # None /\ e.tunnel \in Tunnels /\ e.hub \in Hubs
  BY MadeIsMade DEF Loses, At, SpokeIInv, LinksOk, LinkRecord
<1>2. link' = [link EXCEPT ![l] = x]
  BY DEF Loses, Set
<1>3. x \in LinkRecord /\ x.tunnel = None /\ x.at # "connected"
  <2>1. /\ next \in {"dialing", "connected", "gone"} /\ next # "connected"
        /\ nets \in SUBSET Prefixes /\ loss \in {"no", "kept", "over"}
    BY <1>1 DEF LinkRecord
  <2> HIDE DEF e, next, nets, loss
  <2>2. x1 \in LinkRecord /\ x1.tunnel = None
    BY <1>1, WithTunnel
  <2> HIDE DEF x1
  <2>3. x2 \in LinkRecord /\ x2.tunnel = None /\ x2.at = next
    BY <2>1, <2>2, WithAt
  <2> HIDE DEF x2
  <2>4. x3 \in LinkRecord /\ x3.tunnel = None /\ x3.at = next
    BY <2>1, <2>3, WithAdv
  <2> HIDE DEF x3
  <2>5. x \in LinkRecord /\ x.tunnel = None /\ x.at = next
    BY <2>1, <2>4, WithLost
  <2>6. QED
    BY <2>1, <2>5
<1>4. /\ UNCHANGED <<order, links, good, stopped>> /\ tunnel' = [tunnel EXCEPT ![e.tunnel] = "closed"]
      /\ hosts' = hosts \/ hosts' = [hosts EXCEPT ![e.hub] = None]
      /\ Elect(link', links, order, primary) /\ ApplyRoutes(link', links, order, primary', locals)
  BY DEF Loses
<1> HIDE DEF e, x1, x2, x3, x, next, cause, keep, nets, loss
<1>5. /\ LinksOk' /\ Made' = Made /\ Fit(link', links', order') /\ link'[l] = x
      /\ \A k \in Links : k # l => link'[k] = link[k]
  BY <1>1, <1>2, <1>3, <1>4, OneLink DEF SpokeIInv
<1>6. PathOk'
  BY <1>1, <1>4 DEF SpokeIInv, PathOk, TunnelStates
<1>7. /\ UplinkIsFirst'
      /\ primary' # None => primary' \in Links /\ link'[primary'] \in LinkRecord
  BY <1>1, <1>3, <1>4, <1>5, ElectKeeps
<1>8. OpenHasOwner'
  <2> SUFFICES ASSUME NEW u \in Tunnels, tunnel'[u] = "open"
               PROVE  \E k \in Made' : link'[k].at = "connected" /\ link'[k].tunnel = u
    BY DEF OpenHasOwner, MadeTunnels
  <2>1. tunnel[u] = "open" /\ u # e.tunnel
    BY <1>1, <1>4 DEF SpokeIInv, PathOk
  <2>2. PICK k \in Made : link[k].at = "connected" /\ link[k].tunnel = u
    BY <2>1, NoneIsNoLink DEF SpokeIInv, OpenHasOwner, MadeTunnels, TunnelStates
  <2>3. k # l /\ k \in Links
    BY <2>1, <2>2 DEF Made, e
  <2>4. QED
    BY <1>5, <2>2, <2>3
<1>9. /\ HostOk' /\ ResolverIsKnown'
      /\ installed' \cap Prefixes \subseteq UNION {link'[k].adv : k \in {n \in Links : link'[n] # None}}
  <2>1. ApplyRoutes(link', links', order', primary', locals)
    BY <1>4
  <2>2. QED
    BY <1>5, <1>7, <2>1, RoutesKeep DEF SpokeIInv
<1>10. QED
  BY <1>5, <1>6, <1>7, <1>8, <1>9, AdvertisedNext DEF SpokeIInv

\* Links and their order stay.
LEMMA LinksStay ==
  ASSUME LinksOk, UplinkIsFirst, UNCHANGED <<order, links, link, primary, uplink, stopped>>
  PROVE  LinksOk' /\ UplinkIsFirst' /\ Made' = Made
<1>1. Made' = Made
  BY DEF Made
<1>2. LinksOk'
  BY <1>1 DEF LinksOk
<1>3. UplinkIsFirst'
  BY UplinkIs, UplinkIsNext
<1>4. QED
  BY <1>1, <1>2, <1>3

\* A tunnel ends by itself: its goroutine has not seen it yet.
LEMMA TunnelEndsKeeps ==
  ASSUME SpokeIInv, NEW t \in Tunnels, NEW cause \in {"lost", "revoked", "refused"}, TunnelEnds(t, cause)
  PROVE  SpokeIInv'
<1>1. /\ tunnel' = [tunnel EXCEPT ![t] = cause]
      /\ UNCHANGED <<order, links, link, primary, uplink, hosts, installed, kernel, resolver, hostDns, good, stopped>>
  BY DEF TunnelEnds, linkVars, hostVars
<1>2. LinksOk' /\ HostOk' /\ UplinkIsFirst' /\ RoutesAreAdvertised' /\ ResolverIsKnown'
  <2>1. LinksOk' /\ UplinkIsFirst' /\ Made' = Made
    BY <1>1, LinksStay DEF SpokeIInv
  <2>2. HostOk' /\ RoutesAreAdvertised' /\ ResolverIsKnown'
    BY <1>1, <2>1 DEF SpokeIInv, HostOk, RoutesAreAdvertised, ResolverIsKnown
  <2>3. QED
    BY <2>1, <2>2
<1>3. PathOk'
  BY <1>1 DEF SpokeIInv, PathOk, TunnelStates
<1>4. OpenHasOwner'
  <2> SUFFICES ASSUME NEW u \in Tunnels, tunnel'[u] = "open"
               PROVE  \E k \in Made' : link'[k].at = "connected" /\ link'[k].tunnel = u
    BY DEF OpenHasOwner, MadeTunnels
  <2>1. tunnel[u] = "open"
    BY <1>1 DEF SpokeIInv, PathOk
  <2>2. PICK k \in Made : link[k].at = "connected" /\ link[k].tunnel = u
    BY <2>1, NoneIsNoLink DEF SpokeIInv, OpenHasOwner, MadeTunnels, TunnelStates
  <2>3. QED
    BY <1>1, <2>2 DEF Made
<1>5. QED
  BY <1>2, <1>3, <1>4 DEF SpokeIInv

\* What the host does, and recheckRoutes after it.
LEMMA HostKeeps ==
  ASSUME SpokeIInv, (\E p \in Prefixes : LocalNetsChange(p) \/ HostLoses(p)) \/ RecheckRoutes
  PROVE  SpokeIInv'
<1>1. UNCHANGED <<order, links, link, primary, uplink, hosts, tunnel, good, stopped>>
  BY DEF LocalNetsChange, HostLoses, RecheckRoutes, linkVars, pathVars
<1>2. LinksOk' /\ PathOk' /\ UplinkIsFirst' /\ OpenHasOwner'
  <2>1. LinksOk' /\ UplinkIsFirst' /\ Made' = Made
    BY <1>1, LinksStay DEF SpokeIInv
  <2>2. PathOk' /\ OpenHasOwner'
    BY <1>1, <2>1 DEF SpokeIInv, PathOk, OpenHasOwner, MadeTunnels
  <2>3. QED
    BY <2>1, <2>2
<1>3. HostOk' /\ ResolverIsKnown' /\ RoutesAreAdvertised'
  <2>1. CASE RecheckRoutes
    <3>1. Fit(link, links, order) /\ (primary # None => primary \in Links /\ link[primary] \in LinkRecord)
      BY FitNow, PrimaryIs DEF SpokeIInv
    <3>2. ApplyRoutes(link, links, order, primary, locals)
      BY <2>1 DEF RecheckRoutes
    <3>3. /\ HostOk' /\ ResolverIsKnown'
          /\ installed' \cap Prefixes \subseteq UNION {link[k].adv : k \in {n \in Links : link[n] # None}}
      BY <3>1, <3>2, RoutesKeep DEF SpokeIInv
    <3>4. QED
      BY <1>1, <3>3, AdvertisedNext
  <2>2. CASE \E p \in Prefixes : LocalNetsChange(p) \/ HostLoses(p)
    <3>1. kernel' \subseteq kernel /\ UNCHANGED <<installed, resolver, hostDns>>
      BY <2>2 DEF LocalNetsChange, HostLoses
    <3>2. QED
      BY <1>1, <3>1 DEF SpokeIInv, HostOk, ResolverIsKnown, RoutesAreAdvertised, Made
  <2>3. QED
    BY <2>1, <2>2
<1>4. QED
  BY <1>2, <1>3 DEF SpokeIInv

LEMMA StopKeeps ==
  ASSUME SpokeIInv, Stop
  PROVE  SpokeIInv'
<1> DEFINE f(l) == IF link[l] # None THEN [link[l] EXCEPT !.cancelled = TRUE] ELSE None
<1>1. /\ stopped' = TRUE /\ link' = [l \in Links |-> f(l)]
      /\ links' = [h \in Hubs |-> None] /\ primary' = None /\ uplink' = None
      /\ UNCHANGED <<order, hosts, installed, kernel, resolver, hostDns, good>>
  BY DEF Stop, hostVars
<1>2. \A l \in Links : /\ link[l] = None => f(l) = None
                       /\ link[l] # None => /\ f(l) \in LinkRecord /\ f(l).at = link[l].at
                                            /\ f(l).tunnel = link[l].tunnel /\ f(l).adv = link[l].adv
  BY WithCancelled DEF SpokeIInv, LinksOk
<1> HIDE DEF f
<1>3. Made' = Made
  BY <1>1, <1>2, NoneIsNoLink DEF Made
<1>4. LinksOk'
  <2>1. link' \in [Links -> LinkRecord \cup {None}]
    BY <1>1, <1>2
  <2>2. links' \in [Hubs -> Links \cup {None}] /\ \A h \in Hubs : links'[h] = None
    BY <1>1
  <2>3. \A l \in Made : link'[l].at = "connected" <=> link'[l].tunnel # None
    BY <1>1, <1>2 DEF SpokeIInv, LinksOk, Made
  <2>4. QED
    BY <1>1, <1>3, <2>1, <2>2, <2>3 DEF SpokeIInv, LinksOk
<1>5. \A t \in Tunnels : tunnel'[t] = tunnel[t] \/ tunnel'[t] = "closed"
  BY DEF Stop
<1>6. PathOk'
  <2>1. tunnel' \in [Tunnels -> TunnelStates \cup {None}]
    <3>1. tunnel' = [t \in Tunnels |-> tunnel'[t]]
      BY DEF Stop
    <3>2. \A t \in Tunnels : tunnel'[t] \in TunnelStates \cup {None}
      BY <1>5 DEF SpokeIInv, PathOk, TunnelStates
    <3>3. QED
      BY <3>1, <3>2
  <2>2. QED
    BY <1>1, <2>1 DEF SpokeIInv, PathOk
<1>7. UplinkIsFirst'
  <2>1. \A i \in 1 .. Len(order') : order'[i].id \in Hubs
    BY <1>4, ListsAreLists DEF LinksOk
  <2>2. UpAt(link', links', order') = {}
    BY <1>1, <2>1 DEF UpAt
  <2>3. QED
    BY <1>1, <2>2, UplinkIsNext DEF FirstUp, PickOf, UplinkOf
<1>8. OpenHasOwner'
  <2> SUFFICES ASSUME NEW u \in Tunnels, tunnel'[u] = "open"
               PROVE  \E k \in Made' : link'[k].at = "connected" /\ link'[k].tunnel = u
    BY DEF OpenHasOwner, MadeTunnels
  <2>1. tunnel[u] = "open"
    BY <1>5
  <2>2. PICK k \in Made : link[k].at = "connected" /\ link[k].tunnel = u
    BY <2>1, NoneIsNoLink DEF SpokeIInv, OpenHasOwner, MadeTunnels, TunnelStates
  <2>3. QED
    BY <1>1, <1>2, <1>3, <2>2 DEF Made
<1>9. RoutesAreAdvertised'
  <2>1. \A l \in Made : link'[l].adv = link[l].adv
    BY <1>1, <1>2 DEF Made
  <2>2. QED
    BY <1>1, <1>3, <2>1, AdvertisedStays
<1>10. HostOk' /\ ResolverIsKnown'
  BY <1>1 DEF SpokeIInv, HostOk, ResolverIsKnown
<1>11. QED
  BY <1>4, <1>6, <1>7, <1>8, <1>9, <1>10 DEF SpokeIInv

\* Any set is numbered from anywhere on: what Sync chooses exists.
LEMMA Numbered ==
  ASSUME NEW S, IsFiniteSet(S), NEW b \in Nat
  PROVE  LET T == b + 1 .. b + Cardinality(S)
             p == CHOOSE f \in [S -> T] : \A g, h \in S : f[g] = f[h] => g = h
         IN  p \in [S -> T] /\ (\A g, h \in S : p[g] = p[h] => g = h) /\ \A t \in T : \E s \in S : p[s] = t
<1> DEFINE c == Cardinality(S)
           T == b + 1 .. b + c
           p == CHOOSE f \in [S -> T] : \A g, h \in S : f[g] = f[h] => g = h
<1>1. c \in Nat
  BY FS_CardinalityType
<1>2. IsFiniteSet(T) /\ Cardinality(T) = c
  <2> HIDE DEF c
  <2> DEFINE x == b + 1
             y == b + c
  <2>1. x \in Int /\ y \in Int
    BY <1>1
  <2> HIDE DEF x, y
  <2>2. IsFiniteSet(x .. y) /\ Cardinality(x .. y) = IF x > y THEN 0 ELSE y - x + 1
    BY <2>1, FS_Interval
  <2>3. QED
    BY <1>1, <2>2 DEF x, y
<1>3. ExistsBijection(S, T)
  BY <1>2, FS_SameCardinalityBij
<1>4. \E f \in [S -> T] : \A g, h \in S : f[g] = f[h] => g = h
  BY <1>3 DEF ExistsBijection, Bijection, Injection, IsInjective
<1>5. p \in [S -> T] /\ \A g, h \in S : p[g] = p[h] => g = h
  BY <1>4
<1> HIDE DEF p, T
<1>6. p \in Injection(S, T)
  BY <1>5 DEF Injection, IsInjective
<1>7. p \in Surjection(S, T)
  BY <1>2, <1>6, FS_Injection
<1>8. \A t \in T : \E s \in S : p[s] = t
  BY <1>7 DEF Surjection
<1>9. QED
  BY <1>5, <1>8 DEF p, T

\* sync: what it ends stays, with its tunnel, until its goroutine has seen it,
\* and what it makes has a number of its own.
LEMMA SyncKeeps ==
  ASSUME SpokeIInv, NEW list \in HubLists, Sync(list)
  PROVE  SpokeIInv'
<1> DEFINE stays(h) == links[h] # None /\ link[links[h]].rec \in Listed(list, h)
           new == {h \in Hubs : Listed(list, h) # {} /\ ~stays(h)}
           base == Cardinality(Made)
           count == Cardinality(new)
           cutOff == {links[h] : h \in {g \in Hubs : links[g] # None /\ ~stays(g)}}
           place == CHOOSE p \in [new -> base + 1 .. base + count] :
                        \A g, h \in new : p[g] = p[h] => g = h
           made(l) == LET h == CHOOSE g \in new : place[g] = l IN
                      NewLink(h, CHOOSE r \in Listed(list, h) : TRUE, stopped)
           f(l) == IF l \in cutOff THEN [link[l] EXCEPT !.cancelled = TRUE]
                   ELSE IF \E h \in new : place[h] = l THEN made(l) ELSE link[l]
<1>1. /\ base + count <= MaxLinks /\ order' = list
      /\ links' = [h \in Hubs |-> IF h \in new THEN place[h] ELSE IF stays(h) THEN links[h] ELSE None]
      /\ link' = [l \in Links |-> f(l)]
      /\ Elect(link', links', list, primary)
      /\ UNCHANGED <<hosts, tunnel, installed, kernel, resolver, hostDns, good, stopped>>
  BY DEF Sync, hostVars
<1>2. PICK n \in Nat : Made = 1 .. n
  BY DEF SpokeIInv, LinksOk
<1>3. base = n
  <2>1. n \in Int /\ 1 \in Int /\ Cardinality(1 .. n) = IF 1 > n THEN 0 ELSE n - 1 + 1
    BY FS_Interval
  <2>2. QED
    BY <1>2, <2>1
<1>4. IsFiniteSet(new) /\ count \in Nat
  <2>1. IsFiniteSet(new)
    BY SpokeAssumption, FS_Subset
  <2>2. QED
    BY <2>1, FS_CardinalityType
<1>5. /\ place \in [new -> base + 1 .. base + count]
      /\ \A t \in base + 1 .. base + count : \E h \in new : place[h] = t
  <2> HIDE DEF new
  <2>1. QED
    BY <1>3, <1>4, Numbered
<1>6. \A h \in Hubs : Listed(list, h) \subseteq Nat
  BY ListsAreLists DEF Listed
<1>7. \A l \in base + 1 .. base + count :
        made(l) \in LinkRecord /\ made(l).tunnel = None /\ made(l).at = "dialing" /\ made(l).adv = {}
  <2> SUFFICES ASSUME NEW l \in base + 1 .. base + count
               PROVE  made(l) \in LinkRecord /\ made(l).tunnel = None /\ made(l).at = "dialing" /\ made(l).adv = {}
    OBVIOUS
  <2> DEFINE h == CHOOSE g \in new : place[g] = l
             r == CHOOSE r \in Listed(list, h) : TRUE
  <2>1. h \in new
    <3> HIDE DEF new, place
    <3>1. QED
      BY <1>5
  <2>2. h \in Hubs /\ Listed(list, h) # {}
    BY <2>1
  <2> HIDE DEF h
  <2>3. r \in Nat
    BY <1>6, <2>2
  <2> HIDE DEF r
  <2>4. made(l) = NewLink(h, r, stopped)
    BY DEF h, r
  <2>5. stopped \in BOOLEAN
    BY DEF SpokeIInv, LinksOk
  <2> HIDE DEF made
  <2>6. QED
    BY <2>2, <2>3, <2>4, <2>5 DEF NewLink, LinkRecord
<1>8. cutOff \subseteq Made
  BY DEF SpokeIInv, LinksOk
<1>9. \A h \in new : place[h] \in base + 1 .. base + count
  <2> HIDE DEF new, place
  <2>1. QED
    BY <1>5
<1> HIDE DEF new, base, count, cutOff, place, made
<1>10. \A l \in Links :
         /\ l \in 1 .. n => /\ f(l) \in LinkRecord /\ f(l).tunnel = link[l].tunnel /\ f(l).at = link[l].at
                            /\ f(l).adv = link[l].adv
         /\ l \in n + 1 .. n + count => f(l) \in LinkRecord /\ f(l).tunnel = None /\ f(l).at = "dialing"
         /\ l > n + count => f(l) = None
  <2> SUFFICES ASSUME NEW l \in Links
               PROVE /\ l \in 1 .. n => /\ f(l) \in LinkRecord /\ f(l).tunnel = link[l].tunnel /\ f(l).at = link[l].at
                                        /\ f(l).adv = link[l].adv
                     /\ l \in n + 1 .. n + count => f(l) \in LinkRecord /\ f(l).tunnel = None /\ f(l).at = "dialing"
                     /\ l > n + count => f(l) = None
    OBVIOUS
  <2>1. CASE l \in 1 .. n
    <3>1. link[l] \in LinkRecord
      BY <1>2, <2>1, MadeIsMade DEF SpokeIInv
    <3>2. ~ \E h \in new : place[h] = l
      BY <1>3, <1>4, <1>9, <2>1
    <3>3. f(l) = link[l] \/ f(l) = [link[l] EXCEPT !.cancelled = TRUE]
      BY <3>2
    <3>4. f(l) \in LinkRecord /\ f(l).tunnel = link[l].tunnel /\ f(l).at = link[l].at /\ f(l).adv = link[l].adv
      BY <3>1, <3>3, WithCancelled
    <3> HIDE DEF f
    <3>5. QED
      BY <1>4, <2>1, <3>4
  <2>2. CASE l \in n + 1 .. n + count
    <3>1. l \notin cutOff
      BY <1>2, <1>8, <2>2
    <3>2. \E h \in new : place[h] = l
      BY <1>3, <1>5, <2>2
    <3>3. f(l) = made(l)
      BY <3>1, <3>2
    <3> HIDE DEF f
    <3>4. QED
      BY <1>3, <1>4, <1>7, <2>2, <3>3
  <2>3. CASE l > n + count
    <3>1. l \notin 1 .. n /\ l \notin n + 1 .. n + count
      BY <1>4, <2>3
    <3>2. l \notin cutOff /\ link[l] = None
      BY <1>2, <1>8, <3>1 DEF Made
    <3>3. ~ \E h \in new : place[h] = l
      BY <1>3, <1>9, <3>1
    <3>4. f(l) = None
      BY <3>2, <3>3
    <3> HIDE DEF f
    <3>5. QED
      BY <3>1, <3>4
  <2>4. l \in 1 .. n \/ l \in n + 1 .. n + count \/ l > n + count
    BY <1>4, SpokeAssumption DEF Links
  <2>5. QED
    BY <2>1, <2>2, <2>3, <2>4
<1>11. n + count \in Nat /\ n + count <= MaxLinks /\ MaxLinks \in Nat
  BY <1>1, <1>3, <1>4, SpokeAssumption
<1>12. \A l \in Links : link'[l] = f(l)
  BY <1>1
<1>13. link' \in [Links -> LinkRecord \cup {None}]
  <2>1. \A l \in Links : f(l) \in LinkRecord \cup {None}
    <3> HIDE DEF f
    <3>1. QED
      BY <1>4, <1>10, <1>11 DEF Links
  <2> HIDE DEF f
  <2>2. QED
    BY <1>1, <2>1
<1> HIDE DEF f
<1>14. Made' = 1 .. (n + count)
  <2>1. \A l \in Links : link'[l] # None <=> l \in 1 .. (n + count)
    BY <1>4, <1>10, <1>11, <1>12, NoneIsNoLink DEF Links
  <2>2. 1 .. (n + count) \subseteq Links
    BY <1>11 DEF Links
  <2>3. QED
    BY <2>1, <2>2 DEF Made
<1>15. \A h \in Hubs : links'[h] # None => links'[h] \in Made'
  <2> SUFFICES ASSUME NEW h \in Hubs, links'[h] # None PROVE links'[h] \in Made'
    OBVIOUS
  <2>1. (links'[h] = place[h] /\ h \in new) \/ links'[h] = links[h]
    BY <1>1
  <2>2. CASE h \in new /\ links'[h] = place[h]
    <3>1. links'[h] \in n + 1 .. n + count
      BY <1>3, <1>9, <2>2
    <3>2. QED
      BY <1>4, <1>14, <3>1
  <2>3. CASE links'[h] = links[h]
    <3>1. links'[h] \in 1 .. n
      BY <1>2, <2>3 DEF SpokeIInv, LinksOk
    <3>2. QED
      BY <1>4, <1>14, <3>1
  <2>4. QED
    BY <2>1, <2>2, <2>3
<1>16. LinksOk'
  <2>1. links' \in [Hubs -> Links \cup {None}]
    <3>1. links' = [h \in Hubs |-> links'[h]]
      BY <1>1
    <3>2. \A h \in Hubs : links'[h] \in Links \cup {None}
      BY <1>15 DEF Made
    <3>3. QED
      BY <3>1, <3>2
  <2>2. \A l \in Made' : link'[l].at = "connected" <=> link'[l].tunnel # None
    <3> SUFFICES ASSUME NEW l \in Made' PROVE link'[l].at = "connected" <=> link'[l].tunnel # None
      OBVIOUS
    <3>1. l \in Links /\ (l \in 1 .. n \/ l \in n + 1 .. n + count)
      BY <1>4, <1>14 DEF Made
    <3>2. CASE l \in 1 .. n
      BY <1>2, <1>10, <1>12, <3>1, <3>2 DEF SpokeIInv, LinksOk
    <3>3. CASE l \in n + 1 .. n + count
      BY <1>10, <1>12, <3>1, <3>3
    <3>4. QED
      BY <3>1, <3>2, <3>3
  <2>3. order' \in HubLists \cup {<<>>} /\ stopped' \in BOOLEAN
    BY <1>1 DEF SpokeIInv, LinksOk
  <2>4. QED
    BY <1>11, <1>13, <1>14, <1>15, <2>1, <2>2, <2>3 DEF LinksOk
<1>17. Fit(link', links', order')
  BY <1>16 DEF Fit, LinksOk, Made
<1>18. UplinkIsFirst'
  <2> DEFINE best == FirstUp(link', links', list)
  <2>1. /\ primary' = best
        /\ uplink' = IF best = primary THEN uplink ELSE IF best = None THEN None ELSE link'[best].tunnel
    <3>1. First(link', links', list, LAMBDA e : e.tunnel # None) = best
      BY FirstIsPick
    <3>2. Elect(link', links', list, primary)
      BY <1>1
    <3> HIDE DEF best
    <3>3. QED
      BY <3>1, <3>2 DEF Elect
  <2>2. best # None => best \in Links /\ link'[best] \in LinkRecord /\ link'[best].tunnel # None
    BY <1>1, <1>17, FirstUpMeans
  <2>3. /\ primary # None => primary \in Links /\ link[primary] \in LinkRecord
        /\ uplink = UplinkOf(link, primary)
    BY PrimaryIs DEF SpokeIInv
  <2> HIDE DEF best
  <2>4. uplink' = UplinkOf(link', best)
    <3>1. CASE best = primary /\ best # None
      <4>1. best \in 1 .. n
        BY <1>2, <2>3, <3>1, NoneIsNoLink DEF Made
      <4>2. link'[best].tunnel = link[best].tunnel
        BY <1>10, <1>12, <2>2, <3>1, <4>1
      <4>3. QED
        BY <2>1, <2>3, <3>1, <4>2 DEF UplinkOf
    <3>2. CASE best # primary \/ best = None
      BY <2>1, <2>3, <3>2 DEF UplinkOf
    <3>3. QED
      BY <3>1, <3>2
  <2>5. QED
    BY <1>1, <2>1, <2>4, UplinkIsNext DEF best
<1>19. Made \subseteq Made' /\ \A l \in Made : link'[l].adv = link[l].adv /\ link'[l].at = link[l].at /\ link'[l].tunnel = link[l].tunnel
  BY <1>2, <1>4, <1>10, <1>12, <1>14 DEF Made
<1>20. OpenHasOwner'
  <2> SUFFICES ASSUME NEW u \in Tunnels, tunnel'[u] = "open"
               PROVE  \E k \in Made' : link'[k].at = "connected" /\ link'[k].tunnel = u
    BY DEF OpenHasOwner, MadeTunnels
  <2>1. PICK k \in Made : link[k].at = "connected" /\ link[k].tunnel = u
    BY <1>1, NoneIsNoLink DEF SpokeIInv, OpenHasOwner, MadeTunnels, TunnelStates
  <2>2. QED
    BY <1>19, <2>1
<1>21. RoutesAreAdvertised'
  BY <1>1, <1>19, AdvertisedStays
<1>22. PathOk' /\ HostOk' /\ ResolverIsKnown'
  BY <1>1 DEF SpokeIInv, PathOk, HostOk, ResolverIsKnown
<1>23. QED
  BY <1>16, <1>18, <1>20, <1>21, <1>22 DEF SpokeIInv

LEMMA InitSpoke == SpokeInit => SpokeIInv
<1> SUFFICES ASSUME SpokeInit PROVE SpokeIInv
  OBVIOUS
<1>1. /\ order = <<>> /\ links = [h \in Hubs |-> None] /\ link = [l \in Links |-> None]
      /\ primary = None /\ uplink = None /\ tunnel = [t \in Tunnels |-> None] /\ stopped = FALSE
      /\ installed = {} /\ kernel = {} /\ resolver = FALSE /\ hostDns = None
      /\ hosts = [h \in Hubs |-> None] /\ good = [h \in Hubs |-> "unknown"]
  BY DEF SpokeInit
<1>2. Made = {} /\ MadeTunnels = {}
  BY <1>1 DEF Made, MadeTunnels
<1>3. \E n \in Nat : {} = 1 .. n
  <2>1. {} = 1 .. 0
    OBVIOUS
  <2>2. QED
    BY <2>1
<1>4. LinksOk
  BY <1>1, <1>2, <1>3 DEF LinksOk
<1>5. PathOk /\ HostOk
  BY <1>1 DEF PathOk, HostOk
<1>6. UplinkIsFirst
  <2>1. UpAt(link, links, order) = {}
    <3>1. \A i \in 1 .. Len(order) : order[i].id \in Hubs
      BY <1>4, ListsAreLists DEF LinksOk
    <3>2. QED
      BY <1>1, <3>1 DEF UpAt
  <2>2. QED
    BY <1>1, <2>1, UplinkIs DEF FirstUp, PickOf, UplinkOf
<1>7. OpenHasOwner /\ RoutesAreAdvertised /\ ResolverIsKnown
  BY <1>1, <1>2 DEF OpenHasOwner, RoutesAreAdvertised, ResolverIsKnown
<1>8. QED
  BY <1>4, <1>5, <1>6, <1>7 DEF SpokeIInv

LEMMA NextSpoke == SpokeIInv /\ [SpokeNext]_spokeVars => SpokeIInv'
<1> SUFFICES ASSUME SpokeIInv, [SpokeNext]_spokeVars PROVE SpokeIInv'
  OBVIOUS
<1>1. CASE SpokeNext
  <2>1. CASE \E list \in HubLists : Sync(list)
    BY <2>1, SyncKeeps
  <2>2. CASE Stop
    BY <2>2, StopKeeps
  <2>3. ASSUME NEW l \in Links, \E refused \in BOOLEAN : DialFails(l, refused) PROVE SpokeIInv'
    BY <2>3, DialFailsKeeps
  <2>4. ASSUME NEW l \in Links, \E a \in {"true", "other"} : Connects(l, a) PROVE SpokeIInv'
    BY <2>4, ConnectsKeeps
  <2>5. ASSUME NEW l \in Links, MovesBack(l) \/ Loses(l) \/ GracePasses(l) \/ GraceEnds(l) PROVE SpokeIInv'
    BY <2>5, MovesBackKeeps, LosesKeeps, GracePassesKeeps, GraceEndsKeeps
  <2>6. ASSUME NEW t \in Tunnels, NEW cause \in {"lost", "revoked", "refused"}, TunnelEnds(t, cause) PROVE SpokeIInv'
    BY <2>6, TunnelEndsKeeps
  <2>7. CASE (\E p \in Prefixes : LocalNetsChange(p) \/ HostLoses(p)) \/ RecheckRoutes
    BY <2>7, HostKeeps
  <2>8. QED
    BY <1>1, <2>1, <2>2, <2>3, <2>4, <2>5, <2>6, <2>7 DEF SpokeNext
<1>2. CASE UNCHANGED spokeVars
  <2>1. /\ UNCHANGED <<order, links, link, primary, uplink, stopped>>
        /\ UNCHANGED <<hosts, tunnel, installed, kernel, resolver, hostDns, good>>
    BY <1>2 DEF spokeVars, linkVars, pathVars, hostVars
  <2>2. LinksOk' /\ UplinkIsFirst' /\ Made' = Made
    BY <2>1, LinksStay DEF SpokeIInv
  <2>3. PathOk' /\ HostOk' /\ OpenHasOwner' /\ RoutesAreAdvertised' /\ ResolverIsKnown'
    BY <2>1, <2>2 DEF SpokeIInv, PathOk, HostOk, OpenHasOwner, MadeTunnels, RoutesAreAdvertised, ResolverIsKnown
  <2>4. QED
    BY <2>2, <2>3 DEF SpokeIInv
<1>3. QED
  BY <1>1, <1>2

\* Through syncs, losses, moves between transports and whatever the host
\* refuses, the uplink is the tunnel of the first hub of the list that has one
\* (electLocked), an open tunnel has a goroutine that will close it (run), a
\* route that is installed was advertised by a hub that has neither refused
\* the device nor been away for the grace (graceEnds), and a resolver that was
\* set is known (applyDNSLocked).
THEOREM SpokeSound == SpokeSpec => []SpokeInv
<1>1. SpokeSpec => []SpokeIInv
  BY InitSpoke, NextSpoke, PTL DEF SpokeSpec
<1>2. SpokeIInv => SpokeInv
  <2> SUFFICES ASSUME SpokeIInv PROVE SpokeInv
    OBVIOUS
  <2>1. primary \in Links \cup {None} /\ uplink \in Tunnels \cup {None}
    BY PrimaryIs DEF SpokeIInv, UplinkOf
  <2>2. (\A l \in Made : link[l] \in LinkRecord) /\ \A t \in MadeTunnels : tunnel[t] \in TunnelStates
    BY MadeIsMade DEF SpokeIInv, PathOk, MadeTunnels
  <2>3. SpokeTypeOK
    BY <2>1, <2>2 DEF SpokeIInv, SpokeTypeOK, LinksOk, PathOk, HostOk
  <2>4. QED
    BY <2>3 DEF SpokeIInv, SpokeInv
<1>3. QED
  BY <1>1, <1>2, PTL

-----------------------------------------------------------------------------
\* The composition that is model-checked is one of behaviours of its parts,
\* and has all that was shown of them: the sockets of a tunnel (migrate), the
\* links to the hubs (spokeManager), the paths to peers and the listeners for
\* them (pathManager, serve).
THEOREM MCSpokeSound == MCSpokeSpec => [](ClientInv /\ SpokeInv /\ PathInv)
<1>1. MCSpokeInit => ClientInit /\ SpokeInit /\ PathsInit /\ ListenerInit
  BY DEF MCSpokeInit
<1>2. [MCSpokeNext]_<<focus, clientVars, spokeVars, pathsVars, listenerVars>> =>
        [ClientNext]_clientVars /\ [SpokeNext]_spokeVars /\ [PathsNext]_pathsVars /\ [ListenerNext]_listenerVars
  BY DEF MCSpokeNext, UpsetNext, MovesNext, ReplacedNext
<1>3. MCSpokeSpec => ClientSpec /\ SpokeSpec /\ PathsSpec /\ ListenerSpec
  BY <1>1, <1>2, PTL DEF MCSpokeSpec, ClientSpec, SpokeSpec, PathsSpec, ListenerSpec
<1>4. PathInv <=> PathsInv /\ OneListener
  BY DEF PathInv
<1>5. QED
  BY <1>3, <1>4, ClientSound, SpokeSound, PathsSound, ListenersSound, PTL

=============================================================================
