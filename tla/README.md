# Verification of BoundGate VPN

TLA+ models of the control plane and the node of BoundGate, checked with TLC
on small instances. Every safety property that a passing run checks is also
proved with TLAPS, for every instance; liveness is model-checked.

## 1. The system

BoundGate is an overlay network. A **control plane** (`internal/control`)
keeps a registry of nodes in SQLite and hands every approved node a
*snapshot*: itself, its peers, policies, user sessions, revocations and the
chain of signer lists. **Nodes** (`internal/node`) are hubs, which accept
tunnels, or spokes, which dial hubs and each other. Nobody trusts the control
plane alone: a node's record counts only with a *binding* signed by an
administrator's key, and nodes pin those keys and follow signed changes of the
list.

| Component | State | Operations | Talks to | What is hard | Correct when |
|---|---|---|---|---|---|
| Node registry (`control/db/nodes.go`, `api/sign.go`) | rows of nodes, sign tokens, bindings, revocations, pool | enroll, confirm, sign, update a grant, reject, revoke, renumber, apply a signer list | feed, signer lists | a signature is verified in one request and stored in a later transaction | the approved record is the one that was signed; a revocation covers every binding ever stored; revoked is for good |
| Signer lists (`binding/signerset.go`, `api/signersets.go`, `anchors/files.go`) | the stored chain, proposals, each node's list | propose, sign, apply, follow | registry | racing administrators, removed keys, a hostile control plane | nodes move only along signatures of the list they have, never back, and reach the head |
| Logins and sessions (`db/sessions.go`, `api/login.go`) | flows, sessions | create, callback, confirm, cancel, complete, end, expire | identity provider, feed | two requests to the provider per login, several tabs | one active session per node, from the flow that was confirmed; it ends |
| Snapshot feed (`control/snapshot`, `node/controlclient`, `registry`) | version, cache, waiters; per node holder and `since` | commit, notify, long-poll, load, store, retry | everything above; node | unlocked reads of several tables, wake-ups, lost answers, restarts, restored backups | nothing torn counts as current; no lost wake-up; never older; nodes catch up |
| Enrollment (`node/enrollment.go`, `anchors/files.go`, `api/node.go`) | the pin, the status loop, the row | accept a key, enroll, ask, restart | registry | the machine behind an address is exchanged between look and pin | a node talks only to the control plane a person accepted |
| Administrators (`api/adminauth.go`, `db/adminauth.go`, `ratelimit.go`) | sessions, passkeys, tokens, pending logins, buckets | sign in, register, approve, raise, mint, revoke, allow | identity provider | two requests per ceremony, each several statements | nobody gets rights that no order of whole requests would have given |
| Access lists (`db/lists.go`, `listsource`) | lists, policies, fetches | edit, import, delete, fetch | feed | a fetch is away for seconds | entries are those of the source the list names now; a credential stays with its address |
| Binding history (`anchors`, `node/history.go`) | newest issue and revocation time per node, in memory and on disk | verify a snapshot, save, restart | feed | failing writes, refused snapshots, restarts | nothing older than what was seen is used again |
| Overlay session (`node/node.go`) | the session, what it did to the host, pending resume | up, apply, teardown, watch, staleWatch, onSnapshot | feed, host | every part is a goroutine that may close the session | nothing is left on the host; stale overlays go down and come back |
| Hub (`transport/server.go`, `node/hub.go`, `relay*.go`, `capsule.go`) | tunnels, table entries, counted routes, relay slots, stream queues | accept, track, serve, close, dial, listen | feed, host | a record changes between accept, track and serve; ports wrap; a peer stops reading | an open tunnel is served by the present record; limits hold; Close ends |
| Spoke (`node/spoke.go`, `paths.go`, `transport/client.go`) | links, primary, grace, routes, resolver, paths, sockets | elect, move, repair, dial, migrate, recover | hub, host | reconnections beside grace, moves and new lists | routes and resolver follow the links that are there; one side dials |
| Packet decisions (`node/flow`, `acl`, `dnsmap`, `mux`) | flows, learned names, handshakes | packet, reevaluate, learn, expire, evict | feed | packets between a snapshot and its reevaluation; accounts at their limit | no verdict outlives its reasons; budgets are exact |
| Around the node (`privsep`, `netcfg`, `embed`, `update`, `node/policy.go`) | journal, device, engine, releases, reports | see section 2 | host, control plane | crashes between two steps, timers, at-least-once delivery | what was begun is undone or finished |

The hazards (what is hard to reach with a test) are listed with their lines in
`PROJECT.json`; each names the properties that watch it, or says why none
does.

## 2. Modules

Every module's header lists its abstractions; `map` in `PROJECT.json` gives
the lines each definition stands for. Definitions marked *Mutant* are
plausible bugs: each property is refuted when one of them replaces the
definition it varies.

| Module | Models | State and actions | Proofs |
|---|---|---|---|
| `BindingHistory` | what a node remembers of signed records | `book` is the history in memory, `disk` the file, `holder` the records in use; `Deliver` is one snapshot through `verifySnapshot`, with its refusals and failed writes | `History_proofs` |
| `NodeRegistry` | the registry and the life of a binding | one action per transaction; `PostSignature` is a signature request up to the verified signature, which waits in `inFlight` for `ApproveSigned` or `StoreRevocation` | `Control_proofs` |
| `SnapshotFeed`, `SnapshotView` | how changes reach nodes; what the feed promises | every query of `load` and every section of `Source.mu` is a step; a table's content is the number of the commit that changed it last; `Restore` brings back a copy with its older counter | `Plane_proofs` |
| `SignerChain` | the list of administrators' keys | a list names its keys, version and predecessor; `hostile` is chosen initially; `RogueSign` is one key's holder signing lists of their own | `Plane_proofs` |
| `LoginSessions` | user logins and sessions | callback and confirmation with the identity provider in between; tabs hold the pages | `Plane_proofs` |
| `Enrollment` | pin, status loop and row | `LoopStep` is `Node.Run`; who answers at the address changes at any time | `Plane_proofs` |
| `AccessLists` | lists, policies that name them, fetches | an edit is read and stored in two steps; `Get`, `CompareFetch`, `StoreFetch` are the parts of a fetch | `Control_proofs` |
| `AdminAuth` | sessions, passkeys, tokens | `request[w]` is what a request found out and which statement is next | `Control_proofs` |
| `AdminLogin` | sign-in of administrators; the rate limiter | tabs between count, insert, callback, exchange, session; `level` is the bucket a client would have if none were dropped | `Control_proofs` |
| `HubTunnels` | admission, replacement, table entries, counted routes | `Step(t)` is the goroutine of a tunnel | `Tunnels_proofs` |
| `StreamLink` | the three goroutines of a `capsuleLink` | write mutex with its deadline, read queue, any number of closers | `Tunnels_proofs` |
| `RelayStreams` | relayed streams | listeners, dialers, the port counter of `Width` values | `Tunnels_proofs` |
| `NodeLifecycle` | the overlay going up and down | `session[s].at` is where `apply` is; `host` what the host has, `known` what the flags say; `control` the control loop | `NodeLifecycle_proofs` |
| `HostJournal`, `LocalNetworks` | the journal of host changes; the networks file and the daemon's turns | every command with its outcomes, save, crash and `Recover`; add, select, remove, renew | `History_proofs` |
| `ClientLink`, `SpokeLinks`, `PeerPaths` | the sockets of a moving tunnel; links to hubs; paths between spokes and their listeners | one action per critical section | `Spoke_proofs` |
| `FlowTable`, `AccessPolicy`, `DnsMap`, `FrontMux` | flows; the engine's decisions and the text of list entries; learned names; the front's handshakes | one action per packet, snapshot, tick or request | `Flows_proofs` |
| `PrivSep`, `EmbeddedTun`, `EmbedEngine`, `Updates`, `NetWatch`, `TunnelReports` | parent and worker; the app's device; its engine; releases; the watch of routes; reports and the log columns | see the headers | `Host_proofs` |

**Composition.** `MCHistory`, `MCControl`, `MCPlane`, `MCTunnels`, `MCSpoke`,
`MCFlows` and `MCHost` put components into one state space. The components of
one of them share no variable; `focus` says which of them a behaviour is
about, and the others stand still. Interleaving the steps of components that
share nothing adds no behaviour to any of them, so checking one focus at a
time loses nothing; a focus may also restrict a component to fewer requests of
one kind in order to afford more of another ("races" and "approvals" in
`MCControl`, "relay" and "ports" in `MCTunnels`). That every behaviour of the
composition is one of each component is itself proved (`HistorySound`,
`ControlSound`, `PlaneKeeps`, `TunnelsSound`, `MCSpokeSound`, `FlowsSound`,
`HostSound` and their lemmas).

**Refinement.** `SnapshotView` says what a node may rely on: what it holds is
a version the control plane had, it moves forward except through a restored
backup, and the content fits the version. `SnapshotFeed` implements it
(`FeedsView`, checked by the run `feed` and proved by `FeedImplementsView`).

## 3. Runs

| Run | Module | Properties | Shows |
|---|---|---|---|
| `history` | `MCHistory` | `MemoryCoversDisk`, `InUseIsCurrent`, `JournalInv`, `NetsInv`, `DiskOnlyGrows` | with failed writes and crashes: no old or revoked record is used, every host change is in the journal a crash leaves, no device key is shown to two control planes |
| `registry` | `MCNodeRegistry` | `RecordMatches`, `RevocationCovers`, `RegistrySteps` | an approved record is what was signed; revocations cover; revoked is for good; visible changes raise the version |
| `control` | `MCControl` | `ListsInv`, `AdminInv`, `SignInInv`, `ControlSteps` | requests of administrators beside each other |
| `feed` | `MCSnapshotFeed` | `NothingTorn`, `NoLostWakeup`, `FeedsView` | restarts, lost requests and a restored backup |
| `lifecycle` | `NodeLifecycle` | `LifecycleInv`, `OverlayFollows` | what apply built is undone, one device, stale goes down, a snapshot resumes |
| `plane` | `MCPlane` | `LoginInv`, `SignersInv`, `EnrollInv`, `PlaneSteps`, `PlaneProgress` | what control plane and nodes agree on, with liveness |
| `tunnels` | `MCTunnels` | `HubInv`, `LinkInv`, `RelayInv`, `TunnelsEnd` | the hub |
| `spoke` | `MCSpoke` | `ClientInv`, `SpokeInv`, `PathInv`, `PathsEnd` | the spoke |
| `flows` | `MCFlows` | `FlowInv`, `PolicyInv`, `NamesInv`, `FrontInv` | what decides about packets and names; every small policy for every request |
| `host` | `MCHost` | `SepInv`, `ReportsInv`, `DeviceInv`, `AppInv`, `HostSteps`, `HostProgress` | what runs beside the node |
| `registry_key_race` | `MCNodeRegistry` | `ApprovedByListedKey` **violated** | an approval by a key that was removed between verification and commit |
| `lifecycle_resume` | `NodeLifecycle` | `CurrentResumes` **violated** | "not modified" makes the snapshot current, and the overlay that waits for that stays down |

The violated properties quote a comment or document; `findings` in
`PROJECT.json` gives both sides.

**Bounds.** They are named in the modules, and the first lines of each `.cfg`
say what they come to. They are set so that every race needs fewer than
allowed: a device that may enroll again under a second id, two addresses, two
admin keys and two tokens, so that a signature in flight meets every change of
its row and of the key list; three times, so that "older", "equal" and "newer"
occur; two sessions and two events of each kind in `NodeLifecycle`, because a
race there is between a session and its successor; two commits in the feed,
because a torn load needs them between its queries; two passkeys and three
sessions, because a raised session has a predecessor and may have a rival;
three dials over two ports, after which the counter has wrapped; a queue of
one with two packets. Where a counter's bound ends a behaviour the
configuration says `CHECK_DEADLOCK FALSE`.

**Symmetry** is used in runs without temporal properties that need fairness,
over values the code compares for equality only.

**Fairness.** Weak fairness is given to goroutines that run by themselves: the
client loop and the steps of a request, `followSigners` on every snapshot of
an honest control plane, the expiry loop and the clock it reads, the status
loop of enrollment (`plane`); the goroutine of a tunnel, the loops of a link
and their write deadline (`tunnels`); a migration, which has a deadline, the
sender, the goroutine of a path (`spoke`); the parent's handlers and
supervisor, timers, launchd, the kernel reader, housekeeping (`host`); apply,
teardown, `watch`, `staleWatch` and the control loop (`lifecycle`). One strong
fairness: a `Close` that waits for the write mutex gets it, which Go's
`sync.Mutex` guarantees to a waiter that starves. Nothing is assumed of users,
administrators, devices, peers, the identity provider or the network.

## 4. Proofs

TLAPS proves the following for every value of the constants that the `ASSUME`s
allow. Each proof has the shape *initial states, one step per action, a PTL
step*; the inductive invariants (`...IInv`) are conjunctions of named parts in
the proof modules, one section per component. Together the theorems state
every invariant and every action property of the passing runs.

### What a device keeps: `History_proofs`

* `BindingHistory`: `TypeCorrect`, `MemoryCovers`, `InUseCurrent`,
  `DiskGrows`. Memory is at or ahead of the disk because pending entries are
  only ever ahead; `InUseIsCurrent` is inductive once that is known:
  acceptance establishes it for all of the holder at once, a refusal empties
  the holder, nothing else moves the book.
* `HostJournal`: `JournalSound`. What is on the host and not lost is recorded,
  or its own call is still under way and will record it (`UpIsKnown`); while
  `Recover` is at work it has yet to be tried or was kept (`RecoveryIsKnown`).
* `LocalNetworks`: `NetsSound`. A key in the directory of an entry was used
  with that entry's control plane alone, and a directory without an entry has
  no key (`KeysOk`); the root directory, which is always there, needs an entry
  or the settings of an older version that name it. Hypothesis: `~Late`, no
  handler outlives the server it came to. The code does not wait for its
  handlers (section 5), and with `Late` the invariant fails.

### Registry and administrators: `Control_proofs`

* `NodeRegistry`: `TypeCorrect`, `RevocationsCover`, `RecordsMatch`,
  `StepsKept`. `Ledger` bounds every issue time stored or in flight by the
  clock and ties a token to the time it was made; `Signed` says that a
  signature in flight whose token is still open was made over the row as it
  is; one row per key is alive. `RecordsMatch` has two hypotheses that are
  conditions on the operation, not on the code: the network is not renumbered
  and no prefix list names a prefix twice (section 5 says what happens
  otherwise).
* `AccessLists`: `ListsSound`, `ListsKept`. What an edit has read and a fetch
  has brought is known of it until it is used (`EditFine`, `FetchFine`).
* `AdminAuth`: `AdminSound`, `AdminKept`. Rows are never removed and keep their
  subject (`SessionsKept`, `PasskeysKept`), so that what a request found out
  stays true (`RequestFine`); a full session's predecessor is over, hence one
  sign-in raises once; a token whose chain begins at the bootstrap token
  carries the mark, also while its successor is being minted.
* `AdminLogin`: `AdminLoginSound`, `EndedGivesNone`, `LimitSound`. A request
  that has counted and not inserted stands for a flow it may add
  (`RoomTaken`), and a code is with one request at most (`CodeIsOnce`). A
  bucket that is there is the one that would be there had none been dropped,
  and one that is not would be full (`QuotientBounds` is the arithmetic of
  refilling).
* The composition: `ControlSound`, `ControlKept`.

### What control plane and nodes agree on: `Plane_proofs`

* `SnapshotFeed`: `TypeCorrect`, `WakeupsKept`, `NothingEverTorn`,
  `NoStepBack`, `FeedImplementsView`. A request that waits does so at the
  version the source has heard of, and whatever it has not heard of is about
  to be notified; until a backup is restored, what a load has read under the
  version it started with is the database's content if that version still is.
* `LoginSessions`: `SessionsSound`, `DecidedForGood`, `SessionsHeard`.
  `LoginIInv` relates the page of a tab to the flow it was given for, so that a
  late answer of the identity provider finds the flow decided.
* `SignerChain`: `SignersSound`, `NeverLeavesItsList`. A node's list descends
  from its pin through signatures of each predecessor; that two chains of
  honest signatures do not part is shown by taking the least place where they
  would, which is first-order and needs no induction over the chain.
* `Enrollment`: `OnlyAccepted`, `NoTakeover`. A node talks to the control plane
  that was accepted, what it was given is that one's, and the answer it works
  on is of a row that is there.
* The composition: `PlaneKeeps`.

### The overlay session: `NodeLifecycle_proofs`

`LifecycleSound`. `SessionsFine` says of each session what the host and the
flags have of it at every step of `apply` and of teardown, `OneSession` that
one which has begun and is not over is the node's, and `DiffHasSession` that
the control loop applies a snapshot to a session that there was. `Budget`
bounds the calls of `Up` that wait: a session is marked for a resume once, and
the automatic call is made once after each refusal.

### Hub and spoke: `Tunnels_proofs`, `Spoke_proofs`

* `HubTunnels`: `HubSound`. `HubIInv` adds to the invariant that the count of a
  route covers those who announce it (`CountCovers`): equality does not hold,
  since a detach that leaves another announcer does not lower the count.
* `StreamLink`: `LinkSound`. Who holds the write mutex and what the queue still
  owes before the stream's end.
* `RelayStreams`: `RelaySound`. Slots are tied to dialers; the lemma `FreePort`
  shows by counting that a free port is found although the counter wraps.
* `ClientLink`: `ClientSound`. A socket in the hand of a migration is its own
  (`HandsApart`), and a migration that has looked at the number of sockets
  stands for one that it may add (`RoomForAll`).
* `SpokeLinks`: `SpokeSound`. Links are numbered without a gap, a link has a
  tunnel exactly while its goroutine is connected, what the list of links
  names has been made, and what is installed is what `applyRoutesLocked`
  wanted when it last ran.
* `PeerPaths`: `PathsSound`, `ListenersSound`. What is known of a path is its
  peer's (`Known`), and every entry of the table has its goroutine.
* The compositions: `TunnelsSound`, `MCSpokeSound`.

### Packets and names: `Flows_proofs`

* `FlowTable`: `FlowSound`. A flow that waits for its name is not allowed, and
  a question waits only on a flow that is (`EntriesCohere`); the rules in force
  are those of the engine (`ByEngine`), which lags behind the snapshot only
  between storing the one and the other (`EngineFollows`).
* `AccessPolicy`: `PolicySound`. The engine gives Cedar a graph of entities and
  Cedar asks what is above what. Each of the sets above a principal and a
  destination is closed under "parent of", so nothing else is above, and every
  member is reached by a chain of at most four parents; hence a statement
  applies exactly when it means the request (`AppliesIsMeant`), for every
  snapshot.
* List entries: `EntrySound`, over addresses of any width. Powers of two, the
  block of addresses that share leading bits (`BlockOf`), and that `prefixOf`
  finds a length exactly for such blocks (`PrefixIsBlock`).
* `DnsMap`: `DnsSound`. Every name in the map outlives the last search
  (`MapOk`), so a map that is full within `FullScan` of it is full of names
  that are alive or were a moment ago.
* `FrontMux`: `FrontSound`. The budget is a sum over all handshakes, of which a
  datagram changes at most two.
* The composition: `FlowsSound`.

### Around the node: `Host_proofs`

* `PrivSep`: `SepSound`, `ForgottenIsFinal`. What a worker that is gone left is
  at most a call the parent still works on (`GoneIsDrained`).
* `EmbeddedTun` and `NetWatch`: `TunSound`, `WatchSound`. A read of the present
  generation is a read of the present descriptor (`ReadsTheCurrent`); a change
  the watcher has not seen is announced by a message or the token
  (`ChangeIsAnnounced`).
* `Updates`: `UpdateSound`, `ConnectingFollowsUpdate`. A daemon that runs has
  its app in its place except between the two renames (`AppInPlace`).
* `EmbedEngine`: `EngineSound`. A slot belongs to the engine that made its node
  (`OwnNodes`) and nothing is in the way of a configure or a reset
  (`OneAtATime`). Hypothesis: `OneCaller`, an engine serves one configure
  request at a time. The code lets two through, and then the first one's node
  is lost (section 5); the run has one caller too.
* `TunnelReports`: `ShipSound`, `ClosesAreFinal`, `LogSound`. What waits is in
  order and an id is used once (`WaitInOrder`, `IdsAreFresh`); from each mark
  that is or will be used the columns are filled (`MarksAreFilled`), and a
  client that pages has seen the matches from its cursor up (`PagerHasSeen`).
* The composition: `HostSound`, `DeviceSound`, `HostStepsSound`; `AppSound`,
  under `OneCaller`.

### Recursion

The library's induction theorems take the statement as an operator, which no
installed prover can instantiate. Where a proof needs induction it is over a
*set*: the numbers for which a fact holds contain 0 and every successor
(`NumbersAll`). On that rest two general lemmas of `Flows_proofs`: a recursion
over `0 .. n` whose step stays within a set has a solution, and its values are
in the set (`Iterates`; used for powers of two, for what a search of learned
names keeps and for the addresses of an answer), and the sum over a finite set
does not depend on the order in which it is taken, so it may be split at an
element (the section on finite sums, for the budget of the front). The models
define what they compute as recursive functions for that reason.

### Assumptions

Constants have the types the modules declare, sets of nodes, peers, flows and
the like are finite, and markers such as "nobody" or "no list" are not values
of the kind they stand for. Beyond that:

* `Period`, `Burst`, `MaxPending` are positive, as the code's are; requests
  beside each other are finitely many (`Tabs`); the first port is below the
  width of the counter.
* `HostJournal`: at most one change is the resolver's, because a process has
  one tunnel device under the name its configuration gives.
* `AccessPolicy`: overlay addresses are unique (`nodes_overlay_ip` in
  `migrations/0002_nodes.sql`); a statement's destination is anything, a host,
  a network, a node, a tag or a list, which are the ways `docs/ACL.md` names
  one; the bits of a prefix are at most 128.
* `DnsMap`: the clock starts `FullScan` after zero, since the zero time of the
  code is long ago.
* `TunnelReports`: the events of an older version are among the bounded number
  of events.

TLC evaluates all of them in the runs. `OnePool` and `ExactComparison`
(`RecordsMatch`), `~Late` (`NetsSound`, `HistorySound`) and `OneCaller`
(`EngineSound`, `AppSound`) are hypotheses of those theorems only.

### Only model-checked

Liveness (`PlaneProgress`, `OverlayFollows`, `TunnelsEnd`, `PathsEnd`,
`HostProgress`): fairness and `ENABLED` are beyond the prover. What
`VerifyChain` computes on its input is used through the facts a proof needs of
one step, never as a result for all chains. The two violated properties are
counterexamples and stay with TLC.

## 5. Observations

What the models showed about the code beyond the two findings. They have no
run of their own: most are behaviours that no document rules out, some are
left out of a property, which then says so.

*Trust and records*
* A revocation that came with a refused snapshot is kept in memory only and
  forgotten by a restart (`node.go:719`), while `docs/BINDINGS.md:183-186`
  says it is recorded "for good".
* After a failed write, one pending change without its proof makes `save` drop
  all the others (`history.go:103`).
* `equalPrefixes` (`nodes.go:626`) takes `[p, p]` for `[p, q]`.
* A renumbering between verification and commit (`settings.go:171`) approves an
  address that was never signed.
* A node revoked during the confirmation of its login gets a session
  (`sessions.go:229`); no snapshot carries it.
* A control plane restored from a backup that has counted up to exactly a
  node's version answers "not modified" over other content (`snapshot.go:251`).
* Enrollment: `filePin.seen` is never cleared (`node.go:1094-1110`); a late
  "pending" may follow "approved" (`node.go:695-712`); two enrollments of one
  key at once answer 409; the bound on pending rows is checked before the
  insert (`api/node.go:107-115`).
* `controlclient.go:186-197`: two simultaneous failures flip `tryGood` twice,
  and `dialed` is shared.

*Administrators and lists*
* Two "first" passkey ceremonies may both become active.
* The kind of a list changed during a fetch leaves entries that were parsed
  for the old kind; a policy may be stored after its list was deleted.
* A fetch that finds the entries unchanged stores the ETag of the file it saw
  (`lists.go:256-261`) although an edit may have come between the comparison
  and the mark.

*Overlay, hub and spoke*
* NAT rules: `applyDiff` may set them on a session that is gone
  (`node.go:1836`), and `apply` sets its flag after the rules
  (`node.go:1790`); `LifecycleInv` is about the device and the route to the
  control plane.
* `DownByUser` (`node.go:1384`) clears the resume first: `staleWatch` may set
  it again before `Down`, and an `autoUp` already started is not stopped.
* A link's bypass route may be added after teardown (`spoke.go:454`).
* A peer with two tunnels counts its kernel route twice and releases it once
  (`hub.go:118-132`, `node.go:2021-2058`); the count only errs upwards.
* A reset closes tunnels accepted since it was asked for; several closers of a
  link may each wait for the write deadline (`capsule.go:392-393`).
* The late dial of a cancelled link overwrites the newer link's table entry
  (`spoke.go:260`); routes may stay after the grace (`spoke.go:67-69`) until
  `repair` restores them (`repair.go:88-91`); a closed path may be found
  (`paths.go:481`); the sockets of a tunnel end with its link
  (`client.go:84-87`), and of two migrations each may take the socket for its
  own.

*Packets and names*
* Payload goes by the old rules between a snapshot and the reevaluation; a
  forbid that asks for a server name is not waited for.
* A refreshed name keeps its place in the order of `dnsmap`.

*Host*
* Journal: a kept DNS or forward record is overwritten by the next device's;
  an unreadable journal is overwritten; a command that did not answer keeps
  its record (`journal.go:81-84`).
* `LocalNetworks`: handlers outlive their server, a failed save leaves the
  entry in memory, `removing` is not persisted, a failed select leaves
  `Current` (`networks.go:31-33`).
* `PrivSep`: requests past the check of a forgotten identity are still
  answered; an aborted `Follow` leaves pieces of the chain; a descriptor may
  arrive after its request was given up (`worker.go:176`).
* `EmbedEngine`: two concurrent configures leak a node. `EmbeddedTun`: the
  back-off is not reset by a success of another device. `NetWatch`: a failed
  look drops the change until the next event.

## 6. Not modelled

Cryptography, parsing of keys and signatures, HTTP, QUIC and WebAuthn;
operating-system commands beyond their outcomes; the loop that copies packets;
the identity provider beyond success and failure of its calls; the sandbox's
filters; tray and apps. Cedar's evaluation is a library's; `AccessPolicy`
models what the engine gives it and what its answer means. Within modelled
components, each entry of `components` in `PROJECT.json` says what is left
out.

## 7. Plan

Modelled first, because it decides whom nodes trust and what they see:
history, registry, feed, signer lists, logins, enrollment, administrators;
then the life of a session, the hub, the spoke, packets, and what runs around
the node. Proved in the same order, and complete for the safety properties of
the runs.

Next: a clock that is set back in `NodeRegistry`; the eviction of
`BindingHistory` at its limit; the request of a handler that outlives its
server in `LocalNetworks` and the second configure request in `EmbedEngine`,
as runs of their own once a document says what the code should do there.
