---------------------------- MODULE SnapshotFeed ----------------------------
(***************************************************************************)
(* How a change in the database reaches the nodes: transactions bump the   *)
(* snapshot version and notify; nodes long-poll for anything newer than    *)
(* what they have (Source.Wait) and get a snapshot built from a cache or   *)
(* from one query per table (Source.load); the node's loop refuses what is *)
(* older than it holds and what does not verify (Client.Run).              *)
(*                                                                         *)
(* Every read of the database and every critical section of Source.mu is a *)
(* step of its own: commits, notifications and other requests happen in    *)
(* between.  The control plane may stop and start again (waiters, cache    *)
(* and pending notifications are lost) and may come back with a database   *)
(* restored from a backup, its counter behind what its nodes saw.          *)
(*                                                                         *)
(* Abstractions.  A table's content is the number of the commit that last  *)
(* changed it.  A node has one request at a time, as its loop does.  That  *)
(* a node lost its approval (403), and what a snapshot leaves out for one  *)
(* node (BuildFor's filters), are not modelled.                            *)
(***************************************************************************)
EXTENDS Naturals, Sequences

CONSTANTS
  Nodes,
  Order,        \* the tables, in the order load reads them
  None,
  MaxCommits,   \* bound on transactions
  MaxFaults,    \* bound on lost requests, restarts and refused snapshots
  MaxRestores   \* bound on restored backups

Tables == {Order[i] : i \in DOMAIN Order}
Commits == 0..MaxCommits
Versions == 0..(MaxCommits + 1)
Content == [Tables -> Commits]
Snapshot == [version : Versions, tables : Content]

ASSUME FeedAssumption ==
  /\ Order \in Seq(Tables) /\ Order # <<>>
  /\ {MaxCommits, MaxFaults, MaxRestores} \subseteq Nat
  /\ None \notin Snapshot

VARIABLES
  db,           \* the database: version and tables
  backup,       \* a copy of it
  commits,      \* transactions so far
  notifies,     \* versions committed, Notify still to be called
  version,      \* Source.version
  cache,        \* Source.cached*
  reqs,         \* per node, its request
  holder,       \* per node, the snapshot in use
  since,        \* per node, the version its loop asks from
  faults,
  restores

vars == <<db, backup, commits, notifies, version, cache, reqs, holder, since, faults, restores>>

Idle == [pc |-> "idle", since |-> 0, cur |-> 0, at |-> 1, snap |-> None]

Higher(a, b) == IF a > b THEN a ELSE b

Goto(n, pc) == reqs' = [reqs EXCEPT ![n].pc = pc]

Fault == faults < MaxFaults /\ faults' = faults + 1

-----------------------------------------------------------------------------
Init ==
  /\ db = [version |-> 1, tables |-> [t \in Tables |-> 0]]
  /\ backup = db
  /\ commits = 0
  /\ notifies = {}
  /\ version = 0
  /\ cache = None
  /\ reqs = [n \in Nodes |-> Idle]
  /\ holder = [n \in Nodes |-> None]
  /\ since = [n \in Nodes |-> 0]
  /\ faults = 0
  /\ restores = 0

(***************************************************************************)
(* Writers.                                                                *)
(***************************************************************************)

\* DB.tx with bump: the change and the version commit together.
Commit(t) ==
  /\ commits < MaxCommits
  /\ commits' = commits + 1
  /\ db' = [version |-> db.version + 1, tables |-> [db.tables EXCEPT ![t] = commits + 1]]
  /\ notifies' = notifies \cup {db.version + 1}
  /\ UNCHANGED <<backup, version, cache, reqs, holder, since, faults, restores>>

\* Notify: handlers call it after their transaction, in any order.
Notify(v) ==
  /\ notifies' = notifies \ {v}
  /\ version' = Higher(version, v)
  /\ reqs' = [n \in Nodes |-> IF reqs[n].pc = "waiting" THEN [reqs[n] EXCEPT !.pc = "load"] ELSE reqs[n]]
  /\ UNCHANGED <<db, backup, commits, cache, holder, since, faults, restores>>

(***************************************************************************)
(* nodeSnapshot: Wait.                                                     *)
(***************************************************************************)

\* The node asks, and Wait reads the version.
Ask(n) ==
  /\ reqs[n].pc = "idle"
  /\ reqs' = [reqs EXCEPT ![n] = [Idle EXCEPT !.pc = IF db.version > since[n] THEN "load" ELSE "enter",
                                              !.since = since[n], !.cur = db.version]]
  /\ UNCHANGED <<db, backup, commits, notifies, version, cache, holder, since, faults, restores>>

\* Mutant: what was notified since the read is not looked at.
EnterBlind(n) ==
  /\ reqs[n].pc = "enter"
  /\ version' = Higher(version, reqs[n].cur)
  /\ Goto(n, IF reqs[n].since > version' THEN "load" ELSE "waiting")
  /\ UNCHANGED <<db, backup, commits, notifies, cache, holder, since, faults, restores>>

\* Wait's critical section: a node that is ahead, and one for which a change
\* was notified since the read, are answered; any other one waits.
Enter(n) ==
  /\ reqs[n].pc = "enter"
  /\ version' = Higher(version, reqs[n].cur)
  /\ Goto(n, IF reqs[n].since # version' THEN "load" ELSE "waiting")
  /\ UNCHANGED <<db, backup, commits, notifies, cache, holder, since, faults, restores>>

\* The timeout: the version is read once more.
Timeout(n) ==
  /\ reqs[n].pc = "waiting"
  /\ Goto(n, IF db.version > reqs[n].since THEN "load" ELSE "unmodified")
  /\ UNCHANGED <<db, backup, commits, notifies, version, cache, holder, since, faults, restores>>

(***************************************************************************)
(* nodeSnapshot: load.                                                     *)
(***************************************************************************)

LoadVersion(n) ==
  /\ reqs[n].pc = "load"
  /\ reqs' = [reqs EXCEPT ![n].pc = "cache", ![n].snap = [db EXCEPT !.tables = [t \in Tables |-> 0]]]
  /\ UNCHANGED <<db, backup, commits, notifies, version, cache, holder, since, faults, restores>>

CheckCache(n) ==
  /\ reqs[n].pc = "cache"
  /\ reqs' = [reqs EXCEPT ![n] =
       IF cache # None /\ cache.version = reqs[n].snap.version
       THEN [@ EXCEPT !.pc = "answer", !.snap = cache]
       ELSE [@ EXCEPT !.pc = "read"]]
  /\ UNCHANGED <<db, backup, commits, notifies, version, cache, holder, since, faults, restores>>

\* One query per table, each on its own.
ReadTable(n) ==
  /\ reqs[n].pc = "read"
  /\ LET i == reqs[n].at
         t == Order[i]
     IN  reqs' = [reqs EXCEPT ![n].snap.tables[t] = db.tables[t],
                              ![n].at = i + 1,
                              ![n].pc = IF i = Len(Order) THEN "store" ELSE "read"]
  /\ UNCHANGED <<db, backup, commits, notifies, version, cache, holder, since, faults, restores>>

\* Mutant: what was read is labelled with the version of now.
StoreCacheLate(n) ==
  /\ reqs[n].pc = "store"
  /\ cache' = [reqs[n].snap EXCEPT !.version = db.version]
  /\ reqs' = [reqs EXCEPT ![n].pc = "answer", ![n].snap.version = db.version]
  /\ UNCHANGED <<db, backup, commits, notifies, version, holder, since, faults, restores>>

\* The cache takes what this request read, even if another one read a newer
\* version meanwhile.
StoreCache(n) ==
  /\ reqs[n].pc = "store"
  /\ cache' = reqs[n].snap
  /\ Goto(n, "answer")
  /\ UNCHANGED <<db, backup, commits, notifies, version, holder, since, faults, restores>>

(***************************************************************************)
(* The node's loop.                                                        *)
(***************************************************************************)

\* 304: the snapshot in use counts as confirmed (Holder.Touch).
NotModified(n) ==
  /\ reqs[n].pc = "unmodified"
  /\ reqs' = [reqs EXCEPT ![n] = Idle]
  /\ UNCHANGED <<db, backup, commits, notifies, version, cache, holder, since, faults, restores>>

Older(n) == holder[n] # None /\ reqs[n].snap.version < holder[n].version

\* Mutant: whatever the control plane says last.
ReceiveAny(n) ==
  /\ reqs[n].pc = "answer"
  /\ holder' = [holder EXCEPT ![n] = reqs[n].snap]
  /\ since' = [since EXCEPT ![n] = reqs[n].snap.version]
  /\ reqs' = [reqs EXCEPT ![n] = Idle]
  /\ UNCHANGED <<db, backup, commits, notifies, version, cache, faults, restores>>

\* A snapshot that verifies is stored, unless it is older than the one in
\* use.
Receive(n) ==
  /\ reqs[n].pc = "answer"
  /\ IF Older(n) THEN UNCHANGED <<holder, since>>
     ELSE /\ holder' = [holder EXCEPT ![n] = reqs[n].snap]
          /\ since' = [since EXCEPT ![n] = reqs[n].snap.version]
  /\ reqs' = [reqs EXCEPT ![n] = Idle]
  /\ UNCHANGED <<db, backup, commits, notifies, version, cache, faults, restores>>

\* A snapshot that does not verify: the node holds nothing, and asks for the
\* same version again.  The snapshot in use, served once more, does verify:
\* it teaches the node nothing that would have to be recorded.
Reject(n) ==
  /\ Fault
  /\ reqs[n].pc = "answer"
  /\ reqs[n].snap # holder[n]
  /\ ~Older(n)
  /\ holder' = [holder EXCEPT ![n] = None]
  /\ reqs' = [reqs EXCEPT ![n] = Idle]
  /\ UNCHANGED <<db, backup, commits, notifies, version, cache, since, restores>>

\* The request fails, or its answer is lost; a waiter is removed.
Lose(n) ==
  /\ Fault
  /\ reqs[n].pc # "idle"
  /\ reqs' = [reqs EXCEPT ![n] = Idle]
  /\ UNCHANGED <<db, backup, commits, notifies, version, cache, holder, since, restores>>

\* Snapshots are not kept on the node's disk.
RestartNode(n) ==
  /\ Fault
  /\ holder' = [holder EXCEPT ![n] = None]
  /\ since' = [since EXCEPT ![n] = 0]
  /\ reqs' = [reqs EXCEPT ![n] = Idle]
  /\ UNCHANGED <<db, backup, commits, notifies, version, cache, restores>>

-----------------------------------------------------------------------------
\* What a process that starts knows.
Fresh ==
  /\ notifies' = {}
  /\ version' = 0
  /\ cache' = None
  /\ reqs' = [n \in Nodes |-> Idle]

RestartControl ==
  /\ Fault
  /\ Fresh
  /\ UNCHANGED <<db, backup, commits, holder, since, restores>>

Backup ==
  /\ restores < MaxRestores
  /\ backup # db
  /\ backup' = db
  /\ UNCHANGED <<db, commits, notifies, version, cache, reqs, holder, since, faults, restores>>

Restore ==
  /\ restores < MaxRestores
  /\ restores' = restores + 1
  /\ db' = backup
  /\ Fresh
  /\ UNCHANGED <<backup, commits, holder, since, faults>>

Serve(n) ==
  \/ Ask(n) \/ Enter(n) \/ LoadVersion(n) \/ CheckCache(n) \/ ReadTable(n) \/ StoreCache(n)
  \/ NotModified(n) \/ Receive(n)

Next ==
  \/ \E t \in Tables : Commit(t)
  \/ \E v \in notifies : Notify(v)
  \/ \E n \in Nodes : Serve(n) \/ Timeout(n) \/ Reject(n) \/ Lose(n) \/ RestartNode(n)
  \/ RestartControl \/ Backup \/ Restore

Spec == Init /\ [][Next]_vars

-----------------------------------------------------------------------------
Request ==
  [pc : {"idle", "enter", "waiting", "unmodified", "load", "cache", "read", "store", "answer"},
   since : Versions, cur : Versions, at : 1..(Len(Order) + 1), snap : Snapshot \cup {None}]

TypeOK ==
  /\ db \in Snapshot
  /\ backup \in Snapshot
  /\ commits \in Commits
  /\ notifies \in SUBSET Versions
  /\ version \in Versions
  /\ cache \in Snapshot \cup {None}
  /\ reqs \in [Nodes -> Request]
  /\ holder \in [Nodes -> Snapshot \cup {None}]
  /\ since \in [Nodes -> Versions]
  /\ faults \in 0..MaxFaults
  /\ restores \in 0..MaxRestores

\* A snapshot read while the tables changed under it never counts as the
\* current one: what the cache or a node holds under the database's version
\* is the database's content, as long as no backup was restored.  (A torn
\* snapshot has an older version, so the next poll replaces it.)
Current(snap) == snap # None /\ snap.version = db.version => snap.tables = db.tables
NothingTorn == restores = 0 => Current(cache) /\ \A n \in Nodes : Current(holder[n])

\* A long poll that waits although there is something newer will be woken:
\* the Notify of a newer version is still to come.  ("a change that
\* committed between the read above and this point woke nobody", Wait)
NoLostWakeup ==
  \A n \in Nodes : reqs[n].pc = "waiting" /\ db.version > reqs[n].since =>
    \E v \in notifies : v > reqs[n].since

\* A node never goes back to an older snapshot, also when answers come from
\* a cache, from a slow request or from a restored control plane; only
\* holding nothing is a way back.  ("snapshot older than the one in use
\* refused", Client.Run)
NeverOlder ==
  [][\A n \in Nodes : holder[n] # None /\ holder'[n] # None => holder'[n].version >= holder[n].version]_vars

\* The feed keeps its promise: whatever requests, caches, notifications and
\* faults do, the database and the snapshots in use (Holder) behave as
\* SnapshotView says.  (Source.Wait, Source.load and Client.Run)
View == INSTANCE SnapshotView WITH world <- db, view <- holder
FeedsView == View!Spec

\* Where every node ends up, without a timeout, after any number of commits,
\* lost answers, refused snapshots and restarts: with what the database says.
CaughtUp == \A n \in Nodes : holder[n] # None /\ holder[n].tables = db.tables

=============================================================================
