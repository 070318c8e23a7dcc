---------------------------- MODULE Plane_proofs ----------------------------
(***************************************************************************)
(* Proofs about what nodes and their control plane agree on: the snapshots *)
(* a node is served (SnapshotFeed), the logins of its users                *)
(* (LoginSessions), the admin keys it trusts (SignerChain), how it comes   *)
(* to its control plane (Enrollment), and what no step of the whole        *)
(* composition (MCPlane) does.                                             *)
(***************************************************************************)
EXTENDS MCPlane, FiniteSetTheorems, SequenceTheorems, WellFoundedInduction, TLAPS

-----------------------------------------------------------------------------
(***************************************************************************)
(* Proofs about SnapshotFeed, for any number of nodes, tables, commits,    *)
(* faults and restored backups.                                            *)
(***************************************************************************)

-----------------------------------------------------------------------------
(***************************************************************************)
(* Types.  A request that has started to load has a snapshot at hand, and  *)
(* while it reads there is a next table.  Versions stay in bounds because  *)
(* they do not run ahead of the commits.                                   *)
(***************************************************************************)

Loading == {"cache", "read", "store", "answer"}

Progress ==
  /\ db.version <= commits + 1
  /\ backup.version <= commits + 1
  /\ \A n \in Nodes :
       /\ reqs[n].pc \in Loading => reqs[n].snap \in Snapshot
       /\ reqs[n].pc = "read" => reqs[n].at \in 1..Len(Order)
       /\ reqs[n].pc \notin {"read", "store", "answer"} => reqs[n].at = 1

TypeInv == TypeOK /\ Progress

LEMMA Constants ==
  /\ Len(Order) \in Nat \ {0} /\ \A i \in 1..Len(Order) : Order[i] \in Tables
  /\ MaxCommits \in Nat /\ MaxFaults \in Nat /\ MaxRestores \in Nat
  /\ None \notin Snapshot
  /\ 0 \in Commits /\ 0 \in Versions /\ 1 \in Versions
  /\ \A v \in Versions : v \in Nat
  BY FeedAssumption DEF Commits, Versions

LEMMA IdleType == Idle \in Request /\ Idle.pc = "idle" /\ Idle.at = 1 /\ Idle.since = 0 /\ Idle.cur = 0
  BY Constants DEF Idle, Request

LEMMA HigherType == \A a, b \in Versions : Higher(a, b) \in Versions /\ Higher(a, b) >= a /\ Higher(a, b) >= b
  BY Constants DEF Higher, Versions

LEMMA InitType == Init => TypeInv
<1> SUFFICES ASSUME Init PROVE TypeInv
  OBVIOUS
<1>1. db \in Snapshot /\ backup \in Snapshot /\ db.version = 1 /\ backup.version = 1
  BY Constants DEF Init, Snapshot, Content
<1>2. \A n \in Nodes : reqs[n] = Idle
  BY DEF Init
<1>3. TypeOK
  BY <1>1, Constants, IdleType DEF Init, TypeOK
<1>4. Progress
  BY <1>1, <1>2, IdleType DEF Init, Progress, Loading
<1>5. QED
  BY <1>3, <1>4 DEF TypeInv

LEMMA NextType == TypeInv /\ [Next]_vars => TypeInv'
<1> SUFFICES ASSUME TypeInv, [Next]_vars PROVE TypeInv'
  OBVIOUS
<1>t. /\ db \in Snapshot /\ backup \in Snapshot /\ commits \in Commits /\ notifies \in SUBSET Versions
      /\ version \in Versions /\ cache \in Snapshot \cup {None} /\ reqs \in [Nodes -> Request]
      /\ holder \in [Nodes -> Snapshot \cup {None}] /\ since \in [Nodes -> Versions]
      /\ faults \in 0..MaxFaults /\ restores \in 0..MaxRestores
  BY DEF TypeInv, TypeOK
<1>p. Progress
  BY DEF TypeInv
<1> USE DEF TypeInv, TypeOK
\* A step of one request: the rest of the state keeps its type.
<1>r. ASSUME NEW n \in Nodes,
             reqs' \in [Nodes -> Request],
             \A m \in Nodes \ {n} : reqs'[m] = reqs[m],
             reqs'[n].pc \in Loading => reqs'[n].snap \in Snapshot,
             reqs'[n].pc = "read" => reqs'[n].at \in 1..Len(Order),
             reqs'[n].pc \notin {"read", "store", "answer"} => reqs'[n].at = 1,
             version' \in Versions, cache' \in Snapshot \cup {None},
             holder' \in [Nodes -> Snapshot \cup {None}], since' \in [Nodes -> Versions],
             faults' \in 0..MaxFaults,
             UNCHANGED <<db, backup, commits, notifies, restores>>
      PROVE  TypeInv'
  BY <1>t, <1>p, <1>r DEF Progress
<1>1. ASSUME NEW t \in Tables, Commit(t) PROVE TypeInv'
  <2>1. /\ commits' \in Commits /\ db.version + 1 \in Versions /\ db.version \in Nat /\ commits \in Nat
        /\ commits' = commits + 1
    BY <1>1, <1>t, <1>p, Constants DEF Commit, Progress, Commits, Versions, Snapshot
  <2>2. db' \in Snapshot /\ db'.version = db.version + 1
    BY <1>1, <1>t, <2>1 DEF Commit, Snapshot, Content
  <2>3. UNCHANGED <<backup, version, cache, reqs, holder, since, faults, restores>> /\ notifies' \in SUBSET Versions
    BY <1>1, <1>t, <2>1 DEF Commit
  <2>4. backup.version \in Nat
    BY <1>t, Constants DEF Snapshot
  <2>5. Progress'
    BY <1>p, <2>1, <2>2, <2>3, <2>4 DEF Progress
  <2>6. QED
    BY <1>t, <2>1, <2>2, <2>3, <2>5
<1>2. ASSUME NEW v \in notifies, Notify(v) PROVE TypeInv'
  <2>1. /\ reqs' \in [Nodes -> Request]
        /\ \A n \in Nodes : \/ reqs'[n] = reqs[n]
                            \/ reqs[n].pc = "waiting" /\ reqs'[n].pc = "load" /\ reqs'[n].at = reqs[n].at
    BY <1>2, <1>t DEF Notify, Request
  <2>2. version' \in Versions
    BY <1>2, <1>t, HigherType DEF Notify
  <2>3. notifies' \in SUBSET Versions /\ UNCHANGED <<db, backup, commits, cache, holder, since, faults, restores>>
    BY <1>2, <1>t DEF Notify
  <2>4. Progress'
    BY <1>p, <2>1, <2>3 DEF Progress, Loading
  <2>5. QED
    BY <1>t, <2>1, <2>2, <2>3, <2>4
<1>3. ASSUME NEW n \in Nodes, Ask(n) PROVE TypeInv'
  <2>1. /\ reqs' \in [Nodes -> Request]
        /\ \A m \in Nodes \ {n} : reqs'[m] = reqs[m]
        /\ reqs'[n].pc \in {"load", "enter"} /\ reqs'[n].at = 1
    BY <1>3, <1>t, IdleType DEF Ask, Request, Idle, Snapshot
  <2>2. QED
    BY <1>r, <1>t, <1>3, <2>1 DEF Ask, Loading
<1>4. ASSUME NEW n \in Nodes, Enter(n) PROVE TypeInv'
  <2>1. /\ reqs' \in [Nodes -> Request]
        /\ \A m \in Nodes \ {n} : reqs'[m] = reqs[m]
        /\ reqs'[n].pc \in {"load", "waiting"} /\ reqs'[n].at = reqs[n].at /\ reqs[n].pc = "enter"
    BY <1>4, <1>t DEF Enter, Goto, Request
  <2>2. version' \in Versions
    BY <1>4, <1>t, HigherType DEF Enter, Request
  <2>3. reqs[n].at = 1
    BY <1>p, <2>1 DEF Progress
  <2>4. QED
    BY <1>r, <1>t, <1>4, <2>1, <2>2, <2>3 DEF Enter, Loading
<1>5. ASSUME NEW n \in Nodes, Timeout(n) PROVE TypeInv'
  <2>1. /\ reqs' \in [Nodes -> Request]
        /\ \A m \in Nodes \ {n} : reqs'[m] = reqs[m]
        /\ reqs'[n].pc \in {"load", "unmodified"} /\ reqs'[n].at = reqs[n].at /\ reqs[n].pc = "waiting"
    BY <1>5, <1>t DEF Timeout, Goto, Request
  <2>2. reqs[n].at = 1
    BY <1>p, <2>1 DEF Progress
  <2>3. QED
    BY <1>r, <1>t, <1>5, <2>1, <2>2 DEF Timeout, Loading
<1>6. ASSUME NEW n \in Nodes, LoadVersion(n) PROVE TypeInv'
  <2>1. [db EXCEPT !.tables = [t \in Tables |-> 0]] \in Snapshot
    BY <1>t, Constants DEF Snapshot, Content
  <2>2. /\ reqs' \in [Nodes -> Request]
        /\ \A m \in Nodes \ {n} : reqs'[m] = reqs[m]
        /\ reqs'[n].pc = "cache" /\ reqs'[n].at = reqs[n].at /\ reqs[n].pc = "load"
        /\ reqs'[n].snap \in Snapshot
    BY <1>6, <1>t, <2>1 DEF LoadVersion, Request
  <2>3. reqs[n].at = 1
    BY <1>p, <2>2 DEF Progress
  <2>4. QED
    BY <1>r, <1>t, <1>6, <2>2, <2>3 DEF LoadVersion, Loading
<1>7. ASSUME NEW n \in Nodes, CheckCache(n) PROVE TypeInv'
  <2>1. /\ reqs' \in [Nodes -> Request]
        /\ \A m \in Nodes \ {n} : reqs'[m] = reqs[m]
        /\ reqs'[n].at = reqs[n].at /\ reqs[n].pc = "cache"
        /\ \/ reqs'[n].pc = "answer" /\ reqs'[n].snap = cache /\ cache # None
           \/ reqs'[n].pc = "read" /\ reqs'[n].snap = reqs[n].snap
    BY <1>7, <1>t DEF CheckCache, Request
  <2>2. reqs[n].at = 1 /\ reqs[n].snap \in Snapshot
    BY <1>p, <2>1 DEF Progress, Loading
  <2>3. 1 \in 1..Len(Order)
    BY Constants
  <2>4. QED
    BY <1>r, <1>t, <1>7, <2>1, <2>2, <2>3 DEF CheckCache, Loading
<1>8. ASSUME NEW n \in Nodes, ReadTable(n) PROVE TypeInv'
  <2> DEFINE i == reqs[n].at
             snap == [reqs[n].snap EXCEPT !.tables[Order[i]] = db.tables[Order[i]]]
  <2>1. i \in 1..Len(Order) /\ reqs[n].snap \in Snapshot /\ reqs[n].pc = "read"
    BY <1>8, <1>p DEF ReadTable, Progress, Loading
  <2>2. snap \in Snapshot
    BY <1>t, <2>1, Constants DEF Snapshot, Content
  <2>3. i + 1 \in 1..(Len(Order) + 1) /\ (i # Len(Order) => i + 1 \in 1..Len(Order))
    BY <2>1, Constants
  <2>4. /\ reqs' \in [Nodes -> Request]
        /\ \A m \in Nodes \ {n} : reqs'[m] = reqs[m]
        /\ reqs'[n].snap = snap /\ reqs'[n].at = i + 1
        /\ reqs'[n].pc = IF i = Len(Order) THEN "store" ELSE "read"
    <3> DEFINE r == [reqs[n] EXCEPT !.snap = snap, !.at = i + 1, !.pc = IF i = Len(Order) THEN "store" ELSE "read"]
    <3>1. reqs' = [reqs EXCEPT ![n] = r]
      BY <1>8, <1>t, <2>1 DEF ReadTable, Request, Snapshot
    <3> HIDE DEF snap
    <3>2. r \in Request /\ r.snap = snap /\ r.at = i + 1 /\ r.pc = IF i = Len(Order) THEN "store" ELSE "read"
      BY <1>t, <2>2, <2>3 DEF Request
    <3> HIDE DEF r
    <3>3. QED
      BY <1>t, <3>1, <3>2
  <2>5. UNCHANGED <<db, backup, commits, notifies, version, cache, holder, since, faults, restores>>
    BY <1>8 DEF ReadTable
  <2> HIDE DEF i, snap
  <2>6. QED
    BY <1>r, <1>t, <2>2, <2>3, <2>4, <2>5 DEF Loading
<1>9. ASSUME NEW n \in Nodes, StoreCache(n) PROVE TypeInv'
  <2>1. /\ reqs' \in [Nodes -> Request]
        /\ \A m \in Nodes \ {n} : reqs'[m] = reqs[m]
        /\ reqs'[n].pc = "answer" /\ reqs'[n].snap = reqs[n].snap /\ reqs[n].pc = "store"
    BY <1>9, <1>t DEF StoreCache, Goto, Request
  <2>2. reqs[n].snap \in Snapshot
    BY <1>p, <2>1 DEF Progress, Loading
  <2>3. QED
    BY <1>r, <1>t, <1>9, <2>1, <2>2 DEF StoreCache, Loading
\* A step that ends a request.
<1>e. ASSUME NEW n \in Nodes, reqs' = [reqs EXCEPT ![n] = Idle]
      PROVE  /\ reqs' \in [Nodes -> Request]
             /\ \A m \in Nodes \ {n} : reqs'[m] = reqs[m]
             /\ reqs'[n].pc = "idle" /\ reqs'[n].at = 1
  BY <1>t, <1>e, IdleType
<1>10. ASSUME NEW n \in Nodes, NotModified(n) PROVE TypeInv'
  BY <1>r, <1>e, <1>t, <1>10 DEF NotModified, Loading
<1>11. ASSUME NEW n \in Nodes, Receive(n) PROVE TypeInv'
  <2>1. reqs[n].snap \in Snapshot /\ reqs[n].snap.version \in Versions
    BY <1>11, <1>p DEF Receive, Progress, Loading, Snapshot
  <2>2. /\ holder' \in [Nodes -> Snapshot \cup {None}] /\ since' \in [Nodes -> Versions]
        /\ UNCHANGED <<db, backup, commits, notifies, version, cache, faults, restores>>
    BY <1>11, <1>t, <2>1 DEF Receive
  <2>3. QED
    BY <1>r, <1>e, <1>t, <1>11, <2>2 DEF Receive, Loading
<1>12. ASSUME NEW n \in Nodes, Reject(n) PROVE TypeInv'
  <2>1. /\ holder' \in [Nodes -> Snapshot \cup {None}] /\ faults' \in 0..MaxFaults
        /\ UNCHANGED <<db, backup, commits, notifies, version, cache, since, restores>>
    BY <1>12, <1>t, Constants DEF Reject, Fault
  <2>2. QED
    BY <1>r, <1>e, <1>t, <1>12, <2>1 DEF Reject, Loading
<1>13. ASSUME NEW n \in Nodes, Lose(n) PROVE TypeInv'
  <2>1. faults' \in 0..MaxFaults /\ UNCHANGED <<db, backup, commits, notifies, version, cache, holder, since, restores>>
    BY <1>13, <1>t, Constants DEF Lose, Fault
  <2>2. QED
    BY <1>r, <1>e, <1>t, <1>13, <2>1 DEF Lose, Loading
<1>14. ASSUME NEW n \in Nodes, RestartNode(n) PROVE TypeInv'
  <2>1. /\ holder' \in [Nodes -> Snapshot \cup {None}] /\ since' \in [Nodes -> Versions] /\ faults' \in 0..MaxFaults
        /\ UNCHANGED <<db, backup, commits, notifies, version, cache, restores>>
    BY <1>14, <1>t, Constants DEF RestartNode, Fault
  <2>2. QED
    BY <1>r, <1>e, <1>t, <1>14, <2>1 DEF RestartNode, Loading
\* A control plane that starts afresh.
<1>f. ASSUME Fresh
      PROVE  /\ reqs' \in [Nodes -> Request] /\ notifies' \in SUBSET Versions /\ version' \in Versions
             /\ cache' \in Snapshot \cup {None}
             /\ \A n \in Nodes : reqs'[n].pc = "idle" /\ reqs'[n].at = 1
  BY <1>f, IdleType, Constants DEF Fresh
<1>15. CASE RestartControl
  <2>1. faults' \in 0..MaxFaults /\ UNCHANGED <<db, backup, commits, holder, since, restores>>
    BY <1>15, <1>t, Constants DEF RestartControl, Fault
  <2>2. QED
    BY <1>f, <1>t, <1>p, <1>15, <2>1 DEF RestartControl, Progress, Loading
<1>16. CASE Backup
  BY <1>t, <1>p, <1>16 DEF Backup, Progress
<1>17. CASE Restore
  <2>1. restores' \in 0..MaxRestores /\ db' = backup /\ UNCHANGED <<backup, commits, holder, since, faults>>
    BY <1>17, <1>t, Constants DEF Restore
  <2>2. QED
    BY <1>f, <1>t, <1>p, <1>17, <2>1 DEF Restore, Progress, Loading
<1>18. CASE UNCHANGED vars
  BY <1>t, <1>p, <1>18 DEF vars, Progress
<1>19. QED
  BY <1>1, <1>2, <1>3, <1>4, <1>5, <1>6, <1>7, <1>8, <1>9, <1>10, <1>11, <1>12, <1>13, <1>14,
     <1>15, <1>16, <1>17, <1>18 DEF Next, Serve

\* Every reachable state has its type, whatever the requests are doing.
THEOREM TypeCorrect == Spec => []TypeOK
<1>1. TypeInv => TypeOK
  BY DEF TypeInv
<1>2. QED
  BY <1>1, InitType, NextType, PTL DEF Spec

-----------------------------------------------------------------------------
(***************************************************************************)
(* Wakeups.  Heard(v): whoever waits for something newer than v need not   *)
(* be woken, or the Notify of the database's version is still to come.     *)
(* Between its read and its critical section a request is covered by what  *)
(* it read or by what was notified since.                                  *)
(***************************************************************************)

Heard(v) == v >= db.version \/ db.version \in notifies

Wakeup ==
  \A n \in Nodes :
    /\ reqs[n].pc = "waiting" => Heard(reqs[n].since)
    /\ reqs[n].pc = "enter" => Heard(reqs[n].cur) \/ Heard(version)

LEMMA NextWakeup == TypeInv /\ Wakeup /\ [Next]_vars => Wakeup'
<1> SUFFICES ASSUME TypeInv, Wakeup, [Next]_vars PROVE Wakeup'
  OBVIOUS
<1>t. /\ db \in Snapshot /\ notifies \in SUBSET Versions /\ version \in Versions /\ reqs \in [Nodes -> Request]
      /\ db.version \in Nat /\ version \in Nat /\ \A v \in notifies : v \in Nat
      /\ \A n \in Nodes : reqs[n].cur \in Versions /\ reqs[n].cur \in Nat /\ reqs[n].since \in Nat
  BY Constants DEF TypeInv, TypeOK, Snapshot, Request
\* A step of one request that does not start to wait.
<1>r. ASSUME NEW n \in Nodes,
             \A m \in Nodes \ {n} : reqs'[m] = reqs[m],
             reqs'[n].pc \notin {"waiting", "enter"},
             UNCHANGED <<db, notifies, version>>
      PROVE  Wakeup'
  BY <1>r DEF Wakeup, Heard
<1>1. ASSUME NEW t \in Tables, Commit(t) PROVE Wakeup'
  <2>1. db'.version \in notifies'
    BY <1>1 DEF Commit
  <2>2. QED
    BY <2>1 DEF Wakeup, Heard
<1>2. ASSUME NEW v \in notifies, Notify(v) PROVE Wakeup'
  <2>1. /\ version' \in Nat /\ version' >= version /\ version' >= v
        /\ notifies' = notifies \ {v} /\ db' = db
    BY <1>2, <1>t, HigherType, Constants DEF Notify
  <2>2. \A n \in Nodes : \/ reqs'[n] = reqs[n] /\ reqs[n].pc # "waiting"
                         \/ reqs'[n].pc = "load"
    BY <1>2, <1>t DEF Notify, Request
  <2>3. ASSUME NEW n \in Nodes, reqs[n].pc = "enter", reqs'[n] = reqs[n]
        PROVE  Heard(reqs[n].cur)' \/ Heard(version)'
    <3>1. Heard(reqs[n].cur) \/ Heard(version)
      BY <2>3 DEF Wakeup
    <3>2. CASE v = db.version
      BY <2>1, <3>2 DEF Heard
    <3>3. CASE v # db.version
      BY <2>1, <2>3, <3>1, <3>3, <1>t DEF Heard
    <3>4. QED
      BY <3>2, <3>3
  <2>4. QED
    BY <2>2, <2>3 DEF Wakeup
<1>3. ASSUME NEW n \in Nodes, Ask(n) PROVE Wakeup'
  <2>1. /\ \A m \in Nodes \ {n} : reqs'[m] = reqs[m]
        /\ reqs'[n].cur = db.version /\ reqs'[n].pc # "waiting"
        /\ UNCHANGED <<db, notifies, version>>
    BY <1>3, <1>t DEF Ask, Idle
  <2>2. QED
    BY <2>1, <1>t DEF Wakeup, Heard
<1>4. ASSUME NEW n \in Nodes, Enter(n) PROVE Wakeup'
  <2>1. /\ \A m \in Nodes \ {n} : reqs'[m] = reqs[m]
        /\ reqs[n].pc = "enter" /\ UNCHANGED <<db, notifies>>
        /\ version' = Higher(version, reqs[n].cur)
        /\ reqs'[n].pc # "enter" /\ reqs'[n].since = reqs[n].since
        /\ reqs'[n].pc = "waiting" => reqs[n].since = version'
    BY <1>4, <1>t DEF Enter, Goto, Request
  <2>2. version' \in Nat /\ version' >= version /\ version' >= reqs[n].cur
    BY <2>1, <1>t, HigherType, Constants
  <2>3. Heard(version)'
    BY <2>1, <2>2, <1>t DEF Wakeup, Heard
  <2>4. ASSUME NEW m \in Nodes \ {n}, reqs[m].pc = "enter" PROVE Heard(reqs[m].cur)' \/ Heard(version)'
    BY <2>3
  <2>5. QED
    BY <2>1, <2>3, <2>4 DEF Wakeup, Heard
<1>5. ASSUME NEW n \in Nodes, Timeout(n) PROVE Wakeup'
  BY <1>r, <1>t, <1>5 DEF Timeout, Goto, Request
<1>6. ASSUME NEW n \in Nodes, LoadVersion(n) PROVE Wakeup'
  BY <1>r, <1>t, <1>6 DEF LoadVersion, Request
<1>7. ASSUME NEW n \in Nodes, CheckCache(n) PROVE Wakeup'
  BY <1>r, <1>t, <1>7 DEF CheckCache, Request
<1>8. ASSUME NEW n \in Nodes, ReadTable(n) PROVE Wakeup'
  BY <1>r, <1>t, <1>8 DEF ReadTable, Request
<1>9. ASSUME NEW n \in Nodes, StoreCache(n) PROVE Wakeup'
  BY <1>r, <1>t, <1>9 DEF StoreCache, Goto, Request
<1>e. ASSUME NEW n \in Nodes, reqs' = [reqs EXCEPT ![n] = Idle], UNCHANGED <<db, notifies, version>>
      PROVE  Wakeup'
  BY <1>r, <1>t, <1>e, IdleType
<1>10. ASSUME NEW n \in Nodes, NotModified(n) \/ Receive(n) \/ Reject(n) \/ Lose(n) \/ RestartNode(n) PROVE Wakeup'
  BY <1>e, <1>10 DEF NotModified, Receive, Reject, Lose, RestartNode
<1>11. CASE RestartControl \/ Restore
  BY <1>11, IdleType DEF RestartControl, Restore, Fresh, Wakeup
<1>12. CASE Backup
  BY <1>12 DEF Backup, Wakeup, Heard
<1>13. CASE UNCHANGED vars
  BY <1>13 DEF vars, Wakeup, Heard
<1>14. QED
  BY <1>1, <1>2, <1>3, <1>4, <1>5, <1>6, <1>7, <1>8, <1>9, <1>10, <1>11, <1>12, <1>13 DEF Next, Serve

\* A long poll that waits although the database is ahead of it is always
\* about to be woken (Source.Wait and Notify), also after restarts and
\* restored backups.
THEOREM WakeupsKept == Spec => []NoLostWakeup
<1>1. Init => Wakeup
  BY IdleType DEF Init, Wakeup
<1>2. TypeInv /\ Wakeup => NoLostWakeup
  <2> SUFFICES ASSUME TypeInv, Wakeup, NEW n \in Nodes, reqs[n].pc = "waiting", db.version > reqs[n].since
               PROVE  \E v \in notifies : v > reqs[n].since
    BY DEF NoLostWakeup
  <2>1. db.version \in Nat /\ reqs[n].since \in Nat
    BY Constants DEF TypeInv, TypeOK, Snapshot, Request
  <2>2. db.version \in notifies
    BY <2>1 DEF Wakeup, Heard
  <2>3. QED
    BY <2>2
<1>3. QED
  BY <1>1, <1>2, InitType, NextType, NextWakeup, PTL DEF Spec

-----------------------------------------------------------------------------
(***************************************************************************)
(* Torn snapshots.  While no backup is restored the version only grows     *)
(* with the content, so a snapshot fits the database if it has an older    *)
(* version or the same content.  Of a snapshot that is being read, the     *)
(* tables read so far fit.                                                 *)
(***************************************************************************)

Fits(snap) == snap # None => snap.version <= db.version /\ Current(snap)

ReadSoFar(r) ==
  /\ r.snap.version <= db.version
  /\ r.snap.version = db.version =>
       \A j \in 1..Len(Order) : j < r.at => r.snap.tables[Order[j]] = db.tables[Order[j]]

RequestFits(r) ==
  /\ r.pc = "cache" => r.snap.version <= db.version
  /\ r.pc = "read" => ReadSoFar(r)
  /\ r.pc \in {"store", "answer"} => Fits(r.snap)

AllFit ==
  /\ Fits(cache)
  /\ \A n \in Nodes : Fits(holder[n]) /\ RequestFits(reqs[n])

Unrestored == restores = 0 => AllFit

LEMMA NextFits == TypeInv /\ Unrestored /\ [Next]_vars => Unrestored'
<1> SUFFICES ASSUME TypeInv, Unrestored, [Next]_vars, restores' = 0 PROVE AllFit'
  BY DEF Unrestored
<1>n. restores \in Nat
  BY Constants DEF TypeInv, TypeOK
<1>z. restores = 0 /\ ~Restore
  <2>1. restores' = restores \/ Restore
    BY DEF Next, Serve, Commit, Notify, Ask, Enter, Timeout, LoadVersion, CheckCache, ReadTable, StoreCache,
       NotModified, Receive, Reject, Lose, RestartNode, RestartControl, Backup, vars
  <2>2. ~Restore
    BY <1>n DEF Restore
  <2>3. QED
    BY <2>1, <2>2
<1>a. AllFit
  BY <1>z DEF Unrestored
<1>t. /\ db \in Snapshot /\ db.version \in Nat /\ cache \in Snapshot \cup {None}
      /\ reqs \in [Nodes -> Request] /\ holder \in [Nodes -> Snapshot \cup {None}]
  BY Constants DEF TypeInv, TypeOK, Snapshot
<1>s. /\ \A snap \in Snapshot : snap.version \in Nat
      /\ \A n \in Nodes : reqs[n].pc \in Loading => reqs[n].snap \in Snapshot
      /\ \A n \in Nodes : reqs[n].pc = "read" => reqs[n].at \in 1..Len(Order)
      /\ \A n \in Nodes : reqs[n].pc \notin {"read", "store", "answer"} => reqs[n].at = 1
  BY Constants DEF TypeInv, Progress, Snapshot
\* A step of one request.
<1>r. ASSUME NEW n \in Nodes,
             \A m \in Nodes \ {n} : reqs'[m] = reqs[m],
             RequestFits(reqs[n])',
             Fits(cache)', \A m \in Nodes : Fits(holder[m])', db' = db
      PROVE  AllFit'
  BY <1>a, <1>r DEF AllFit, RequestFits, ReadSoFar, Fits, Current
<1>k. ASSUME UNCHANGED <<db, cache, holder>> PROVE Fits(cache)' /\ \A m \in Nodes : Fits(holder[m])'
  BY <1>a, <1>k DEF AllFit, Fits, Current
\* What starts a new request, or does not load, fits.
<1>i. ASSUME NEW n \in Nodes, reqs'[n].pc \notin Loading PROVE RequestFits(reqs[n])'
  BY <1>i DEF RequestFits, Loading
<1>1. ASSUME NEW t \in Tables, Commit(t) PROVE AllFit'
  <2>1. db'.version = db.version + 1 /\ UNCHANGED <<cache, reqs, holder>>
    BY <1>1 DEF Commit
  <2>2. ASSUME NEW snap \in Snapshot, snap.version <= db.version
        PROVE  snap.version <= db'.version /\ snap.version # db'.version
    BY <1>t, <1>s, <2>1, <2>2
  <2>3. Fits(cache)' /\ \A n \in Nodes : Fits(holder[n])'
    BY <1>a, <1>t, <2>1, <2>2 DEF AllFit, Fits, Current
  <2>4. \A n \in Nodes : reqs[n].pc \in Loading => reqs[n].snap.version <= db.version
    BY <1>a, <1>t, <1>s, Constants DEF AllFit, RequestFits, ReadSoFar, Fits, Loading
  <2>5. \A n \in Nodes : RequestFits(reqs[n])'
    BY <1>s, <2>1, <2>2, <2>4 DEF RequestFits, ReadSoFar, Fits, Current, Loading
  <2>6. QED
    BY <1>a, <2>3, <2>5 DEF AllFit
<1>2. ASSUME NEW v \in notifies, Notify(v) PROVE AllFit'
  <2>1. UNCHANGED <<db, cache, holder>> /\ \A n \in Nodes : reqs'[n] = reqs[n] \/ reqs'[n].pc = "load"
    BY <1>2, <1>t DEF Notify, Request
  <2>2. \A n \in Nodes : RequestFits(reqs[n])'
    BY <1>a, <2>1 DEF AllFit, RequestFits, ReadSoFar, Fits, Current
  <2>3. QED
    BY <1>a, <2>1, <2>2, <1>k DEF AllFit
<1>3. ASSUME NEW n \in Nodes, Ask(n) \/ Enter(n) \/ Timeout(n) PROVE AllFit'
  <2>1. /\ \A m \in Nodes \ {n} : reqs'[m] = reqs[m]
        /\ reqs'[n].pc \in {"load", "enter", "waiting", "unmodified"}
        /\ UNCHANGED <<db, cache, holder>>
    BY <1>3, <1>t DEF Ask, Enter, Timeout, Goto, Idle, Request
  <2>2. QED
    BY <1>r, <1>k, <1>i, <2>1 DEF Loading
<1>6. ASSUME NEW n \in Nodes, LoadVersion(n) PROVE AllFit'
  <2>1. /\ \A m \in Nodes \ {n} : reqs'[m] = reqs[m]
        /\ reqs'[n].pc = "cache" /\ reqs'[n].snap.version = db.version
        /\ UNCHANGED <<db, cache, holder>>
    BY <1>6, <1>t DEF LoadVersion, Request, Snapshot
  <2>2. RequestFits(reqs[n])'
    BY <2>1, <1>t DEF RequestFits
  <2>3. QED
    BY <1>r, <1>k, <2>1, <2>2
<1>7. ASSUME NEW n \in Nodes, CheckCache(n) PROVE AllFit'
  <2>1. /\ \A m \in Nodes \ {n} : reqs'[m] = reqs[m]
        /\ reqs'[n].at = reqs[n].at /\ reqs[n].pc = "cache"
        /\ \/ reqs'[n].pc = "answer" /\ reqs'[n].snap = cache
           \/ reqs'[n].pc = "read" /\ reqs'[n].snap = reqs[n].snap
        /\ UNCHANGED <<db, cache, holder>>
    BY <1>7, <1>t DEF CheckCache, Request
  <2>2. reqs[n].at = 1 /\ reqs[n].snap.version <= db.version
    BY <1>a, <1>s, <2>1 DEF AllFit, RequestFits
  <2>3. CASE reqs'[n].pc = "answer"
    <3>1. RequestFits(reqs[n])'
      BY <1>a, <2>1, <2>3 DEF RequestFits, AllFit, Fits, Current
    <3>2. QED
      BY <1>r, <1>k, <2>1, <3>1
  <2>4. CASE reqs'[n].pc = "read"
    <3>1. ~ \E j \in 1..Len(Order) : j < 1
      BY Constants
    <3>2. RequestFits(reqs[n])'
      BY <2>1, <2>2, <2>4, <3>1 DEF RequestFits, ReadSoFar
    <3>3. QED
      BY <1>r, <1>k, <2>1, <3>2
  <2>5. QED
    BY <2>1, <2>3, <2>4
<1>8. ASSUME NEW n \in Nodes, ReadTable(n) PROVE AllFit'
  <2> DEFINE i == reqs[n].at
             old == reqs[n].snap
             snap == [old EXCEPT !.tables[Order[i]] = db.tables[Order[i]]]
  <2>1. i \in 1..Len(Order) /\ old \in Snapshot /\ ReadSoFar(reqs[n])
    BY <1>a, <1>8, <1>s DEF ReadTable, AllFit, RequestFits, Loading
  <2>2. /\ snap \in Snapshot /\ snap.version = old.version
        /\ snap.tables[Order[i]] = db.tables[Order[i]]
        /\ \A t \in Tables : t # Order[i] => snap.tables[t] = old.tables[t]
    BY <1>t, <2>1, Constants DEF Snapshot, Content
  <2>3. /\ \A m \in Nodes \ {n} : reqs'[m] = reqs[m]
        /\ reqs'[n].snap = snap /\ reqs'[n].at = i + 1
        /\ reqs'[n].pc = IF i = Len(Order) THEN "store" ELSE "read"
        /\ UNCHANGED <<db, cache, holder>>
    <3> DEFINE r == [reqs[n] EXCEPT !.snap = snap, !.at = i + 1, !.pc = IF i = Len(Order) THEN "store" ELSE "read"]
    <3>1. reqs' = [reqs EXCEPT ![n] = r] /\ UNCHANGED <<db, cache, holder>>
      BY <1>8, <1>t, <2>1 DEF ReadTable, Request, Snapshot
    <3> HIDE DEF snap
    <3>2. r.snap = snap /\ r.at = i + 1 /\ r.pc = IF i = Len(Order) THEN "store" ELSE "read"
      BY <1>t DEF Request
    <3> HIDE DEF r
    <3>3. QED
      BY <1>t, <3>1, <3>2
  <2> HIDE DEF snap
  <2>4. snap.version = db.version =>
          \A j \in 1..Len(Order) : j < i + 1 => snap.tables[Order[j]] = db.tables[Order[j]]
    <3> SUFFICES ASSUME snap.version = db.version, NEW j \in 1..Len(Order), j < i + 1
                 PROVE  snap.tables[Order[j]] = db.tables[Order[j]]
      OBVIOUS
    <3>1. j < i \/ j = i
      BY <2>1, Constants
    <3>2. j < i => old.tables[Order[j]] = db.tables[Order[j]]
      BY <2>1, <2>2 DEF ReadSoFar
    <3>3. QED
      BY <2>2, <3>1, <3>2, Constants
  <2>5. snap.version <= db.version
    BY <2>1, <2>2 DEF ReadSoFar
  <2>6. CASE i = Len(Order)
    <3>1. snap.version = db.version => \A t \in Tables : snap.tables[t] = db.tables[t]
      <4> SUFFICES ASSUME snap.version = db.version, NEW t \in Tables PROVE snap.tables[t] = db.tables[t]
        OBVIOUS
      <4>1. PICK j \in 1..Len(Order) : t = Order[j]
        BY FeedAssumption DEF Tables
      <4>2. j < i + 1
        BY <2>6, Constants
      <4>3. QED
        BY <2>4, <4>1, <4>2
    <3>2. snap.version = db.version => snap.tables = db.tables
      BY <1>t, <2>2, <3>1 DEF Snapshot, Content
    <3>3. RequestFits(reqs[n])'
      BY <2>3, <2>5, <2>6, <3>2 DEF RequestFits, Fits, Current
    <3>4. QED
      BY <1>r, <1>k, <2>3, <3>3
  <2>7. CASE i # Len(Order)
    <3>1. RequestFits(reqs[n])'
      BY <2>3, <2>4, <2>5, <2>7 DEF RequestFits, ReadSoFar
    <3>2. QED
      BY <1>r, <1>k, <2>3, <3>1
  <2>8. QED
    BY <2>6, <2>7
<1>9. ASSUME NEW n \in Nodes, StoreCache(n) PROVE AllFit'
  <2>1. /\ \A m \in Nodes \ {n} : reqs'[m] = reqs[m]
        /\ reqs'[n].pc = "answer" /\ reqs'[n].snap = reqs[n].snap /\ reqs[n].pc = "store"
        /\ cache' = reqs[n].snap /\ UNCHANGED <<db, holder>>
    BY <1>9, <1>t DEF StoreCache, Goto, Request
  <2>2. Fits(reqs[n].snap)
    BY <1>a, <2>1 DEF AllFit, RequestFits
  <2>3. RequestFits(reqs[n])' /\ Fits(cache)' /\ \A m \in Nodes : Fits(holder[m])'
    BY <1>a, <2>1, <2>2 DEF AllFit, RequestFits, Fits, Current
  <2>4. QED
    BY <1>r, <2>1, <2>3
<1>e. ASSUME NEW n \in Nodes, reqs' = [reqs EXCEPT ![n] = Idle]
      PROVE  (\A m \in Nodes \ {n} : reqs'[m] = reqs[m]) /\ reqs'[n].pc \notin Loading
  BY <1>t, <1>e, IdleType DEF Loading
<1>10. ASSUME NEW n \in Nodes, NotModified(n) \/ Lose(n) PROVE AllFit'
  BY <1>r, <1>k, <1>i, <1>e, <1>10 DEF NotModified, Lose
<1>11. ASSUME NEW n \in Nodes, Receive(n) PROVE AllFit'
  <2>1. Fits(reqs[n].snap)
    BY <1>a, <1>11 DEF Receive, AllFit, RequestFits
  <2>2. /\ \A m \in Nodes : holder'[m] = holder[m] \/ holder'[m] = reqs[n].snap
        /\ UNCHANGED <<db, cache>>
    BY <1>11, <1>t DEF Receive
  <2>3. Fits(cache)' /\ \A m \in Nodes : Fits(holder[m])'
    BY <1>a, <2>1, <2>2 DEF AllFit, Fits, Current
  <2>4. QED
    BY <1>r, <1>i, <1>e, <1>11, <2>2, <2>3 DEF Receive
<1>12. ASSUME NEW n \in Nodes, Reject(n) \/ RestartNode(n) PROVE AllFit'
  <2>1. (\A m \in Nodes : holder'[m] = holder[m] \/ holder'[m] = None) /\ UNCHANGED <<db, cache>>
    BY <1>12, <1>t DEF Reject, RestartNode
  <2>2. Fits(cache)' /\ \A m \in Nodes : Fits(holder[m])'
    BY <1>a, <2>1 DEF AllFit, Fits, Current
  <2>3. QED
    BY <1>r, <1>i, <1>e, <1>12, <2>1, <2>2 DEF Reject, RestartNode
<1>13. CASE RestartControl
  <2>1. (\A n \in Nodes : reqs'[n] = Idle) /\ cache' = None /\ UNCHANGED <<db, holder>>
    BY <1>13 DEF RestartControl, Fresh
  <2>2. QED
    BY <1>a, <2>1, IdleType DEF AllFit, RequestFits, Fits, Current
<1>14. CASE Backup
  BY <1>14, <1>a DEF Backup, AllFit, RequestFits, ReadSoFar, Fits, Current
<1>15. CASE UNCHANGED vars
  BY <1>a, <1>15 DEF vars, AllFit, RequestFits, ReadSoFar, Fits, Current
<1>16. QED
  BY <1>1, <1>2, <1>3, <1>6, <1>7, <1>8, <1>9, <1>10, <1>11, <1>12, <1>13, <1>14, <1>15, <1>z DEF Next, Serve

\* What the cache or a node holds under the database's version is the
\* database's content, however Source.load's queries and the commits
\* interleave, until a backup is restored.
THEOREM NothingEverTorn == Spec => []NothingTorn
<1>1. Init => Unrestored
  BY IdleType DEF Init, Unrestored, AllFit, RequestFits, Fits
<1>2. Unrestored => NothingTorn
  BY DEF Unrestored, AllFit, NothingTorn, Fits, Current
<1>3. QED
  BY <1>1, <1>2, InitType, NextType, NextFits, PTL DEF Spec

-----------------------------------------------------------------------------
\* No step makes a node replace its snapshot by an older one (the comparison
\* in Client.Run), whatever a cache, a slow request or a restored control
\* plane answers.
THEOREM NoStepBack == Spec => NeverOlder
<1> DEFINE Step == \A n \in Nodes : holder[n] # None /\ holder'[n] # None => holder'[n].version >= holder[n].version
<1>1. TypeInv /\ [Next]_vars => [Step]_vars
  <2> SUFFICES ASSUME TypeInv, Next, NEW m \in Nodes, holder[m] # None, holder'[m] # None
               PROVE  holder'[m].version >= holder[m].version
    OBVIOUS
  <2>t. /\ holder \in [Nodes -> Snapshot \cup {None}] /\ holder[m].version \in Nat
        /\ \A n \in Nodes : reqs[n].pc = "answer" => reqs[n].snap.version \in Nat
    BY Constants DEF TypeInv, TypeOK, Progress, Loading, Snapshot
  <2>1. CASE holder' = holder
    BY <2>t, <2>1
  <2>2. ASSUME NEW n \in Nodes, Receive(n) PROVE holder'[m].version >= holder[m].version
    <3>1. CASE Older(n)
      BY <2>1, <2>2, <3>1 DEF Receive
    <3>2. CASE ~Older(n) /\ n = m
      BY <2>t, <2>2, <3>2 DEF Receive, Older
    <3>3. CASE ~Older(n) /\ n # m
      BY <2>t, <2>2, <3>3 DEF Receive
    <3>4. QED
      BY <3>1, <3>2, <3>3
  <2>3. ASSUME NEW n \in Nodes, Reject(n) \/ RestartNode(n) PROVE holder'[m].version >= holder[m].version
    BY <2>t, <2>3 DEF Reject, RestartNode
  <2>4. QED
    BY <2>1, <2>2, <2>3 DEF Next, Serve, Commit, Notify, Ask, Enter, Timeout, LoadVersion, CheckCache, ReadTable,
       StoreCache, NotModified, Lose, RestartControl, Backup, Restore
<1>2. QED
  BY <1>1, InitType, NextType, PTL DEF Spec, NeverOlder

-----------------------------------------------------------------------------
(***************************************************************************)
(* The feed implements SnapshotView.  What a node takes into use is the    *)
(* snapshot of its request, which fits the database (Unrestored) and is    *)
(* not older (Receive); a backup is never ahead of the database.           *)
(***************************************************************************)

Behind == backup.version <= db.version

LEMMA NextBehind == TypeInv /\ Behind /\ [Next]_vars => Behind'
<1> SUFFICES ASSUME TypeInv, Behind, [Next]_vars PROVE Behind'
  OBVIOUS
<1>1. db.version \in Nat /\ backup.version \in Nat
  BY Constants DEF TypeInv, TypeOK, Snapshot
<1>2. ASSUME NEW t \in Tables, Commit(t) PROVE Behind'
  BY <1>1, <1>2 DEF Commit, Behind
<1>3. CASE Backup \/ Restore
  BY <1>1, <1>3 DEF Backup, Restore, Behind
<1>4. CASE UNCHANGED <<db, backup>>
  BY <1>4 DEF Behind
<1>5. QED
  BY <1>2, <1>3, <1>4 DEF Next, Serve, Notify, Ask, Enter, Timeout, LoadVersion, CheckCache, ReadTable,
     StoreCache, NotModified, Receive, Reject, Lose, RestartNode, RestartControl, vars

\* Every step of the feed is a step of SnapshotView or changes nothing it
\* can see.
LEMMA NextView == TypeInv /\ Unrestored /\ Behind /\ [Next]_vars => [View!Next]_<<db, holder, restores>>
<1> SUFFICES ASSUME TypeInv, Unrestored, Behind, [Next]_vars
             PROVE  View!Next \/ UNCHANGED <<db, holder, restores>>
  OBVIOUS
<1>t. /\ db \in Snapshot /\ db.version \in Nat
      /\ holder \in [Nodes -> Snapshot \cup {None}]
      /\ \A n \in Nodes : reqs[n].pc = "answer" => reqs[n].snap \in Snapshot
      /\ \A n \in Nodes : holder[n] # None => holder[n].version \in Nat
      /\ None \notin Snapshot
  BY Constants DEF TypeInv, TypeOK, Progress, Loading, Snapshot
<1>1. ASSUME NEW t \in Tables, Commit(t) PROVE View!Change
  BY <1>1 DEF Commit, View!Change
<1>2. ASSUME NEW n \in Nodes, Receive(n) PROVE View!Take(n) \/ UNCHANGED <<db, holder, restores>>
  <2>1. CASE Older(n)
    BY <1>2, <2>1 DEF Receive
  <2>2. CASE ~Older(n)
    <3> DEFINE snap == reqs[n].snap
    <3>1. /\ holder' = [holder EXCEPT ![n] = snap] /\ snap \in Snapshot
          /\ holder'[n] = snap /\ UNCHANGED <<db, restores>>
      BY <1>2, <1>t, <2>2 DEF Receive
    <3>2. snap.version \in Nat
      BY <3>1, Constants DEF Snapshot
    <3>3. holder[n] # None => snap.version >= holder[n].version
      BY <1>t, <2>2, <3>2 DEF Older
    <3>4. restores = 0 => snap.version <= db.version /\ (snap.version = db.version => snap.tables = db.tables)
      BY <1>2, <1>t, <3>1 DEF Receive, Unrestored, AllFit, RequestFits, Fits, Current
    <3>5. snap.version = db.version /\ snap.tables = db.tables => snap = db
      BY <1>t, <3>1 DEF Snapshot
    <3>6. View!Fit(n, snap)
      BY <3>3, <3>4, <3>5 DEF View!Fit
    <3>7. QED
      BY <1>t, <3>1, <3>6 DEF View!Take
  <2>3. QED
    BY <2>1, <2>2
<1>3. ASSUME NEW n \in Nodes, Reject(n) \/ RestartNode(n) PROVE View!Withdraw(n)
  BY <1>3 DEF Reject, RestartNode, View!Withdraw
<1>4. CASE Restore
  BY <1>4 DEF Restore, Behind, View!Restore, View!Next
<1>5. CASE UNCHANGED <<db, holder, restores>>
  BY <1>5
<1>6. QED
  BY <1>1, <1>2, <1>3, <1>4, <1>5 DEF Next, Serve, Notify, Ask, Enter, Timeout, LoadVersion, CheckCache, ReadTable,
     StoreCache, NotModified, Lose, RestartControl, Backup, vars, View!Next

\* The feed implements its abstract specification: no interleaving of
\* requests (Source.Wait, Source.load), commits, notifications, faults and
\* restored backups shows a node (Client.Run) anything SnapshotView forbids.
THEOREM FeedImplementsView == Spec => FeedsView
<1>1. Init => View!Init
  BY DEF Init, View!Init
<1>2. Init => Unrestored /\ Behind
  BY IdleType DEF Init, Unrestored, AllFit, RequestFits, Fits, Behind
<1>3. QED
  BY <1>1, <1>2, InitType, NextType, NextFits, NextBehind, NextView, PTL DEF Spec, FeedsView, View!Spec

-----------------------------------------------------------------------------
(***************************************************************************)
(* Proofs about LoginSessions: whatever requests wait at the identity      *)
(* provider, a session is of the person and the node that was confirmed, a *)
(* node has one active session, and its open logins stay within maxOpen.   *)
(*                                                                         *)
(* LoginInv is not inductive: what a session is checked against is what an *)
(* oidcConfirm request read before it went to the provider.  ConfirmsMatch *)
(* says that such a request stays true of its flow as long as the flow is  *)
(* kept, FlowsNamed that a flow has a node, and from the page on a person. *)
(***************************************************************************)

\* A flow names its node, and a person once one came back from the provider.
FlowsNamed ==
  \A f \in Flows : /\ flows[f].status \in {"pending", "confirm", "done"} => flows[f].node \in LoginNodes
                   /\ flows[f].status \in {"confirm", "done"} => flows[f].subject \in Subjects

\* What an oidcConfirm request read holds of its flow until that is deleted.
ConfirmsMatch ==
  \A c \in confirms : LET f == flows[c.flow]
                      IN  /\ f.status \in {"confirm", "done", "failed", "deleted"}
                          /\ f.status # "deleted" => f.node = c.node /\ f.subject = c.subject

LoginIInv == LoginTypeOK /\ FlowsNamed /\ ConfirmsMatch /\ SessionMatchesFlow /\ OneActiveSession /\ OpenBounded

-----------------------------------------------------------------------------
(***************************************************************************)
(* What a step does to one flow.                                           *)
(***************************************************************************)
Created(f) ==
  /\ flows[f].status = "none"
  /\ \E n \in LoginNodes :
       flows'[f] = [NoFlow EXCEPT !.status = "pending", !.node = n, !.created = now, !.expires = now + FlowTTL]

Fails(f) == Open(f) /\ flows'[f] = [flows[f] EXCEPT !.status = "failed"]

Awaits(f) ==
  /\ flows[f].status = "pending"
  /\ \E u \in Subjects, t \in 0..(MaxTime + FlowTTL) :
       flows'[f] = [flows[f] EXCEPT !.status = "confirm", !.subject = u, !.until = t]

Done(f) ==
  /\ flows[f].status = "confirm"
  /\ \E c \in confirms : c.flow = f /\ CompleteLoginFlow(c)
  /\ flows'[f] = [flows[f] EXCEPT !.status = "done", !.session = issued + 1]

Deleted(f) == flows'[f] = [NoFlow EXCEPT !.status = "deleted"]

FlowStep(f) == flows'[f] = flows[f] \/ Created(f) \/ Fails(f) \/ Awaits(f) \/ Done(f) \/ Deleted(f)

\* A row of sessions' is a row of sessions, perhaps ended, or the new one.
RowFrom(s) == \E t \in sessions : s = t \/ (Active(t) /\ s = [t EXCEPT !.ended = now])
RowNew(s) == \E c \in confirms : CompleteLoginFlow(c) /\ s = NewSession(c)

\* Every flow takes one of those steps.
LEMMA FlowSteps == LoginTypeOK /\ LoginNext => \A f \in Flows : FlowStep(f)
<1> SUFFICES ASSUME LoginTypeOK, LoginNext, NEW f \in Flows PROVE FlowStep(f)
  OBVIOUS
<1>1. ASSUME NEW g \in Flows, NEW n \in LoginNodes, CreateLoginFlow(g, n) PROVE FlowStep(f)
  <2>1. PICK out \in SUBSET OpenOf(n) :
          flows' = [h \in Flows |->
            IF h = g THEN [NoFlow EXCEPT !.status = "pending", !.node = n, !.created = now, !.expires = now + FlowTTL]
            ELSE IF h \in out THEN [flows[h] EXCEPT !.status = "failed"] ELSE flows[h]]
    BY <1>1 DEF CreateLoginFlow
  <2>2. CASE f = g
    BY <1>1, <2>1, <2>2 DEF CreateLoginFlow, FlowStep, Created
  <2>3. CASE f # g
    BY <2>1, <2>3 DEF FlowStep, Fails, OpenOf
  <2>4. QED
    BY <2>2, <2>3
<1>2. ASSUME NEW c \in callbacks, CallbackFails(c) PROVE FlowStep(f)
  BY <1>2 DEF CallbackFails, Failed, FlowStep, Fails, LoginTypeOK
<1>3. ASSUME NEW c \in callbacks, AwaitLoginConfirmation(c) PROVE FlowStep(f)
  <2>1. CASE f = c.flow
    <3>1. PICK t : /\ t = IF flows[f].expires < now + ConfirmTTL THEN flows[f].expires ELSE now + ConfirmTTL
                   /\ flows'[f] = [flows[f] EXCEPT !.status = "confirm", !.subject = c.subject, !.until = t]
      BY <1>3, <2>1 DEF AwaitLoginConfirmation, LoginTypeOK
    <3>2. flows[f].expires \in 0..(MaxTime + FlowTTL) /\ now \in 1..MaxTime /\ c.subject \in Subjects
      BY DEF LoginTypeOK, Flow
    <3>3. t \in 0..(MaxTime + FlowTTL)
      BY <3>1, <3>2, LoginAssumption
    <3>4. QED
      BY <1>3, <2>1, <3>1, <3>2, <3>3 DEF AwaitLoginConfirmation, FlowStep, Awaits
  <2>2. CASE f # c.flow
    BY <1>3, <2>2 DEF AwaitLoginConfirmation, LoginTypeOK, FlowStep
  <2>3. QED
    BY <2>1, <2>2
<1>4. ASSUME NEW g \in Flows, ConfirmFails(g) PROVE FlowStep(f)
  BY <1>4 DEF ConfirmFails, Failed, FlowStep, Fails, LoginTypeOK
<1>5. ASSUME NEW c \in confirms, CompleteLoginFlow(c) PROVE FlowStep(f)
  <2>1. CASE f = c.flow
    <3>1. flows[f].status = "confirm" /\ flows'[f] = [flows[f] EXCEPT !.status = "done", !.session = issued + 1]
      BY <1>5, <2>1 DEF CompleteLoginFlow, LoginTypeOK
    <3>2. QED
      BY <1>5, <2>1, <3>1 DEF FlowStep, Done
  <2>2. CASE f # c.flow
    BY <1>5, <2>2 DEF CompleteLoginFlow, LoginTypeOK, FlowStep
  <2>3. QED
    BY <2>1, <2>2
<1>6. CASE ExpireSessions
  BY <1>6 DEF ExpireSessions, FlowStep, Deleted
<1>7. CASE UNCHANGED flows
  BY <1>7 DEF FlowStep
<1>8. QED
  BY <1>1, <1>2, <1>3, <1>4, <1>5, <1>6, <1>7
     DEF LoginNext, OidcCallback, OidcConfirm, Conflict, EndSession, PruneSessions, RevokeNode, Reapprove, Tick

\* Every row of sessions' is one of those.
LEMMA SessionSteps == LoginNext => \A s \in sessions' : RowFrom(s) \/ RowNew(s)
<1> SUFFICES ASSUME LoginNext, NEW s \in sessions' PROVE RowFrom(s) \/ RowNew(s)
  OBVIOUS
<1>1. ASSUME NEW c \in confirms, CompleteLoginFlow(c) PROVE RowFrom(s) \/ RowNew(s)
  BY <1>1 DEF CompleteLoginFlow, Ended, RowFrom, RowNew
<1>2. ASSUME NEW t \in sessions, EndSession(t) PROVE RowFrom(s)
  BY <1>2 DEF EndSession, Ended, RowFrom
<1>3. CASE ExpireSessions
  BY <1>3 DEF ExpireSessions, Ended, RowFrom
<1>4. CASE PruneSessions
  BY <1>4 DEF PruneSessions, RowFrom
<1>5. ASSUME NEW n \in LoginNodes, RevokeNode(n) PROVE RowFrom(s)
  BY <1>5 DEF RevokeNode, Ended, RowFrom
<1>6. CASE UNCHANGED sessions
  BY <1>6 DEF RowFrom
<1>7. QED
  BY <1>1, <1>2, <1>3, <1>4, <1>5, <1>6
     DEF LoginNext, CreateLoginFlow, OidcCallback, CallbackFails, AwaitLoginConfirmation, ConfirmFails, OidcConfirm,
         Conflict, Reapprove, Tick

-----------------------------------------------------------------------------
\* Before the first login everything holds of nothing.
LEMMA InitIInv == LoginInit => LoginIInv
<1> SUFFICES ASSUME LoginInit PROVE LoginIInv
  OBVIOUS
<1> USE LoginAssumption
<1>1. LoginTypeOK
  BY DEF LoginInit, LoginTypeOK, NoFlow, Flow
<1>2. FlowsNamed /\ ConfirmsMatch /\ SessionMatchesFlow /\ OneActiveSession
  BY DEF LoginInit, FlowsNamed, ConfirmsMatch, SessionMatchesFlow, OneActiveSession, NoFlow
<1>3. OpenBounded
  <2>1. \A n \in LoginNodes : OpenOf(n) = {}
    BY DEF LoginInit, OpenOf, Open, NoFlow
  <2>2. QED
    BY <2>1, FS_EmptySet DEF OpenBounded
<1>4. QED
  BY <1>1, <1>2, <1>3 DEF LoginIInv

\* The rows of login_flows keep their type.
LEMMA FlowType == LoginTypeOK /\ FlowsNamed /\ LoginNext => flows' \in [Flows -> Flow]
<1> SUFFICES ASSUME LoginTypeOK, FlowsNamed, LoginNext PROVE flows' \in [Flows -> Flow]
  OBVIOUS
<1> USE LoginAssumption
<1>1. flows' = [f \in Flows |-> flows'[f]]
  BY DEF LoginTypeOK, LoginNext, CreateLoginFlow, OidcCallback, CallbackFails, Failed, AwaitLoginConfirmation, ConfirmFails,
         OidcConfirm, CompleteLoginFlow, Conflict, EndSession, ExpireSessions, PruneSessions, RevokeNode, Reapprove, Tick
<1>2. ASSUME NEW f \in Flows PROVE flows'[f] \in Flow
  <2>1. flows[f] \in Flow
    BY DEF LoginTypeOK
  <2>2. now \in 0..MaxTime /\ now + FlowTTL \in 0..(MaxTime + FlowTTL) /\ 0 \in 0..(MaxTime + FlowTTL) /\ 0 \in 0..MaxLoginVersion
    BY DEF LoginTypeOK
  <2>3. CASE Created(f)
    BY <2>2, <2>3 DEF Created, Flow, NoFlow
  <2>4. CASE flows'[f] = flows[f] \/ Deleted(f)
    BY <2>1, <2>4 DEF Deleted, Flow, NoFlow
  <2>5. CASE Fails(f)
    BY <2>1, <2>5 DEF Fails, Flow
  <2>6. CASE Awaits(f)
    BY <2>1, <2>6 DEF Awaits, Flow
  <2>7. CASE Done(f)
    <3>1. issued + 1 \in 0..MaxLoginVersion
      BY <2>7 DEF Done, CompleteLoginFlow, Bump, LoginTypeOK
    <3>2. QED
      BY <2>1, <2>7, <3>1 DEF Done, Flow
  <2>8. QED
    BY <2>3, <2>4, <2>5, <2>6, <2>7, FlowSteps DEF FlowStep
<1>3. QED
  BY <1>1, <1>2

\* Every step keeps the types: ids, versions and times stay in their bounds.
LEMMA TypeStep == LoginTypeOK /\ FlowsNamed /\ [LoginNext]_loginVars => LoginTypeOK'
<1> SUFFICES ASSUME LoginTypeOK, FlowsNamed, [LoginNext]_loginVars PROVE LoginTypeOK'
  OBVIOUS
<1> USE LoginAssumption
<1>1. CASE UNCHANGED loginVars
  BY <1>1 DEF loginVars, LoginTypeOK
<1>2. CASE LoginNext
  <2>1. flows' \in [Flows -> Flow]
    BY <1>2, FlowType
  <2>2. nodes' \in [LoginNodes -> {"approved", "confirmed", "revoked"}]
    BY <1>2 DEF LoginTypeOK, LoginNext, CreateLoginFlow, OidcCallback, CallbackFails, AwaitLoginConfirmation, ConfirmFails,
         OidcConfirm, CompleteLoginFlow, Conflict, EndSession, ExpireSessions, PruneSessions, RevokeNode, Reapprove, Tick
  <2>3. callbacks' \in SUBSET [flow : Flows, approved : BOOLEAN, subject : Subjects]
    <3>1. ASSUME NEW f \in Flows, NEW u \in Subjects, OidcCallback(f, u)
          PROVE  callbacks' \in SUBSET [flow : Flows, approved : BOOLEAN, subject : Subjects]
      <4>1. PICK a \in BOOLEAN : callbacks' = callbacks \cup {[flow |-> f, approved |-> a, subject |-> u]}
        BY <3>1, Zenon DEF OidcCallback
      <4>2. QED
        BY <4>1 DEF LoginTypeOK
    <3>2. CASE callbacks' \subseteq callbacks
      BY <3>2 DEF LoginTypeOK
    <3>3. QED
      BY <1>2, <3>1, <3>2 DEF LoginNext, CreateLoginFlow, CallbackFails, AwaitLoginConfirmation, ConfirmFails,
         OidcConfirm, CompleteLoginFlow, Conflict, EndSession, ExpireSessions, PruneSessions, RevokeNode, Reapprove, Tick
  <2>4. confirms' \in SUBSET [flow : Flows, tab : Tabs, node : LoginNodes, subject : Subjects]
    <3>1. ASSUME NEW f \in Flows, NEW tab \in Tabs, OidcConfirm(f, tab)
          PROVE  confirms' \in SUBSET [flow : Flows, tab : Tabs, node : LoginNodes, subject : Subjects]
      BY <3>1 DEF LoginTypeOK, OidcConfirm, FlowsNamed
    <3>2. CASE confirms' \subseteq confirms
      BY <3>2 DEF LoginTypeOK
    <3>3. QED
      BY <1>2, <3>1, <3>2 DEF LoginNext, CreateLoginFlow, OidcCallback, CallbackFails, AwaitLoginConfirmation, ConfirmFails,
         CompleteLoginFlow, Conflict, EndSession, ExpireSessions, PruneSessions, RevokeNode, Reapprove, Tick
  <2>5. issued' \in 0..loginVersion' /\ loginVersion' \in 0..MaxLoginVersion /\ now' \in 1..MaxTime
    <3>1. ExpireSessions => UNCHANGED <<issued, now>> /\ (Bump \/ UNCHANGED loginVersion)
      BY DEF ExpireSessions
    <3>2. CASE \E c \in confirms : CompleteLoginFlow(c)
      BY <3>2 DEF CompleteLoginFlow, Bump, LoginTypeOK
    <3>3. CASE Bump /\ UNCHANGED <<issued, now>>
      BY <3>3 DEF Bump, LoginTypeOK
    <3>4. CASE UNCHANGED <<issued, loginVersion, now>>
      BY <3>4 DEF LoginTypeOK
    <3>5. CASE Tick
      BY <3>5 DEF Tick, LoginTypeOK
    <3>6. QED
      BY <1>2, <3>1, <3>2, <3>3, <3>4, <3>5
         DEF LoginNext, CreateLoginFlow, OidcCallback, CallbackFails, AwaitLoginConfirmation, ConfirmFails,
             OidcConfirm, Conflict, EndSession, PruneSessions, RevokeNode, Reapprove
  <2>6. ASSUME NEW s \in sessions' PROVE s \in Session
    <3>1. CASE RowFrom(s)
      BY <3>1 DEF RowFrom, LoginTypeOK, Session
    <3>2. ASSUME NEW c \in confirms, CompleteLoginFlow(c), s = NewSession(c) PROVE s \in Session
      BY <3>2 DEF NewSession, CompleteLoginFlow, Bump, LoginTypeOK, Session
    <3>3. QED
      BY <1>2, <3>1, <3>2, SessionSteps DEF RowNew
  <2>7. QED
    BY <2>1, <2>2, <2>3, <2>4, <2>5, <2>6 DEF LoginTypeOK
<1>3. QED
  BY <1>1, <1>2

\* A flow keeps its node, and its person from AwaitLoginConfirmation on.
LEMMA NamedStep == LoginTypeOK /\ FlowsNamed /\ LoginNext => FlowsNamed'
<1> SUFFICES ASSUME LoginTypeOK, FlowsNamed, LoginNext, NEW f \in Flows
             PROVE  /\ flows'[f].status \in {"pending", "confirm", "done"} => flows'[f].node \in LoginNodes
                    /\ flows'[f].status \in {"confirm", "done"} => flows'[f].subject \in Subjects
  BY DEF FlowsNamed
<1>1. flows[f] \in Flow /\ FlowStep(f)
  BY FlowSteps DEF LoginTypeOK
<1>2. CASE Created(f) \/ Deleted(f) \/ flows'[f] = flows[f]
  BY <1>2 DEF Created, Deleted, NoFlow, FlowsNamed
<1>3. CASE Fails(f) \/ Awaits(f) \/ Done(f)
  BY <1>1, <1>3 DEF Fails, Awaits, Done, FlowsNamed, Flow
<1>4. QED
  BY <1>1, <1>2, <1>3 DEF FlowStep

\* A flow past its page keeps node and person until it is deleted.
LEMMA PageKept ==
  ASSUME NEW f \in Flows, LoginTypeOK, FlowStep(f), flows[f].status \in {"confirm", "done", "failed", "deleted"}
  PROVE  /\ flows'[f].status \in {"confirm", "done", "failed", "deleted"}
         /\ flows'[f].status # "deleted" =>
              flows'[f].node = flows[f].node /\ flows'[f].subject = flows[f].subject /\ flows[f].status # "deleted"
<1>1. flows[f] \in Flow
  BY DEF LoginTypeOK
<1>2. CASE flows'[f] = flows[f] \/ Deleted(f)
  BY <1>2 DEF Deleted, NoFlow
<1>3. CASE Fails(f) \/ Done(f)
  BY <1>1, <1>3 DEF Fails, Open, Done, Flow
<1>4. QED
  BY <1>2, <1>3 DEF FlowStep, Created, Awaits

\* What an oidcConfirm request read stays true while it waits.
LEMMA ConfirmsStep == LoginTypeOK /\ ConfirmsMatch /\ LoginNext => ConfirmsMatch'
<1> SUFFICES ASSUME LoginTypeOK, ConfirmsMatch, LoginNext, NEW c \in confirms'
             PROVE  /\ flows'[c.flow].status \in {"confirm", "done", "failed", "deleted"}
                    /\ flows'[c.flow].status # "deleted" =>
                         flows'[c.flow].node = c.node /\ flows'[c.flow].subject = c.subject
  BY DEF ConfirmsMatch
<1>1. CASE c \in confirms
  <2>1. c.flow \in Flows
    BY <1>1 DEF LoginTypeOK
  <2>2. FlowStep(c.flow)
    BY <2>1, FlowSteps
  <2>3. QED
    BY <1>1, <2>1, <2>2, PageKept DEF ConfirmsMatch
<1>2. ASSUME NEW f \in Flows, NEW tab \in Tabs, OidcConfirm(f, tab), c \notin confirms
      PROVE  /\ c.flow = f /\ flows' = flows /\ flows[f].status = "confirm"
             /\ c.node = flows[f].node /\ c.subject = flows[f].subject
  BY <1>2 DEF OidcConfirm
<1>3. c \notin confirms => \E f \in Flows, tab \in Tabs : OidcConfirm(f, tab)
  BY DEF LoginNext, CreateLoginFlow, OidcCallback, CallbackFails, AwaitLoginConfirmation, ConfirmFails,
         CompleteLoginFlow, Conflict, EndSession, ExpireSessions, PruneSessions, RevokeNode, Reapprove, Tick
<1>4. QED
  BY <1>1, <1>2, <1>3

\* A session stays matched by the flow it came from.
LEMMA MatchesStep ==
  LoginTypeOK /\ ConfirmsMatch /\ SessionMatchesFlow /\ LoginNext => SessionMatchesFlow'
<1> SUFFICES ASSUME LoginTypeOK, ConfirmsMatch, SessionMatchesFlow, LoginNext, NEW s \in sessions'
             PROVE  flows'[s.flow].status # "deleted" =>
                      /\ flows'[s.flow].status = "done" /\ flows'[s.flow].session = s.id
                      /\ flows'[s.flow].subject = s.subject /\ flows'[s.flow].node = s.node
  BY DEF SessionMatchesFlow
<1>1. CASE RowFrom(s)
  <2>1. PICK t \in sessions : s.flow = t.flow /\ s.id = t.id /\ s.subject = t.subject /\ s.node = t.node
    BY <1>1 DEF RowFrom, LoginTypeOK, Session
  <2>2. t.flow \in Flows
    BY DEF LoginTypeOK, Session
  <2>3. FlowStep(t.flow) /\ flows[t.flow].status \in {"done", "deleted"}
    BY <2>2, FlowSteps DEF SessionMatchesFlow
  <2>4. CASE flows'[t.flow] = flows[t.flow]
    BY <2>1, <2>4 DEF SessionMatchesFlow
  <2>5. CASE Deleted(t.flow)
    BY <2>1, <2>5 DEF Deleted, NoFlow
  <2>6. QED
    BY <2>3, <2>4, <2>5 DEF FlowStep, Created, Fails, Open, Awaits, Done
<1>2. ASSUME NEW c \in confirms, CompleteLoginFlow(c), s = NewSession(c)
      PROVE  /\ flows'[s.flow].status = "done" /\ flows'[s.flow].session = s.id
             /\ flows'[s.flow].subject = s.subject /\ flows'[s.flow].node = s.node
  <2>1. c.flow \in Flows
    BY DEF LoginTypeOK
  <2>2. flows[c.flow].status = "confirm" /\ flows'[c.flow] = [flows[c.flow] EXCEPT !.status = "done", !.session = issued + 1]
    BY <1>2, <2>1 DEF CompleteLoginFlow, LoginTypeOK
  <2>3. flows[c.flow].node = c.node /\ flows[c.flow].subject = c.subject /\ flows[c.flow] \in Flow
    BY <2>1, <2>2 DEF ConfirmsMatch, LoginTypeOK
  <2>4. s.flow = c.flow /\ s.id = issued + 1 /\ s.subject = c.subject /\ s.node = c.node
    BY <1>2 DEF NewSession
  <2>5. QED
    BY <2>2, <2>3, <2>4 DEF Flow
<1>3. QED
  BY <1>1, <1>2, SessionSteps DEF RowNew

\* CompleteLoginFlow ends what was active of its node.
LEMMA OneActiveStep == LoginTypeOK /\ OneActiveSession /\ LoginNext => OneActiveSession'
<1> SUFFICES ASSUME LoginTypeOK, OneActiveSession, LoginNext,
                    NEW s \in sessions', NEW t \in sessions', s.ended = 0, t.ended = 0, s.node = t.node
             PROVE  s = t
  BY DEF OneActiveSession, Active
<1> USE DEF Active
<1>1. ASSUME NEW x \in sessions', x.ended = 0, RowFrom(x) PROVE x \in sessions
  BY <1>1 DEF RowFrom, LoginTypeOK, Session
<1>2. ASSUME NEW c \in confirms, CompleteLoginFlow(c) PROVE s = t
  <2>1. ASSUME NEW x \in Ended(sessions, LAMBDA r : r.node = c.node), x.ended = 0 PROVE x.node # c.node
    BY <2>1 DEF Ended, LoginTypeOK, Session
  <2>2. \A x \in sessions' : x.ended = 0 => x = NewSession(c) \/ x.node # c.node
    BY <1>2, <2>1 DEF CompleteLoginFlow
  <2>3. NewSession(c).node = c.node
    BY DEF NewSession
  <2>4. \A x \in sessions' : x.ended = 0 => x = NewSession(c) \/ x \in sessions
    BY <1>2 DEF CompleteLoginFlow, Ended, LoginTypeOK, Session
  <2>5. QED
    BY <2>2, <2>3, <2>4 DEF OneActiveSession
<1>3. CASE \A x \in sessions' : RowFrom(x)
  BY <1>1, <1>3 DEF OneActiveSession
<1>4. QED
  BY <1>2, <1>3, SessionSteps DEF RowNew

\* Only CreateLoginFlow opens a flow.
LEMMA OpenShrinks ==
  ASSUME NEW n \in LoginNodes, LoginTypeOK, LoginNext, \A f \in Flows : ~Created(f)
  PROVE  OpenOf(n)' \subseteq OpenOf(n)
<1> SUFFICES ASSUME NEW f \in OpenOf(n)' PROVE f \in OpenOf(n)
  OBVIOUS
<1>1. /\ f \in Flows /\ flows'[f].status \in {"pending", "confirm"}
      /\ flows'[f].node = n /\ flows'[f].expires > now'
  BY DEF OpenOf, Open
<1>2. now' \in Nat /\ now \in Nat /\ now' >= now /\ flows[f] \in Flow /\ flows[f].expires \in Nat
  <2>1. now \in Nat /\ now' \in {now, now + 1}
    <3>1. now' = now \/ Tick
      BY DEF LoginNext, CreateLoginFlow, OidcCallback, CallbackFails, AwaitLoginConfirmation, ConfirmFails, OidcConfirm,
             CompleteLoginFlow, Conflict, EndSession, ExpireSessions, PruneSessions, RevokeNode, Reapprove
    <3>2. QED
      BY <3>1 DEF LoginTypeOK, Tick
  <2>2. flows[f] \in Flow
    BY <1>1 DEF LoginTypeOK
  <2>3. QED
    BY <2>1, <2>2, LoginAssumption DEF Flow
<1>3. FlowStep(f)
  BY <1>1, FlowSteps
<1>4. CASE flows'[f] = flows[f]
  BY <1>1, <1>2, <1>4 DEF OpenOf, Open
<1>5. CASE Awaits(f)
  BY <1>1, <1>2, <1>5 DEF Awaits, OpenOf, Open, Flow
<1>6. flows'[f] = flows[f] \/ Awaits(f)
  BY <1>1, <1>2, <1>3 DEF FlowStep, Created, Fails, Done, Deleted, NoFlow, Flow
<1>7. QED
  BY <1>4, <1>5, <1>6

\* CreateLoginFlow makes room for the flow it opens.
LEMMA BoundStep == LoginTypeOK /\ OpenBounded /\ LoginNext => OpenBounded'
<1> SUFFICES ASSUME LoginTypeOK, OpenBounded, LoginNext, NEW n \in LoginNodes
             PROVE  Cardinality(OpenOf(n)') <= MaxOpen
  BY DEF OpenBounded
<1>1. IsFiniteSet(OpenOf(n)) /\ Cardinality(OpenOf(n)) <= MaxOpen /\ Cardinality(OpenOf(n)) \in Nat
  BY LoginAssumption, FS_Subset, FS_CardinalityType DEF OpenOf, OpenBounded
<1>2. ASSUME OpenOf(n)' \subseteq OpenOf(n) PROVE Cardinality(OpenOf(n)') <= MaxOpen
  BY <1>1, <1>2, FS_Subset, FS_CardinalityType, LoginAssumption
<1>3. ASSUME NEW f \in Flows, NEW m \in LoginNodes, CreateLoginFlow(f, m) PROVE Cardinality(OpenOf(n)') <= MaxOpen
  <2>1. PICK out \in SUBSET OpenOf(m) :
          /\ Cardinality(OpenOf(m) \ out) <= MaxOpen - 1
          /\ flows' = [g \in Flows |->
               IF g = f THEN [NoFlow EXCEPT !.status = "pending", !.node = m, !.created = now, !.expires = now + FlowTTL]
               ELSE IF g \in out THEN [flows[g] EXCEPT !.status = "failed"] ELSE flows[g]]
          /\ now' = now
    BY <1>3 DEF CreateLoginFlow
  <2>2. flows'[f].node = m
    BY <2>1 DEF NoFlow
  <2>3. ASSUME NEW g \in OpenOf(n)', g # f PROVE g \in OpenOf(n) \ out
    <3>1. g \in Flows /\ flows'[g].status \in {"pending", "confirm"}
      BY DEF OpenOf, Open
    <3>2. flows[g] \in Flow
      BY <3>1 DEF LoginTypeOK
    <3>3. g \notin out /\ flows'[g] = flows[g]
      BY <2>1, <2>3, <3>1, <3>2 DEF Flow
    <3>4. QED
      BY <2>1, <3>1, <3>3 DEF OpenOf, Open
  <2>4. CASE n # m
    BY <1>2, <2>2, <2>3, <2>4 DEF OpenOf
  <2>5. CASE n = m
    <3>1. IsFiniteSet(OpenOf(n) \ out) /\ Cardinality(OpenOf(n) \ out) \in Nat
      BY <1>1, FS_Subset, FS_CardinalityType
    <3>2. /\ IsFiniteSet((OpenOf(n) \ out) \cup {f})
          /\ Cardinality((OpenOf(n) \ out) \cup {f}) <= Cardinality(OpenOf(n) \ out) + 1
          /\ Cardinality((OpenOf(n) \ out) \cup {f}) \in Nat
      <4>1. IsFiniteSet((OpenOf(n) \ out) \cup {f})
        BY <3>1, FS_AddElement
      <4>2. Cardinality((OpenOf(n) \ out) \cup {f}) \in {Cardinality(OpenOf(n) \ out), Cardinality(OpenOf(n) \ out) + 1}
        BY <3>1, FS_AddElement
      <4>3. QED
        BY <3>1, <4>1, <4>2
    <3>3. OpenOf(n)' \subseteq (OpenOf(n) \ out) \cup {f}
      BY <2>3
    <3>4. Cardinality(OpenOf(n)') <= Cardinality((OpenOf(n) \ out) \cup {f}) /\ Cardinality(OpenOf(n)') \in Nat
      BY <3>2, <3>3, FS_Subset, FS_CardinalityType
    <3>5. QED
      BY <2>1, <2>5, <3>1, <3>2, <3>4, LoginAssumption
  <2>6. QED
    BY <2>4, <2>5
<1>4. CASE \A f \in Flows : ~Created(f)
  BY <1>2, <1>4, OpenShrinks
<1>5. ASSUME NEW f \in Flows, Created(f) PROVE \E g \in Flows, m \in LoginNodes : CreateLoginFlow(g, m)
  <2>1. flows[f].status = "none" /\ flows'[f].status = "pending"
    BY <1>5 DEF Created, NoFlow
  <2>2. QED
    BY <2>1 DEF LoginNext, LoginTypeOK, OidcCallback, CallbackFails, Failed, Open, AwaitLoginConfirmation, ConfirmFails, OidcConfirm,
         CompleteLoginFlow, Conflict, EndSession, ExpireSessions, PruneSessions, RevokeNode, Reapprove, Tick, NoFlow
<1>6. QED
  BY <1>3, <1>4, <1>5

-----------------------------------------------------------------------------
\* The inductive step.
LEMMA IInvStep == LoginIInv /\ [LoginNext]_loginVars => LoginIInv'
<1> SUFFICES ASSUME LoginIInv, [LoginNext]_loginVars PROVE LoginIInv'
  OBVIOUS
<1>1. CASE UNCHANGED loginVars
  <2>1. /\ LoginTypeOK' /\ FlowsNamed' /\ ConfirmsMatch' /\ SessionMatchesFlow'
    BY <1>1 DEF LoginIInv, loginVars, LoginTypeOK, FlowsNamed, ConfirmsMatch, SessionMatchesFlow
  <2>2. OneActiveSession' /\ OpenBounded'
    BY <1>1 DEF LoginIInv, loginVars, OneActiveSession, Active, OpenBounded, OpenOf, Open
  <2>3. QED
    BY <2>1, <2>2 DEF LoginIInv
<1>2. CASE LoginNext
  BY <1>2, TypeStep, NamedStep, ConfirmsStep, MatchesStep, OneActiveStep, BoundStep DEF LoginIInv
<1>3. QED
  BY <1>1, <1>2

\* The inductive invariant holds of every reachable state.
THEOREM IInvHolds == LoginSpec => []LoginIInv
  BY InitIInv, IInvStep, PTL DEF LoginSpec

\* For any number of nodes, logins, people, tabs and requests in flight: a
\* session is of the person and the node whose page was confirmed, a node has
\* at most one that is active, and its open logins stay within maxOpen
\* (CreateLoginFlow, AwaitLoginConfirmation, CompleteLoginFlow).
THEOREM SessionsSound == LoginSpec => []LoginInv
<1>1. LoginIInv => LoginInv
  BY DEF LoginIInv, LoginInv
<1>2. QED
  BY <1>1, IInvHolds, PTL

\* A login that failed, was cancelled or replaced never completes, and one
\* that is done keeps its session (CompleteLoginFlow, FailLoginFlow).
THEOREM DecidedForGood == LoginSpec => DecidedOnce
<1>1. LoginTypeOK /\ [LoginNext]_loginVars =>
        [\A f \in Flows : flows[f].status \in {"done", "failed", "deleted"} =>
           flows'[f] = flows[f] \/ flows'[f].status = "deleted"]_loginVars
  <2> SUFFICES ASSUME LoginTypeOK, LoginNext, NEW f \in Flows, flows[f].status \in {"done", "failed", "deleted"}
               PROVE  flows'[f] = flows[f] \/ flows'[f].status = "deleted"
    OBVIOUS
  <2>1. FlowStep(f)
    BY FlowSteps
  <2>2. Deleted(f) => flows'[f].status = "deleted"
    BY DEF Deleted, NoFlow
  <2>3. QED
    BY <2>1, <2>2 DEF FlowStep, Created, Fails, Open, Awaits, Done
<1>2. LoginIInv => LoginTypeOK
  BY DEF LoginIInv
<1>3. QED
  BY <1>1, <1>2, IInvHolds, PTL DEF LoginSpec, DecidedOnce

\* Nodes hear of every session that begins or ends: the step that changes
\* the active sessions raises the snapshot version (CompleteLoginFlow,
\* EndSession, ExpireSessions, RevokeNode).
THEOREM SessionsHeard == LoginSpec => SessionChangeBumps
<1>1. LoginTypeOK /\ [LoginNext]_loginVars =>
        [{s \in sessions' : s.ended = 0} # {s \in sessions : s.ended = 0} => loginVersion' > loginVersion]_loginVars
  <2> SUFFICES ASSUME LoginTypeOK, LoginNext, {s \in sessions' : s.ended = 0} # {s \in sessions : s.ended = 0}
               PROVE  loginVersion' > loginVersion
    OBVIOUS
  <2>1. Bump => loginVersion' > loginVersion
    BY DEF Bump, LoginTypeOK
  <2>2. ASSUME PruneSessions PROVE FALSE
    BY <2>2 DEF PruneSessions, Active
  <2>3. ASSUME ExpireSessions, ~\E s \in sessions : Expired(s) PROVE FALSE
    <3>1. Ended(sessions, Expired) = sessions
      BY <2>3 DEF Ended
    <3>2. QED
      BY <2>3, <3>1 DEF ExpireSessions
  <2>4. CASE UNCHANGED sessions
    BY <2>4
  <2>5. QED
    BY <2>1, <2>2, <2>3, <2>4
       DEF LoginNext, CreateLoginFlow, OidcCallback, CallbackFails, AwaitLoginConfirmation, ConfirmFails, OidcConfirm,
           CompleteLoginFlow, Conflict, EndSession, ExpireSessions, RevokeNode, Reapprove, Tick
<1>2. LoginIInv => LoginTypeOK
  BY DEF LoginIInv
<1>3. QED
  BY <1>1, <1>2, IInvHolds, PTL DEF LoginSpec, SessionChangeBumps

-----------------------------------------------------------------------------
(***************************************************************************)
(* Proofs about SignerChain: whatever a control plane serves, a node's     *)
(* list of admin keys is only ever continued, along signatures of keys of  *)
(* the list before; and whatever proposals and signatures race, the chain  *)
(* the control plane stores verifies.                                      *)
(*                                                                         *)
(* VerifyChain is a loop over links of any number.  What it keeps from one *)
(* round to the next is shown by the least counterexample (UpTo).          *)
(***************************************************************************)

-----------------------------------------------------------------------------
(***************************************************************************)
(* Rounds of a loop.                                                       *)
(***************************************************************************)

\* A set of naturals has a least element.
LEMMA Least == ASSUME NEW T \in SUBSET Nat, T # {} PROVE \E x \in T : \A y \in T : x <= y
<1>1. PICK x \in T : \A y \in T : ~ (<<y, x>> \in OpToRel(<, Nat))
  BY NatLessThanWellFounded, WFMin, Zenon
<1>2. \A y \in T : ~ (y < x)
  BY <1>1 DEF OpToRel
<1>3. QED
  BY <1>2

\* What holds first and is kept by every round holds of every round.
LEMMA UpTo ==
  ASSUME NEW a \in Nat, NEW b \in Nat, NEW S, a \in S, \A i \in a..(b - 1) : i \in S => i + 1 \in S
  PROVE  a..b \subseteq S
<1> SUFFICES ASSUME (a..b) \ S # {} PROVE FALSE
  OBVIOUS
<1>1. PICK x \in (a..b) \ S : \A y \in (a..b) \ S : x <= y
  <2>1. (a..b) \ S \in SUBSET Nat
    OBVIOUS
  <2>2. QED
    BY <2>1, Least
<1>2. x # a /\ x - 1 \in a..(b - 1)
  BY <1>1
<1>3. x - 1 \in S
  BY <1>1, <1>2
<1>4. QED
  BY <1>1, <1>2, <1>3

-----------------------------------------------------------------------------
(***************************************************************************)
(* VerifyChain.                                                            *)
(***************************************************************************)

\* A link that verifies after `run' continues it by one entry.
LEMMA Continues ==
  ASSUME NEW run \in Seq(Entry), NEW link \in Link, Follows(run, link)
  PROVE  /\ link.set \in Seq(Entry) /\ Len(link.set) = Len(run) + 1
         /\ \A i \in 1..Len(run) : link.set[i] = run[i]
<1>1. link.set \in Seq(Entry) /\ Len(link.set) \in Nat \ {0}
  BY EmptySeq DEF Link, Set
<1>2. run = SubSeq(link.set, 1, Len(link.set) - 1)
  BY DEF Follows, Front
<1>3. /\ Len(run) = Len(link.set) - 1
      /\ \A i \in 1..(Len(link.set) - 1) : run[i] = link.set[i]
  BY <1>1, <1>2
<1>4. QED
  BY <1>1, <1>3

\* One list begins with the other.
Begins(s, t) == Len(s) <= Len(t) /\ \A i \in 1..Len(s) : t[i] = s[i]

\* Signed link by link.
SignedList(set) ==
  \A i \in 1..Len(set) : \E link \in published :
    link.set = SubSeq(set, 1, i) /\ link.by \in set[IF i = 1 THEN 1 ELSE i - 1].keys

\* ... which a round of VerifyChain keeps.
LEMMA SignedContinues ==
  ASSUME NEW run \in Seq(Entry), NEW link \in published, published \subseteq Link, Follows(run, link), SignedList(run)
  PROVE  SignedList(link.set)
<1>1. /\ link.set \in Seq(Entry) /\ Len(link.set) = Len(run) + 1 /\ Len(run) \in Nat
      /\ \A i \in 1..Len(run) : link.set[i] = run[i]
  BY Continues
<1> SUFFICES ASSUME NEW i \in 1..Len(link.set)
             PROVE  \E l \in published : l.set = SubSeq(link.set, 1, i) /\ l.by \in link.set[IF i = 1 THEN 1 ELSE i - 1].keys
  BY DEF SignedList
<1>2. CASE i <= Len(run)
  <2>1. i \in 1..Len(run)
    BY <1>1, <1>2
  <2>2. PICK l \in published : l.set = SubSeq(run, 1, i) /\ l.by \in run[IF i = 1 THEN 1 ELSE i - 1].keys
    BY <2>1 DEF SignedList
  <2>3. SubSeq(link.set, 1, i) = SubSeq(run, 1, i)
    BY <1>1, <2>1
  <2>4. link.set[IF i = 1 THEN 1 ELSE i - 1] = run[IF i = 1 THEN 1 ELSE i - 1]
    BY <1>1, <2>1
  <2>5. QED
    BY <2>2, <2>3, <2>4
<1>3. CASE i > Len(run)
  <2>1. i = Len(link.set) /\ link.set = SubSeq(link.set, 1, i)
    BY <1>1, <1>3, SubSeqFull
  <2>2. CASE run = <<>>
    <3>1. link.by \in link.set[Len(link.set)].keys /\ i = 1
      BY <1>1, <2>1, <2>2 DEF Follows, verifyLink, KeysOf, Last
    <3>2. QED
      BY <2>1, <3>1
  <2>3. CASE run # <<>>
    <3>1. link.by \in run[Len(run)].keys /\ Len(run) \in 1..Len(run) /\ i = Len(run) + 1
      BY <1>1, <2>1, <2>3, EmptySeq DEF Follows, verifyLink, KeysOf, Last
    <3>2. link.by \in link.set[i - 1].keys /\ i # 1
      BY <1>1, <3>1
    <3>3. QED
      BY <2>1, <3>2
  <2>4. QED
    BY <2>2, <2>3
<1>4. QED
  BY <1>1, <1>2, <1>3

\* What is pinned after VerifyChain: what was, or a list that begins with it,
\* signed along, and with the provisioned genesis if it is the first.
LEMMA Verified ==
  ASSUME NEW cur \in Seq(Entry), NEW links \in Seq(published), NEW genesis \in Seq(Entry),
         published \subseteq Link, SignedList(cur)
  PROVE  LET new == VerifyChain(cur, links, genesis)
         IN  /\ new \in Seq(Entry) /\ Begins(cur, new) /\ SignedList(new)
             /\ cur = <<>> /\ genesis # <<>> /\ new # <<>> => new[1] = genesis[1]
             /\ new = cur \/ (links # <<>> /\ new = links[Len(links)].set)
<1> DEFINE new == VerifyChain(cur, links, genesis)
<1>1. CASE new = cur
  BY <1>1 DEF Begins
<1>2. ASSUME new # cur
      PROVE  /\ new \in Seq(Entry) /\ Begins(cur, new) /\ SignedList(new)
             /\ cur = <<>> /\ genesis # <<>> /\ new # <<>> => new[1] = genesis[1]
             /\ links # <<>> /\ new = links[Len(links)].set
  <2>1. /\ links # <<>> /\ new = links[Len(links)].set
        /\ cur = <<>> /\ genesis # <<>> => links[1].set = genesis
        /\ \E start \in Starts(cur, links) : Accepts(cur, links, start)
    BY <1>2 DEF VerifyChain, Last
  <2>2. PICK start \in Starts(cur, links) : Accepts(cur, links, start)
    BY <2>1
  <2>3. /\ Len(links) \in Nat \ {0} /\ start \in 0..Len(links)
        /\ cur = <<>> => start = 0
        /\ cur # <<>> => start \in 1..Len(links) /\ links[start].set = cur
    BY <2>1, EmptySeq DEF Starts
  <2>4. \A i \in 1..Len(links) : links[i] \in published /\ links[i] \in Link /\ links[i].set \in Seq(Entry)
    BY ElementOfSeq DEF Link, Set
  <2>5. start < Len(links)
    BY <1>2, <2>1, <2>3 DEF Link, Set
  <2> DEFINE Good(s) == s \in Seq(Entry) /\ Begins(cur, s) /\ SignedList(s)
             S == {i \in (start + 1)..Len(links) : Good(links[i].set) /\ (cur = <<>> => links[i].set[1] = links[1].set[1])}
  <2>6. ASSUME NEW run \in Seq(Entry), Good(run), NEW i \in 1..Len(links), Follows(run, links[i])
        PROVE  Good(links[i].set) /\ (run # <<>> => links[i].set[1] = run[1])
    <3>1. /\ links[i].set \in Seq(Entry) /\ Len(links[i].set) = Len(run) + 1
          /\ \A j \in 1..Len(run) : links[i].set[j] = run[j]
      BY <2>4, <2>6, Continues
    <3>2. Begins(cur, links[i].set)
      BY <2>6, <3>1 DEF Begins
    <3>3. SignedList(links[i].set)
      BY <2>4, <2>6, SignedContinues
    <3>4. run # <<>> => 1 \in 1..Len(run)
      BY EmptySeq
    <3>5. QED
      BY <3>1, <3>2, <3>3, <3>4
  <2>7. Good(cur)
    BY DEF Begins
  <2>8. start + 1 \in S
    <3>1. start + 1 \in 1..Len(links) /\ Follows(cur, links[start + 1])
      <4>1. start + 1 \in (start + 1)..Len(links) /\ start + 1 \in 1..Len(links)
        BY <2>3, <2>5
      <4>2. QED
        BY <2>2, <2>3, <4>1 DEF Accepts
    <3>2. Good(links[start + 1].set)
      BY <2>6, <2>7, <3>1
    <3>3. QED
      BY <2>3, <3>1, <3>2
  <2>9. ASSUME NEW i \in (start + 1)..(Len(links) - 1), i \in S PROVE i + 1 \in S
    <3>1. i + 1 \in 1..Len(links) /\ i \in 1..Len(links) /\ Follows(links[i].set, links[i + 1])
      <4>1. i + 1 \in (start + 1)..Len(links) /\ i + 1 # start + 1 /\ (i + 1) - 1 = i /\ i \in 1..Len(links)
        BY <2>3
      <4>2. Follows(links[(i + 1) - 1].set, links[i + 1])
        BY <2>2, <4>1 DEF Accepts
      <4>3. QED
        BY <2>3, <4>1, <4>2
    <3>2. Good(links[i].set) /\ links[i].set \in Seq(Entry)
      BY <2>9
    <3>3. links[i].set # <<>>
      BY <2>4, <3>1 DEF Link, Set
    <3>4. Good(links[i + 1].set) /\ links[i + 1].set[1] = links[i].set[1]
      BY <2>6, <3>1, <3>2, <3>3
    <3>5. QED
      BY <2>3, <2>9, <3>1, <3>4
  <2>10. Len(links) \in S
    <3>1. start + 1 \in Nat /\ Len(links) \in Nat
      BY <2>3
    <3> HIDE DEF S
    <3>2. (start + 1)..Len(links) \subseteq S
      BY <2>8, <2>9, <3>1, UpTo
    <3>3. QED
      BY <2>3, <2>5, <3>2
  <2>11. QED
    BY <2>1, <2>10
<1>3. QED
  BY <1>1, <1>2

-----------------------------------------------------------------------------
(***************************************************************************)
(* The invariant.                                                          *)
(***************************************************************************)
Before(l) == IF l = 0 THEN <<>> ELSE chain[l].set

\* The stored chain: every link verifies after the one before it, and its
\* version is its place.
ChainLinked ==
  /\ Len(chain) <= MaxChain
  /\ \A i \in 1..Len(chain) : Follows(Before(i - 1), chain[i]) /\ Version(chain[i].set) = i

\* A verified signature on its way to ApplySignerSet continues a prefix of
\* the chain: the one that was stored when signPostSigners looked.
PostsFit ==
  \A p \in posts : \E l \in 0..Len(chain) :
    Follows(Before(l), p.link) /\ Version(p.link.set) = l + 1 /\ l + 1 <= MaxChain

\* Everything stored or on its way was signed.
AllSigned == (\A i \in 1..Len(chain) : chain[i] \in published) /\ \A p \in posts : p.link \in published

\* A node with a provisioned genesis waits for one, and begins with it.
GenesisKept ==
  \A n \in SignerNodes : trust[n] # <<>> /\ n \in Provisioned => chain # <<>> /\ trust[n][1] = chain[1].set[1]

TrustSigned == \A n \in SignerNodes : SignedList(trust[n])

SignerIInv ==
  SignerTypeOK /\ ChainLinked /\ PostsFit /\ AllSigned /\ GenesisKept /\ TrustSigned /\ OnStoredChain

\* What it says of the runs' invariant.
LEMMA LinkedVerifies == SignerTypeOK /\ ChainLinked => ChainVerifies
<1> SUFFICES ASSUME SignerTypeOK, ChainLinked, chain # <<>> PROVE HeadSet = Last(chain).set /\ Len(chain) <= MaxChain
  BY DEF ChainVerifies
<1>1. Len(chain) \in Nat
  BY DEF SignerTypeOK
<1>2. Accepts(<<>>, chain, 0)
  <2> SUFFICES ASSUME NEW i \in (0 + 1)..Len(chain)
               PROVE  Follows(IF i = 0 + 1 THEN <<>> ELSE chain[i - 1].set, chain[i])
    BY DEF Accepts
  <2>1. i \in 1..Len(chain) /\ (i = 0 + 1 <=> i - 1 = 0)
    BY <1>1
  <2>2. QED
    BY <2>1 DEF ChainLinked, Before
<1>3. QED
  BY <1>2 DEF HeadSet, VerifyChain, Starts, ChainLinked

\* The invariant implies what the runs check.
LEMMA IInvIsEnough == SignerIInv => SignersInv
<1> SUFFICES ASSUME SignerIInv PROVE SignersInv
  OBVIOUS
<1>1. SignedAlong
  <2>1. \A n \in SignerNodes : trust[n] # <<>> => SignedList(trust[n]) /\ (n \in Provisioned => trust[n][1] = chain[1].set[1])
    BY DEF SignerIInv, TrustSigned, GenesisKept
  <2>2. QED
    BY <2>1 DEF SignedAlong, SignedList
<1>2. QED
  BY <1>1, LinkedVerifies DEF SignerIInv, SignersInv

\* Nothing is stored, pinned or signed at first.
LEMMA InitSigners == SignerInit => SignerIInv
<1> SUFFICES ASSUME SignerInit PROVE SignerIInv
  OBVIOUS
<1> USE ChainAssumption DEF SignerInit
<1>1. chain = <<>> /\ Len(chain) = 0 /\ \A n \in SignerNodes : trust[n] = <<>> /\ Len(trust[n]) = 0
  OBVIOUS
<1>2. SignerTypeOK
  BY DEF SignerTypeOK
<1>3. ChainLinked /\ PostsFit /\ AllSigned
  BY <1>1 DEF ChainLinked, PostsFit, AllSigned
<1>4. GenesisKept /\ TrustSigned /\ OnStoredChain
  BY <1>1 DEF GenesisKept, TrustSigned, SignedList, OnStoredChain
<1>5. QED
  BY <1>2, <1>3, <1>4 DEF SignerIInv

\* What Follow gives a node.
LEMMA FollowStep ==
  ASSUME SignerIInv, NEW n \in SignerNodes, NEW links \in Servable, Follow(n, links)
  PROVE  /\ trust' \in [SignerNodes -> Seq(Entry)]
         /\ \A m \in SignerNodes : m # n => trust'[m] = trust[m]
         /\ Begins(trust[n], trust'[n]) /\ SignedList(trust'[n])
         /\ n \in Provisioned => chain # <<>>
         /\ n \in Provisioned /\ trust'[n] # <<>> => trust'[n][1] = chain[1].set[1]
         /\ ~hostile => trust'[n] = trust[n] \/ \E i \in DOMAIN chain : trust'[n] = chain[i].set
<1> USE DEF SignerIInv
<1>1. links \in Seq(published)
  <2>1. CASE hostile
    <3>1. PICK l \in 1..MaxChain : links \in [1..l -> published]
      BY <2>1 DEF Servable
    <3>2. l \in Nat
      BY ChainAssumption
    <3>3. QED
      BY <3>1, <3>2, SeqDef
  <2>2. CASE ~hostile
    <3>1. PICK l \in 1..Len(chain) : links = SubSeq(chain, 1, l)
      BY <2>2 DEF Servable
    <3>2. Len(chain) \in Nat /\ l \in Int
      BY DEF SignerTypeOK
    <3>3. \A i \in 1..l : chain[i] \in published
      BY <3>2 DEF AllSigned
    <3>4. QED
      BY <3>1, <3>2, <3>3, SubSeqProperties
  <2>3. QED
    BY <2>1, <2>2
<1>2. trust[n] \in Seq(Entry) /\ SignedList(trust[n]) /\ published \subseteq Link
  BY DEF SignerTypeOK, TrustSigned
<1>3. GenesisOf(n) \in Seq(Entry) /\ (n \in Provisioned => chain # <<>> /\ GenesisOf(n) = chain[1].set /\ GenesisOf(n) # <<>>)
  <2>1. chain # <<>> => chain[1].set \in Seq(Entry) /\ chain[1].set # <<>>
    <3>1. chain # <<>> => 1 \in 1..Len(chain)
      BY EmptySeq DEF SignerTypeOK
    <3>2. chain # <<>> => chain[1] \in Link
      BY <3>1, ElementOfSeq DEF SignerTypeOK
    <3>3. QED
      BY <3>2 DEF Link, Set
  <2>2. n \in Provisioned => chain # <<>>
    BY DEF Follow, Ready
  <2>3. QED
    BY <2>1, <2>2 DEF GenesisOf
<1> DEFINE new == VerifyChain(trust[n], links, GenesisOf(n))
<1>4. trust' = [trust EXCEPT ![n] = new]
  BY DEF Follow
<1>5. /\ new \in Seq(Entry) /\ Begins(trust[n], new) /\ SignedList(new)
      /\ trust[n] = <<>> /\ GenesisOf(n) # <<>> /\ new # <<>> => new[1] = GenesisOf(n)[1]
      /\ new = trust[n] \/ (links # <<>> /\ new = links[Len(links)].set)
  BY <1>1, <1>2, <1>3, Verified
<1> HIDE DEF new
<1>6. trust' \in [SignerNodes -> Seq(Entry)] /\ trust'[n] = new /\ \A m \in SignerNodes : m # n => trust'[m] = trust[m]
  BY <1>4, <1>5 DEF SignerTypeOK
<1>7. ASSUME n \in Provisioned, new # <<>> PROVE new[1] = chain[1].set[1]
  <2>1. CASE trust[n] = <<>>
    BY <1>3, <1>5, <1>7, <2>1
  <2>2. CASE trust[n] # <<>>
    <3>1. trust[n][1] = chain[1].set[1]
      BY <1>7, <2>2 DEF GenesisKept
    <3>2. 1 \in 1..Len(trust[n])
      BY <1>2, <2>2, EmptySeq
    <3>3. QED
      BY <1>5, <3>1, <3>2 DEF Begins
  <2>3. QED
    BY <2>1, <2>2
<1>8. ASSUME ~hostile PROVE new = trust[n] \/ \E i \in DOMAIN chain : new = chain[i].set
  <2>1. PICK l \in 1..Len(chain) : links = SubSeq(chain, 1, l)
    BY <1>8 DEF Servable
  <2>2. Len(chain) \in Nat /\ DOMAIN chain = 1..Len(chain)
    BY DEF SignerTypeOK
  <2>3. Len(links) = l /\ links[l] = chain[l]
    BY <2>1, <2>2 DEF SignerTypeOK
  <2>4. QED
    BY <1>5, <2>2, <2>3
<1>9. QED
  BY <1>3, <1>5, <1>6, <1>7, <1>8

\* A list with one more entry is a list.
LEMMA AppendIsSet == ASSUME NEW base \in Seq(Entry), NEW e \in Entry PROVE Append(base, e) \in Set
<1>1. Append(base, e) \in Seq(Entry) /\ Len(Append(base, e)) = Len(base) + 1 /\ Len(base) \in Nat
  OBVIOUS
<1>2. Append(base, e) # <<>>
  BY <1>1
<1>3. QED
  BY <1>1, <1>2 DEF Set

\* Sign and RogueSign: more is published, and nothing else changes.
LEMMA PublishStep ==
  ASSUME SignerIInv, NEW link \in Link, published' = published \cup {link},
         UNCHANGED <<hostile, chain, change, proposals, posts, trust>>
  PROVE  SignerIInv'
<1> USE DEF SignerIInv
<1>1. SignerTypeOK'
  BY DEF SignerTypeOK
<1>2. ChainLinked' /\ PostsFit' /\ AllSigned' /\ GenesisKept' /\ OnStoredChain'
  BY DEF ChainLinked, PostsFit, Before, AllSigned, GenesisKept, OnStoredChain
<1>3. TrustSigned'
  BY DEF TrustSigned, SignedList
<1>4. QED
  BY <1>1, <1>2, <1>3

\* What signPostSigners checked: the link continues the head, within MaxChain.
LEMMA PostedFits ==
  ASSUME SignerTypeOK, ChainLinked, NEW link \in Link, VerifyChain(<<>>, Append(chain, link), <<>>) = link.set
  PROVE  /\ Follows(Before(Len(chain)), link)
         /\ Version(link.set) = Len(chain) + 1 /\ Len(chain) + 1 <= MaxChain
<1> DEFINE links == Append(chain, link)
           L == Len(chain)
<1>1. /\ L \in Nat /\ Len(links) = L + 1 /\ links[L + 1] = link
      /\ \A i \in 1..L : links[i] = chain[i]
  BY DEF SignerTypeOK
<1>2. link.set # <<>>
  BY DEF Link, Set
<1>3. Len(links) <= MaxChain /\ Accepts(<<>>, links, 0)
  BY <1>2 DEF VerifyChain, Starts
<1> HIDE DEF links
<1>4. Follows(IF L + 1 = 0 + 1 THEN <<>> ELSE links[(L + 1) - 1].set, links[L + 1])
  BY <1>1, <1>3 DEF Accepts
<1>5. (IF L + 1 = 0 + 1 THEN <<>> ELSE links[(L + 1) - 1].set) = Before(L)
  <2>1. CASE L = 0
    BY <2>1 DEF Before
  <2>2. CASE L # 0
    <3>1. L + 1 # 0 + 1 /\ (L + 1) - 1 = L /\ L \in 1..L
      BY <1>1, <2>2
    <3>2. QED
      BY <1>1, <2>2, <3>1 DEF Before
  <2>3. QED
    BY <2>1, <2>2
<1>6. Follows(Before(L), link)
  BY <1>1, <1>4, <1>5
<1>7. Version(Before(L)) = L
  <2>1. CASE L = 0
    BY <2>1 DEF Before, Version
  <2>2. CASE L # 0
    BY <1>1, <2>2 DEF Before, ChainLinked
  <2>3. QED
    BY <2>1, <2>2
<1>8. QED
  BY <1>1, <1>3, <1>6, <1>7 DEF Follows

\* The inductive step.
LEMMA NextSigners == SignerIInv /\ [SignerNext]_signerVars => SignerIInv'
<1> SUFFICES ASSUME SignerIInv, [SignerNext]_signerVars PROVE SignerIInv'
  OBVIOUS
<1>i. SignerTypeOK /\ ChainLinked /\ PostsFit /\ AllSigned /\ GenesisKept /\ TrustSigned /\ OnStoredChain
  BY DEF SignerIInv
<1>k. ASSUME UNCHANGED <<hostile, chain, published, trust>>, SignerTypeOK',
             \A p \in posts' : p \in posts \/ (p.link \in published /\ \E l \in 0..Len(chain) :
               Follows(Before(l), p.link) /\ Version(p.link.set) = l + 1 /\ l + 1 <= MaxChain)
      PROVE  SignerIInv'
  <2>1. ChainLinked' /\ GenesisKept' /\ OnStoredChain'
    BY <1>i, <1>k DEF ChainLinked, Before, GenesisKept, OnStoredChain
  <2>2. TrustSigned'
    BY <1>i, <1>k DEF TrustSigned, SignedList
  <2>3. PostsFit'
    BY <1>i, <1>k DEF PostsFit, Before
  <2>4. AllSigned'
    BY <1>i, <1>k DEF AllSigned
  <2>5. QED
    BY <1>k, <2>1, <2>2, <2>3, <2>4 DEF SignerIInv
<1>1. ASSUME NEW l \in 0..Len(chain), NEW keys \in KeyLists, ProposeSigners(l, keys) PROVE SignerIInv'
  <2> DEFINE base == IF l = 0 THEN <<>> ELSE chain[l].set
  <2>1. base \in Seq(Entry) /\ Version(base) \in Nat
    <3>1. CASE l = 0
      BY <3>1 DEF Version
    <3>2. CASE l # 0
      <4>1. l \in 1..Len(chain)
        BY <1>i, <3>2 DEF SignerTypeOK
      <4>2. chain[l].set \in Seq(Entry) /\ chain[l].set # <<>>
        <5>1. chain[l] \in Link
          BY <1>i, <4>1, ElementOfSeq DEF SignerTypeOK
        <5>2. QED
          BY <5>1 DEF Link, Set
      <4>3. chain[l].set[Len(chain[l].set)] \in Entry
        BY <4>2, EmptySeq
      <4>4. QED
        BY <3>2, <4>2, <4>3, ChainAssumption DEF Version, Last, Entry
    <3>3. QED
      BY <3>1, <3>2
  <2>2. /\ Version(base) < MaxListVersion /\ proposals < MaxProposals /\ proposals' = proposals + 1
        /\ change' = [token |-> proposals + 1, set |-> Append(base, [version |-> Version(base) + 1, keys |-> keys])]
        /\ UNCHANGED <<hostile, chain, posts, published, trust>>
    BY <1>1 DEF ProposeSigners
  <2> HIDE DEF base
  <2>3. Append(base, [version |-> Version(base) + 1, keys |-> keys]) \in Set
    <3>1. [version |-> Version(base) + 1, keys |-> keys] \in Entry
      BY <2>1, <2>2, ChainAssumption DEF Entry
    <3>2. QED
      BY <2>1, <3>1, AppendIsSet
  <2>4. SignerTypeOK'
    <3>1. change'.token \in 1..proposals' /\ change'.set \in Set /\ proposals' \in 0..MaxProposals /\ proposals \in Nat
      BY <1>i, <2>2, <2>3, ChainAssumption DEF SignerTypeOK
    <3>2. \A p \in posts' : p.token \in 1..proposals' /\ p.link \in Link
      BY <1>i, <2>2, <3>1 DEF SignerTypeOK
    <3>3. QED
      BY <1>i, <2>2, <3>1, <3>2 DEF SignerTypeOK
  <2>5. QED
    BY <1>k, <2>2, <2>4
<1>2. CASE ExpireSignerChange
  <2>1. SignerTypeOK'
    BY <1>i, <1>2 DEF ExpireSignerChange, SignerTypeOK
  <2>2. QED
    BY <1>2, <1>k, <2>1 DEF ExpireSignerChange
<1>3. ASSUME NEW k \in AdminKeys, Sign(k) PROVE SignerIInv'
  <2>1. [set |-> change.set, by |-> k] \in Link
    BY <1>3, <1>i DEF Sign, SignerTypeOK, Link
  <2>2. QED
    BY <1>3, <2>1, PublishStep DEF Sign
<1>4. ASSUME NEW k \in Rogue, NEW base \in {<<>>} \cup {p.set : p \in published}, NEW e \in Entry, RogueSign(k, base, e)
      PROVE  SignerIInv'
  <2>1. \A p \in published : p.set \in Seq(Entry)
    BY <1>i DEF SignerTypeOK, Link, Set
  <2>2. base \in Seq(Entry) /\ k \in AdminKeys
    <3>1. CASE base = <<>>
      BY <3>1, ChainAssumption
    <3>2. CASE base # <<>>
      BY <2>1, <3>2, ChainAssumption
    <3>3. QED
      BY <3>1, <3>2
  <2>3. Append(base, e) \in Set
    BY <2>2, AppendIsSet
  <2>4. [set |-> Append(base, e), by |-> k] \in Link
    BY <2>2, <2>3 DEF Link
  <2>5. QED
    BY <1>4, <2>4, PublishStep DEF RogueSign
<1>5. ASSUME NEW link \in published, SignPostSigners(link) PROVE SignerIInv'
  <2>1. link \in Link
    BY <1>i DEF SignerTypeOK
  <2>2. /\ Follows(Before(Len(chain)), link)
        /\ Version(link.set) = Len(chain) + 1 /\ Len(chain) + 1 <= MaxChain
    BY <1>5, <1>i, <2>1, PostedFits DEF SignPostSigners
  <2>3. Len(chain) \in 0..Len(chain)
    BY <1>i DEF SignerTypeOK
  <2>4. SignerTypeOK'
    BY <1>5, <1>i, <2>1 DEF SignPostSigners, SignerTypeOK
  <2>5. \A p \in posts' : p \in posts \/ p.link = link
    BY <1>5 DEF SignPostSigners
  <2>6. QED
    BY <1>5, <1>k, <2>2, <2>3, <2>4, <2>5 DEF SignPostSigners
<1>6. ASSUME NEW p \in posts, ApplySignerSet(p) PROVE SignerIInv'
  <2> DEFINE L == Len(chain)
  <2>1. p.link \in Link /\ p.link \in published /\ chain \in Seq(Link) /\ L \in Nat
    BY <1>i DEF SignerTypeOK, AllSigned
  <2>2. chain' = Append(chain, p.link) /\ Version(p.link.set) = L + 1 /\ posts' = posts \ {p}
        /\ UNCHANGED <<hostile, proposals, published, trust>>
    BY <1>6 DEF ApplySignerSet
  <2>3. chain' \in Seq(Link) /\ Len(chain') = L + 1 /\ chain'[L + 1] = p.link /\ \A i \in 1..L : chain'[i] = chain[i]
    BY <2>1, <2>2
  <2>4. Follows(Before(L), p.link) /\ L + 1 <= MaxChain
    <3>1. PICK l \in 0..L : Follows(Before(l), p.link) /\ Version(p.link.set) = l + 1 /\ l + 1 <= MaxChain
      BY <1>i DEF PostsFit
    <3>2. l = L
      BY <2>1, <2>2, <3>1
    <3>3. QED
      BY <3>1, <3>2
  <2>5. \A l \in 0..L : Before(l)' = Before(l)
    <3> SUFFICES ASSUME NEW l \in 0..L PROVE Before(l)' = Before(l)
      OBVIOUS
    <3>1. l = 0 \/ l \in 1..L
      BY <2>1
    <3>2. QED
      BY <2>3, <3>1 DEF Before
  <2>6. SignerTypeOK'
    BY <1>6, <1>i, <2>2, <2>3 DEF ApplySignerSet, SignerTypeOK
  <2>7. ChainLinked'
    <3>1. ASSUME NEW i \in 1..(L + 1) PROVE Follows(Before(i - 1)', chain'[i]) /\ Version(chain'[i].set) = i
      <4>1. i - 1 \in 0..L /\ (i = L + 1 \/ i \in 1..L)
        BY <2>1
      <4>2. CASE i = L + 1
        BY <2>1, <2>2, <2>3, <2>4, <2>5, <4>1, <4>2
      <4>3. CASE i \in 1..L
        BY <1>i, <2>3, <2>5, <4>1, <4>3 DEF ChainLinked
      <4>4. QED
        BY <4>1, <4>2, <4>3
    <3>2. QED
      BY <2>3, <2>4, <3>1 DEF ChainLinked, Follows, verifyLink
  <2>8. PostsFit'
    <3>1. ASSUME NEW q \in posts'
          PROVE  \E l \in 0..Len(chain') : Follows(Before(l)', q.link) /\ Version(q.link.set) = l + 1 /\ l + 1 <= MaxChain
      <4>1. PICK l \in 0..L : Follows(Before(l), q.link) /\ Version(q.link.set) = l + 1 /\ l + 1 <= MaxChain
        BY <1>i, <2>2 DEF PostsFit
      <4>2. l \in 0..Len(chain')
        BY <2>1, <2>3
      <4>3. QED
        BY <2>5, <4>1, <4>2
    <3>2. QED
      BY <3>1 DEF PostsFit, Follows, verifyLink
  <2>9. AllSigned'
    <3>1. ASSUME NEW i \in 1..(L + 1) PROVE chain'[i] \in published
      BY <1>i, <2>1, <2>3 DEF AllSigned
    <3>2. QED
      BY <1>i, <2>2, <2>3, <3>1 DEF AllSigned
  <2>10. GenesisKept'
    <3>1. chain # <<>> => chain' # <<>> /\ chain'[1] = chain[1]
      BY <2>1, <2>3, EmptySeq
    <3>2. QED
      BY <1>i, <2>2, <3>1 DEF GenesisKept
  <2>11. TrustSigned'
    BY <1>i, <2>2 DEF TrustSigned, SignedList
  <2>12. OnStoredChain'
    <3>1. DOMAIN chain = 1..L /\ DOMAIN chain' = 1..(L + 1)
      BY <2>1, <2>3
    <3>2. \A i \in DOMAIN chain : i \in DOMAIN chain' /\ chain'[i] = chain[i]
      BY <2>1, <2>3, <3>1
    <3>3. QED
      BY <1>i, <2>2, <3>2 DEF OnStoredChain
  <2>13. QED
    BY <2>6, <2>7, <2>8, <2>9, <2>10, <2>11, <2>12 DEF SignerIInv
<1>7. ASSUME NEW n \in SignerNodes, NEW links \in Servable, Follow(n, links) PROVE SignerIInv'
  <2>1. UNCHANGED <<hostile, chain, change, proposals, posts, published>>
    BY <1>7 DEF Follow
  <2>2. /\ trust' \in [SignerNodes -> Seq(Entry)]
        /\ \A m \in SignerNodes : m # n => trust'[m] = trust[m]
        /\ SignedList(trust'[n])
        /\ n \in Provisioned => chain # <<>>
        /\ n \in Provisioned /\ trust'[n] # <<>> => trust'[n][1] = chain[1].set[1]
        /\ ~hostile => trust'[n] = trust[n] \/ \E i \in DOMAIN chain : trust'[n] = chain[i].set
    BY <1>7, FollowStep
  <2>3. SignerTypeOK'
    BY <1>i, <2>1, <2>2 DEF SignerTypeOK
  <2>4. ChainLinked' /\ PostsFit' /\ AllSigned'
    BY <1>i, <2>1 DEF ChainLinked, PostsFit, Before, AllSigned
  <2>5. GenesisKept'
    BY <1>i, <2>1, <2>2 DEF GenesisKept
  <2>6. TrustSigned'
    BY <1>i, <2>1, <2>2 DEF TrustSigned, SignedList
  <2>7. OnStoredChain'
    BY <1>i, <2>1, <2>2 DEF OnStoredChain
  <2>8. QED
    BY <2>3, <2>4, <2>5, <2>6, <2>7 DEF SignerIInv
<1>8. CASE UNCHANGED signerVars
  <2>1. SignerTypeOK'
    BY <1>8, <1>i DEF signerVars, SignerTypeOK
  <2>2. QED
    BY <1>8, <1>k, <2>1 DEF signerVars
<1>9. QED
  BY <1>1, <1>2, <1>3, <1>4, <1>5, <1>6, <1>7, <1>8 DEF SignerNext

-----------------------------------------------------------------------------
\* The inductive invariant holds of every reachable state.
THEOREM SignersIInvHolds == SignerSpec => []SignerIInv
  BY InitSigners, NextSigners, PTL DEF SignerSpec

\* For any nodes, admin keys, rogue keys, proposals and chains, under an
\* honest control plane or a hostile one: a node's list was reached along
\* signatures of keys of the list before (verifyLink, VerifyChain), the stored
\* chain verifies (ApplySignerSet), and an honest control plane's nodes are on
\* a list that is stored (Follow).
THEOREM SignersSound == SignerSpec => []SignersInv
  BY SignersIInvHolds, IInvIsEnough, PTL

\* No rollback and no fork: what a node pinned it only ever continues, in
\* whatever order chains are served (Store.Update, VerifyChain).
THEOREM NeverLeavesItsList == SignerSpec => OnlyExtends
<1>1. SignerIInv /\ [SignerNext]_signerVars => [\A n \in SignerNodes : IsPrefix(trust[n], trust'[n])]_signerVars
  <2> SUFFICES ASSUME SignerIInv, SignerNext, NEW n \in SignerNodes PROVE IsPrefix(trust[n], trust'[n])
    OBVIOUS
  <2>1. trust[n] \in Seq(Entry)
    BY DEF SignerIInv, SignerTypeOK
  <2>2. ASSUME NEW t \in Seq(Entry), Begins(trust[n], t) PROVE IsPrefix(trust[n], t)
    <3>1. Len(trust[n]) \in Nat /\ Len(t) \in Nat /\ Len(trust[n]) <= Len(t)
      BY <2>1, <2>2 DEF Begins
    <3>2. SubSeq(trust[n], 1, Len(trust[n])) = SubSeq(t, 1, Len(trust[n]))
      BY <2>1, <2>2, <3>1 DEF Begins
    <3>3. QED
      BY <3>1, <3>2 DEF IsPrefix
  <2>3. CASE trust'[n] = trust[n]
    BY <2>1, <2>2, <2>3 DEF Begins
  <2>4. ASSUME NEW m \in SignerNodes, NEW links \in Servable, Follow(m, links) PROVE IsPrefix(trust[n], trust'[n])
    BY <2>2, <2>3, <2>4, FollowStep
  <2>5. QED
    BY <2>3, <2>4 DEF SignerNext, ProposeSigners, ExpireSignerChange, Sign, RogueSign, SignPostSigners, ApplySignerSet
<1>2. QED
  BY <1>1, SignersIInvHolds, PTL DEF SignerSpec, OnlyExtends


-----------------------------------------------------------------------------
(***************************************************************************)
(* Enrollment.  TalksToAccepted is inductive once a key that a call was    *)
(* given counts as accepted: Begin and AcceptPin are steps of their own,   *)
(* and other people enroll between them.                                   *)
(***************************************************************************)
GivenIsAccepted == \A c \in EnrollCallers : caller[c].accept \in Keys => caller[c].accept \in accepted

\* A call that was answered has an answer to note.
AnswerIsThere == \A c \in EnrollCallers : caller[c].pc = "answered" => caller[c].answer \in RowStatus

EnrollIInv == EnrollTypeOK /\ TalksToAccepted /\ GivenIsAccepted /\ AnswerIsThere

\* Where callers are and what they are given.
Caller == [pc : {"idle", "confirm", "probe", "probed", "connect", "sent", "insert", "answered", "following", "done"},
           accept : Keys \cup {NoKey, "new"}, answer : RowStatus \cup {NoKey}]

\* A caller that goes on, ends, or is answered keeps its type, has an answer
\* when it was answered, and was given no key it did not have.
Moved == /\ caller' \in [EnrollCallers -> Caller]
         /\ \A d \in EnrollCallers : caller'[d].accept \in {caller[d].accept, NoKey}
         /\ AnswerIsThere'

\* Every step of a call is one of those.
LEMMA CallerMoves ==
  ASSUME EnrollTypeOK, AnswerIsThere, NEW c \in EnrollCallers,
         NEW pc \in {"idle", "confirm", "probe", "probed", "connect", "sent", "insert", "following", "done"},
         At(c, pc) \/ Over(c) \/ \E s \in RowStatus : caller' = [caller EXCEPT ![c].pc = "answered", ![c].answer = s]
  PROVE  Moved
<1>1. caller \in [EnrollCallers -> Caller] /\ caller[c] \in Caller
  BY DEF EnrollTypeOK, Caller
<1>k. ASSUME NEW r \in Caller, caller' = [caller EXCEPT ![c] = r], r.accept \in {caller[c].accept, NoKey},
             r.pc = "answered" => r.answer \in RowStatus
      PROVE  Moved
  BY <1>1, <1>k DEF Moved, AnswerIsThere
<1>2. CASE At(c, pc)
  <2>1. caller' = [caller EXCEPT ![c] = [caller[c] EXCEPT !.pc = pc]]
    BY <1>1, <1>2 DEF At
  <2>2. [caller[c] EXCEPT !.pc = pc] \in Caller /\ [caller[c] EXCEPT !.pc = pc].accept = caller[c].accept
        /\ [caller[c] EXCEPT !.pc = pc].pc # "answered"
    BY <1>1 DEF Caller
  <2>3. QED
    BY <1>k, <2>1, <2>2
<1>3. CASE Over(c)
  <2>1. \E r \in {Waiting, [Waiting EXCEPT !.pc = "done"]} : caller' = [caller EXCEPT ![c] = r]
    BY <1>3 DEF Over
  <2>2. \A r \in {Waiting, [Waiting EXCEPT !.pc = "done"]} : r \in Caller /\ r.accept = NoKey /\ r.pc # "answered"
    BY DEF Waiting, Caller
  <2>3. QED
    BY <1>k, <2>1, <2>2
<1>4. ASSUME NEW s \in RowStatus, caller' = [caller EXCEPT ![c].pc = "answered", ![c].answer = s] PROVE Moved
  <2> DEFINE r == [caller[c] EXCEPT !.pc = "answered", !.answer = s]
  <2>1. caller' = [caller EXCEPT ![c] = r]
    BY <1>1, <1>4
  <2>2. r \in Caller /\ r.accept = caller[c].accept /\ r.answer = s
    BY <1>1 DEF Caller
  <2>3. QED
    BY <1>k, <2>1, <2>2
<1>5. QED
  BY <1>2, <1>3, <1>4

\* What a step leaves of the pin and the channel.
LEMMA ReachStep ==
  ASSUME EnrollIInv, Reach, UNCHANGED <<plane, accepted>>
  PROVE  /\ pinFile' = pinFile /\ pinSeen' \in Keys \cup {NoKey} /\ channel' \in Keys \cup {NoKey}
         /\ TalksToAccepted'
<1> USE EnrollmentAssumption DEF EnrollIInv
<1>1. CASE channel # NoKey
  BY <1>1 DEF Reach, EnrollTypeOK, TalksToAccepted
<1>2. CASE channel = NoKey
  BY <1>2 DEF Reach, Handshake, EnrollTypeOK, TalksToAccepted
<1>3. QED
  BY <1>1, <1>2

\* Nothing is pinned and nobody asked at first.
LEMMA InitEnroll == EnrollInit => EnrollIInv
  BY EnrollmentAssumption DEF EnrollInit, EnrollIInv, EnrollTypeOK, TalksToAccepted, GivenIsAccepted, AnswerIsThere, Waiting, RowStatus

\* A step of a call keeps the invariant.
LEMMA CallStepKeeps == ASSUME EnrollIInv, NEW c \in EnrollCallers, CallStep(c) PROVE EnrollIInv'
<1> USE EnrollmentAssumption DEF EnrollIInv
<1>t. EnrollTypeOK /\ TalksToAccepted /\ GivenIsAccepted /\ AnswerIsThere /\ caller[c] \in Caller
  BY DEF EnrollTypeOK, Caller
<1>k. ASSUME Moved,
             accepted \subseteq accepted', accepted' \subseteq Keys, TalksToAccepted',
             pinFile' \in Keys \cup {NoKey, Damaged}, pinSeen' \in Keys \cup {NoKey}, plane' \in Keys, channel' \in Keys \cup {NoKey},
             enrolled' \in RowStatus, enrollFile' \in RowStatus, nodeRow' \in [Keys -> RowStatus], swaps' \in 0..MaxSwaps
      PROVE  EnrollIInv'
  <2>1. EnrollTypeOK'
    BY <1>k DEF EnrollTypeOK, Moved, Caller
  <2>2. GivenIsAccepted'
    BY <1>t, <1>k DEF GivenIsAccepted, Moved
  <2>3. QED
    BY <1>k, <2>1, <2>2 DEF Moved
<1>1. ASSUME UNCHANGED <<pinFile, pinSeen, plane, enrolled, enrollFile, nodeRow, accepted, swaps>>, channel' \in {channel, NoKey},
             \E pc \in {"connect", "probe", "probed", "insert", "done"} : At(c, pc) \/ Over(c)
      PROVE  EnrollIInv'
  <2>1. Moved
    BY <1>1, <1>t, CallerMoves
  <2>2. TalksToAccepted'
    BY <1>1, <1>t DEF TalksToAccepted
  <2>3. QED
    BY <1>1, <1>t, <1>k, <2>1, <2>2 DEF EnrollTypeOK
<1>2. CASE PinIsThere(c) \/ PinUnreadable(c) \/ LooksForKey(c) \/ AcceptRefused(c) \/ ReportsKey(c) \/ Unlisted(c) \/ Repeat(c)
  BY <1>1, <1>2 DEF PinIsThere, PinUnreadable, LooksForKey, AcceptRefused, ReportsKey, Unlisted, Repeat
<1>3. CASE Probe(c) \/ Connect(c)
  <2>1. Moved
    BY <1>3, <1>t, CallerMoves DEF Probe, Connect
  <2>2. Reach /\ UNCHANGED <<plane, enrolled, enrollFile, nodeRow, accepted, swaps>>
    BY <1>3 DEF Probe, Connect
  <2>3. /\ pinFile' = pinFile /\ pinSeen' \in Keys \cup {NoKey} /\ channel' \in Keys \cup {NoKey}
        /\ TalksToAccepted'
    BY <2>2, ReachStep
  <2>4. QED
    BY <1>t, <1>k, <2>1, <2>2, <2>3 DEF EnrollTypeOK
<1>4. CASE AcceptPin(c)
  <2>1. Moved
    BY <1>4, <1>t, CallerMoves DEF AcceptPin
  <2>2. Chosen(c) \in Keys /\ Chosen(c) \in accepted' /\ accepted \subseteq accepted' /\ accepted' \subseteq Keys
    <3>1. CASE caller[c].accept = "new"
      BY <1>4, <1>t, <3>1 DEF AcceptPin, Chosen, EnrollTypeOK
    <3>2. CASE caller[c].accept # "new"
      BY <1>4, <1>t, <3>2 DEF AcceptPin, Chosen, EnrollTypeOK, Caller, GivenIsAccepted
    <3>3. QED
      BY <3>1, <3>2
  <2>3. pinFile \in {NoKey, Chosen(c)} /\ pinFile' = Chosen(c) /\ UNCHANGED <<pinSeen, plane, channel, enrolled, enrollFile, nodeRow, swaps>>
    BY <1>4 DEF AcceptPin, SetPin
  <2>4. TalksToAccepted'
    BY <1>t, <2>2, <2>3 DEF TalksToAccepted, EnrollTypeOK
  <2>5. QED
    BY <1>t, <1>k, <2>1, <2>2, <2>3, <2>4 DEF EnrollTypeOK
<1>5. CASE Answer(c) \/ CreatePending(c)
  <2>1. Moved
    <3>1. channel \in Keys /\ nodeRow[channel] \in RowStatus /\ "pending" \in RowStatus
      BY <1>5, <1>t DEF Answer, CreatePending, EnrollTypeOK, RowStatus
    <3>2. Over(c) \/ \E s \in RowStatus : caller' = [caller EXCEPT ![c].pc = "answered", ![c].answer = s]
      BY <1>5, <3>1 DEF Answer, CreatePending
    <3>3. QED
      BY <1>t, <3>2, CallerMoves
  <2>2. nodeRow' \in [Keys -> RowStatus]
    BY <1>5, <1>t DEF Answer, CreatePending, EnrollTypeOK, RowStatus
  <2>3. UNCHANGED <<pinFile, pinSeen, plane, channel, enrolled, enrollFile, accepted, swaps>>
    BY <1>5 DEF Answer, CreatePending
  <2>4. QED
    BY <1>t, <1>k, <2>1, <2>2, <2>3 DEF EnrollTypeOK, TalksToAccepted
<1>6. CASE Note(c)
  <2>1. Moved
    BY <1>6, <1>t, CallerMoves DEF Note
  <2>2. enrolled' \in RowStatus /\ enrollFile' \in RowStatus
    BY <1>6, <1>t DEF Note, AnswerIsThere
  <2>3. UNCHANGED <<pinFile, pinSeen, plane, channel, nodeRow, accepted, swaps>>
    BY <1>6 DEF Note
  <2>4. QED
    BY <1>t, <1>k, <2>1, <2>2, <2>3 DEF EnrollTypeOK, TalksToAccepted
<1>7. QED
  BY <1>2, <1>3, <1>4, <1>5, <1>6 DEF CallStep

\* The inductive step.
LEMMA NextEnroll == EnrollIInv /\ [EnrollNext]_enrollVars => EnrollIInv'
<1> SUFFICES ASSUME EnrollIInv, [EnrollNext]_enrollVars PROVE EnrollIInv'
  OBVIOUS
<1> USE EnrollmentAssumption
<1>t. EnrollTypeOK /\ TalksToAccepted /\ GivenIsAccepted /\ AnswerIsThere /\ caller \in [EnrollCallers -> Caller]
      /\ Loop \in EnrollCallers /\ People \subseteq EnrollCallers
  BY DEF EnrollIInv, EnrollTypeOK, Caller, EnrollCallers
<1>1. ASSUME NEW c \in People, NEW a \in Keys \cup {NoKey, "new"}, Begin(c, a) PROVE EnrollIInv'
  <2> DEFINE r == [Waiting EXCEPT !.pc = "confirm", !.accept = a]
  <2>1. r \in Caller /\ r.accept = a /\ r.pc = "confirm" /\ c \in EnrollCallers
    BY <1>t DEF Waiting, Caller
  <2>2. caller' = [caller EXCEPT ![c] = r] /\ accepted' = accepted \cup ({a} \cap Keys)
        /\ UNCHANGED <<pinFile, pinSeen, plane, channel, enrolled, enrollFile, nodeRow, swaps>>
    BY <1>1 DEF Begin
  <2> HIDE DEF r
  <2>3. caller' \in [EnrollCallers -> Caller]
    BY <1>t, <2>1, <2>2
  <2>4. GivenIsAccepted' /\ AnswerIsThere'
    BY <1>t, <2>1, <2>2 DEF GivenIsAccepted, AnswerIsThere
  <2>5. TalksToAccepted'
    BY <1>t, <2>2 DEF TalksToAccepted
  <2>6. EnrollTypeOK'
    BY <1>t, <2>2, <2>3 DEF EnrollTypeOK, Caller
  <2>7. QED
    BY <2>4, <2>5, <2>6 DEF EnrollIInv
<1>2. ASSUME NEW c \in EnrollCallers, CallStep(c) PROVE EnrollIInv'
  BY <1>2, CallStepKeeps
<1>3. CASE LoopAsks \/ NotApproved
  <2>1. Moved
    BY <1>3, <1>t, CallerMoves DEF LoopAsks, NotApproved
  <2>2. enrolled' \in RowStatus /\ enrollFile' \in RowStatus /\ UNCHANGED <<pinFile, pinSeen, plane, channel, nodeRow, accepted, swaps>>
    BY <1>3, <1>t DEF LoopAsks, NotApproved, EnrollTypeOK, RowStatus
  <2>3. EnrollTypeOK' /\ TalksToAccepted'
    BY <1>t, <2>1, <2>2 DEF EnrollTypeOK, Moved, Caller, TalksToAccepted
  <2>4. GivenIsAccepted' /\ AnswerIsThere'
    BY <1>t, <2>1, <2>2 DEF Moved, GivenIsAccepted
  <2>5. QED
    BY <2>3, <2>4 DEF EnrollIInv
<1>4. CASE Redial
  <2>1. Reach /\ UNCHANGED <<plane, caller, enrolled, enrollFile, nodeRow, accepted, swaps>>
    BY <1>4 DEF Redial
  <2>2. /\ pinFile' = pinFile /\ pinSeen' \in Keys \cup {NoKey} /\ channel' \in Keys \cup {NoKey}
        /\ TalksToAccepted'
    BY <2>1, ReachStep
  <2>3. QED
    BY <1>t, <2>1, <2>2 DEF EnrollIInv, EnrollTypeOK, GivenIsAccepted, AnswerIsThere
<1>5. ASSUME NEW k \in Keys, Administer(k) PROVE EnrollIInv'
  <2>1. \A m \in RowMoves : m[2] \in RowStatus
    BY DEF RowMoves, RowStatus
  <2>2. nodeRow' \in [Keys -> RowStatus]
    BY <1>5, <1>t, <2>1 DEF Administer, EnrollTypeOK
  <2>3. UNCHANGED <<pinFile, pinSeen, plane, channel, caller, enrolled, enrollFile, accepted, swaps>>
    BY <1>5 DEF Administer
  <2>4. QED
    BY <1>t, <2>2, <2>3 DEF EnrollIInv, EnrollTypeOK, TalksToAccepted, GivenIsAccepted, AnswerIsThere
<1>6. CASE Swap \/ Damage
  <2>1. /\ plane' \in Keys /\ channel' \in {channel, NoKey} /\ swaps' \in 0..MaxSwaps
        /\ pinFile' \in {pinFile, Damaged} /\ UNCHANGED <<pinSeen, caller, enrolled, enrollFile, nodeRow, accepted>>
    BY <1>6, <1>t DEF Swap, Damage, Upset, EnrollTypeOK
  <2>2. TalksToAccepted'
    BY <1>t, <2>1 DEF TalksToAccepted
  <2>3. QED
    BY <1>t, <2>1, <2>2 DEF EnrollIInv, EnrollTypeOK, GivenIsAccepted, AnswerIsThere
<1>7. CASE RestartsNode
  <2>1. /\ pinSeen' = NoKey /\ channel' = NoKey /\ enrolled' = enrollFile /\ swaps' \in 0..MaxSwaps
        /\ UNCHANGED <<pinFile, plane, enrollFile, nodeRow, accepted>>
    BY <1>7, <1>t DEF RestartsNode, Upset, EnrollTypeOK
  <2>2. \A r \in {Waiting, [Waiting EXCEPT !.pc = "done"]} : r \in Caller /\ r.accept = NoKey /\ r.pc # "answered"
    BY DEF Waiting, Caller
  <2>3. caller' = [c \in EnrollCallers |-> caller'[c]] /\ \A c \in EnrollCallers : caller'[c] \in {Waiting, [Waiting EXCEPT !.pc = "done"]}
    BY <1>7 DEF RestartsNode
  <2>4. caller' \in [EnrollCallers -> Caller] /\ GivenIsAccepted' /\ AnswerIsThere'
    BY <2>2, <2>3 DEF GivenIsAccepted, AnswerIsThere
  <2>5. QED
    BY <1>t, <2>1, <2>4 DEF EnrollIInv, EnrollTypeOK, TalksToAccepted, Caller
<1>8. CASE UNCHANGED enrollVars
  BY <1>8, <1>t DEF enrollVars, EnrollIInv, EnrollTypeOK, TalksToAccepted, GivenIsAccepted, AnswerIsThere
<1>9. QED
  BY <1>1, <1>2, <1>3, <1>4, <1>5, <1>6, <1>7, <1>8, <1>t DEF EnrollNext, LoopStep

\* The inductive invariant holds of every reachable state.
THEOREM EnrollIInvHolds == EnrollSpec => []EnrollIInv
  BY InitEnroll, NextEnroll, PTL DEF EnrollSpec

\* For any number of control planes and of people who enroll at once: the
\* node is pinned to a key a person accepted and talks to nobody else
\* (confirmPin, filePin, ClientTLSConfigControl).
THEOREM OnlyAccepted == EnrollSpec => []EnrollInv
<1>1. EnrollIInv => EnrollInv
  BY DEF EnrollIInv, EnrollInv
<1>2. QED
  BY <1>1, EnrollIInvHolds, PTL

\* No enrollment exchanges a pinned key or takes a row that was confirmed or
\* revoked back to pending (SetPin, nodeEnroll, CreatePending).
THEOREM NoTakeover == EnrollSpec => NothingIsTakenOver
<1>1. EnrollIInv /\ [EnrollNext]_enrollVars =>
        [/\ pinFile \in Keys => pinFile' \in {pinFile, Damaged}
         /\ \A k \in Keys : /\ nodeRow[k] = "revoked" => nodeRow'[k] = "revoked"
                            /\ nodeRow[k] \in {"confirmed", "approved"} => nodeRow'[k] # "pending"]_enrollVars
  <2> SUFFICES ASSUME EnrollIInv, EnrollNext
               PROVE  /\ pinFile \in Keys => pinFile' \in {pinFile, Damaged}
                      /\ \A k \in Keys : /\ nodeRow[k] = "revoked" => nodeRow'[k] = "revoked"
                                         /\ nodeRow[k] \in {"confirmed", "approved"} => nodeRow'[k] # "pending"
    OBVIOUS
  <2> USE EnrollmentAssumption
  <2>1. pinFile \in Keys => pinFile' \in {pinFile, Damaged}
    <3>1. ASSUME NEW c \in EnrollCallers, CallStep(c) PROVE pinFile \in Keys => pinFile' \in {pinFile, Damaged}
      BY <3>1 DEF CallStep, PinIsThere, PinUnreadable, LooksForKey, Probe, AcceptPin, SetPin, AcceptRefused, ReportsKey, Connect,
                  Answer, Unlisted, CreatePending, Repeat, Note, Reach, Handshake
    <3>2. Loop \in EnrollCallers /\ People \subseteq EnrollCallers
      BY DEF EnrollCallers
    <3>3. QED
      BY <3>1, <3>2 DEF EnrollNext, Begin, LoopStep, LoopAsks, NotApproved, Redial, Reach, Handshake, Administer, Swap, Damage, RestartsNode
  <2>2. ASSUME NEW k \in Keys
        PROVE  /\ nodeRow[k] = "revoked" => nodeRow'[k] = "revoked"
               /\ nodeRow[k] \in {"confirmed", "approved"} => nodeRow'[k] # "pending"
    <3>1. CASE UNCHANGED nodeRow
      BY <3>1
    <3>2. ASSUME NEW c \in EnrollCallers, CreatePending(c), ~UNCHANGED nodeRow
          PROVE  nodeRow'[k] = nodeRow[k] \/ nodeRow[k] = "unknown"
      BY <3>2 DEF CreatePending, EnrollIInv, EnrollTypeOK
    <3>3. ASSUME NEW l \in Keys, Administer(l)
          PROVE  nodeRow'[k] = nodeRow[k] \/ \E m \in RowMoves : nodeRow[k] = m[1] /\ nodeRow'[k] = m[2]
      BY <3>3 DEF Administer, EnrollIInv, EnrollTypeOK
    <3>4. \A m \in RowMoves : m[1] # "revoked" /\ (m[2] = "pending" => FALSE)
      BY DEF RowMoves
    <3>5. UNCHANGED nodeRow \/ (\E c \in EnrollCallers : CreatePending(c)) \/ \E l \in Keys : Administer(l)
      BY DEF EnrollNext, EnrollCallers, CallStep, PinIsThere, PinUnreadable, LooksForKey, Probe, AcceptPin, AcceptRefused, ReportsKey, Connect,
             Answer, Unlisted, Repeat, Note, Begin, LoopStep, LoopAsks, NotApproved, Redial, Swap, Damage, RestartsNode
    <3>6. QED
      BY <3>1, <3>2, <3>3, <3>4, <3>5
  <2>3. QED
    BY <2>1, <2>2
<1>2. QED
  BY <1>1, EnrollIInvHolds, PTL DEF EnrollSpec, NothingIsTakenOver

-----------------------------------------------------------------------------
(***************************************************************************)
(* The composition: every component of it behaves as it does alone.        *)
(***************************************************************************)

\* What no step of the whole does: decide a login again, begin or end a
\* session unheard, leave a signer list, exchange a pin or revive a row.
THEOREM PlaneKeeps == PlaneSpec => PlaneSteps
<1>1. PlaneInit => LoginInit /\ SignerInit /\ EnrollInit
  BY DEF PlaneInit
<1>2. [PlaneNext]_<<focus, vars, loginVars, signerVars, enrollVars>> =>
        [LoginNext]_loginVars /\ [SignerNext]_signerVars /\ [EnrollNext]_enrollVars
  BY DEF PlaneNext
<1>3. PlaneSpec => LoginSpec /\ SignerSpec /\ EnrollSpec
  BY <1>1, <1>2, PTL DEF PlaneSpec, LoginSpec, SignerSpec, EnrollSpec
<1>4. QED
  BY <1>3, DecidedForGood, SessionsHeard, NeverLeavesItsList, NoTakeover DEF PlaneSteps

=============================================================================
