---------------------------- MODULE SnapshotView ----------------------------
(***************************************************************************)
(* What the snapshot feed promises a node, without requests, caches,       *)
(* notifications or faults: the control plane's database changes, and each *)
(* node looks at some state of it.  A node may lag, but what it sees under *)
(* the current version is the current content, it never sees a version     *)
(* that was not committed, and it never goes back - it can only stop       *)
(* seeing anything.  A restored backup puts the database back; from then   *)
(* on only "never back" is promised.                                       *)
(***************************************************************************)
EXTENDS Naturals

CONSTANTS Nodes, None

VARIABLES
  world,      \* the database: version and tables
  view,       \* per node, the snapshot in use
  restores    \* backups restored so far

Init ==
  /\ world.version = 1
  /\ view = [n \in Nodes |-> None]
  /\ restores = 0

\* A transaction.
Change ==
  /\ world'.version = world.version + 1
  /\ UNCHANGED <<view, restores>>

\* The snapshot a node may take into use.
Fit(n, snap) ==
  /\ view[n] # None => snap.version >= view[n].version
  /\ restores = 0 => snap.version <= world.version
  /\ restores = 0 /\ snap.version = world.version => snap = world

Take(n) ==
  /\ view'[n] # None
  /\ Fit(n, view'[n])
  /\ view' = [view EXCEPT ![n] = view'[n]]
  /\ UNCHANGED <<world, restores>>

\* What does not verify, and a restart, leave the node with nothing.
Withdraw(n) ==
  /\ view' = [view EXCEPT ![n] = None]
  /\ UNCHANGED <<world, restores>>

Restore ==
  /\ world'.version <= world.version
  /\ restores' = restores + 1
  /\ UNCHANGED view

Next ==
  \/ Change \/ Restore
  \/ \E n \in Nodes : Take(n) \/ Withdraw(n)

Spec == Init /\ [][Next]_<<world, view, restores>>

=============================================================================
