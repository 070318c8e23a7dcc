----------------------------- MODULE MCHistory -----------------------------
(***************************************************************************)
(* Instances for TLC of what a device keeps on its disk: the history of    *)
(* bindings, the journal of host changes and the networks it knows.  No    *)
(* two of these share state: focus says which one a behaviour is about,    *)
(* and the others stand still.  "faults" is about one request and failed   *)
(* writes, "networks" about two requests and none.                         *)
(***************************************************************************)
EXTENDS BindingHistory, HostJournal, LocalNetworks

CONSTANTS me, peer, c1, q2

VARIABLE focus

\* Every binding from a legacy one (0) on is signed but one, so that a
\* forgery is delivered too; every node's revocation at 1 is signed.
MCSignedBindings == ({me} \X {1}) \cup ({peer} \X {0, 1, 2})
MCSignedRevocations == Nodes \X {1}

MCChanges == {[kind |-> k, of |-> 1] : k \in JournalKinds} \cup {[kind |-> "nat", of |-> 2]}

\* The control planes are interchangeable: an older version's network is of c1.
HistoryInit ==
  /\ focus \in {"history", "journal", "networks", "faults"}
  /\ Init /\ JournalInit
  /\ LocalInit /\ settings \in IF focus \in {"networks", "faults"} THEN {c1, Nothing} ELSE {Nothing}

HistoryNext ==
  \/ focus = "history" /\ Next /\ UNCHANGED <<focus, journalVars, netVars>>
  \/ focus = "journal" /\ JournalNext /\ UNCHANGED <<focus, vars, netVars>>
  \/ focus = "networks" /\ LocalNext /\ netFaults' = 0 /\ UNCHANGED <<focus, vars, journalVars>>
  \/ focus = "faults" /\ LocalNext /\ reqs'[q2] = NoReq /\ UNCHANGED <<focus, vars, journalVars>>

HistorySpec == HistoryInit /\ [][HistoryNext]_<<focus, vars, journalVars, netVars>>

=============================================================================
