------------------------------- MODULE MCPlane -------------------------------
(***************************************************************************)
(* Instances for TLC of what the control plane and its nodes agree on: how *)
(* a node gets to know its control plane, who is logged in on it, which    *)
(* keys sign, and that its snapshot catches up.  No two of these share     *)
(* state: focus says which one a behaviour is about, the others stand      *)
(* still, and fairness is asked of that one alone.                         *)
(***************************************************************************)
EXTENDS SnapshotFeed, LoginSessions, SignerChain, Enrollment

VARIABLE focus

\* Two tables are enough to read one before and one after a commit.
MCOrder == <<"nodes", "sessions">>

PlaneInit ==
  /\ focus \in {"feed", "sessions", "signers", "enrollment"}
  /\ Init /\ LoginInit /\ SignerInit /\ EnrollInit

PlaneNext ==
  /\ UNCHANGED focus
  /\ \/ focus = "feed" /\ Next /\ UNCHANGED <<loginVars, signerVars, enrollVars>>
     \/ focus = "sessions" /\ LoginNext /\ UNCHANGED <<vars, signerVars, enrollVars>>
     \/ focus = "signers" /\ SignerNext /\ UNCHANGED <<vars, loginVars, enrollVars>>
     \/ focus = "enrollment" /\ EnrollNext /\ UNCHANGED <<vars, loginVars, signerVars>>

\* Of the feed: handlers and the node's loop go on, and a handler that
\* committed calls Notify.  Timeouts are not relied on: a change must be heard
\* of at once, not after the long poll's two minutes.  Of sessions: the loop
\* that calls ExpireSessions runs every 15 seconds, and time passes.  Nodes of
\* an honest control plane get a snapshot, with the whole signer chain, again
\* and again.  Node.Run goes on for as long as the process does: every request
\* has a deadline, and after each the loop asks again within five seconds.
PlaneSpec ==
  /\ PlaneInit /\ [][PlaneNext]_<<focus, vars, loginVars, signerVars, enrollVars>>
  /\ \A n \in Nodes : WF_vars(focus = "feed" /\ Serve(n))
  /\ \A v \in Versions : WF_vars(focus = "feed" /\ v \in notifies /\ Notify(v))
  /\ WF_loginVars(focus = "sessions" /\ Tick)
  /\ WF_loginVars(focus = "sessions" /\ ExpireSessions)
  /\ \A n \in SignerNodes : WF_signerVars(focus = "signers" /\ ~hostile /\ Follow(n, chain))
  /\ WF_enrollVars(focus = "enrollment" /\ LoopStep)

\* What no step does: decide a login again (CompleteLoginFlow), begin or end a
\* session without raising the snapshot version (EndSession, ExpireSessions),
\* leave the signer list a node follows (Store.Update), replace a pin or take
\* a node that is confirmed or revoked back to pending (CreatePending).
PlaneSteps == DecidedOnce /\ SessionChangeBumps /\ OnlyExtends /\ NothingIsTakenOver

\* What happens in the end: a node has the current snapshot (getSnapshot,
\* Node.follow), a session that ran out is ended (ExpireSessions), a node is
\* on the newest signer list (Store.Update), and an approval or a revocation
\* reaches the node's loop (Node.Run).
PlaneProgress ==
  /\ <>[](focus = "feed" => CaughtUp)
  /\ <>[](focus = "signers" => AtHead)
  /\ ExpiredEnds
  /\ ApprovalArrives

=============================================================================
