---------------------------- MODULE LoginSessions ----------------------------
(***************************************************************************)
(* User logins of the control plane: the flow a node starts, the browser   *)
(* that comes back from the identity provider, the page on which a person  *)
(* confirms the device, and the session that confirmation stores.          *)
(*                                                                         *)
(* An action is one database transaction or statement.  Two handlers talk  *)
(* to the identity provider between their checks and their statement, and  *)
(* what they saw may be old by then: `callbacks' are oidcCallback requests *)
(* that found a pending flow and read its node, `confirms' oidcConfirm     *)
(* requests that found a valid page and an approved node.  A request that  *)
(* fails at the identity provider without touching the flow is one that    *)
(* never goes on.  A page can be submitted from several tabs.              *)
(*                                                                         *)
(* Abstractions.  The confirmation token is its flow: only a flow that     *)
(* reached "confirm" has a page.  The node's status is a variable of its   *)
(* own, moved by what NodeRegistry models.  CreateLoginFlow's request was  *)
(* authenticated as an approved node at some earlier time, and every node  *)
(* here once was.  The clock does not go back.                             *)
(***************************************************************************)
EXTENDS Naturals, FiniteSets

CONSTANTS
  LoginNodes, Flows, Subjects, Tabs,
  Nobody,
  MaxOpen,      \* maxOpenLoginFlows
  FlowTTL,      \* LoginFlowTTL
  ConfirmTTL,   \* LoginConfirmTTL
  SessionTTL,   \* SessionLifetime
  FlowKept,     \* ExpireSessions keeps flows for an hour
  Retention,    \* PruneSessions keeps ended sessions this long
  MaxInFlight,  \* bound on requests at the identity provider
  MaxTime,      \* bound on the clock
  MaxLoginVersion    \* bound on the snapshot version

ASSUME LoginAssumption ==
  /\ MaxOpen \in Nat \ {0}
  /\ {FlowTTL, ConfirmTTL, SessionTTL, MaxTime} \subseteq Nat \ {0}
  /\ {FlowKept, Retention, MaxInFlight, MaxLoginVersion} \subseteq Nat
  /\ IsFiniteSet(Flows)
  /\ Nobody \notin Subjects

VARIABLES
  nodes,        \* status of each node
  flows,        \* table login_flows
  sessions,     \* table user_sessions: a set of rows
  callbacks,    \* oidcCallback requests at the identity provider
  confirms,     \* oidcConfirm requests at the identity provider
  issued,       \* session ids handed out
  loginVersion,      \* snapshot_version
  now           \* clock

loginVars == <<nodes, flows, sessions, callbacks, confirms, issued, loginVersion, now>>

-----------------------------------------------------------------------------
NoFlow == [status |-> "none", node |-> Nobody, created |-> 0, expires |-> 0,
           subject |-> Nobody, until |-> 0, session |-> 0]

Open(f) == flows[f].status \in {"pending", "confirm"}

\* The flows of a node that count against MaxOpen.
OpenOf(n) == {f \in Flows : Open(f) /\ flows[f].node = n /\ flows[f].expires > now}

Active(s) == s.ended = 0

\* The rows with those that `which' selects ended now.
Ended(rows, which(_)) == {IF Active(s) /\ which(s) THEN [s EXCEPT !.ended = now] ELSE s : s \in rows}

\* The bound on what is at the identity provider.
Room == Cardinality(callbacks) + Cardinality(confirms) < MaxInFlight

Bump == loginVersion < MaxLoginVersion /\ loginVersion' = loginVersion + 1

\* FailLoginFlow: nothing happens to a flow that is decided.
Failed(f) == IF Open(f) THEN [flows EXCEPT ![f].status = "failed"] ELSE flows

-----------------------------------------------------------------------------
LoginInit ==
  /\ nodes = [n \in LoginNodes |-> "approved"]
  /\ flows = [f \in Flows |-> NoFlow]
  /\ sessions = {}
  /\ callbacks = {}
  /\ confirms = {}
  /\ issued = 0
  /\ loginVersion = 0
  /\ now = 1

\* The newest MaxOpen - 1 open flows stay.
CreateLoginFlow(f, n) ==
  /\ flows[f].status = "none"
  /\ \E out \in SUBSET OpenOf(n) :
       LET kept == OpenOf(n) \ out
       IN  /\ Cardinality(kept) <= MaxOpen - 1
           /\ out # {} => Cardinality(kept) = MaxOpen - 1
           /\ \A o \in out, k \in kept : flows[o].created <= flows[k].created
           /\ flows' = [g \in Flows |->
                IF g = f THEN [NoFlow EXCEPT !.status = "pending", !.node = n, !.created = now, !.expires = now + FlowTTL]
                ELSE IF g \in out THEN [flows[g] EXCEPT !.status = "failed"] ELSE flows[g]]
  /\ UNCHANGED <<nodes, sessions, callbacks, confirms, issued, loginVersion, now>>

\* oidcCallback up to the identity provider: LoginFlowByState and NodeByID.
\* The provider lets one of its people in.
OidcCallback(f, u) ==
  /\ Room
  /\ flows[f].status = "pending"
  /\ now < flows[f].expires
  /\ callbacks' = callbacks \cup {[flow |-> f, approved |-> nodes[flows[f].node] = "approved", subject |-> u]}
  /\ UNCHANGED <<nodes, flows, sessions, confirms, issued, loginVersion, now>>

\* failFlow: the provider refused, or the node was not approved when read.
CallbackFails(c) ==
  /\ callbacks' = callbacks \ {c}
  /\ flows' = Failed(c.flow)
  /\ UNCHANGED <<nodes, sessions, confirms, issued, loginVersion, now>>

\* Only a flow still pending takes an identity; its expiry is not looked at
\* again, but the page is never valid for longer than the flow.
AwaitLoginConfirmation(c) ==
  /\ c.approved
  /\ flows[c.flow].status = "pending"
  /\ flows' = [flows EXCEPT ![c.flow].status = "confirm",
                            ![c.flow].subject = c.subject,
                            ![c.flow].until = IF flows[c.flow].expires < now + ConfirmTTL
                                              THEN flows[c.flow].expires ELSE now + ConfirmTTL]
  /\ callbacks' = callbacks \ {c}
  /\ UNCHANGED <<nodes, sessions, confirms, issued, loginVersion, now>>

\* LoginFlowForConfirmation's time checks.
PageValid(f) == now < flows[f].until /\ now < flows[f].expires

\* oidcConfirm up to the identity provider: the "Sign in this device" button.
OidcConfirm(f, tab) ==
  /\ Room
  /\ flows[f].status = "confirm"
  /\ PageValid(f)
  /\ nodes[flows[f].node] = "approved"
  /\ confirms' = confirms \cup {[flow |-> f, tab |-> tab, node |-> flows[f].node, subject |-> flows[f].subject]}
  /\ UNCHANGED <<nodes, flows, sessions, callbacks, issued, loginVersion, now>>

\* The button comes too late, is Cancel, or the node is not approved.
ConfirmFails(f) ==
  /\ flows[f].status = "confirm"
  /\ flows' = Failed(f)
  /\ UNCHANGED <<nodes, sessions, callbacks, confirms, issued, loginVersion, now>>

NewSession(c) ==
  [id |-> issued + 1, flow |-> c.flow, node |-> c.node, subject |-> c.subject, expires |-> now + SessionTTL, ended |-> 0]

\* Mutant: the previous session is left.
CompleteBeside(c) ==
  /\ flows[c.flow].status = "confirm"
  /\ flows' = [flows EXCEPT ![c.flow].status = "done", ![c.flow].session = issued + 1]
  /\ sessions' = sessions \cup {NewSession(c)}
  /\ issued' = issued + 1
  /\ confirms' = confirms \ {c}
  /\ Bump
  /\ UNCHANGED <<nodes, callbacks, now>>

\* Neither the node's status nor the time is looked at again.
CompleteLoginFlow(c) ==
  /\ flows[c.flow].status = "confirm"
  /\ flows' = [flows EXCEPT ![c.flow].status = "done", ![c.flow].session = issued + 1]
  /\ sessions' = Ended(sessions, LAMBDA s : s.node = c.node) \cup {NewSession(c)}
  /\ issued' = issued + 1
  /\ confirms' = confirms \ {c}
  /\ Bump
  /\ UNCHANGED <<nodes, callbacks, now>>

\* ErrConflict: the flow was decided, or deleted, while the request waited.
Conflict ==
  /\ \/ \E c \in callbacks : flows[c.flow].status # "pending" /\ callbacks' = callbacks \ {c} /\ UNCHANGED confirms
     \/ \E c \in confirms : flows[c.flow].status # "confirm" /\ confirms' = confirms \ {c} /\ UNCHANGED callbacks
  /\ UNCHANGED <<nodes, flows, sessions, issued, loginVersion, now>>

\* EndSession by an administrator or nodeLogout.  The request names the
\* session it saw, however long ago.
EndSession(s) ==
  /\ Active(s)
  /\ sessions' = Ended(sessions, LAMBDA t : t = s)
  /\ Bump
  /\ UNCHANGED <<nodes, flows, callbacks, confirms, issued, now>>

Expired(s) == Active(s) /\ s.expires <= now

StaleFlow(f) ==
  \/ flows[f].expires + FlowKept < now
  \/ flows[f].status # "pending" /\ flows[f].created + FlowKept < now

\* Mutant: one clock tick late, so never for the last one.
ExpireLate ==
  /\ \E s \in sessions : Expired(s) /\ s.expires < now
  /\ sessions' = Ended(sessions, LAMBDA s : s.expires < now)
  /\ Bump
  /\ UNCHANGED <<nodes, flows, callbacks, confirms, issued, now>>

\* ExpireSessions, from its own loop: expired sessions end, and
\* flows an hour old are deleted.  A run with nothing to do is a stutter.
ExpireSessions ==
  LET stale == {f \in Flows : flows[f].status \notin {"none", "deleted"} /\ StaleFlow(f)}
  IN  /\ stale # {} \/ \E s \in sessions : Expired(s)
      /\ sessions' = Ended(sessions, Expired)
      /\ flows' = [f \in Flows |-> IF f \in stale THEN [NoFlow EXCEPT !.status = "deleted"] ELSE flows[f]]
      /\ IF \E s \in sessions : Expired(s) THEN Bump ELSE UNCHANGED loginVersion
      /\ UNCHANGED <<nodes, callbacks, confirms, issued, now>>

PruneSessions ==
  LET old == {s \in sessions : ~Active(s) /\ s.ended + Retention < now}
  IN  /\ old # {}
      /\ sessions' = sessions \ old
      /\ UNCHANGED <<nodes, flows, callbacks, confirms, issued, loginVersion, now>>

\* RevokeNode ends the node's sessions in the same transaction.
RevokeNode(n) ==
  /\ nodes[n] # "revoked"
  /\ nodes' = [nodes EXCEPT ![n] = "revoked"]
  /\ sessions' = Ended(sessions, LAMBDA s : s.node = n)
  /\ Bump
  /\ UNCHANGED <<flows, callbacks, confirms, issued, now>>

\* UpdateNode takes an approval back, ApproveSigned gives it again.
Reapprove(n) ==
  /\ nodes[n] # "revoked"
  /\ nodes' = [nodes EXCEPT ![n] = IF @ = "approved" THEN "confirmed" ELSE "approved"]
  /\ Bump
  /\ UNCHANGED <<flows, sessions, callbacks, confirms, issued, now>>

Tick ==
  /\ now < MaxTime
  /\ now' = now + 1
  /\ UNCHANGED <<nodes, flows, sessions, callbacks, confirms, issued, loginVersion>>

LoginNext ==
  \/ \E f \in Flows, n \in LoginNodes : CreateLoginFlow(f, n)
  \/ \E f \in Flows, u \in Subjects : OidcCallback(f, u)
  \/ \E c \in callbacks : CallbackFails(c) \/ AwaitLoginConfirmation(c)
  \/ \E f \in Flows : ConfirmFails(f) \/ \E tab \in Tabs : OidcConfirm(f, tab)
  \/ \E c \in confirms : CompleteLoginFlow(c)
  \/ Conflict
  \/ \E s \in sessions : EndSession(s)
  \/ ExpireSessions
  \/ PruneSessions
  \/ \E n \in LoginNodes : RevokeNode(n) \/ Reapprove(n)
  \/ Tick

LoginSpec == LoginInit /\ [][LoginNext]_loginVars

-----------------------------------------------------------------------------
Flow ==
  [status : {"none", "pending", "confirm", "done", "failed", "deleted"}, node : LoginNodes \cup {Nobody},
   created : 0..MaxTime, expires : 0..(MaxTime + FlowTTL), subject : Subjects \cup {Nobody},
   until : 0..(MaxTime + FlowTTL), session : 0..MaxLoginVersion]

Session ==
  [id : 1..MaxLoginVersion, flow : Flows, node : LoginNodes, subject : Subjects,
   expires : 0..(MaxTime + SessionTTL), ended : 0..MaxTime]

LoginTypeOK ==
  /\ nodes \in [LoginNodes -> {"approved", "confirmed", "revoked"}]
  /\ flows \in [Flows -> Flow]
  /\ sessions \in SUBSET Session
  /\ callbacks \in SUBSET [flow : Flows, approved : BOOLEAN, subject : Subjects]
  /\ confirms \in SUBSET [flow : Flows, tab : Tabs, node : LoginNodes, subject : Subjects]
  /\ issued \in 0..loginVersion
  /\ loginVersion \in 0..MaxLoginVersion
  /\ now \in 1..MaxTime

\* A session is what one person confirmed on one page: its flow, as long as
\* it is kept, is done, names this session and nobody else's identity, and
\* belongs to the same node -- whatever callbacks and tabs raced for it.
SessionMatchesFlow ==
  \A s \in sessions :
    LET f == flows[s.flow]
    IN  f.status # "deleted" => f.status = "done" /\ f.session = s.id /\ f.subject = s.subject /\ f.node = s.node

\* "One active session per node; a new login replaces the old one"
\* (docs/OIDC.md): SessionForNode reads one row and registry.SessionFor
\* serves the first it finds.
OneActiveSession == \A s, t \in sessions : Active(s) /\ Active(t) /\ s.node = t.node => s = t

\* "A node has at most maxOpen flows open" (CreateLoginFlow), although
\* flows also leave and enter "confirm" on their own.
OpenBounded == \A n \in LoginNodes : Cardinality(OpenOf(n)) <= MaxOpen

\* A flow that is decided stays so: one that failed, was cancelled or
\* replaced never completes, and one that is done keeps its session, until
\* housekeeping deletes it.
DecidedOnce ==
  [][\A f \in Flows : flows[f].status \in {"done", "failed", "deleted"} =>
       flows'[f] = flows[f] \/ flows'[f].status = "deleted"]_loginVars

\* Any change to the set of active sessions raises the version: nodes hear
\* of a login, a logout, a revocation and an expiry (docs/API.md).
SessionChangeBumps ==
  [][{s \in sessions' : s.ended = 0} # {s \in sessions : s.ended = 0} => loginVersion' > loginVersion]_loginVars

\* Again and again no session is left that has run out: the expiry loop, no
\* client has to ask for it.  (A session that would run out after the clock's
\* bound says nothing; neither does one at the version's bound.)
ExpiredEnds ==
  []<>(loginVersion = MaxLoginVersion \/ \A s \in sessions : ~Expired(s))

\* A session is of the person and the node whose login was confirmed, a node
\* has at most one that is active (CompleteLoginFlow), and the open logins of
\* a node stay within their limit (CreateLoginFlow), although confirmations,
\* cancels and ends overtake each other at the identity provider.
LoginInv == LoginTypeOK /\ SessionMatchesFlow /\ OneActiveSession /\ OpenBounded

=============================================================================
