---------------------------- MODULE NodeLifecycle ----------------------------
(***************************************************************************)
(* The overlay of one node going up and down (internal/node/node.go): Up   *)
(* builds a session on the host step by step, close tears it down from any *)
(* goroutine and at any moment, watch notices the end, staleWatch ends a   *)
(* session whose snapshot ran out, and the control loop brings snapshots,  *)
(* refuses them, or learns that the node is not approved any more.         *)
(*                                                                         *)
(* Every critical section of Node.mu, every change of the host and every   *)
(* flag that says what to undo is a step of its own.  hostMu is held by Up *)
(* from newSession to its return; session.mu by the second half of         *)
(* teardown and by addBypass.                                              *)
(*                                                                         *)
(* Abstractions.  The node is a spoke (a hub has no staleWatch and no      *)
(* links).  A session has one hub link.  The host holds of a session the   *)
(* bypass route to the control plane, the TUN device (with the address and *)
(* every route through it, which go with the device), the NAT rules, and   *)
(* the bypass route to the hub.  Cancelling the session's context cancels  *)
(* the one apply derived from it at once (context.AfterFunc).  The first   *)
(* tick of staleWatch comes half a minute after it started, when Up has    *)
(* long returned.  Profiles, the status and Repair are left out.           *)
(***************************************************************************)
EXTENDS Naturals

CONSTANTS
  None,
  AutoUp,        \* Config.AutoUp
  MaxSessions,   \* bound on sessions
  MaxEvents      \* bound on what comes from outside, of every kind together

Sessions == 1..MaxSessions
MaxAsked == MaxEvents + MaxSessions + 1

ASSUME LifecycleAssumption ==
  /\ AutoUp \in BOOLEAN
  /\ {MaxSessions, MaxEvents} \subseteq Nat
  /\ None \notin Nat

\* What a session changes on the host, and which of it a flag of the
\* session remembers (s.dev, s.nat); the bypass map changes with the route.
Flagged == {"device", "nat"}
Bypass == {"control", "hub"}
Changes == Flagged \cup Bypass

\* Where apply is, before and after.
BuildSteps == {"control", "tun", "tunset", "address", "nat", "natset", "links", "listen"}
Places == {"unborn"} \cup BuildSteps \cup {"undo", "up", "over"}

\* Where a teardown is; from "nat" to "bypass" it holds session.mu.
Phases == {"no", "stop", "nat", "device", "bypass", "done"}
Locked == {"nat", "device", "bypass"}

VARIABLES
  snap,       \* the holder: no snapshot, a current one, a stale one
  sess,       \* Node.sess
  resume,     \* Node.resume # ""
  autoDone,   \* Node.autoDone
  asked,      \* calls of Up that have not begun a session yet
  session,    \* per session, its state and what the host has of it
  control,    \* where the control loop is, and the session it works on
  user,       \* where a call of DownByUser is
  made,       \* sessions so far
  events      \* ups, downs, refusals, failures and expiries so far

vars == <<snap, sess, resume, autoDone, asked, session, control, user, made, events>>

Unborn == [at |-> "unborn", cancelled |-> FALSE, host |-> {}, known |-> {},
           close |-> "no", undo |-> "no", stale |-> "off", link |-> "idle"]

Set(s, r) == session' = [session EXCEPT ![s] = r]

MuHeld(s) == {session[s].close, session[s].undo} \cap Locked # {}

HostMuHeld == \E s \in Sessions : session[s].at \in BuildSteps \cup {"undo"}

\* Something that the node does not do by itself.
Event == events < MaxEvents /\ events' = events + 1

\* close by its first caller: teardown begins, and begins with s.cancel.
\* Later callers find the once taken.
Closed(r) == IF r.close = "no" THEN [r EXCEPT !.close = "stop", !.cancelled = TRUE] ELSE r

Close(s) == Set(s, Closed(session[s]))

\* resumeLocked, with n.sess as it is (or is about to be): whether the
\* overlay comes back now.
Resumes(current) == resume /\ current = None /\ snap = "current"

-----------------------------------------------------------------------------
\* `up`, by the user or a program.
AskUp ==
  /\ Event
  /\ asked' = asked + 1
  /\ UNCHANGED <<snap, sess, resume, autoDone, session, control, user, made>>

\* waitReady gave up, the overlay is up already, no snapshot, no profile.
UpRefused ==
  /\ asked > 0
  /\ asked' = asked - 1
  /\ UNCHANGED <<snap, sess, resume, autoDone, session, control, user, made, events>>

\* Up's first critical section: a session, and no resume any more.
UpBegins ==
  /\ asked > 0
  /\ ~HostMuHeld
  /\ sess = None
  /\ snap = "current"
  /\ made < MaxSessions
  /\ asked' = asked - 1
  /\ made' = made + 1
  /\ sess' = made + 1
  /\ resume' = FALSE
  /\ Set(made + 1, [Unborn EXCEPT !.at = "control"])
  /\ UNCHANGED <<snap, autoDone, control, user, events>>

Built(s, r) ==
  /\ Set(s, r)
  /\ UNCHANGED <<snap, sess, resume, autoDone, asked, control, user, made, events>>

Disturbed(s, r) ==
  /\ Event
  /\ Set(s, r)
  /\ UNCHANGED <<snap, sess, resume, autoDone, asked, control, user, made>>

\* addBypassHost: the lookup may answer from memory, and addBypass has a
\* context of its own.
AddControlBypass(s) ==
  /\ session[s].at = "control"
  /\ ~MuHeld(s)
  /\ Built(s, [session[s] EXCEPT !.at = "tun", !.host = @ \cup {"control"}])

\* CreateTUN takes no context; the session learns of the device after it.
CreateTUN(s) ==
  \/ /\ session[s].at = "tun"
     /\ Built(s, [session[s] EXCEPT !.at = "tunset", !.host = @ \cup {"device"}])
  \/ /\ session[s].at = "tunset"
     /\ Built(s, [session[s] EXCEPT !.at = "address", !.known = @ \cup {"device"}])

\* Mutant: apply runs under the caller's context (as it did before R143).
SetAddressDetached(s) ==
  /\ session[s].at = "address"
  /\ Built(s, [session[s] EXCEPT !.at = "nat"])

\* SetAddress, ReplyViaArrival, AddRoute: nothing of a cancelled context.
SetAddress(s) ==
  /\ session[s].at = "address"
  /\ ~session[s].cancelled
  /\ Built(s, [session[s] EXCEPT !.at = "nat"])

\* Forwarding and applyNAT: nothing is asked of the host, and no context
\* looked at, for a node that forwards nothing.
ApplyNAT(s) ==
  \/ /\ session[s].at = "nat"
     /\ Built(s, [session[s] EXCEPT !.at = "links"])
  \/ /\ session[s].at = "nat"
     /\ ~session[s].cancelled
     /\ Built(s, [session[s] EXCEPT !.at = "natset", !.host = @ \cup {"nat"}])
  \/ /\ session[s].at = "natset"
     /\ Built(s, [session[s] EXCEPT !.at = "links", !.known = @ \cup {"nat"}])

\* The links, staleWatch and the paths start; then Up returns, with watch.
StartLinks(s) ==
  \/ /\ session[s].at = "links"
     /\ Built(s, [session[s] EXCEPT !.at = "listen", !.stale = "on"])
  \/ /\ session[s].at = "listen"
     /\ Built(s, [session[s] EXCEPT !.at = "up"])

Failed(r) == [r EXCEPT !.at = "undo", !.undo = "stop", !.cancelled = TRUE]

\* A call of apply fails, because of its context or by itself: Up tears down
\* what there is.
ApplyFails(s) ==
  \/ /\ session[s].at \in {"control", "address", "nat", "listen"}
     /\ session[s].cancelled
     /\ Built(s, Failed(session[s]))
  \/ /\ session[s].at \in {"control", "tun", "address", "nat", "listen"}
     /\ Disturbed(s, Failed(session[s]))

\* What the phase of a teardown takes from the host: what the session's
\* flags say, and every bypass route.
Undone(r, phase) ==
  CASE phase = "stop"   -> {}
    [] phase = "bypass" -> Bypass
    [] OTHER            -> r.known \cap {phase}

After == [stop |-> "nat", nat |-> "device", device |-> "bypass", bypass |-> "done"]

\* One step of a teardown, by close or by a failing Up.
Teardown(s, by) ==
  LET r == session[s]
      phase == IF by = "close" THEN r.close ELSE r.undo
      less == [r EXCEPT !.host = @ \ Undone(r, phase), !.known = @ \ Undone(r, phase)]
  IN /\ phase \in DOMAIN After
     /\ phase = "stop" => ~MuHeld(s)
     /\ IF by = "close"
        THEN Built(s, [less EXCEPT !.close = After[phase]])
        ELSE Built(s, [less EXCEPT !.undo = After[phase]])

\* Up returns its error.
UpFails(s) ==
  /\ session[s].at = "undo"
  /\ session[s].undo = "done"
  /\ Set(s, [session[s] EXCEPT !.at = "over"])
  /\ sess' = IF sess = s THEN None ELSE sess
  /\ UNCHANGED <<snap, resume, autoDone, asked, control, user, made, events>>

\* Mutant: only a snapshot brings the overlay back (as before 2026-10-28).
WatchOnly(s) ==
  /\ session[s].at = "up"
  /\ session[s].close = "done"
  /\ Set(s, [session[s] EXCEPT !.at = "over"])
  /\ sess' = IF sess = s THEN None ELSE sess
  /\ UNCHANGED <<snap, resume, autoDone, asked, control, user, made, events>>

\* watch: the session has ended; asks whether the overlay comes back.
Watch(s) ==
  LET now == IF sess = s THEN None ELSE sess
      back == Resumes(now)
  IN /\ session[s].at = "up"
     /\ session[s].close = "done"
     /\ Set(s, [session[s] EXCEPT !.at = "over"])
     /\ sess' = now
     /\ resume' = (resume /\ ~back)
     /\ asked' = IF back THEN asked + 1 ELSE asked
     /\ UNCHANGED <<snap, autoDone, control, user, made, events>>

-----------------------------------------------------------------------------
\* staleWatch: a tick that finds the snapshot stale or gone.  The select may
\* take the tick although the session is being closed.
StaleTick(s) ==
  /\ session[s].at = "up"
  /\ session[s].stale = "on"
  /\ snap # "current"
  /\ resume' = (resume \/ sess = s)
  /\ Set(s, [session[s] EXCEPT !.stale = "marked"])
  /\ UNCHANGED <<snap, sess, autoDone, asked, control, user, made, events>>

\* ... and closes the session, or ends with it.
StaleEnds(s) ==
  \/ /\ session[s].stale = "marked"
     /\ Built(s, [Closed(session[s]) EXCEPT !.stale = "off"])
  \/ /\ session[s].stale = "on"
     /\ session[s].cancelled
     /\ Built(s, [session[s] EXCEPT !.stale = "off"])

\* The hub says the node is revoked, or the TUN reader fails.
FailsItself(s) ==
  /\ session[s].at \in {"listen", "up"}
  /\ session[s].close = "no"
  /\ Disturbed(s, Closed(session[s]))

\* A hub link: the context is looked at before the hub's name is resolved,
\* not before its bypass route is added.
LinkDials(s) ==
  \/ /\ session[s].at \in {"listen", "up"}
     /\ session[s].link = "idle"
     /\ ~session[s].cancelled
     /\ "hub" \notin session[s].host
     /\ Built(s, [session[s] EXCEPT !.link = "resolved"])
  \/ /\ session[s].link = "resolved"
     /\ ~MuHeld(s)
     /\ Built(s, [session[s] EXCEPT !.link = "idle", !.host = @ \cup {"hub"}])

-----------------------------------------------------------------------------
\* DownByUser: first the resume, then Down.
DownByUser ==
  /\ user = "idle"
  /\ Event
  /\ user' = "down"
  /\ resume' = FALSE
  /\ UNCHANGED <<snap, sess, autoDone, asked, session, control, made>>

UserDown ==
  /\ user = "down"
  /\ user' = "idle"
  /\ IF sess = None THEN UNCHANGED session ELSE Close(sess)
  /\ UNCHANGED <<snap, sess, resume, autoDone, asked, control, made, events>>

-----------------------------------------------------------------------------
\* Time passes without an answer of the control plane.
Ages ==
  /\ snap = "current"
  /\ Event
  /\ snap' = "stale"
  /\ UNCHANGED <<sess, resume, autoDone, asked, session, control, user, made>>

\* Client.Run: "not modified" makes the snapshot current again (Touch).
NotModified ==
  /\ control.at = "idle"
  /\ snap = "stale"
  /\ snap' = "current"
  /\ UNCHANGED <<sess, resume, autoDone, asked, session, control, user, made, events>>

\* Client.Run: a snapshot that verifies is stored ...
StoreSnapshot ==
  /\ control.at = "idle"
  /\ snap' = "current"
  /\ control' = [control EXCEPT !.at = "stored"]
  /\ UNCHANGED <<sess, resume, autoDone, asked, session, user, made, events>>

\* ... and onSnapshot decides what it means for the overlay,
OnSnapshot ==
  LET back == Resumes(sess)
      auto == back \/ (AutoUp /\ ~autoDone /\ sess = None)
  IN /\ control.at = "stored"
     /\ control' = IF sess = None THEN [at |-> "idle", of |-> None] ELSE [at |-> "diff", of |-> sess]
     /\ resume' = (resume /\ ~back)
     /\ autoDone' = (autoDone \/ auto)
     /\ asked' = IF auto THEN asked + 1 ELSE asked
     /\ UNCHANGED <<snap, sess, session, user, made, events>>

\* and applyDiff sets or removes NAT rules if the node's own record changed.
ApplyDiff ==
  LET s == control.of
      r == session[s]
  IN /\ control.at = "diff"
     /\ control' = [at |-> "idle", of |-> None]
     /\ \/ UNCHANGED session
        \/ Set(s, [r EXCEPT !.host = @ \cup {"nat"}, !.known = @ \cup {"nat"}])
        \/ /\ "nat" \in r.known
           /\ Set(s, [r EXCEPT !.host = @ \ {"nat"}, !.known = @ \ {"nat"}])
     /\ UNCHANGED <<snap, sess, resume, autoDone, asked, user, made, events>>

\* verifySnapshot refuses the node's own record; the holder keeps the old
\* snapshot until Down has returned.
Refuse ==
  /\ control.at = "idle"
  /\ Event
  /\ control' = [control EXCEPT !.at = "refused"]
  /\ autoDone' = FALSE
  /\ UNCHANGED <<snap, sess, resume, asked, session, user, made>>

\* The control plane does not approve the node any more: Clear comes first.
NotApproved ==
  /\ control.at = "idle"
  /\ Event
  /\ control' = [control EXCEPT !.at = "refused"]
  /\ autoDone' = FALSE
  /\ snap' = "none"
  /\ UNCHANGED <<sess, resume, asked, session, user, made>>

\* Down of the control loop: it closes the session there is ...
ControlDown ==
  /\ control.at = "refused"
  /\ control' = [at |-> "down", of |-> sess]
  /\ IF sess = None THEN UNCHANGED session ELSE Close(sess)
  /\ UNCHANGED <<snap, sess, resume, autoDone, asked, user, made, events>>

\* ... and waits for its end; then the refused node has no snapshot.
Cleared ==
  /\ control.at = "down"
  /\ control.of # None => session[control.of].close = "done"
  /\ control' = [at |-> "idle", of |-> None]
  /\ snap' = "none"
  /\ UNCHANGED <<sess, resume, autoDone, asked, session, user, made, events>>

-----------------------------------------------------------------------------
Init ==
  /\ snap = "none"
  /\ sess = None
  /\ resume = FALSE
  /\ autoDone = FALSE
  /\ asked = 0
  /\ session = [s \in Sessions |-> Unborn]
  /\ control = [at |-> "idle", of |-> None]
  /\ user = "idle"
  /\ made = 0
  /\ events = 0

Apply(s) ==
  \/ AddControlBypass(s) \/ CreateTUN(s) \/ SetAddress(s)
  \/ ApplyNAT(s) \/ StartLinks(s) \/ ApplyFails(s)

Ends(s) ==
  \/ Teardown(s, "close") \/ Teardown(s, "undo") \/ UpFails(s) \/ Watch(s)

Next ==
  \/ AskUp \/ UpRefused \/ UpBegins
  \/ \E s \in Sessions : \/ Apply(s) \/ Ends(s) \/ StaleTick(s) \/ StaleEnds(s)
                         \/ FailsItself(s) \/ LinkDials(s)
  \/ DownByUser \/ UserDown
  \/ Ages \/ NotModified \/ StoreSnapshot \/ OnSnapshot \/ ApplyDiff
  \/ Refuse \/ NotApproved \/ ControlDown \/ Cleared

Spec == Init /\ [][Next]_vars

\* A goroutine that can go on does: calls end, tickers tick, the control
\* loop finishes what it began.  What users and the control plane do, and
\* the passing of time, is owed to nobody.
FairSpec ==
  /\ Spec
  /\ \A s \in Sessions :
       /\ WF_vars(Apply(s)) /\ WF_vars(Teardown(s, "close")) /\ WF_vars(Teardown(s, "undo"))
       /\ WF_vars(UpFails(s)) /\ WF_vars(Watch(s)) /\ WF_vars(StaleTick(s)) /\ WF_vars(StaleEnds(s))
  /\ WF_vars(UpRefused \/ UpBegins) /\ WF_vars(UserDown)
  /\ WF_vars(OnSnapshot) /\ WF_vars(ApplyDiff) /\ WF_vars(ControlDown) /\ WF_vars(Cleared)

-----------------------------------------------------------------------------
SessionRecord ==
  [at : Places, cancelled : BOOLEAN, host : SUBSET Changes, known : SUBSET Flagged,
   close : Phases, undo : Phases, stale : {"off", "on", "marked"}, link : {"idle", "resolved"}]

\* Every variable keeps its type: the node's lock-protected fields, the
\* sessions and the pending calls of Up.
TypeOK ==
  /\ snap \in {"none", "current", "stale"}
  /\ sess \in Sessions \cup {None}
  /\ resume \in BOOLEAN
  /\ autoDone \in BOOLEAN
  /\ asked \in 0..MaxAsked
  /\ session \in [Sessions -> SessionRecord]
  /\ control \in [at : {"idle", "stored", "diff", "refused", "down"}, of : Sessions \cup {None}]
  /\ user \in {"idle", "down"}
  /\ made \in 0..MaxSessions
  /\ events \in 0..MaxEvents

\* What apply set up never outlives its session, whenever and by whomever
\* it was closed while it was built (session.apply, R143).
BuiltIsUndone ==
  \A s \in Sessions : session[s].at = "over" => session[s].host \cap {"control", "device"} = {}

\* Two sessions never have a TUN device at the same time: Up does not begin
\* before the last device is gone (Up, watch, hostMu).
OneDevice ==
  \A s, t \in Sessions : "device" \in session[s].host \cap session[t].host => s = t

\* A spoke whose snapshot has run out, or was taken away, does not keep its
\* overlay (staleWatch, R26).
StaleGoesDown ==
  \A s \in Sessions : (sess = s /\ snap # "current") ~> (snap = "current" \/ sess # s)

\* A snapshot that arrives while the overlay waits to come back brings it
\* back, also when the old session is still being torn down (resumeLocked).
SnapshotResumes ==
  (resume /\ control.at = "stored") ~> (~resume \/ snap # "current")

\* The overlay follows the snapshot: down when it runs out (staleWatch), up
\* again when one arrives (resumeLocked).
OverlayFollows == StaleGoesDown /\ SnapshotResumes

\* An overlay that waits to come back comes back once the snapshot is
\* current again and the old session is gone (resumeLocked).
CurrentResumes ==
  (resume /\ sess = None /\ snap = "current") ~> (~resume \/ snap # "current")

\* What Up built is undone by the time its session is over, and two sessions
\* never have a device at the same time (Up, watch, Down).
LifecycleInv == TypeOK /\ BuiltIsUndone /\ OneDevice

=============================================================================
