------------------------ MODULE NodeLifecycle_proofs ------------------------
(***************************************************************************)
(* Proofs about NodeLifecycle: whoever closes a session at whatever step   *)
(* of apply, nothing of what apply set up outlives it, and two sessions    *)
(* never have a device at the same time; for any number of sessions and    *)
(* events.                                                                 *)
(***************************************************************************)
EXTENDS NodeLifecycle, FiniteSetTheorems, TLAPS

-----------------------------------------------------------------------------
(***************************************************************************)
(* The inductive invariant.                                                *)
(***************************************************************************)

\* apply has asked after the context for the first time since the device was
\* created: a session closed before that has not come here.
Late == {"nat", "natset", "links", "listen", "up"}

\* What a teardown in this phase has behind it.
Behind(phase, host) ==
  /\ phase \in {"bypass", "done"} => "device" \notin host
  /\ phase = "done" => "control" \notin host

\* What holds of a session by itself: a closed one is cancelled, a flag says
\* that there is a device as soon as anything but CreateTUN runs, and of the
\* two teardowns the one that will end the session undoes what apply did.
SessionFine(r) ==
  /\ r.close # "no" => r.cancelled
  /\ r.at \in {"unborn", "control", "tun"} => "device" \notin r.host
  /\ r.at # "tunset" => ("device" \in r.host => "device" \in r.known)
  /\ r.at = "undo" => Behind(r.undo, r.host)
  /\ r.at \in Late => Behind(r.close, r.host)
  /\ r.at = "over" => r.host \cap {"control", "device"} = {}

SessionsFine == \A s \in Sessions : SessionFine(session[s])

\* A session that has begun and is not over is the node's.
OneSession == \A s \in Sessions : session[s].at \notin {"unborn", "over"} => sess = s

\* The control loop applies a snapshot to a session that there was.
DiffHasSession == control.at = "diff" => control.of \in Sessions

\* Sessions whose staleWatch may still mark them, once.
Unmarked(r) == r.at \in {"unborn"} \cup (BuildSteps \ {"listen"}) \/ r.stale = "on"
MayMark == {s \in Sessions : Unmarked(session[s])}

\* Every call of Up that waits was an event, or will not be made again: a
\* session is marked for a resume once, and the automatic call is made once
\* after each refusal.
Budget ==
  /\ asked \in Nat
  /\ asked + (IF resume THEN 1 ELSE 0) + (IF autoDone THEN 0 ELSE 1) + Cardinality(MayMark)
       <= events + MaxSessions + 1

LifecycleTypes ==
  /\ snap \in {"none", "current", "stale"}
  /\ sess \in Sessions \cup {None}
  /\ resume \in BOOLEAN
  /\ autoDone \in BOOLEAN
  /\ session \in [Sessions -> SessionRecord]
  /\ control \in [at : {"idle", "stored", "diff", "refused", "down"}, of : Sessions \cup {None}]
  /\ user \in {"idle", "down"}
  /\ made \in 0..MaxSessions
  /\ events \in 0..MaxEvents

LifecycleIInv == LifecycleTypes /\ SessionsFine /\ OneSession /\ DiffHasSession /\ Budget

\* The invariant implies what the runs check.
LEMMA IInvIsEnough == LifecycleIInv => LifecycleInv
<1> SUFFICES ASSUME LifecycleIInv PROVE LifecycleInv
  OBVIOUS
<1> USE LifecycleAssumption
<1>1. IsFiniteSet(MayMark) /\ Cardinality(MayMark) \in Nat
  <2>1. MayMark \subseteq Sessions /\ IsFiniteSet(Sessions)
    BY FS_Interval DEF MayMark, Sessions
  <2>2. QED
    BY <2>1, FS_Subset, FS_CardinalityType
<1>2. asked \in 0..MaxAsked
  <2>1. asked <= events + MaxSessions + 1
    <3> DEFINE r == IF resume THEN 1 ELSE 0
               a == IF autoDone THEN 0 ELSE 1
    <3>1. r \in Nat /\ a \in Nat
      OBVIOUS
    <3>2. asked + r + a + Cardinality(MayMark) <= events + MaxSessions + 1 /\ asked \in Nat
      BY DEF LifecycleIInv, Budget
    <3> HIDE DEF r, a
    <3>3. QED
      BY <1>1, <3>1, <3>2 DEF LifecycleIInv, LifecycleTypes
  <2>2. QED
    BY <2>1 DEF LifecycleIInv, LifecycleTypes, Budget, MaxAsked
<1>3. TypeOK
  BY <1>2 DEF LifecycleIInv, LifecycleTypes, TypeOK
<1>4. BuiltIsUndone
  BY DEF LifecycleIInv, SessionsFine, SessionFine, BuiltIsUndone
<1>5. OneDevice
  <2>1. ASSUME NEW s \in Sessions, "device" \in session[s].host PROVE sess = s
    BY <2>1 DEF LifecycleIInv, SessionsFine, SessionFine, OneSession
  <2>2. QED
    BY <2>1 DEF OneDevice
<1>6. QED
  BY <1>3, <1>4, <1>5 DEF LifecycleInv

LEMMA InitLifecycle == Init => LifecycleIInv
<1> SUFFICES ASSUME Init PROVE LifecycleIInv
  OBVIOUS
<1> USE LifecycleAssumption
<1>1. Unborn \in SessionRecord
  BY DEF Unborn, SessionRecord, Places, Phases
<1>2. LifecycleTypes
  <2>1. 0 \in 0..MaxSessions /\ 0 \in 0..MaxEvents
    OBVIOUS
  <2>2. session \in [Sessions -> SessionRecord]
    BY <1>1 DEF Init
  <2>3. control \in [at : {"idle", "stored", "diff", "refused", "down"}, of : Sessions \cup {None}]
    BY DEF Init
  <2>4. QED
    BY <2>1, <2>2, <2>3 DEF Init, LifecycleTypes
<1>3. SessionsFine /\ OneSession
  BY DEF Init, SessionsFine, SessionFine, OneSession, Unborn, Behind, Late
<1>4. Budget
  <2>1. MayMark = Sessions
    BY DEF Init, MayMark, Unmarked, Unborn
  <2>2. Cardinality(Sessions) = MaxSessions
    BY FS_Interval DEF Sessions
  <2>3. QED
    BY <2>1, <2>2 DEF Init, Budget
<1>5. QED
  BY <1>2, <1>3, <1>4 DEF LifecycleIInv, DiffHasSession, Init

-----------------------------------------------------------------------------
(***************************************************************************)
(* What one session's step leaves of the others.                           *)
(***************************************************************************)
Lives(r) == r.at \notin {"unborn", "over"}

LEMMA MayMarkCounts == /\ IsFiniteSet(MayMark) /\ Cardinality(MayMark) \in Nat
                       /\ IsFiniteSet(MayMark') /\ Cardinality(MayMark') \in Nat
<1>1. MayMark \subseteq Sessions /\ MayMark' \subseteq Sessions
  BY DEF MayMark
<1>2. IsFiniteSet(Sessions)
  BY LifecycleAssumption, FS_Interval DEF Sessions
<1>3. QED
  BY <1>1, <1>2, FS_Subset, FS_CardinalityType

\* A session that takes a fine record leaves all sessions fine, and one that
\* could not be marked cannot be marked now.
LEMMA SetKeeps ==
  ASSUME LifecycleIInv, NEW s \in Sessions, NEW r \in SessionRecord, SessionFine(r), Set(s, r),
         Unmarked(r) => Unmarked(session[s])
  PROVE  /\ session' \in [Sessions -> SessionRecord] /\ SessionsFine'
         /\ session'[s] = r /\ \A t \in Sessions : t # s => session'[t] = session[t]
         /\ MayMark' \subseteq MayMark /\ Cardinality(MayMark') <= Cardinality(MayMark)
<1>1. /\ session' \in [Sessions -> SessionRecord]
      /\ session'[s] = r /\ \A t \in Sessions : t # s => session'[t] = session[t]
  BY DEF LifecycleIInv, LifecycleTypes, Set
<1>2. SessionsFine'
  BY <1>1 DEF LifecycleIInv, SessionsFine
<1>3. MayMark' \subseteq MayMark
  BY <1>1 DEF MayMark
<1>4. QED
  BY <1>1, <1>2, <1>3, MayMarkCounts, FS_Subset

\* What the node's other fields do while a session takes its step.
Controls == [at : {"idle", "stored", "diff", "refused", "down"}, of : Sessions \cup {None}]
Elsewhere ==
  /\ snap' \in {"none", "current", "stale"} /\ user' \in {"idle", "down"}
  /\ control' \in Controls /\ DiffHasSession'
  /\ UNCHANGED <<sess, resume, autoDone, asked, made>>
  /\ events' = events \/ Event

\* A step of one session keeps the invariant.
LEMMA StepKeeps ==
  ASSUME LifecycleIInv, NEW s \in Sessions, NEW r \in SessionRecord, SessionFine(r), Set(s, r), Elsewhere,
         Unmarked(r) => Unmarked(session[s]), Lives(r) => Lives(session[s])
  PROVE  LifecycleIInv'
<1> USE LifecycleAssumption
<1>1. /\ session' \in [Sessions -> SessionRecord] /\ SessionsFine'
      /\ session'[s] = r /\ \A t \in Sessions : t # s => session'[t] = session[t]
      /\ Cardinality(MayMark') <= Cardinality(MayMark)
  BY SetKeeps
<1>2. events \in 0..MaxEvents /\ events' \in 0..MaxEvents /\ events <= events'
  BY DEF Event, LifecycleIInv, LifecycleTypes, Elsewhere
<1>3. LifecycleTypes'
  BY <1>1, <1>2 DEF LifecycleIInv, LifecycleTypes, Elsewhere, Controls
<1>4. OneSession'
  BY <1>1 DEF LifecycleIInv, OneSession, Lives, Elsewhere
<1>5. DiffHasSession'
  BY DEF Elsewhere
<1>6. Budget'
  BY <1>1, <1>2, MayMarkCounts DEF LifecycleIInv, Budget, Elsewhere
<1>7. QED
  BY <1>1, <1>3, <1>4, <1>5, <1>6 DEF LifecycleIInv

\* So does a step of no session.
LEMMA IdleKeeps ==
  ASSUME LifecycleIInv, Elsewhere, UNCHANGED session
  PROVE  LifecycleIInv'
<1> USE LifecycleAssumption
<1>1. MayMark' = MayMark /\ SessionsFine'
  BY DEF MayMark, LifecycleIInv, SessionsFine
<1>2. events \in 0..MaxEvents /\ events' \in 0..MaxEvents /\ events <= events'
  BY DEF Event, LifecycleIInv, LifecycleTypes, Elsewhere
<1>3. LifecycleTypes'
  BY <1>2 DEF LifecycleIInv, LifecycleTypes, Elsewhere, Controls
<1>4. OneSession' /\ DiffHasSession'
  BY DEF LifecycleIInv, OneSession, Elsewhere
<1>5. Budget'
  BY <1>1, <1>2, MayMarkCounts DEF LifecycleIInv, Budget, Elsewhere
<1>6. QED
  BY <1>1, <1>3, <1>4, <1>5 DEF LifecycleIInv

\* As StepKeeps, for what Built and Disturbed say.
LEMMA BuiltKeeps ==
  ASSUME LifecycleIInv, NEW s \in Sessions, NEW r \in SessionRecord, SessionFine(r),
         Built(s, r) \/ Disturbed(s, r),
         Unmarked(r) => Unmarked(session[s]), Lives(r) => Lives(session[s])
  PROVE  LifecycleIInv'
<1>1. Set(s, r) /\ Elsewhere
  BY DEF Built, Disturbed, Elsewhere, Controls, LifecycleIInv, LifecycleTypes, DiffHasSession
<1>2. QED
  BY <1>1, StepKeeps

-----------------------------------------------------------------------------
(***************************************************************************)
(* apply.                                                                  *)
(***************************************************************************)

\* What is known of a session before its step.
LEMMA Before ==
  ASSUME LifecycleIInv, NEW s \in Sessions
  PROVE  session[s] \in SessionRecord /\ SessionFine(session[s])
BY DEF LifecycleIInv, LifecycleTypes, SessionsFine

LEMMA ApplyKeeps ==
  ASSUME LifecycleIInv, NEW s \in Sessions, Apply(s)
  PROVE  LifecycleIInv'
<1> DEFINE r == session[s]
<1>0. r \in SessionRecord /\ SessionFine(r)
  BY Before
<1>1. CASE AddControlBypass(s)
  <2> DEFINE q == [r EXCEPT !.at = "tun", !.host = @ \cup {"control"}]
  <2>1. r.at = "control" /\ Built(s, q)
    BY <1>1 DEF AddControlBypass
  <2>2. q \in SessionRecord /\ SessionFine(q) /\ Lives(r)
    BY <1>0, <2>1 DEF SessionRecord, SessionFine, Late, Places, BuildSteps, Changes, Bypass, Flagged, Lives
  <2>3. Unmarked(q) => Unmarked(r)
    BY <1>0, <2>1 DEF Unmarked, BuildSteps
  <2>4. QED
    BY <2>1, <2>2, <2>3, BuiltKeeps
<1>2. CASE CreateTUN(s)
  <2>1. CASE r.at = "tun"
    <3> DEFINE q == [r EXCEPT !.at = "tunset", !.host = @ \cup {"device"}]
    <3>1. Built(s, q)
      BY <1>2, <2>1 DEF CreateTUN
    <3>2. q \in SessionRecord /\ SessionFine(q) /\ Lives(r)
      BY <1>0, <2>1 DEF SessionRecord, SessionFine, Late, Places, BuildSteps, Changes, Bypass, Flagged, Lives
    <3>3. Unmarked(q) => Unmarked(r)
      BY <1>0, <2>1 DEF Unmarked, BuildSteps
    <3>4. QED
      BY <3>1, <3>2, <3>3, BuiltKeeps
  <2>2. CASE r.at = "tunset"
    <3> DEFINE q == [r EXCEPT !.at = "address", !.known = @ \cup {"device"}]
    <3>1. Built(s, q)
      BY <1>2, <2>2 DEF CreateTUN
    <3>2. q \in SessionRecord /\ SessionFine(q) /\ Lives(r)
      BY <1>0, <2>2 DEF SessionRecord, SessionFine, Late, Places, BuildSteps, Changes, Bypass, Flagged, Lives
    <3>3. Unmarked(q) => Unmarked(r)
      BY <1>0, <2>2 DEF Unmarked, BuildSteps
    <3>4. QED
      BY <3>1, <3>2, <3>3, BuiltKeeps
  <2>3. QED
    BY <1>2, <2>1, <2>2 DEF CreateTUN
\* The one place where the context is asked after: a session that is not
\* cancelled is not closed.
<1>3. CASE SetAddress(s)
  <2> DEFINE q == [r EXCEPT !.at = "nat"]
  <2>1. r.at = "address" /\ ~r.cancelled /\ Built(s, q)
    BY <1>3 DEF SetAddress
  <2>2. q \in SessionRecord /\ SessionFine(q) /\ Lives(r)
    BY <1>0, <2>1 DEF SessionRecord, SessionFine, Behind, Late, Places, BuildSteps, Lives
  <2>3. Unmarked(q) => Unmarked(r)
    BY <1>0, <2>1 DEF Unmarked, BuildSteps
  <2>4. QED
    BY <2>1, <2>2, <2>3, BuiltKeeps
<1>4. CASE ApplyNAT(s)
  <2>1. ASSUME r.at = "nat",
               \/ Built(s, [r EXCEPT !.at = "links"])
               \/ Built(s, [r EXCEPT !.at = "natset", !.host = @ \cup {"nat"}])
        PROVE  LifecycleIInv'
    <3>1. PICK q \in {[r EXCEPT !.at = "links"], [r EXCEPT !.at = "natset", !.host = @ \cup {"nat"}]} : Built(s, q)
      BY <2>1
    <3>2. /\ q.at \in {"links", "natset"} /\ q.host \in {r.host, r.host \cup {"nat"}}
          /\ q.cancelled = r.cancelled /\ q.known = r.known /\ q.close = r.close /\ q.undo = r.undo
          /\ q.stale = r.stale /\ q \in SessionRecord
      <4>1. CASE q = [r EXCEPT !.at = "links"]
        BY <1>0, <4>1 DEF SessionRecord, Places, BuildSteps
      <4>2. CASE q = [r EXCEPT !.at = "natset", !.host = @ \cup {"nat"}]
        BY <1>0, <4>2 DEF SessionRecord, Places, BuildSteps, Changes, Flagged
      <4>3. QED
        BY <3>1, <4>1, <4>2
    <3>3. SessionFine(q) /\ Lives(r)
      BY <1>0, <2>1, <3>2 DEF SessionFine, Behind, Late, Lives
    <3>4. Unmarked(q) => Unmarked(r)
      BY <2>1 DEF Unmarked, BuildSteps
    <3>5. QED
      BY <3>1, <3>2, <3>3, <3>4, BuiltKeeps
  <2>2. ASSUME r.at = "natset", Built(s, [r EXCEPT !.at = "links", !.known = @ \cup {"nat"}])
        PROVE  LifecycleIInv'
    <3> DEFINE q == [r EXCEPT !.at = "links", !.known = @ \cup {"nat"}]
    <3>1. q \in SessionRecord /\ SessionFine(q) /\ Lives(r)
      BY <1>0, <2>2 DEF SessionRecord, SessionFine, Behind, Late, Places, BuildSteps, Changes, Bypass, Flagged, Lives
    <3>2. Unmarked(q) => Unmarked(r)
      BY <1>0, <2>2 DEF Unmarked, BuildSteps
    <3>3. QED
      BY <2>2, <3>1, <3>2, BuiltKeeps
  <2>3. QED
    BY <1>4, <2>1, <2>2 DEF ApplyNAT
<1>5. CASE StartLinks(s)
  <2>1. ASSUME NEW q \in {[r EXCEPT !.at = "listen", !.stale = "on"], [r EXCEPT !.at = "up"]},
               \/ r.at = "links" /\ q = [r EXCEPT !.at = "listen", !.stale = "on"]
               \/ r.at = "listen" /\ q = [r EXCEPT !.at = "up"],
               Built(s, q)
        PROVE  LifecycleIInv'
    <3>1. q \in SessionRecord /\ SessionFine(q) /\ Lives(r)
      BY <1>0, <2>1 DEF SessionRecord, SessionFine, Behind, Late, Places, BuildSteps, Lives
    <3>2. Unmarked(q) => Unmarked(r)
      BY <1>0, <2>1 DEF Unmarked, BuildSteps, SessionRecord
    <3>3. QED
      BY <2>1, <3>1, <3>2, BuiltKeeps
  <2>2. QED
    BY <1>5, <2>1 DEF StartLinks
<1>6. CASE ApplyFails(s)
  <2> DEFINE q == Failed(r)
  <2>1. /\ r.at \in {"control", "tun", "address", "nat", "listen"}
        /\ Built(s, q) \/ Disturbed(s, q)
    BY <1>6 DEF ApplyFails
  <2>2. q \in SessionRecord /\ SessionFine(q) /\ Lives(r)
    BY <1>0, <2>1 DEF Failed, SessionRecord, SessionFine, Behind, Late, Places, Phases, BuildSteps, Lives
  <2>3. Unmarked(q) => Unmarked(r)
    BY <1>0, <2>1 DEF Failed, Unmarked, BuildSteps, SessionRecord
  <2>4. QED
    BY <2>1, <2>2, <2>3, BuiltKeeps
<1>7. QED
  BY <1>1, <1>2, <1>3, <1>4, <1>5, <1>6 DEF Apply

-----------------------------------------------------------------------------
(***************************************************************************)
(* The end of a session.                                                   *)
(***************************************************************************)

LEMMA TeardownKeeps ==
  ASSUME LifecycleIInv, NEW s \in Sessions, NEW by \in {"close", "undo"}, Teardown(s, by)
  PROVE  LifecycleIInv'
<1> DEFINE r == session[s]
           phase == IF by = "close" THEN r.close ELSE r.undo
           less == [r EXCEPT !.host = @ \ Undone(r, phase), !.known = @ \ Undone(r, phase)]
           q == IF by = "close" THEN [less EXCEPT !.close = After[phase]] ELSE [less EXCEPT !.undo = After[phase]]
<1>0. r \in SessionRecord /\ SessionFine(r)
  BY Before
<1>1. /\ phase \in {"stop", "nat", "device", "bypass"}
      /\ Built(s, q)
  BY DEF Teardown, After
<1>2. /\ After[phase] \in Phases /\ After[phase] # "no"
      /\ After[phase] \in {"bypass", "done"} => phase \in {"device", "bypass"}
      /\ After[phase] = "done" => phase = "bypass"
      /\ phase = "device" => After[phase] = "bypass"
  BY <1>1 DEF After, Phases
<1>3. /\ phase = "device" /\ "device" \in r.known => "device" \in Undone(r, phase)
      /\ phase = "bypass" => "control" \in Undone(r, phase)
      /\ Undone(r, phase) \subseteq Changes
  BY <1>0, <1>1 DEF Undone, Bypass, Changes, Flagged, SessionRecord
<1>4. /\ q.at = r.at /\ q.cancelled = r.cancelled /\ q.stale = r.stale /\ q.link = r.link
      /\ q.host = r.host \ Undone(r, phase) /\ q.known = r.known \ Undone(r, phase)
      /\ q.close = (IF by = "close" THEN After[phase] ELSE r.close)
      /\ q.undo = (IF by = "close" THEN r.undo ELSE After[phase])
      /\ q \in SessionRecord
  BY <1>0, <1>2 DEF SessionRecord
<1>5. SessionFine(q)
  <2>1. \A e \in {"device", "control"} : e \in q.host => e \in r.host
    BY <1>4
  <2>2. q.close # "no" => q.cancelled
    BY <1>0, <1>1, <1>4 DEF SessionFine
  <2>3. q.at # "tunset" => ("device" \in q.host => "device" \in q.known)
    BY <1>0, <1>4 DEF SessionFine
  <2>4. q.at = "undo" => Behind(q.undo, q.host)
    BY <1>0, <1>1, <1>2, <1>3, <1>4 DEF SessionFine, Behind
  <2>5. q.at \in Late => Behind(q.close, q.host)
    BY <1>0, <1>1, <1>2, <1>3, <1>4 DEF SessionFine, Behind, Late
  <2>6. QED
    BY <1>0, <1>4, <2>1, <2>2, <2>3, <2>4, <2>5 DEF SessionFine
<1>6. (Unmarked(q) => Unmarked(r)) /\ (Lives(q) => Lives(r))
  BY <1>4 DEF Unmarked, Lives
<1> HIDE DEF q
<1>7. QED
  BY <1>1, <1>4, <1>5, <1>6, BuiltKeeps

\* The record of a session that is over is fine as it is, if the teardown
\* that ends it is done.
LEMMA OverIsFine ==
  ASSUME NEW r \in SessionRecord, SessionFine(r),
         (r.at = "undo" /\ r.undo = "done") \/ (r.at = "up" /\ r.close = "done")
  PROVE  /\ [r EXCEPT !.at = "over"] \in SessionRecord /\ SessionFine([r EXCEPT !.at = "over"])
         /\ Unmarked([r EXCEPT !.at = "over"]) => Unmarked(r)
         /\ ~Lives([r EXCEPT !.at = "over"])
<1> DEFINE q == [r EXCEPT !.at = "over"]
<1>1. /\ q \in SessionRecord /\ q.at = "over" /\ q.host = r.host /\ q.known = r.known
      /\ q.close = r.close /\ q.cancelled = r.cancelled /\ q.stale = r.stale
  BY DEF SessionRecord, Places
<1>2. "device" \notin r.host /\ "control" \notin r.host
  BY DEF SessionFine, Behind, Late
<1>3. SessionFine(q)
  BY <1>1, <1>2 DEF SessionFine, Late
<1>4. QED
  BY <1>1, <1>3 DEF Unmarked, Lives, BuildSteps

\* UpFails and Watch: the session is over, the node has none.
LEMMA OverKeeps ==
  ASSUME LifecycleIInv, NEW s \in Sessions, UpFails(s) \/ Watch(s)
  PROVE  LifecycleIInv'
<1> USE LifecycleAssumption
<1> DEFINE r == session[s]
           q == [r EXCEPT !.at = "over"]
<1>0. r \in SessionRecord /\ SessionFine(r)
  BY Before
<1>1. /\ (r.at = "undo" /\ r.undo = "done") \/ (r.at = "up" /\ r.close = "done")
      /\ Set(s, q) /\ sess' = IF sess = s THEN None ELSE sess
      /\ UNCHANGED <<snap, autoDone, control, user, made, events>>
  BY DEF UpFails, Watch
<1>2. q \in SessionRecord /\ SessionFine(q) /\ (Unmarked(q) => Unmarked(r)) /\ ~Lives(q)
  BY <1>0, <1>1, OverIsFine
<1> HIDE DEF q
<1>3. /\ session' \in [Sessions -> SessionRecord] /\ SessionsFine'
      /\ session'[s] = q /\ \A t \in Sessions : t # s => session'[t] = session[t]
      /\ Cardinality(MayMark') <= Cardinality(MayMark)
  BY <1>1, <1>2, SetKeeps
<1>4. sess = s
  BY <1>1 DEF LifecycleIInv, OneSession
<1>5. OneSession'
  BY <1>1, <1>2, <1>3, <1>4 DEF LifecycleIInv, OneSession, Lives
<1>6. /\ asked \in Nat /\ asked' \in Nat /\ resume' \in BOOLEAN /\ resume \in BOOLEAN
      /\ asked' + (IF resume' THEN 1 ELSE 0) = asked + (IF resume THEN 1 ELSE 0)
  <2>1. asked \in Nat /\ resume \in BOOLEAN
    BY DEF LifecycleIInv, LifecycleTypes, Budget
  <2>2. CASE UpFails(s)
    BY <2>1, <2>2 DEF UpFails
  <2>3. CASE Watch(s)
    <3> DEFINE back == Resumes(IF sess = s THEN None ELSE sess)
    <3>1. resume' = (resume /\ ~back) /\ asked' = (IF back THEN asked + 1 ELSE asked) /\ (back => resume)
      BY <2>3 DEF Watch, Resumes
    <3>2. CASE back
      <4>1. resume = TRUE /\ resume' = FALSE /\ asked' = asked + 1
        BY <2>1, <3>1, <3>2
      <4>2. (IF resume' THEN 1 ELSE 0) = 0 /\ (IF resume THEN 1 ELSE 0) = 1
        BY <4>1, Zenon
      <4>3. resume' \in BOOLEAN
        BY <4>1, Zenon
      <4>4. asked' + 0 = asked + 1 /\ asked' \in Nat
        BY <2>1, <4>1
      <4>5. QED
        BY <2>1, <4>2, <4>3, <4>4, Zenon
    <3>3. CASE ~back
      <4>1. resume' = resume /\ asked' = asked
        BY <2>1, <3>1, <3>3
      <4>2. QED
        BY <2>1, <4>1
    <3>4. QED
      BY <3>2, <3>3
  <2>4. QED
    BY <2>2, <2>3
<1>7. Budget'
  <2>1. /\ asked + (IF resume THEN 1 ELSE 0) + (IF autoDone THEN 0 ELSE 1) + Cardinality(MayMark)
             <= events + MaxSessions + 1
        /\ autoDone' = autoDone /\ events' = events /\ events \in Nat
    BY <1>1 DEF LifecycleIInv, Budget, LifecycleTypes
  <2> DEFINE a == IF autoDone THEN 0 ELSE 1
             x == asked + (IF resume THEN 1 ELSE 0)
             y == asked' + (IF resume' THEN 1 ELSE 0)
  <2>2. a \in Nat /\ x \in Nat /\ y \in Nat /\ x = y
    <3>1. a \in Nat /\ x \in Nat
      BY <1>6
    <3>2. y = x
      BY <1>6
    <3>3. QED
      BY <3>1, <3>2
  <2>3. x + a + Cardinality(MayMark) <= events + MaxSessions + 1
    BY <2>1
  <2> HIDE DEF a, x, y
  <2>4. y + a + Cardinality(MayMark') <= events + MaxSessions + 1
    BY <1>3, <2>1, <2>2, <2>3, MayMarkCounts
  <2>5. QED
    BY <1>6, <2>1, <2>4 DEF Budget, a, y
<1>8. LifecycleTypes' /\ DiffHasSession'
  BY <1>1, <1>3, <1>6 DEF LifecycleIInv, LifecycleTypes, DiffHasSession
<1>9. QED
  BY <1>3, <1>5, <1>7, <1>8 DEF LifecycleIInv

\* staleWatch marks a session that it cannot mark again.
LEMMA StaleTickKeeps ==
  ASSUME LifecycleIInv, NEW s \in Sessions, StaleTick(s)
  PROVE  LifecycleIInv'
<1> USE LifecycleAssumption
<1> DEFINE r == session[s]
           q == [r EXCEPT !.stale = "marked"]
<1>0. r \in SessionRecord /\ SessionFine(r)
  BY Before
<1>1. /\ r.at = "up" /\ r.stale = "on" /\ Set(s, q) /\ resume' = (resume \/ sess = s)
      /\ UNCHANGED <<snap, sess, autoDone, asked, control, user, made, events>>
  BY DEF StaleTick
<1>2. /\ q \in SessionRecord /\ q.at = r.at /\ q.host = r.host /\ q.known = r.known
      /\ q.close = r.close /\ q.undo = r.undo /\ q.cancelled = r.cancelled /\ q.stale = "marked"
  BY <1>0 DEF SessionRecord
<1>3. SessionFine(q) /\ ~Unmarked(q) /\ Unmarked(r)
  BY <1>0, <1>1, <1>2 DEF SessionFine, Unmarked, BuildSteps
<1> HIDE DEF q
<1>4. /\ session' \in [Sessions -> SessionRecord] /\ SessionsFine'
      /\ session'[s] = q /\ \A t \in Sessions : t # s => session'[t] = session[t]
  BY <1>1, <1>2, <1>3, SetKeeps
<1>5. MayMark' = MayMark \ {s} /\ s \in MayMark
  BY <1>3, <1>4 DEF MayMark
<1>6. Cardinality(MayMark') = Cardinality(MayMark) - 1
  BY <1>5, MayMarkCounts, FS_RemoveElement
<1>7. Budget'
  <2>1. /\ asked + (IF resume THEN 1 ELSE 0) + (IF autoDone THEN 0 ELSE 1) + Cardinality(MayMark)
             <= events + MaxSessions + 1
        /\ asked \in Nat /\ events \in Nat /\ resume \in BOOLEAN
    BY DEF LifecycleIInv, Budget, LifecycleTypes
  <2> DEFINE a == IF autoDone THEN 0 ELSE 1
             x == IF resume THEN 1 ELSE 0
             y == IF resume' THEN 1 ELSE 0
  <2>2. a \in Nat /\ x \in 0..1 /\ y \in 0..1
    OBVIOUS
  <2>3. asked + x + a + Cardinality(MayMark) <= events + MaxSessions + 1
    BY <2>1
  <2> HIDE DEF a, x, y
  <2>4. asked + y + a + Cardinality(MayMark') <= events + MaxSessions + 1
    BY <1>6, <2>1, <2>2, <2>3, MayMarkCounts
  <2>5. QED
    BY <1>1, <2>1, <2>4 DEF Budget, a, y
<1>8. LifecycleTypes' /\ DiffHasSession'
  BY <1>1, <1>4 DEF LifecycleIInv, LifecycleTypes, DiffHasSession
<1>9. OneSession'
  BY <1>1, <1>2, <1>4 DEF LifecycleIInv, OneSession
<1>10. QED
  BY <1>4, <1>7, <1>8, <1>9 DEF LifecycleIInv

\* A session that is closed stays fine: its teardown begins.
LEMMA ClosedIsFine ==
  ASSUME NEW r \in SessionRecord, SessionFine(r)
  PROVE  /\ Closed(r) \in SessionRecord /\ SessionFine(Closed(r))
         /\ Unmarked(Closed(r)) = Unmarked(r) /\ Lives(Closed(r)) = Lives(r)
         /\ Closed(r).stale = r.stale /\ Closed(r).at = r.at
<1> DEFINE q == [r EXCEPT !.close = "stop", !.cancelled = TRUE]
<1>1. CASE r.close = "no"
  <2>1. /\ q \in SessionRecord /\ q.at = r.at /\ q.host = r.host /\ q.known = r.known
        /\ q.close = "stop" /\ q.undo = r.undo /\ q.cancelled = TRUE /\ q.stale = r.stale
    BY DEF SessionRecord, Phases
  <2>2. SessionFine(q)
    BY <2>1 DEF SessionFine, Behind
  <2>3. Closed(r) = q
    BY <1>1 DEF Closed
  <2>4. QED
    BY <2>1, <2>2, <2>3 DEF Unmarked, Lives
<1>2. CASE r.close # "no"
  BY <1>2 DEF Closed
<1>3. QED
  BY <1>1, <1>2

LEMMA StaleEndsKeeps ==
  ASSUME LifecycleIInv, NEW s \in Sessions, StaleEnds(s)
  PROVE  LifecycleIInv'
<1> DEFINE r == session[s]
<1>0. r \in SessionRecord /\ SessionFine(r)
  BY Before
<1>1. ASSUME NEW p \in SessionRecord, SessionFine(p), p.at = r.at, p.stale = r.stale,
             Built(s, [p EXCEPT !.stale = "off"])
      PROVE  LifecycleIInv'
  <2> DEFINE q == [p EXCEPT !.stale = "off"]
  <2>1. /\ q \in SessionRecord /\ q.at = p.at /\ q.host = p.host /\ q.known = p.known
        /\ q.close = p.close /\ q.undo = p.undo /\ q.cancelled = p.cancelled /\ q.stale = "off"
    BY <1>1 DEF SessionRecord
  <2>2. SessionFine(q) /\ (Unmarked(q) => Unmarked(r)) /\ (Lives(q) => Lives(r))
    BY <1>1, <2>1 DEF SessionFine, Unmarked, Lives
  <2> HIDE DEF q
  <2>3. QED
    BY <1>1, <2>1, <2>2, BuiltKeeps DEF q
<1>2. CASE Built(s, [Closed(r) EXCEPT !.stale = "off"])
  BY <1>0, <1>1, <1>2, ClosedIsFine
<1>3. CASE Built(s, [r EXCEPT !.stale = "off"])
  BY <1>0, <1>1, <1>3
<1>4. QED
  BY <1>2, <1>3 DEF StaleEnds

LEMMA FailsItselfKeeps ==
  ASSUME LifecycleIInv, NEW s \in Sessions, FailsItself(s)
  PROVE  LifecycleIInv'
<1>1. session[s] \in SessionRecord /\ SessionFine(session[s])
  BY Before
<1>2. Disturbed(s, Closed(session[s]))
  BY DEF FailsItself
<1>3. QED
  BY <1>1, <1>2, ClosedIsFine, BuiltKeeps

\* A link adds routes to its hub, nothing of what apply does.
LEMMA LinkDialsKeeps ==
  ASSUME LifecycleIInv, NEW s \in Sessions, LinkDials(s)
  PROVE  LifecycleIInv'
<1> DEFINE r == session[s]
<1>0. r \in SessionRecord /\ SessionFine(r)
  BY Before
<1>1. PICK q \in {[r EXCEPT !.link = "resolved"], [r EXCEPT !.link = "idle", !.host = @ \cup {"hub"}]} : Built(s, q)
  BY DEF LinkDials
<1>2. /\ q \in SessionRecord /\ q.at = r.at /\ q.host \in {r.host, r.host \cup {"hub"}} /\ q.known = r.known
      /\ q.close = r.close /\ q.undo = r.undo /\ q.cancelled = r.cancelled /\ q.stale = r.stale
  <2>1. CASE q = [r EXCEPT !.link = "resolved"]
    BY <1>0, <2>1 DEF SessionRecord
  <2>2. CASE q = [r EXCEPT !.link = "idle", !.host = @ \cup {"hub"}]
    BY <1>0, <2>2 DEF SessionRecord, Changes, Bypass
  <2>3. QED
    BY <1>1, <2>1, <2>2
<1>3. SessionFine(q) /\ (Unmarked(q) => Unmarked(r)) /\ (Lives(q) => Lives(r))
  BY <1>0, <1>2 DEF SessionFine, Behind, Unmarked, Lives
<1>4. QED
  BY <1>1, <1>2, <1>3, BuiltKeeps

-----------------------------------------------------------------------------
(***************************************************************************)
(* Users and programs.                                                     *)
(***************************************************************************)

\* AskUp: a call more, and an event more.  UpRefused: a call less.
LEMMA AskKeeps ==
  ASSUME LifecycleIInv, AskUp \/ UpRefused
  PROVE  LifecycleIInv'
<1> USE LifecycleAssumption
<1>1. MayMark' = MayMark /\ UNCHANGED <<snap, sess, resume, autoDone, session, control, user, made>>
  BY DEF AskUp, UpRefused, MayMark
<1>2. /\ asked \in Nat /\ events \in 0..MaxEvents /\ asked' \in Nat /\ events' \in 0..MaxEvents
      /\ (asked' = asked + 1 /\ events' = events + 1) \/ (asked' = asked - 1 /\ events' = events)
  BY DEF AskUp, UpRefused, Event, LifecycleIInv, LifecycleTypes, Budget
<1>3. Budget'
  <2> DEFINE a == IF autoDone THEN 0 ELSE 1
             x == IF resume THEN 1 ELSE 0
  <2>1. a \in Nat /\ x \in Nat
    OBVIOUS
  <2>2. asked + x + a + Cardinality(MayMark) <= events + MaxSessions + 1
    BY DEF LifecycleIInv, Budget
  <2> HIDE DEF a, x
  <2>3. asked' + x + a + Cardinality(MayMark) <= events' + MaxSessions + 1
    <3> DEFINE c == x + a + Cardinality(MayMark)
    <3>1. c \in Nat /\ asked + c <= events + (MaxSessions + 1) /\ MaxSessions + 1 \in Nat
      BY <1>2, <2>1, <2>2, MayMarkCounts
    <3> HIDE DEF c
    <3>2. events \in Nat /\ events' \in Nat
      BY <1>2
    <3>3. asked' + c <= events' + (MaxSessions + 1)
      BY <1>2, <3>1, <3>2
    <3>4. QED
      BY <1>2, <2>1, <3>2, <3>3, MayMarkCounts DEF c
  <2>4. QED
    BY <1>1, <1>2, <2>3 DEF Budget, a, x
<1>4. LifecycleTypes' /\ SessionsFine' /\ OneSession' /\ DiffHasSession'
  BY <1>1, <1>2 DEF LifecycleIInv, LifecycleTypes, SessionsFine, OneSession, DiffHasSession
<1>5. QED
  BY <1>3, <1>4 DEF LifecycleIInv

\* UpBegins: no session lives, since the node has none.
LEMMA UpBeginsKeeps ==
  ASSUME LifecycleIInv, UpBegins
  PROVE  LifecycleIInv'
<1> USE LifecycleAssumption
<1> DEFINE s == made + 1
           q == [Unborn EXCEPT !.at = "control"]
<1>1. /\ asked \in Nat /\ asked > 0 /\ asked' = asked - 1 /\ sess = None /\ sess' = s /\ made' = s
      /\ resume' = FALSE /\ Set(s, q) /\ UNCHANGED <<snap, autoDone, control, user, events>>
      /\ s \in Sessions /\ s \in 0..MaxSessions
  BY DEF UpBegins, LifecycleIInv, LifecycleTypes, Budget, Sessions
<1>2. q \in SessionRecord /\ q.at = "control" /\ q.host = {} /\ q.close = "no"
  BY DEF Unborn, SessionRecord, Places, BuildSteps, Phases
<1>3. SessionFine(q)
  BY <1>2 DEF SessionFine, Late
<1>4. \A t \in Sessions : session[t].at \in {"unborn", "over"}
  BY <1>1 DEF LifecycleIInv, OneSession, Sessions
<1> HIDE DEF q, s
<1>5. /\ session' \in [Sessions -> SessionRecord]
      /\ session'[s] = q /\ \A t \in Sessions : t # s => session'[t] = session[t]
  BY <1>1, <1>2 DEF LifecycleIInv, LifecycleTypes, Set
<1>6. SessionsFine' /\ OneSession'
  BY <1>1, <1>3, <1>4, <1>5 DEF LifecycleIInv, SessionsFine, OneSession
<1>7. LifecycleTypes' /\ DiffHasSession'
  BY <1>1, <1>5 DEF LifecycleIInv, LifecycleTypes, DiffHasSession
<1>8. Budget'
  <2>1. MayMark' \subseteq MayMark \cup {s}
    BY <1>5 DEF MayMark
  <2>2. Cardinality(MayMark') <= Cardinality(MayMark) + 1
    <3>1. /\ IsFiniteSet(MayMark \cup {s})
          /\ Cardinality(MayMark \cup {s}) = Cardinality(MayMark) + 1 \/ MayMark \cup {s} = MayMark
      BY MayMarkCounts, FS_AddElement
    <3>2. Cardinality(MayMark') <= Cardinality(MayMark \cup {s}) /\ Cardinality(MayMark \cup {s}) \in Nat
      BY <2>1, <3>1, FS_Subset, FS_CardinalityType
    <3>3. QED
      BY <3>1, <3>2, MayMarkCounts
  <2> DEFINE a == IF autoDone THEN 0 ELSE 1
             x == IF resume THEN 1 ELSE 0
  <2>3. a \in Nat /\ x \in Nat
    OBVIOUS
  <2>4. asked + x + a + Cardinality(MayMark) <= events + MaxSessions + 1 /\ events \in Nat
    BY DEF LifecycleIInv, Budget, LifecycleTypes
  <2> HIDE DEF a, x
  <2>5. asked' + 0 + a + Cardinality(MayMark') <= events + MaxSessions + 1 /\ asked' \in Nat
    BY <1>1, <2>2, <2>3, <2>4, MayMarkCounts
  <2>6. (IF resume' THEN 1 ELSE 0) = 0
    BY <1>1, Zenon
  <2>7. QED
    BY <1>1, <2>5, <2>6 DEF Budget, a
<1>9. QED
  BY <1>6, <1>7, <1>8 DEF LifecycleIInv

LEMMA UserKeeps ==
  ASSUME LifecycleIInv, DownByUser \/ UserDown
  PROVE  LifecycleIInv'
<1> USE LifecycleAssumption
<1>1. CASE DownByUser
  <2>1. /\ MayMark' = MayMark /\ UNCHANGED <<snap, sess, autoDone, asked, session, control, made>>
        /\ user' = "down" /\ resume' = FALSE
    BY <1>1 DEF DownByUser, MayMark
  <2>2. events \in 0..MaxEvents /\ events' \in 0..MaxEvents /\ events <= events' /\ asked \in Nat
    BY <1>1 DEF DownByUser, Event, LifecycleIInv, LifecycleTypes, Budget
  <2>3. Budget'
    <3> DEFINE a == IF autoDone THEN 0 ELSE 1
               x == IF resume THEN 1 ELSE 0
    <3>1. a \in Nat /\ x \in Nat
      OBVIOUS
    <3>2. asked + x + a + Cardinality(MayMark) <= events + MaxSessions + 1
      BY DEF LifecycleIInv, Budget
    <3> HIDE DEF a, x
    <3>3. asked + 0 + a + Cardinality(MayMark) <= events' + MaxSessions + 1
      BY <2>2, <3>1, <3>2, MayMarkCounts
    <3>4. (IF resume' THEN 1 ELSE 0) = 0
      BY <2>1, Zenon
    <3>5. QED
      BY <2>1, <2>2, <3>3, <3>4 DEF Budget, a
  <2>4. LifecycleTypes' /\ SessionsFine' /\ OneSession' /\ DiffHasSession'
    BY <2>1, <2>2 DEF LifecycleIInv, LifecycleTypes, SessionsFine, OneSession, DiffHasSession
  <2>5. QED
    BY <2>3, <2>4 DEF LifecycleIInv
<1>2. CASE UserDown
  <2>1. Elsewhere
    BY <1>2 DEF UserDown, Elsewhere, Controls, LifecycleIInv, LifecycleTypes, DiffHasSession
  <2>2. CASE sess = None
    BY <1>2, <2>1, <2>2, IdleKeeps DEF UserDown
  <2>3. CASE sess # None
    <3>1. sess \in Sessions /\ Set(sess, Closed(session[sess]))
      BY <1>2, <2>3 DEF UserDown, Close, LifecycleIInv, LifecycleTypes
    <3>2. session[sess] \in SessionRecord /\ SessionFine(session[sess])
      BY <3>1, Before
    <3>3. QED
      BY <2>1, <3>1, <3>2, ClosedIsFine, StepKeeps
  <2>4. QED
    BY <2>2, <2>3
<1>3. QED
  BY <1>1, <1>2

-----------------------------------------------------------------------------
(***************************************************************************)
(* The control loop.                                                       *)
(***************************************************************************)

\* Ages, NotModified, StoreSnapshot and Cleared leave sessions and calls.
LEMMA LoopKeeps ==
  ASSUME LifecycleIInv, Ages \/ NotModified \/ StoreSnapshot \/ Cleared
  PROVE  LifecycleIInv'
<1>1. control \in Controls
  BY DEF LifecycleIInv, LifecycleTypes, Controls
<1>2. UNCHANGED <<sess, resume, autoDone, asked, made, session, user>> /\ (events' = events \/ Event)
  BY DEF Ages, NotModified, StoreSnapshot, Cleared
<1>3. snap' \in {"none", "current", "stale"}
  BY DEF Ages, NotModified, StoreSnapshot, Cleared, LifecycleIInv, LifecycleTypes
<1>4. control' \in Controls /\ DiffHasSession'
  BY <1>1 DEF Ages, NotModified, StoreSnapshot, Cleared, LifecycleIInv, DiffHasSession, Controls
<1>5. Elsewhere
  BY <1>2, <1>3, <1>4 DEF Elsewhere, LifecycleIInv, LifecycleTypes
<1>6. QED
  BY <1>2, <1>5, IdleKeeps

\* onSnapshot asks for Up when a resume or the automatic call is taken for it.
LEMMA OnSnapshotKeeps ==
  ASSUME LifecycleIInv, OnSnapshot
  PROVE  LifecycleIInv'
<1> USE LifecycleAssumption
<1> DEFINE back == Resumes(sess)
           auto == back \/ (AutoUp /\ ~autoDone /\ sess = None)
<1>1. /\ control' = IF sess = None THEN [at |-> "idle", of |-> None] ELSE [at |-> "diff", of |-> sess]
      /\ resume' = (resume /\ ~back) /\ autoDone' = (autoDone \/ auto)
      /\ asked' = IF auto THEN asked + 1 ELSE asked
      /\ UNCHANGED <<snap, sess, session, user, made, events>>
  BY DEF OnSnapshot
<1>2. /\ sess \in Sessions \cup {None} /\ resume \in BOOLEAN /\ autoDone \in BOOLEAN
      /\ asked \in Nat /\ events \in Nat /\ (back => resume)
  BY DEF LifecycleIInv, LifecycleTypes, Budget, Resumes
<1>3. MayMark' = MayMark /\ SessionsFine' /\ OneSession'
  BY <1>1 DEF MayMark, LifecycleIInv, SessionsFine, OneSession
<1>4. control' \in Controls /\ DiffHasSession'
  BY <1>1, <1>2 DEF Controls, DiffHasSession
<1>5. resume' \in BOOLEAN /\ autoDone' \in BOOLEAN
  BY <1>1, Zenon
<1>6. LifecycleTypes'
  BY <1>1, <1>4, <1>5 DEF LifecycleIInv, LifecycleTypes, Controls
<1>7. Budget'
  <2> DEFINE a == IF autoDone THEN 0 ELSE 1
             x == IF resume THEN 1 ELSE 0
             b == IF autoDone' THEN 0 ELSE 1
             y == IF resume' THEN 1 ELSE 0
  <2>1. asked + x + a + Cardinality(MayMark) <= events + MaxSessions + 1
    BY DEF LifecycleIInv, Budget
  <2>2. a \in 0..1 /\ x \in 0..1 /\ b \in 0..1 /\ y \in 0..1
    OBVIOUS
  <2>3. b <= a /\ y <= x
    BY <1>1, <1>2
  <2>4. auto => b < a \/ y < x
    <3>1. ASSUME back PROVE y < x
      <4>1. resume = TRUE /\ resume' = FALSE
        BY <1>1, <1>2, <3>1
      <4>2. x = 1 /\ y = 0
        BY <4>1, Zenon
      <4>3. QED
        BY <4>2
    <3>2. ASSUME AutoUp /\ ~autoDone /\ sess = None PROVE b < a
      <4>1. autoDone = FALSE /\ autoDone' = TRUE
        BY <1>1, <1>2, <3>2
      <4>2. a = 1 /\ b = 0
        BY <4>1, Zenon
      <4>3. QED
        BY <4>2
    <3>3. QED
      BY <3>1, <3>2
  <2>5. asked' \in Nat /\ (asked' = asked \/ (asked' = asked + 1 /\ auto))
    BY <1>1, <1>2
  <2> HIDE DEF a, x, b, y, auto
  <2>6. asked' + y + b + Cardinality(MayMark) <= events + MaxSessions + 1
    BY <1>2, <2>1, <2>2, <2>3, <2>4, <2>5, MayMarkCounts
  <2>7. QED
    BY <1>1, <1>3, <2>5, <2>6 DEF Budget, b, y
<1>8. QED
  BY <1>3, <1>4, <1>6, <1>7 DEF LifecycleIInv

\* applyDiff sets or removes NAT rules, whatever the session is at.
LEMMA ApplyDiffKeeps ==
  ASSUME LifecycleIInv, ApplyDiff
  PROVE  LifecycleIInv'
<1> DEFINE s == control.of
           r == session[s]
<1>1. s \in Sessions
  BY DEF ApplyDiff, LifecycleIInv, DiffHasSession
<1>2. r \in SessionRecord /\ SessionFine(r)
  BY <1>1, Before
<1>3. Elsewhere
  BY DEF ApplyDiff, Elsewhere, Controls, DiffHasSession, LifecycleIInv, LifecycleTypes
<1>4. CASE UNCHANGED session
  BY <1>3, <1>4, IdleKeeps
<1>5. ASSUME NEW q \in {[r EXCEPT !.host = @ \cup {"nat"}, !.known = @ \cup {"nat"}],
                        [r EXCEPT !.host = @ \ {"nat"}, !.known = @ \ {"nat"}]}, Set(s, q)
      PROVE  LifecycleIInv'
  <2>1. /\ q \in SessionRecord /\ q.at = r.at /\ q.close = r.close /\ q.undo = r.undo
        /\ q.cancelled = r.cancelled /\ q.stale = r.stale
        /\ \A e \in {"device", "control"} : (e \in q.host <=> e \in r.host) /\ (e \in q.known <=> e \in r.known)
    <3>1. CASE q = [r EXCEPT !.host = @ \cup {"nat"}, !.known = @ \cup {"nat"}]
      BY <1>2, <3>1 DEF SessionRecord, Changes, Flagged
    <3>2. CASE q = [r EXCEPT !.host = @ \ {"nat"}, !.known = @ \ {"nat"}]
      BY <1>2, <3>2 DEF SessionRecord
    <3>3. QED
      BY <1>5, <3>1, <3>2
  <2>2. SessionFine(q) /\ (Unmarked(q) => Unmarked(r)) /\ (Lives(q) => Lives(r))
    BY <1>2, <2>1 DEF SessionFine, Behind, Unmarked, Lives
  <2>3. QED
    BY <1>1, <1>3, <1>5, <2>1, <2>2, StepKeeps
<1>6. QED
  BY <1>4, <1>5 DEF ApplyDiff

\* A refusal is an event, and the automatic call may be made once more.
LEMMA RefuseKeeps ==
  ASSUME LifecycleIInv, Refuse \/ NotApproved
  PROVE  LifecycleIInv'
<1> USE LifecycleAssumption
<1>1. /\ MayMark' = MayMark /\ UNCHANGED <<sess, resume, asked, session, user, made>>
      /\ autoDone' = FALSE /\ events' = events + 1 /\ events' \in 0..MaxEvents /\ events \in Nat
      /\ asked \in Nat
  BY DEF Refuse, NotApproved, MayMark, Event, LifecycleIInv, LifecycleTypes, Budget
<1>2. snap' \in {"none", "current", "stale"} /\ control' \in Controls /\ DiffHasSession'
  BY DEF Refuse, NotApproved, Controls, DiffHasSession, LifecycleIInv, LifecycleTypes
<1>3. LifecycleTypes' /\ SessionsFine' /\ OneSession'
  BY <1>1, <1>2 DEF LifecycleIInv, LifecycleTypes, SessionsFine, OneSession, Controls
<1>4. Budget'
  <2> DEFINE a == IF autoDone THEN 0 ELSE 1
             x == IF resume THEN 1 ELSE 0
  <2>1. a \in Nat /\ x \in Nat
    OBVIOUS
  <2>2. asked + x + a + Cardinality(MayMark) <= events + MaxSessions + 1
    BY DEF LifecycleIInv, Budget
  <2> HIDE DEF a, x
  <2>3. asked + x + 1 + Cardinality(MayMark) <= events' + MaxSessions + 1
    BY <1>1, <2>1, <2>2, MayMarkCounts
  <2>4. (IF autoDone' THEN 0 ELSE 1) = 1
    BY <1>1, Zenon
  <2>5. QED
    BY <1>1, <2>3, <2>4 DEF Budget, x
<1>5. QED
  BY <1>2, <1>3, <1>4 DEF LifecycleIInv

LEMMA ControlDownKeeps ==
  ASSUME LifecycleIInv, ControlDown
  PROVE  LifecycleIInv'
<1>1. Elsewhere
  BY DEF ControlDown, Elsewhere, Controls, LifecycleIInv, LifecycleTypes, DiffHasSession
<1>2. CASE sess = None
  BY <1>1, <1>2, IdleKeeps DEF ControlDown
<1>3. CASE sess # None
  <2>1. sess \in Sessions /\ Set(sess, Closed(session[sess]))
    BY <1>3 DEF ControlDown, Close, LifecycleIInv, LifecycleTypes
  <2>2. session[sess] \in SessionRecord /\ SessionFine(session[sess])
    BY <2>1, Before
  <2>3. QED
    BY <1>1, <2>1, <2>2, ClosedIsFine, StepKeeps
<1>4. QED
  BY <1>2, <1>3

-----------------------------------------------------------------------------
LEMMA NextLifecycle == LifecycleIInv /\ [Next]_vars => LifecycleIInv'
<1> SUFFICES ASSUME LifecycleIInv, [Next]_vars PROVE LifecycleIInv'
  OBVIOUS
<1>1. CASE UNCHANGED vars
  <2>1. Elsewhere /\ UNCHANGED session
    BY <1>1 DEF vars, Elsewhere, Controls, LifecycleIInv, LifecycleTypes, DiffHasSession
  <2>2. QED
    BY <2>1, IdleKeeps
<1>2. CASE AskUp \/ UpRefused \/ UpBegins
  BY <1>2, AskKeeps, UpBeginsKeeps
<1>3. ASSUME NEW s \in Sessions,
             Apply(s) \/ Ends(s) \/ StaleTick(s) \/ StaleEnds(s) \/ FailsItself(s) \/ LinkDials(s)
      PROVE  LifecycleIInv'
  BY <1>3, ApplyKeeps, TeardownKeeps, OverKeeps, StaleTickKeeps, StaleEndsKeeps, FailsItselfKeeps, LinkDialsKeeps
     DEF Ends
<1>4. CASE DownByUser \/ UserDown
  BY <1>4, UserKeeps
<1>5. CASE Ages \/ NotModified \/ StoreSnapshot \/ Cleared
  BY <1>5, LoopKeeps
<1>6. CASE OnSnapshot \/ ApplyDiff \/ Refuse \/ NotApproved \/ ControlDown
  BY <1>6, OnSnapshotKeeps, ApplyDiffKeeps, RefuseKeeps, ControlDownKeeps
<1>7. QED
  BY <1>1, <1>2, <1>3, <1>4, <1>5, <1>6 DEF Next

\* What Up built is undone by the time its session is over, whoever closed it
\* and at whichever step of apply, and two sessions never have a device at
\* the same time (Up, teardown, watch, Down).
THEOREM LifecycleSound == Spec => []LifecycleInv
<1>1. Spec => []LifecycleIInv
  BY InitLifecycle, NextLifecycle, PTL DEF Spec
<1>2. QED
  BY <1>1, IInvIsEnough, PTL

=============================================================================
