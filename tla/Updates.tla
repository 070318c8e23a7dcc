------------------------------ MODULE Updates ------------------------------
(***************************************************************************)
(* Updates of a node that runs from an app bundle (internal/update and     *)
(* cmd/boundgate-node/selfupdate.go): looking for a release, installing    *)
(* it, restarting from it and connecting again.                            *)
(*                                                                         *)
(* The server that offers releases is trusted with nothing: it may answer  *)
(* every request differently, with an unsigned manifest, an old release,   *)
(* an old manifest under a new tag, or bytes of another file.  Checks run  *)
(* in the background and on request, beside an installation; they share    *)
(* one status, which each reads again after it has written it.             *)
(*                                                                         *)
(* A release is its version.  Bundle and files are the version they hold.  *)
(***************************************************************************)
EXTENDS Naturals

CONSTANTS
    MaxVersion,   \* versions 1 .. MaxVersion have been released and signed
    FirstVersion, \* the version that runs at first
    MaxChecks,    \* bound: looks at the server
    MaxEnds       \* bound: ends of the daemon

ASSUME UpdateBounds ==
    /\ MaxVersion \in Nat /\ FirstVersion \in 1..MaxVersion
    /\ MaxChecks \in Nat /\ MaxEnds \in Nat

Versions == 1..MaxVersion
None == 0                       \* no release, no file
Checkers == {"background", "apply"}

VARIABLES
    current,   \* the version the daemon runs, None while it does not
    bundle,    \* the app in its place
    aside,     \* the previous app, moved aside
    staged,    \* the download, unpacked next to the app
    status,    \* Service.status
    look,      \* the check each checker is in: its stage and its release
    install,   \* the stage of Apply
    restarting,  \* restartSoon is counting down
    up,        \* the node is connected
    record,    \* resume-after-update: "none", "fresh", or "old"
    forUpdate, \* history: the last daemon ended connected, for an update
    checks, ends

updateVars == <<current, bundle, aside, staged, status, look, install,
                restarting, up, record, forUpdate, checks, ends>>

NoStatus == [error |-> FALSE, available |-> FALSE, latest |-> None,
             installed |-> None]
NoLook == [stage |-> "idle", release |-> None]

UpdateInit ==
    /\ current = FirstVersion
    /\ bundle = FirstVersion
    /\ aside = None
    /\ staged = None
    /\ status = NoStatus
    /\ look = [c \in Checkers |-> NoLook]
    /\ install = "idle"
    /\ restarting = FALSE
    /\ up = FALSE
    /\ record = "none"
    /\ forUpdate = FALSE
    /\ checks = MaxChecks
    /\ ends = MaxEnds

----------------------------------------------------------------------------
(* Looking for a release.                                                  *)

Newer(from, to) == to > from

Offers == [signed : BOOLEAN, manifest : Versions, tag : Versions]

\* Latest: the manifest must verify and be the one of the tag.
Latest(o) == IF o.signed /\ o.tag = o.manifest THEN o.manifest ELSE None

CheckBegins(c) ==
    /\ look[c].stage = "idle"
    /\ c = "apply" => install = "check"
    /\ current # None
    /\ checks > 0
    /\ checks' = checks - 1
    /\ look' = [look EXCEPT ![c] = [stage |-> "asks", release |-> None]]
    /\ UNCHANGED <<current, bundle, aside, staged, status, install, restarting,
                   up, record, forUpdate, ends>>

CheckHears(c) ==
    /\ look[c].stage = "asks"
    /\ \E o \in Offers :
         look' = [look EXCEPT ![c] = [stage |-> "heard", release |-> Latest(o)]]
    /\ UNCHANGED <<current, bundle, aside, staged, status, install, restarting,
                   up, record, forUpdate, checks, ends>>

Marked(r) ==
    IF r = None THEN [status EXCEPT !.error = TRUE]
    ELSE [status EXCEPT !.error = FALSE, !.latest = r,
                        !.available = /\ Newer(current, r)
                                      /\ status.installed # r]

\* The status is written under its lock...
CheckMarks(c) ==
    /\ look[c].stage = "heard"
    /\ status' = Marked(look[c].release)
    /\ look' = [look EXCEPT ![c].stage = "marked"]
    /\ UNCHANGED <<current, bundle, aside, staged, install, restarting, up,
                   record, forUpdate, checks, ends>>

CheckReturns ==
    /\ look["background"].stage = "marked"
    /\ look' = [look EXCEPT !["background"] = NoLook]
    /\ UNCHANGED <<current, bundle, aside, staged, status, install, restarting,
                   up, record, forUpdate, checks, ends>>

----------------------------------------------------------------------------
(* Apply, one at a time.                                                   *)

ApplyBegins ==
    /\ install = "idle"
    /\ current # None
    /\ install' = "check"
    /\ UNCHANGED <<current, bundle, aside, staged, status, look, restarting, up,
                   record, forUpdate, checks, ends>>

ApplyEnds ==
    /\ install' = "idle"
    /\ staged' = None
    /\ look' = [look EXCEPT !["apply"] = NoLook]
    /\ UNCHANGED <<current, bundle, aside, status, restarting, up, record, forUpdate,
                   checks, ends>>

\* ... and read again without it: what Apply goes by is the status of the
\* last checker to have written one, beside the release it found itself.
ApplyRefuses ==
    /\ install = "check"
    /\ look["apply"].stage = "marked"
    /\ status.error \/ ~status.available
    /\ ApplyEnds

\* The release of this check is missing: the handler panics, the deferred
\* calls run.
ApplyPanics ==
    /\ install = "check"
    /\ look["apply"].stage = "marked"
    /\ ~status.error /\ status.available
    /\ look["apply"].release = None
    /\ ApplyEnds

\* Download keeps a file only when its bytes are those the manifest names.
Served == Versions \cup {None}

Verified(r, bytes) == bytes = r

ApplyDownloads ==
    /\ install = "check"
    /\ look["apply"].stage = "marked"
    /\ ~status.error /\ status.available
    /\ look["apply"].release # None
    /\ \E bytes \in Served :
         /\ Verified(look["apply"].release, bytes)
         /\ staged' = bytes
    /\ install' = "stage"
    /\ UNCHANGED <<current, bundle, aside, status, look, restarting, up, record, forUpdate,
                   checks, ends>>

\* No asset for this platform, a download that does not match, a signature
\* or a notarization that is refused.
ApplyFails ==
    /\ \/ install = "check" /\ look["apply"].stage = "marked"
                            /\ look["apply"].release # None
       \/ install = "stage"
    /\ ApplyEnds

MoveAside ==
    /\ install = "stage"
    /\ aside' = bundle
    /\ bundle' = None
    /\ install' = "swap"
    /\ UNCHANGED <<current, staged, status, look, restarting, up, record, forUpdate,
                   checks, ends>>

MoveIn ==
    /\ install = "swap"
    /\ bundle' = staged
    /\ staged' = None
    /\ install' = "swapped"
    /\ UNCHANGED <<current, aside, status, look, restarting, up, record, forUpdate, checks,
                   ends>>

\* The second rename fails: the previous app goes back.
MoveBack ==
    /\ install = "swap"
    /\ bundle' = aside
    /\ aside' = None
    /\ install' = "idle"
    /\ staged' = None
    /\ look' = [look EXCEPT !["apply"] = NoLook]
    /\ UNCHANGED <<current, status, restarting, up, record, forUpdate, checks, ends>>

\* The previous app is removed, the status says what was installed, and the
\* daemon will end in a second.
Installed ==
    /\ install = "swapped"
    /\ aside' = None
    /\ status' = [status EXCEPT !.available = FALSE,
                                !.installed = look["apply"].release]
    /\ restarting' = TRUE
    /\ install' = "idle"
    /\ look' = [look EXCEPT !["apply"] = NoLook]
    /\ UNCHANGED <<current, bundle, staged, up, record, forUpdate, checks, ends>>

----------------------------------------------------------------------------
(* The daemon ends and launchd starts what is in the app's place.          *)

Ended(rec) ==
    /\ current' = None
    /\ status' = NoStatus
    /\ look' = [c \in Checkers |-> NoLook]
    /\ install' = "idle"
    /\ restarting' = FALSE
    /\ up' = FALSE
    /\ record' = rec
    /\ forUpdate' = (restarting /\ up)
    /\ UNCHANGED <<bundle, aside, staged, checks>>

\* Restart: a node that is connected leaves a record of it.
RestartSoon ==
    /\ restarting
    /\ Ended(IF up THEN "fresh" ELSE record)
    /\ UNCHANGED ends

\* restartWhenReplaced: the executable is another one and the node is down.
RestartWhenReplaced ==
    /\ current # None
    /\ bundle \notin {None, current}
    /\ ~up
    /\ Ended(record)
    /\ UNCHANGED ends

\* The machine goes down, or the daemon is killed.
Crashes ==
    /\ current # None
    /\ ends > 0
    /\ ends' = ends - 1
    /\ Ended(record)

\* takeResume reads the record once and goes by it when it is a few minutes
\* old at most.
DaemonStarts ==
    /\ current = None
    /\ bundle # None
    /\ current' = bundle
    /\ up' = (record = "fresh")
    /\ record' = "none"
    /\ UNCHANGED <<bundle, aside, staged, status, look, install, restarting,
                   forUpdate, checks, ends>>

RecordAges ==
    /\ record = "fresh"
    /\ record' = "old"
    /\ UNCHANGED <<current, bundle, aside, staged, status, look, install,
                   restarting, up, forUpdate, checks, ends>>

UserConnects ==
    /\ current # None
    /\ up' = ~up
    /\ UNCHANGED <<current, bundle, aside, staged, status, look, install,
                   restarting, record, forUpdate, checks, ends>>

\* Someone puts the app back that a crash left aside.
UserRestores ==
    /\ current = None
    /\ bundle = None
    /\ bundle' = aside
    /\ aside' = None
    /\ UNCHANGED <<current, staged, status, look, install, restarting, up,
                   record, forUpdate, checks, ends>>

----------------------------------------------------------------------------
UpdateNext ==
    \/ \E c \in Checkers : CheckBegins(c) \/ CheckHears(c) \/ CheckMarks(c)
    \/ CheckReturns
    \/ ApplyBegins \/ ApplyRefuses \/ ApplyPanics \/ ApplyDownloads
    \/ ApplyFails
    \/ MoveAside \/ MoveIn \/ MoveBack \/ Installed
    \/ RestartSoon \/ RestartWhenReplaced \/ Crashes
    \/ DaemonStarts \/ RecordAges
    \/ UserConnects \/ UserRestores

UpdateSpec == UpdateInit /\ [][UpdateNext]_updateVars

----------------------------------------------------------------------------
UpdateTypeOK ==
    /\ {current, bundle, aside, staged} \subseteq Versions \cup {None}
    /\ status \in [error : BOOLEAN, available : BOOLEAN,
                   latest : Versions \cup {None},
                   installed : Versions \cup {None}]
    /\ look \in [Checkers -> [stage : {"idle", "asks", "heard", "marked"},
                              release : Versions \cup {None}]]
    /\ install \in {"idle", "check", "stage", "swap", "swapped"}
    /\ {restarting, up, forUpdate} \subseteq BOOLEAN
    /\ record \in {"none", "fresh", "old"}
    /\ checks \in 0..MaxChecks
    /\ ends \in 0..MaxEnds

\* There is always an app to start, in its place or aside: an installation
\* that fails or is cut off never leaves the machine without one.
AppIsKept == bundle # None \/ aside # None

\* What is offered is newer than what runs and is not installed already,
\* whichever check wrote the status last and whatever was installed beside.
OfferIsNew ==
    status.available => /\ Newer(current, status.latest)
                        /\ status.latest # status.installed

\* The daemon connects by itself only as the successor of one that ended
\* connected, for the update it had installed.
ConnectsOnlyAfterUpdate ==
    [][current = None /\ current' # None /\ up' => forUpdate]_updateVars

\* A release that was installed runs soon after, connected or not, unless
\* the next installation was cut off half way.
InstalledRuns ==
    restarting ~> bundle = None \/ current = bundle

\* There is always an app to start, and what is offered is new (Install,
\* check).
UpdateInv == UpdateTypeOK /\ AppIsKept /\ OfferIsNew

============================================================================
