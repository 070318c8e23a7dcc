------------------------------ MODULE NetWatch ------------------------------
(***************************************************************************)
(* The watch on the machine's default routes (internal/node/netcfg).  The  *)
(* kernel tells of every change of a route; a reader turns the messages    *)
(* into one token; the watcher waits out a burst, takes the token of the   *)
(* burst away, looks at the routes and reports when they differ from the   *)
(* last look.                                                              *)
(***************************************************************************)
EXTENDS Naturals

CONSTANTS
    Routes,     \* default routes the machine may have outside the tunnel
    MaxMoves,   \* bound: changes of the machine's routes
    MaxUnread   \* bound: looks that fail

ASSUME WatchBounds == {MaxMoves, MaxUnread} \subseteq Nat

VARIABLES
    real,     \* the default routes, outside the tunnel
    tunnel,   \* the node's own device has a default route too
    message,  \* the kernel has something to read
    token,    \* events: a channel of size 1
    watcher,  \* where watchDefaults is
    seen,     \* last
    cur,      \* cur
    moves, unread,
    reported  \* history: what was last reported

watchVars == <<real, tunnel, message, token, watcher, seen, cur, moves, unread, reported>>

\* linuxDefaults, darwinDefaults: the routes over the node's own devices
\* are left out.
Snapshot == real

\* Watch: the socket is bound before the first look.
WatchInit ==
    /\ real \in Routes /\ tunnel = FALSE
    /\ message = FALSE /\ token = FALSE
    /\ watcher = "first" /\ seen = real /\ cur = real
    /\ moves = 0 /\ unread = 0 /\ reported = real

\* The machine moves to another network: the kernel says so.
Move ==
    /\ moves < MaxMoves /\ moves' = moves + 1
    /\ \E r \in Routes \ {real} : real' = r
    /\ message' = TRUE
    /\ UNCHANGED <<tunnel, token, watcher, seen, cur, unread, reported>>

\* The overlay adds or removes its own default route, and the kernel says
\* so as well.
OwnRoute ==
    /\ moves < MaxMoves /\ moves' = moves + 1
    /\ tunnel' = ~tunnel
    /\ message' = TRUE
    /\ UNCHANGED <<real, token, watcher, seen, cur, unread, reported>>

\* The reader: one token is enough; a full channel takes no second one.
Notify ==
    /\ message
    /\ message' = FALSE /\ token' = TRUE
    /\ UNCHANGED <<real, tunnel, watcher, seen, cur, moves, unread, reported>>

\* The look before the loop.
FirstLook ==
    /\ watcher = "first"
    /\ seen' = Snapshot /\ reported' = Snapshot
    /\ watcher' = "wait"
    /\ UNCHANGED <<real, tunnel, message, token, cur, moves, unread>>

\* An event, and the delay begins.
TakeEvent ==
    /\ watcher = "wait" /\ token
    /\ token' = FALSE
    /\ watcher' = "delay"
    /\ UNCHANGED <<real, tunnel, message, seen, cur, moves, unread, reported>>

\* The delay is over: the token of the burst is taken away.
Drain ==
    /\ watcher = "delay"
    /\ token' = FALSE
    /\ watcher' = "look"
    /\ UNCHANGED <<real, tunnel, message, seen, cur, moves, unread, reported>>

\* The look.
Look ==
    /\ watcher = "look"
    /\ cur' = Snapshot
    /\ watcher' = "compare"
    /\ UNCHANGED <<real, tunnel, message, token, seen, moves, unread, reported>>

\* Reported when it differs from the last one.
Compare ==
    /\ watcher = "compare"
    /\ seen' = cur
    /\ reported' = IF cur # seen THEN cur ELSE reported
    /\ watcher' = "wait"
    /\ UNCHANGED <<real, tunnel, message, token, cur, moves, unread>>

\* The routes cannot be read: nothing is reported, and nothing makes the
\* watcher look again before the next event.
LookFails ==
    /\ watcher = "look" /\ unread < MaxUnread
    /\ unread' = unread + 1
    /\ watcher' = "wait"
    /\ UNCHANGED <<real, tunnel, message, token, seen, cur, moves, reported>>

WatchStep == Notify \/ FirstLook \/ TakeEvent \/ Drain \/ Look \/ Compare
WatchNext == Move \/ OwnRoute \/ WatchStep \/ LookFails
WatchSpec == WatchInit /\ [][WatchNext]_watchVars

----------------------------------------------------------------------------
WatchTypeOK ==
    /\ {real, seen, cur, reported} \subseteq Routes
    /\ {message, token, tunnel} \subseteq BOOLEAN
    /\ watcher \in {"first", "wait", "delay", "look", "compare"}
    /\ watcher # "first" => reported = seen

\* A change is not lost between the reader and the watcher: once the kernel
\* has told of it and both are at rest, the last look saw the routes there
\* are, unless a look failed.
RestIsCurrent ==
    watcher = "wait" /\ ~token /\ ~message /\ unread = 0 => reported = real

\* The node is told of every network the machine stays in.
MoveIsReported == []<>(moves = MaxMoves /\ unread = 0 => reported = real)

\* At rest the watcher has seen the routes there are (notify, watchDefaults).
WatchInv == WatchTypeOK /\ RestIsCurrent

=============================================================================
