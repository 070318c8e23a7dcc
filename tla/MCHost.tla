------------------------------- MODULE MCHost -------------------------------
(***************************************************************************)
(* Instances for TLC of what runs on a machine around the tunnels: the     *)
(* privileged process and its worker, the device and the engine of an      *)
(* embedding app, updates, the watch on the default routes, and the        *)
(* reports a node sends with the log that stores them.  No two of these    *)
(* share state: focus says which one a behaviour is about, and the others  *)
(* stand still.                                                            *)
(***************************************************************************)
EXTENDS PrivSep, EmbeddedTun, EmbedEngine, Updates, NetWatch, TunnelReports

VARIABLE focus

hostVars == <<focus, sepVars, tunVars, engineVars, updateVars, watchVars, logVars, shipVars>>

\* Control planes, routes and values are interchangeable.
HostInit ==
  /\ focus \in {"sep", "tun", "engine", "updates", "watch", "log", "reports"}
  /\ SepInit /\ TunInit /\ UpdateInit /\ ShipInit
  /\ EngineInit /\ config \in IF focus = "engine" THEN {NoOne, CHOOSE c \in Planes : TRUE} ELSE {NoOne}
  /\ WatchInit /\ real = CHOOSE r \in Routes : TRUE
  /\ LogInit /\ (focus # "log" => \A i \in DOMAIN events : events[i].attr = CHOOSE v \in AttrValues : TRUE)

HostNext ==
  /\ UNCHANGED focus
  /\ \/ focus = "sep" /\ SepNext
        /\ UNCHANGED <<tunVars, engineVars, updateVars, watchVars, logVars, shipVars>>
     \/ focus = "tun" /\ TunNext
        /\ UNCHANGED <<sepVars, engineVars, updateVars, watchVars, logVars, shipVars>>
     \/ focus = "engine" /\ EngineNext
        /\ UNCHANGED <<sepVars, tunVars, updateVars, watchVars, logVars, shipVars>>
     \/ focus = "updates" /\ UpdateNext
        /\ UNCHANGED <<sepVars, tunVars, engineVars, watchVars, logVars, shipVars>>
     \/ focus = "watch" /\ WatchNext
        /\ UNCHANGED <<sepVars, tunVars, engineVars, updateVars, logVars, shipVars>>
     \/ focus = "log" /\ LogNext
        /\ UNCHANGED <<sepVars, tunVars, engineVars, updateVars, watchVars, shipVars>>
     \/ focus = "reports" /\ ShipNext
        /\ UNCHANGED <<sepVars, tunVars, engineVars, updateVars, watchVars, logVars>>

\* The parent works on what it took, its writes have a deadline and the
\* supervisor takes its turn; a worker that is not wedged reads its answers.
SepFair ==
  /\ \A i \in Ids :
       /\ WF_sepVars(focus = "sep" /\ ReadLoop(i))
       /\ WF_sepVars(focus = "sep" /\ (HandleChange(i) \/ HandleCreateTUN(i) \/ HandleFollow(i)
            \/ HandleForget(i) \/ ForgetIdentity(i) \/ WriteAnswer(i) \/ WriteFails(i)))
  /\ WF_sepVars(focus = "sep" /\ WorkerIsKilled)
  /\ WF_sepVars(focus = "sep" /\ ServeReturns)
  /\ WF_sepVars(focus = "sep" /\ CleanUp)

\* Timers fire, the platform answers, and what is being closed is closed.
TunFair ==
  /\ WF_tunVars(focus = "tun" /\ Apply)
  /\ WF_tunVars(focus = "tun" /\ (Refused \/ AppliedKept \/ AppliedNew \/ NoDevice))
  /\ WF_tunVars(focus = "tun" /\ CloseFd)
  /\ WF_tunVars(focus = "tun" /\ Release)

\* What was begun goes on: a call of the app returns, the goroutine of a
\* reset runs.
EngineFair ==
  \A e \in Engines :
    /\ WF_engineVars(focus = "engine" /\ StopEnds(e))
    /\ WF_engineVars(focus = "engine" /\ (ResetTakes(e) \/ ResetStops(e) \/ ResetServes(e)))
    /\ \A t \in Callers : WF_engineVars(focus = "engine" /\
         (ConfigureStarts(e, t) \/ ConfigureInstalls(e, t) \/ ConfigureUndoes(e, t)))

\* A countdown ends, a system call returns, launchd keeps the daemon alive;
\* the reader of the kernel's messages and the watcher are goroutines of
\* their own; housekeeping runs once a minute and time passes.  Nothing is
\* assumed of the node that reports or of its network.
HostFair ==
  /\ SepFair /\ TunFair /\ EngineFair
  /\ WF_updateVars(focus = "updates" /\ Installed)
  /\ WF_updateVars(focus = "updates" /\ RestartSoon)
  /\ WF_updateVars(focus = "updates" /\ DaemonStarts)
  /\ WF_watchVars(focus = "watch" /\ Notify)
  /\ WF_watchVars(focus = "watch" /\ (FirstLook \/ TakeEvent \/ Drain \/ Look \/ Compare))
  /\ WF_logVars(focus = "log" /\ BackfillLogColumns)
  /\ WF_logVars(focus = "log" /\ BackfillStores)
  /\ \A t \in Tunnels : WF_shipVars(focus = "reports" /\ FallsSilent(t))
  /\ WF_shipVars(focus = "reports" /\ CloseStaleTunnels)

HostSpec == HostInit /\ [][HostNext]_hostVars /\ HostFair

-----------------------------------------------------------------------------
\* No report is lost without a count or overtaken on its way, and the log
\* that stores the reports answers every filter exactly while the backfill
\* runs (shipper, BackfillLogColumns).
ReportsInv == ShipInv /\ LogInv

\* The device of an app survives its replacement and is given back whole
\* (swapTUN), and no change of the default routes is lost between reader and
\* watcher (watch_linux.go).
DeviceInv == TunInv /\ WatchInv

\* There is always an app to start and only a newer one is offered (update),
\* and the engine inside it leaves no node running that nobody holds (embed).
AppInv == UpdateInv /\ EngineInv

\* What a step may never do here: reopen a tunnel that was closed, connect
\* without an update to follow, serve on without an identity.
HostSteps == CloseIsFinal /\ ConnectsOnlyAfterUpdate /\ ForgottenEndsService

\* What must happen: the newest settings reach the platform, what the parent
\* began to answer ends and so does a service without identity, a tunnel the
\* node no longer has is closed, the backfill ends, an installed release
\* runs, a stopped engine frees its directory, and a move is reported.
HostProgress ==
  /\ SettingsArrive /\ AnswersEnd /\ ForgetEnds /\ GoneIsClosed
  /\ <>[](focus = "log" => Filled)
  /\ InstalledRuns /\ StopFrees /\ MoveIsReported

=============================================================================
