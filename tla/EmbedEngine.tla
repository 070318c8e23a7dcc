---------------------------- MODULE EmbedEngine ----------------------------
(***************************************************************************)
(* The engine an app embeds (internal/embed): Start, Request, Stop.        *)
(*                                                                         *)
(* The app and its network extension share one state directory; the lock   *)
(* on it is what keeps two engines apart.  An engine runs a node, or the   *)
(* setup API of one that has no control plane yet.  Engine.mu is held only *)
(* to read or swap the fields: node.New, running.stop and the hundred      *)
(* milliseconds before a reset happen outside it, so the calls interleave. *)
(***************************************************************************)
EXTENDS Naturals, FiniteSets

CONSTANTS
    Engines,  \* Engine values, each started and stopped once
    Planes,   \* control planes
    Callers,  \* configure requests an engine serves at one time
    NodeSeq,  \* nodes that are made, in order
    NoOne     \* no engine, no node, no control plane

ASSUME EngineConstants == NoOne \notin Engines \cup Planes \cup NodeSeq

VARIABLES
    engine,   \* of each engine: "off", "on", "stopping", "stopped"
    handler, \* Engine.handler: "none", "setup", "node"
    run,     \* Engine.run
    holder,  \* who has the lock of the directory
    config,  \* settings.json: the control plane, or NoOne
    owner,   \* the engine each node was made by, or NoOne
    alive,   \* nodes that run
    calls,   \* configure requests: their step, control plane and node
    reset,   \* resetToSetup of each engine: its step and node
    halt     \* the node Stop waits for

engineVars == <<engine, handler, run, holder, config, owner, alive, calls, reset, halt>>

IdleCall == [at |-> "idle", node |-> NoOne]
Stopped(e) == engine[e] \in {"stopping", "stopped"}
Unmade == {n \in NodeSeq : owner[n] = NoOne}

EngineInit ==
    /\ engine = [e \in Engines |-> "off"]
    /\ handler = [e \in Engines |-> "none"]
    /\ run = [e \in Engines |-> NoOne]
    /\ holder = NoOne
    /\ config \in Planes \cup {NoOne}
    /\ owner = [n \in NodeSeq |-> NoOne]
    /\ alive = {}
    /\ calls = [e \in Engines |-> [t \in Callers |-> IdleCall]]
    /\ reset = [e \in Engines |-> IdleCall]
    /\ halt = [e \in Engines |-> NoOne]

----------------------------------------------------------------------------
\* node.New and the goroutine that runs the node.
NewNode(e, n) ==
    /\ n \in Unmade
    /\ owner' = [owner EXCEPT ![n] = e]
    /\ alive' = alive \cup {n}

\* lockDir: refused while another engine has the directory.
LockDir(e) == holder = NoOne /\ holder' = e

\* Start without a control plane: the setup API.
StartSetup(e) ==
    /\ engine[e] = "off" /\ config = NoOne /\ LockDir(e)
    /\ engine' = [engine EXCEPT ![e] = "on"]
    /\ handler' = [handler EXCEPT ![e] = "setup"]
    /\ UNCHANGED <<run, config, owner, alive, calls, reset, halt>>

\* Start with one: its node.
StartWithNode(e, n) ==
    /\ engine[e] = "off" /\ config # NoOne /\ LockDir(e)
    /\ engine' = [engine EXCEPT ![e] = "on"]
    /\ NewNode(e, n)
    /\ run' = [run EXCEPT ![e] = n]
    /\ handler' = [handler EXCEPT ![e] = "node"]
    /\ UNCHANGED <<config, calls, reset, halt>>

\* Start that fails: the lock is given back.
StartFails(e) ==
    /\ engine[e] = "off" /\ holder = NoOne
    /\ engine' = [engine EXCEPT ![e] = "stopped"]
    /\ UNCHANGED <<handler, run, holder, config, owner, alive, calls, reset, halt>>

----------------------------------------------------------------------------
\* POST /v1/configure: the settings are stored before the node is made.
ConfigureSaves(e, t, c) ==
    /\ ~Stopped(e) /\ handler[e] = "setup" /\ calls[e][t] = IdleCall
    /\ config' = c
    /\ calls' = [calls EXCEPT ![e][t].at = "saved"]
    /\ UNCHANGED <<engine, handler, run, holder, owner, alive, reset, halt>>

\* startNode: node.New, or an error that takes the settings back.
ConfigureStarts(e, t) ==
    /\ calls[e][t].at = "saved"
    /\ \/ \E n \in Unmade :
            /\ NewNode(e, n)
            /\ calls' = [calls EXCEPT ![e][t] = [at |-> "made", node |-> n]]
            /\ UNCHANGED config
       \/ /\ config' = NoOne
          /\ calls' = [calls EXCEPT ![e][t] = IdleCall]
          /\ UNCHANGED <<owner, alive>>
    /\ UNCHANGED <<engine, handler, run, holder, reset, halt>>

InstallsAnyway(e, t) ==
    /\ calls[e][t].at = "made"
    /\ run' = [run EXCEPT ![e] = calls[e][t].node]
    /\ handler' = [handler EXCEPT ![e] = "node"]
    /\ calls' = [calls EXCEPT ![e][t] = IdleCall]
    /\ UNCHANGED <<engine, holder, config, owner, alive, reset, halt>>

\* startNode: the node becomes the engine's, unless Stop was called while
\* it was made.
ConfigureInstalls(e, t) ==
    /\ calls[e][t].at = "made"
    /\ IF Stopped(e)
       THEN /\ calls' = [calls EXCEPT ![e][t].at = "undo"]
            /\ UNCHANGED <<run, handler>>
       ELSE /\ run' = [run EXCEPT ![e] = calls[e][t].node]
            /\ handler' = [handler EXCEPT ![e] = "node"]
            /\ calls' = [calls EXCEPT ![e][t] = IdleCall]
    /\ UNCHANGED <<engine, holder, config, owner, alive, reset, halt>>

\* running.stop of that node, and the settings go.
ConfigureUndoes(e, t) ==
    /\ calls[e][t].at = "undo"
    /\ alive' = alive \ {calls[e][t].node}
    /\ config' = NoOne
    /\ calls' = [calls EXCEPT ![e][t] = IdleCall]
    /\ UNCHANGED <<engine, handler, run, holder, owner, reset, halt>>

----------------------------------------------------------------------------
\* POST /v1/reset: Forget, and resetToSetup in the background.
ResetForgets(e) ==
    /\ ~Stopped(e) /\ handler[e] = "node" /\ reset[e] = IdleCall
    /\ config' = NoOne
    /\ reset' = [reset EXCEPT ![e].at = "wait"]
    /\ UNCHANGED <<engine, handler, run, holder, owner, alive, calls, halt>>

\* resetToSetup takes the node ...
ResetTakes(e) ==
    /\ reset[e].at = "wait"
    /\ reset' = [reset EXCEPT ![e] = [at |-> "stop", node |-> run[e]]]
    /\ run' = [run EXCEPT ![e] = NoOne]
    /\ UNCHANGED <<engine, handler, holder, config, owner, alive, calls, halt>>

\* ... stops it ...
ResetStops(e) ==
    /\ reset[e].at = "stop"
    /\ alive' = alive \ {reset[e].node}
    /\ reset' = [reset EXCEPT ![e] = [at |-> "setup", node |-> NoOne]]
    /\ UNCHANGED <<engine, handler, run, holder, config, owner, calls, halt>>

\* ... and serves setup, also in an engine that was stopped meanwhile: its
\* Request refuses by itself.
ResetServes(e) ==
    /\ reset[e].at = "setup"
    /\ handler' = [handler EXCEPT ![e] = "setup"]
    /\ reset' = [reset EXCEPT ![e] = IdleCall]
    /\ UNCHANGED <<engine, run, holder, config, owner, alive, calls, halt>>

----------------------------------------------------------------------------
\* Stop, up to the node it has to wait for.
StopBegins(e) ==
    /\ engine[e] = "on"
    /\ engine' = [engine EXCEPT ![e] = "stopping"]
    /\ halt' = [halt EXCEPT ![e] = run[e]]
    /\ run' = [run EXCEPT ![e] = NoOne]
    /\ handler' = [handler EXCEPT ![e] = "none"]
    /\ UNCHANGED <<holder, config, owner, alive, calls, reset>>

\* The node has stopped and the lock goes.
StopEnds(e) ==
    /\ engine[e] = "stopping"
    /\ alive' = alive \ {halt[e]}
    /\ engine' = [engine EXCEPT ![e] = "stopped"]
    /\ halt' = [halt EXCEPT ![e] = NoOne]
    /\ holder' = NoOne
    /\ UNCHANGED <<handler, run, config, owner, calls, reset>>

\* The process is killed: its nodes and the lock go with it.
Killed(e) ==
    /\ engine[e] \in {"on", "stopping"}
    /\ engine' = [engine EXCEPT ![e] = "stopped"]
    /\ alive' = {n \in alive : owner[n] # e}
    /\ holder' = NoOne
    /\ run' = [run EXCEPT ![e] = NoOne]
    /\ handler' = [handler EXCEPT ![e] = "none"]
    /\ calls' = [calls EXCEPT ![e] = [t \in Callers |-> IdleCall]]
    /\ reset' = [reset EXCEPT ![e] = IdleCall]
    /\ halt' = [halt EXCEPT ![e] = NoOne]
    /\ UNCHANGED <<config, owner>>

Work(e) == \/ \E t \in Callers : ConfigureStarts(e, t) \/ ConfigureInstalls(e, t)
                                 \/ ConfigureUndoes(e, t)
           \/ ResetTakes(e) \/ ResetStops(e) \/ ResetServes(e) \/ StopEnds(e)

EngineNext ==
    \E e \in Engines :
        \/ StartSetup(e) \/ (\E n \in NodeSeq : StartWithNode(e, n)) \/ StartFails(e)
        \/ \E t \in Callers, c \in Planes : ConfigureSaves(e, t, c)
        \/ ResetForgets(e) \/ StopBegins(e) \/ Killed(e) \/ Work(e)

EngineSpec == EngineInit /\ [][EngineNext]_engineVars

----------------------------------------------------------------------------
EngineTypeOK ==
    /\ engine \in [Engines -> {"off", "on", "stopping", "stopped"}]
    /\ handler \in [Engines -> {"none", "setup", "node"}]
    /\ run \in [Engines -> NodeSeq \cup {NoOne}]
    /\ alive \subseteq NodeSeq \ Unmade
    /\ \A e \in Engines : engine[e] \in {"on", "stopping"} => holder = e

\* An engine that was stopped has no node, whatever configure or reset was
\* under way: startNode looks at stopped again after the node is made.
StoppedRunsNothing == \A e \in Engines : Stopped(e) => run[e] = NoOne

\* Every node that runs is the engine's, or is held by a call that has yet
\* to install or to stop it: none is left running that nobody will end.
NodeIsHeld ==
    \A n \in alive : \E e \in Engines :
        \/ run[e] = n \/ halt[e] = n \/ reset[e].node = n
        \/ \E t \in Callers : calls[e][t].node = n

\* The nodes of an engine that is stopped end, and the directory is free
\* for the next one.
StopFrees ==
    []<>(\A e \in Engines : engine[e] \in {"stopping", "stopped"}
                               => holder # e /\ \A n \in alive : owner[n] # e)

\* A stopped engine has no node, and a node that runs has somebody who will
\* stop it (startNode, Stop).
EngineInv == EngineTypeOK /\ StoppedRunsNothing /\ NodeIsHeld

=============================================================================
