----------------------------- MODULE ClientLink -----------------------------
(***************************************************************************)
(* The node's end of a tunnel over QUIC (internal/transport/client.go,     *)
(* sendqueue.go): the dial with what it opens and closes, the queue of     *)
(* packets to send, a tunnel that moves to another socket, the recovery of *)
(* a tunnel nothing comes back on, and the end.                            *)
(*                                                                         *)
(* Every socket is a resource of the process: bound by ListenUDP, gone     *)
(* with Close.  A tunnel is moved by "recover", its own goroutine, and by  *)
(* the node after every change of networks (node.go migrate), each with a  *)
(* context of its own; a later change cancels the one before it.  A locked *)
(* section of a mutex is one step.  quic-go is external: AddPath and Probe *)
(* succeed or fail as they like.                                           *)
(***************************************************************************)
EXTENDS Naturals, FiniteSets

CONSTANTS Changes,        \* changes of networks
          NoMove,
          MaxMigrations,  \* maxMigrations
          QueueLen,       \* datagramQueue
          SilentWrites,   \* silentWrites
          MaxSockets      \* bound on the sockets at a time

ASSUME ClientAssumption ==
    /\ IsFiniteSet(Changes) /\ "recover" \notin Changes
    /\ MaxMigrations \in Nat
    /\ {QueueLen, SilentWrites, MaxSockets} \subseteq Nat \ {0}

VARIABLES dial,     \* Dial: "none", "socket", "connect", "failed", "done"
          relayed,  \* over a relay stream
          conn,     \* qconn: "none", "open", "ended"
          stop,     \* sendQueue.stop is closed
          sender,   \* sendQueue.run is alive
          queued,   \* packets in sendQueue.q
          bound,    \* sockets the process has open
          qts,      \* quicClientLink.qts with pcs
          mover,    \* migrate: [at, socket] of each caller
          moves,    \* Node.moves: the change that is to decide
          closer,   \* Close: "idle", "stopping", "ending", "closed"
          silence,  \* quietSince: "none", "short", "long"
          writes,   \* quietWrites
          given

linkState == <<conn, stop, sender, queued>>
socketVars == <<bound, qts>>
quietVars == <<silence, writes, given>>
clientVars == <<dial, relayed, linkState, socketVars, mover, moves, closer, quietVars>>

Movers == {"recover"} \cup Changes
Idle == [at |-> "idle", socket |-> 0, ctx |-> "live"]

ClientInit ==
    /\ dial = "none" /\ relayed \in BOOLEAN
    /\ conn = "none" /\ stop = FALSE /\ sender = FALSE /\ queued = 0
    /\ bound = {} /\ qts = {}
    /\ mover = [m \in Movers |-> Idle] /\ moves = NoMove
    /\ closer = "idle"
    /\ silence = "none" /\ writes = 0 /\ given = FALSE
-----------------------------------------------------------------------------
(* Dial.  A relay stream is a socket the caller has bound.                 *)

DialSocket ==
    /\ dial = "none"
    /\ dial' = "socket" /\ bound' = {1}
    /\ UNCHANGED <<relayed, linkState, qts, mover, moves, closer, quietVars>>

\* The handshake fails, or the CONNECT-IP request after it.
ClientDialFails ==
    /\ dial \in {"socket", "connect"}
    /\ dial' = "failed" /\ bound' = {}
    /\ conn' = IF dial = "connect" THEN "ended" ELSE conn
    /\ UNCHANGED <<relayed, stop, sender, queued, qts, mover, moves, closer, quietVars>>

DialQuic ==
    /\ dial = "socket"
    /\ dial' = "connect" /\ conn' = "open"
    /\ UNCHANGED <<relayed, stop, sender, queued, socketVars, mover, moves, closer, quietVars>>

DialDone ==
    /\ dial = "connect"
    /\ dial' = "done" /\ sender' = TRUE /\ qts' = {1}
    /\ UNCHANGED <<relayed, conn, stop, queued, bound, mover, moves, closer, quietVars>>
-----------------------------------------------------------------------------
(* The connection ends by itself: the peer or the idle timeout, or the     *)
(* relay stream under it.                                                  *)

ConnectionEnds ==
    /\ dial = "done" /\ conn = "open"
    /\ conn' = "ended"
    /\ UNCHANGED <<dial, relayed, stop, sender, queued, socketVars, mover, moves, closer, quietVars>>
-----------------------------------------------------------------------------
(* Packets.                                                                *)

\* ClientTunnel.WritePacket: Err, sendQueue.write, noteQuietWrite.  A full
\* queue drops the packet, and that counts as a packet sent.
WritePacket ==
    /\ dial = "done" /\ conn = "open" /\ ~stop
    /\ queued' = IF queued < QueueLen THEN queued + 1 ELSE queued
    /\ silence' = IF silence = "none" THEN "short" ELSE silence
    /\ writes' = IF writes < SilentWrites THEN writes + 1 ELSE writes
    /\ IF writes' = SilentWrites /\ silence' = "long" /\ ~given
       THEN given' = TRUE /\ mover' = [mover EXCEPT !["recover"].at = "asked"]
       ELSE UNCHANGED <<given, mover>>
    /\ UNCHANGED <<dial, relayed, conn, stop, sender, socketVars, moves, closer>>

\* silentFor has passed since quietSince.
TimePasses ==
    /\ silence = "short"
    /\ silence' = "long"
    /\ UNCHANGED <<dial, relayed, linkState, socketVars, mover, moves, closer, writes, given>>

\* ClientTunnel.ReadPacket.
ReadPacket ==
    /\ dial = "done" /\ conn = "open"
    /\ silence' = "none" /\ writes' = 0
    /\ UNCHANGED <<dial, relayed, linkState, socketVars, mover, moves, closer, given>>

\* sendQueue.run: one packet, or its end.
SendOne ==
    /\ sender /\ queued > 0
    /\ queued' = queued - 1
    /\ UNCHANGED <<dial, relayed, conn, stop, sender, socketVars, mover, moves, closer, quietVars>>

SenderEnds ==
    /\ sender /\ (conn # "open" \/ stop)
    /\ sender' = FALSE
    /\ UNCHANGED <<dial, relayed, conn, stop, queued, socketVars, mover, moves, closer, quietVars>>
-----------------------------------------------------------------------------
(* migrate.                                                                *)

\* Node.migrate after a change of networks: the change before is cancelled.
Changed(c) ==
    /\ dial = "done" /\ mover[c] = Idle
    /\ mover' = [m \in Movers |->
           IF m = c THEN [Idle EXCEPT !.at = "asked"]
           ELSE IF m = moves /\ mover[m].ctx = "live" THEN [mover[m] EXCEPT !.ctx = "cancelled"]
           ELSE mover[m]]
    /\ moves' = c
    /\ UNCHANGED <<dial, relayed, linkState, socketVars, closer, quietVars>>

\* The 8 s of a change have passed.
Deadline(c) ==
    /\ mover[c].at # "idle" /\ mover[c].ctx = "live"
    /\ mover' = [mover EXCEPT ![c].ctx = "deadline"]
    /\ UNCHANGED <<dial, relayed, linkState, socketVars, moves, closer, quietVars>>

MoverTo(m, place) == mover' = [mover EXCEPT ![m].at = place]

\* ErrNoMigration: a relay, or too many sockets.
Refuse(m) ==
    /\ mover[m].at = "asked"
    /\ relayed \/ Cardinality(qts) > MaxMigrations
    /\ MoverTo(m, "failed")
    /\ UNCHANGED <<dial, relayed, linkState, socketVars, moves, closer, quietVars>>

Check(m) ==
    /\ mover[m].at = "asked"
    /\ ~relayed /\ Cardinality(qts) <= MaxMigrations
    /\ MoverTo(m, "checked")
    /\ UNCHANGED <<dial, relayed, linkState, socketVars, moves, closer, quietVars>>

Free == CHOOSE n \in 1 .. MaxSockets : n \notin bound

\* ListenUDP and AddPath.
Bind(m) ==
    /\ mover[m].at = "checked" /\ bound # 1 .. MaxSockets
    /\ bound' = bound \cup {Free}
    /\ mover' = [mover EXCEPT ![m] = [at |-> "added", socket |-> Free, ctx |-> @.ctx]]
    /\ UNCHANGED <<dial, relayed, linkState, qts, moves, closer, quietVars>>

\* One of them fails; a socket that was bound is closed.
BindFails(m) ==
    /\ mover[m].at = "checked"
    /\ MoverTo(m, "failed")
    /\ UNCHANGED <<dial, relayed, linkState, socketVars, moves, closer, quietVars>>

\* Mutant: the new socket takes the place of the old ones.
KeepNewest(m) ==
    /\ mover[m].at = "added"
    /\ qts' = {mover[m].socket}
    /\ mover' = [mover EXCEPT ![m] = [at |-> "probing", socket |-> 0, ctx |-> @.ctx]]
    /\ UNCHANGED <<dial, relayed, linkState, bound, moves, closer, quietVars>>

\* The socket joins the link's, whatever happens to the path.
Keep(m) ==
    /\ mover[m].at = "added"
    /\ qts' = qts \cup {mover[m].socket}
    /\ mover' = [mover EXCEPT ![m] = [at |-> "probing", socket |-> 0, ctx |-> @.ctx]]
    /\ UNCHANGED <<dial, relayed, linkState, bound, moves, closer, quietVars>>

ProbeFails(m) ==
    /\ mover[m].at = "probing"
    /\ MoverTo(m, "failed")
    /\ UNCHANGED <<dial, relayed, linkState, socketVars, moves, closer, quietVars>>

\* Probe and Switch: only an open connection is moved.
Switch(m) ==
    /\ mover[m].at = "probing" /\ conn = "open" /\ mover[m].ctx = "live"
    /\ MoverTo(m, "moved")
    /\ UNCHANGED <<dial, relayed, linkState, socketVars, moves, closer, quietVars>>

\* recover after a migration.
Recovered ==
    /\ mover["recover"].at = "moved"
    /\ mover' = [mover EXCEPT !["recover"] = Idle]
    /\ silence' = "none" /\ writes' = 0 /\ given' = FALSE
    /\ UNCHANGED <<dial, relayed, linkState, socketVars, moves, closer>>

\* Mutant: a recovery that failed is forgotten.
RecoverForgets ==
    /\ mover["recover"].at = "failed"
    /\ mover' = [mover EXCEPT !["recover"] = Idle]
    /\ UNCHANGED <<dial, relayed, linkState, socketVars, moves, closer, quietVars>>

Abandon == closer' = IF closer = "idle" THEN "stopping" ELSE closer

\* recover when the tunnel could not move.  A second Close finds an ended
\* connection and nothing left to drain.
GiveUpRecover ==
    /\ mover["recover"].at = "failed"
    /\ mover' = [mover EXCEPT !["recover"] = Idle]
    /\ Abandon
    /\ UNCHANGED <<dial, relayed, linkState, socketVars, moves, quietVars>>

\* Node.migrate, the end of its goroutine: unless a later change took over,
\* a tunnel that did not follow is abandoned.
ChangeEnds(c) ==
    LET ours == moves # NoMove /\ mover[c].ctx # "cancelled" IN
    /\ mover[c].at \in {"moved", "failed"}
    /\ mover' = [mover EXCEPT ![c] = [Idle EXCEPT !.at = "over"]]
    /\ moves' = IF ours THEN NoMove ELSE moves
    /\ IF ours /\ mover[c].at = "failed" THEN Abandon ELSE UNCHANGED closer
    /\ UNCHANGED <<dial, relayed, linkState, socketVars, quietVars>>
-----------------------------------------------------------------------------
(* Close.                                                                  *)

CloseCalled ==
    /\ dial = "done" /\ closer = "idle"
    /\ closer' = "stopping"
    /\ UNCHANGED <<dial, relayed, linkState, socketVars, mover, moves, quietVars>>

\* The queue and the connection end.
CloseConn ==
    /\ closer = "stopping"
    /\ closer' = "draining" /\ stop' = TRUE
    /\ conn' = "ended"
    /\ UNCHANGED <<dial, relayed, sender, queued, socketVars, mover, moves, quietVars>>

Drain ==
    /\ closer = "draining"
    /\ closer' = "closed" /\ qts' = {} /\ bound' = bound \ qts
    /\ UNCHANGED <<dial, relayed, linkState, mover, moves, quietVars>>

MoveSteps(m) ==
    \/ Refuse(m) \/ Check(m) \/ Bind(m) \/ BindFails(m) \/ Keep(m) \/ ProbeFails(m) \/ Switch(m)

CloseSteps == CloseConn \/ Drain

ClientNext ==
    \/ DialSocket \/ ClientDialFails \/ DialQuic \/ DialDone
    \/ ConnectionEnds
    \/ WritePacket \/ TimePasses \/ ReadPacket \/ SendOne \/ SenderEnds
    \/ \E c \in Changes : Changed(c) \/ Deadline(c) \/ ChangeEnds(c)
    \/ \E m \in Movers : MoveSteps(m)
    \/ Recovered \/ GiveUpRecover
    \/ CloseCalled \/ CloseSteps

ClientSpec == ClientInit /\ [][ClientNext]_clientVars
-----------------------------------------------------------------------------
(* Properties.                                                             *)

Places == {"idle", "asked", "checked", "added", "probing", "moved", "failed", "over"}

\* The variables have their types.
ClientTypeOK ==
    /\ dial \in {"none", "socket", "connect", "failed", "done"} /\ relayed \in BOOLEAN
    /\ conn \in {"none", "open", "ended"}
    /\ {stop, sender, given} \subseteq BOOLEAN
    /\ queued \in 0 .. QueueLen /\ writes \in 0 .. SilentWrites
    /\ bound \subseteq 1 .. MaxSockets /\ qts \subseteq bound
    /\ mover \in [Movers -> [at : Places, socket : 0 .. MaxSockets,
                          ctx : {"live", "cancelled", "deadline"}]]
    /\ moves \in Changes \cup {NoMove}
    /\ closer \in {"idle", "stopping", "draining", "closed"}
    /\ silence \in {"none", "short", "long"}

InHand == {mover[m].socket : m \in {n \in Movers : mover[n].at = "added"}}

\* Until the link is closed, every socket the process has open belongs to
\* the link or to a migration that still holds it: no failed dial and no
\* failed path leaves one behind (Dial, migrate).
SocketIsOwned == (dial # "none" /\ closer # "closed") =>
    bound \subseteq qts \cup InHand \cup (IF dial \in {"socket", "connect"} THEN {1} ELSE {})

\* A link keeps at most maxMigrations + 1 sockets, and one more for every
\* other migration that looked at the number with the last one (migrate).
SocketsBounded == Cardinality(qts) <= MaxMigrations + Cardinality(Movers)

\* A tunnel suspected once is not suspected forever: its recovery ends with a
\* tunnel that is trusted again or with one that has ended (recover).
RecoveryEnds == []<>(given => conn # "open")

\* The sender goes with the connection, however that ends (sendQueue.run).
SenderGoes == []<>(dial = "done" /\ conn # "open" => ~sender)

\* Until a link is closed every socket it opened belongs to it or to a
\* migration that still holds it, and it keeps no more of them than
\* maxMigrations allows (Dial, migrate), whatever probes fail.
ClientInv == ClientTypeOK /\ SocketIsOwned /\ SocketsBounded

=============================================================================
