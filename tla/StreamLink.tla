----------------------------- MODULE StreamLink -----------------------------
(***************************************************************************)
(* One end of a tunnel on the TCP fallback (internal/transport/capsule.go, *)
(* type capsuleLink): a read loop that queues packets, a write loop and a  *)
(* keep-alive that share the write mutex, and Close, which any number of   *)
(* goroutines may call at any time.  The peer may stop reading for good,   *)
(* and the owner of the link may stop reading its queue.                   *)
(*                                                                         *)
(* A step is one blocking operation or one critical section.  Time is only *)
(* in the write deadline: it is in the future (fresh) or has passed, and a *)
(* write to a peer that does not read ends when it passes.  Packets are    *)
(* counted, not told apart; Foreign stands for one that admits refuses and *)
(* for every capsule that is skipped.                                      *)
(***************************************************************************)
EXTENDS Naturals, Sequences, FiniteSets

CONSTANTS Closers,      \* goroutines that call Close
          QueueLen,     \* capsuleQueue
          MaxSent,      \* capsules the peer sends before it closes
          Packet, Foreign, Bye,  \* a packet, a skipped capsule, the close capsule
          Nobody

ASSUME LinkAssumption ==
    /\ QueueLen \in Nat \ {0}
    /\ MaxSent \in Nat
    /\ Cardinality({Packet, Foreign, Bye}) = 3
    /\ {"writer", "keeper", "done"} \cap Closers = {}
    /\ Nobody \notin Closers \cup {"writer", "keeper", "done"}

VARIABLES arriving,  \* capsules sent by the peer and not read yet
          sent,      \* how many it has sent
          reads,     \* the peer still reads
          conn,      \* the connection is open on this side
          loop,      \* readLoop: its place
          in,        \* length of the queue ReadPacket takes from
          owner,     \* the goroutine that calls ReadPacket
          closeErr,  \* capsuleLink.closeErr; err when there is none
          out,       \* length of the queue of writeLoop
          writer,    \* writeLoop: its place
          keeper,    \* keepAliveLoop: its place
          wmu,       \* who holds the write mutex
          fresh,     \* the write deadline is in the future
          stop,      \* stopKA is closed
          once,      \* who runs once.Do, or "done"
          closer     \* the place of every call of Close

peerVars == <<arriving, sent, reads>>
readVars == <<loop, in, owner>>
writeVars == <<out, writer, keeper>>
linkVars == <<peerVars, readVars, writeVars, conn, closeErr, wmu, fresh, stop, once, closer>>

Done == loop = "done"

\* The write mutex is given up; its next holder sets a deadline of its own.
Unlocks == wmu' = Nobody /\ fresh' = FALSE

LinkInit ==
    /\ arriving = <<>> /\ sent = 0 /\ reads = TRUE
    /\ conn = TRUE
    /\ loop = "read" /\ in = 0 /\ owner = "reads"
    /\ closeErr = Nobody
    /\ out = 0 /\ writer = "idle" /\ keeper = "idle" /\ wmu = Nobody /\ fresh = FALSE
    /\ stop = FALSE /\ once = Nobody
    /\ closer = [c \in Closers |-> "none"]
-----------------------------------------------------------------------------
(* The peer.                                                               *)

Ended == arriving # <<>> /\ arriving[Len(arriving)] = Bye

PeerSends(x) ==
    /\ sent < MaxSent /\ conn /\ ~Ended
    /\ arriving' = Append(arriving, x)
    /\ sent' = sent + 1
    /\ UNCHANGED <<reads, readVars, writeVars, conn, closeErr, wmu, fresh, stop, once, closer>>

PeerStopsReading ==
    /\ reads /\ reads' = FALSE
    /\ UNCHANGED <<arriving, sent, readVars, writeVars, conn, closeErr, wmu, fresh, stop, once, closer>>
-----------------------------------------------------------------------------
(* readLoop and ReadPacket.                                                *)

\* The loop leaves: the reason is set before done is closed.
Leave ==
    /\ loop' = "done" /\ conn' = FALSE
    /\ arriving' = <<>>

\* A packet in context 0 from an assigned address.
ReadDatagram ==
    /\ loop = "read" /\ conn /\ arriving # <<>> /\ Head(arriving) = Packet
    /\ loop' = "queue"
    /\ arriving' = Tail(arriving)
    /\ UNCHANGED <<sent, reads, in, owner, writeVars, conn, closeErr, wmu, fresh, stop, once, closer>>

\* Unknown capsules, other contexts, and what admits refuses.
Skip ==
    /\ loop = "read" /\ conn /\ arriving # <<>> /\ Head(arriving) = Foreign
    /\ arriving' = Tail(arriving)
    /\ UNCHANGED <<sent, reads, readVars, writeVars, conn, closeErr, wmu, fresh, stop, once, closer>>

\* The close capsule: the peer's reason, unless this side closed first.
ReadClose ==
    /\ loop = "read" /\ conn /\ arriving # <<>> /\ Head(arriving) = Bye
    /\ closeErr' = IF closeErr = Nobody THEN "remote" ELSE closeErr
    /\ Leave
    /\ UNCHANGED <<sent, reads, in, owner, writeVars, wmu, fresh, stop, once, closer>>

\* The stream ends, breaks, is closed on this side, or is quiet for too long.
StreamFails ==
    /\ loop = "read"
    /\ conn => arriving = <<>>
    /\ Leave
    /\ UNCHANGED <<sent, reads, in, owner, writeVars, closeErr, wmu, fresh, stop, once, closer>>

\* Into the queue; a full one is waited for.
QueuePacket ==
    /\ loop = "queue" /\ in < QueueLen
    /\ in' = in + 1 /\ loop' = "read"
    /\ UNCHANGED <<peerVars, owner, writeVars, conn, closeErr, wmu, fresh, stop, once, closer>>

\* Mutant: a full queue is waited for although nobody reads it any more.
QueueOnly ==
    /\ loop = "queue" /\ stop /\ in < QueueLen
    /\ Leave
    /\ UNCHANGED <<sent, reads, in, owner, writeVars, closeErr, wmu, fresh, stop, once, closer>>

\* Closed while nobody reads the queue: the packet is given up.
QueueStopped ==
    /\ loop = "queue" /\ stop
    /\ Leave
    /\ UNCHANGED <<sent, reads, in, owner, writeVars, closeErr, wmu, fresh, stop, once, closer>>

ReadLoop == ReadDatagram \/ Skip \/ ReadClose \/ StreamFails \/ QueuePacket \/ QueueStopped

ReadPacket ==
    /\ owner = "reads" /\ in > 0
    /\ in' = in - 1
    /\ UNCHANGED <<peerVars, loop, owner, writeVars, conn, closeErr, wmu, fresh, stop, once, closer>>

\* Mutant: the end is reported as soon as it is known.
ReadEndsEarly ==
    /\ owner = "reads" /\ Done
    /\ owner' = "failed"
    /\ UNCHANGED <<peerVars, loop, in, writeVars, conn, closeErr, wmu, fresh, stop, once, closer>>

\* Nothing is queued any more: ReadPacket returns Err.
ReadEnds ==
    /\ owner = "reads" /\ Done /\ in = 0
    /\ owner' = "failed"
    /\ UNCHANGED <<peerVars, loop, in, writeVars, conn, closeErr, wmu, fresh, stop, once, closer>>

\* The owner stops calling ReadPacket (its packet loop has returned).
OwnerLeaves ==
    /\ owner = "reads" /\ owner' = "left"
    /\ UNCHANGED <<peerVars, loop, in, writeVars, conn, closeErr, wmu, fresh, stop, once, closer>>
-----------------------------------------------------------------------------
(* WritePacket, writeLoop, keepAliveLoop.                                  *)

\* A full queue drops the packet; WritePacket never waits.
WritePacket ==
    /\ ~Done /\ out < QueueLen
    /\ out' = out + 1
    /\ UNCHANGED <<peerVars, readVars, writer, keeper, conn, closeErr, wmu, fresh, stop, once, closer>>

\* writeLoop takes what has piled up, as much as fits one write.
WriterTakes ==
    /\ writer = "idle" /\ out > 0
    /\ out' \in 0 .. out - 1 /\ writer' = "batch"
    /\ UNCHANGED <<peerVars, readVars, keeper, conn, closeErr, wmu, fresh, stop, once, closer>>

WriterLocks ==
    /\ writer = "batch" /\ wmu = Nobody
    /\ wmu' = "writer" /\ fresh' = TRUE /\ writer' = "writing"
    /\ UNCHANGED <<peerVars, readVars, out, keeper, conn, closeErr, stop, once, closer>>

WriterWrites ==
    /\ writer = "writing" /\ conn /\ reads /\ fresh
    /\ Unlocks /\ writer' = "idle"
    /\ UNCHANGED <<peerVars, readVars, out, keeper, conn, closeErr, stop, once, closer>>

\* A write that fails, or does not finish in time, closes the connection.
WriterFails ==
    /\ writer = "writing" /\ (~conn \/ ~fresh)
    /\ Unlocks /\ writer' = "done" /\ conn' = FALSE
    /\ UNCHANGED <<peerVars, readVars, out, keeper, closeErr, stop, once, closer>>

WriterStops ==
    /\ writer = "idle" /\ Done
    /\ writer' = "done"
    /\ UNCHANGED <<peerVars, readVars, out, keeper, conn, closeErr, wmu, fresh, stop, once, closer>>

WriteLoop == WriterTakes \/ WriterLocks \/ WriterWrites \/ WriterFails \/ WriterStops

KeeperTicks ==
    /\ keeper = "idle" /\ ~stop /\ ~Done
    /\ keeper' = "ping"
    /\ UNCHANGED <<peerVars, readVars, out, writer, conn, closeErr, wmu, fresh, stop, once, closer>>

\* writeCapsule.
KeeperLocks ==
    /\ keeper = "ping" /\ wmu = Nobody
    /\ wmu' = "keeper" /\ fresh' = TRUE /\ keeper' = "writing"
    /\ UNCHANGED <<peerVars, readVars, out, writer, conn, closeErr, stop, once, closer>>

KeeperWrites ==
    /\ keeper = "writing"
    /\ \/ conn /\ reads /\ fresh /\ keeper' = "idle"
       \/ (~conn \/ ~fresh) /\ keeper' = "done"
    /\ Unlocks
    /\ UNCHANGED <<peerVars, readVars, out, writer, conn, closeErr, stop, once, closer>>

KeeperStops ==
    /\ keeper = "idle" /\ (stop \/ Done)
    /\ keeper' = "done"
    /\ UNCHANGED <<peerVars, readVars, out, writer, conn, closeErr, wmu, fresh, stop, once, closer>>

\* keepAliveLoop, once its ticker has fired or the link has ended.
KeepAliveLoop == KeeperLocks \/ KeeperWrites \/ KeeperStops

\* The write deadline passes.
DeadlinePasses ==
    /\ fresh /\ wmu # Nobody
    /\ fresh' = FALSE
    /\ UNCHANGED <<peerVars, readVars, writeVars, conn, closeErr, wmu, stop, once, closer>>
-----------------------------------------------------------------------------
(* Close.                                                                  *)

\* A stream that has ended is not closed again, so that its reason stays.
CloseCalled(c) ==
    /\ closer[c] = "none"
    /\ closer' = [closer EXCEPT ![c] = IF Done THEN "returned" ELSE "called"]
    /\ UNCHANGED <<peerVars, readVars, writeVars, conn, closeErr, wmu, fresh, stop, once>>

\* once.Do begins: the keep-alive and a waiting read loop are told to stop.
CloseBegins(c) ==
    /\ closer[c] = "called" /\ once = Nobody
    /\ once' = c /\ stop' = TRUE
    /\ closeErr' = IF closeErr = Nobody THEN "local" ELSE closeErr
    /\ closer' = [closer EXCEPT ![c] = "marked"]
    /\ UNCHANGED <<peerVars, readVars, writeVars, conn, wmu, fresh>>

\* A write under way gives up now.
CloseExpires(c) ==
    /\ closer[c] = "marked"
    /\ fresh' = FALSE
    /\ closer' = [closer EXCEPT ![c] = "expired"]
    /\ UNCHANGED <<peerVars, readVars, writeVars, conn, closeErr, wmu, stop, once>>

CloseLocks(c) ==
    /\ closer[c] = "expired" /\ wmu = Nobody
    /\ wmu' = c /\ fresh' = TRUE
    /\ closer' = [closer EXCEPT ![c] = "locked"]
    /\ UNCHANGED <<peerVars, readVars, writeVars, conn, closeErr, stop, once>>

\* The close capsule is written or given up after a second.
CloseSends(c) ==
    /\ closer[c] = "locked" /\ (reads \/ ~conn \/ ~fresh)
    /\ Unlocks /\ conn' = FALSE /\ once' = "done"
    /\ closer' = [closer EXCEPT ![c] = "waiting"]
    /\ UNCHANGED <<peerVars, readVars, writeVars, closeErr, stop>>

\* once.Do of every other caller returns when the first one has finished.
CloseFollows(c) ==
    /\ closer[c] = "called" /\ once = "done"
    /\ closer' = [closer EXCEPT ![c] = "waiting"]
    /\ UNCHANGED <<peerVars, readVars, writeVars, conn, closeErr, wmu, fresh, stop, once>>

CloseReturns(c) ==
    /\ closer[c] = "waiting" /\ Done
    /\ closer' = [closer EXCEPT ![c] = "returned"]
    /\ UNCHANGED <<peerVars, readVars, writeVars, conn, closeErr, wmu, fresh, stop, once>>

CloseStep(c) ==
    CloseBegins(c) \/ CloseExpires(c) \/ CloseSends(c) \/ CloseFollows(c) \/ CloseReturns(c)

LinkNext ==
    \/ \E x \in {Packet, Foreign, Bye} : PeerSends(x)
    \/ PeerStopsReading \/ OwnerLeaves
    \/ ReadLoop \/ ReadPacket \/ ReadEnds
    \/ WritePacket \/ WriteLoop \/ KeeperTicks \/ KeepAliveLoop \/ DeadlinePasses
    \/ \E c \in Closers : CloseCalled(c) \/ CloseStep(c) \/ CloseLocks(c)

LinkSpec == LinkInit /\ [][LinkNext]_linkVars

-----------------------------------------------------------------------------
(* Properties.                                                             *)

\* The variables have their types, and the mutex is held by who writes.
LinkTypeOK ==
    /\ arriving \in Seq({Packet, Foreign, Bye}) /\ sent \in 0 .. MaxSent
    /\ {reads, conn, fresh, stop} \subseteq BOOLEAN
    /\ loop \in {"read", "queue", "done"} /\ owner \in {"reads", "failed", "left"}
    /\ in \in 0 .. QueueLen /\ out \in 0 .. QueueLen
    /\ closeErr \in {Nobody, "local", "remote"}
    /\ wmu = "writer" <=> writer = "writing"
    /\ wmu = "keeper" <=> keeper = "writing"
    /\ \A c \in Closers : wmu = c <=> closer[c] = "locked"

\* ReadPacket reports the end only after it has returned every packet that
\* arrived before it, whatever ended the stream.
QueuedIsRead == owner = "failed" => in = 0

\* Whoever calls Close gets out of it, and the goroutines of the link end:
\* although the peer reads nothing, nobody empties the queue of the read loop,
\* and others close at the same time (a revocation closes one by one).
CloseEnds ==
    []<>\A c \in Closers :
          closer[c] # "none" => closer[c] = "returned" /\ writer = "done" /\ keeper = "done"

\* ReadPacket reports the end of a stream only after every packet that arrived
\* before it, and no queue of the link grows past its bound (queuePacket).
LinkInv == LinkTypeOK /\ QueuedIsRead

=============================================================================
