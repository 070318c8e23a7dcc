--------------------------- MODULE TunnelReports ---------------------------
(***************************************************************************)
(* The connection history: what a node that accepts tunnels reports of     *)
(* them (trackTunnel, untrackTunnel, reportTunnels), the shipper that      *)
(* buffers and sends the reports (internal/node/policy.go), the handler of *)
(* POST /node/logs, the table tunnels of the control plane and the         *)
(* housekeeping that closes what fell silent and prunes what is old.       *)
(*                                                                         *)
(* Shipping is at least once: a request whose answer is late or lost goes  *)
(* back to the front of the buffer although the control plane may have     *)
(* applied it, wholly or in part, or may still be applying it.             *)
(*                                                                         *)
(* A tunnel is its id.  Counters, names, addresses and flow records are    *)
(* left out: no guard below reads them.                                    *)
(***************************************************************************)
EXTENDS Naturals, Sequences, FiniteSets, FiniteSetsExt

CONSTANTS
    Tunnels,      \* ids of tunnels the node accepts
    ShipMax,      \* events kept while the control plane is unreachable
    ShipMaxEvents,\* events of one request
    MaxDropped,   \* bound: the count of dropped events
    ShipFaults    \* bound: requests that fail, answers that are lost, crashes

ASSUME ShipBounds ==
    /\ ShipMax \in Nat \ {0}
    /\ ShipMaxEvents \in Nat \ {0}
    /\ MaxDropped \in Nat
    /\ ShipFaults \in Nat

NoTunnel == "none"

Events == [msg : {"open", "update", "close"}, t : Tunnels]
             \cup [msg : {"reset"}, t : {NoTunnel}]

Reasons == {"", "ended", "restarted", "silent"}

VARIABLES
    accepted,  \* the tunnels the session tracks
    ids,       \* tunnel ids not used yet
    listed,    \* tunnels reportTunnels has read and not yet reported
    buf,       \* shipper.buf
    dropped,   \* shipper.dropped
    batch,     \* the events of the request in flight, <<>> when there is none
    took,      \* the count of dropped events this request reports
    next,      \* how many events of the batch the handler has applied
    late,      \* events an abandoned request is still applying
    rows,      \* the table tunnels: a row, or none
    owed,      \* history: events added, not acknowledged, not reported dropped
    shipFaults

shipVars == <<accepted, ids, listed, buf, dropped, batch, took, next, late,
              rows, owed, shipFaults>>

NoRow == [there |-> FALSE, closed |-> FALSE, why |-> "", fresh |-> FALSE]

Rows == [there : BOOLEAN, closed : BOOLEAN, why : Reasons, fresh : BOOLEAN]

IsOpen(t) == rows[t].there /\ ~rows[t].closed

ShipInit ==
    /\ accepted = {}
    /\ ids = Tunnels
    /\ listed = {}
    /\ buf = <<>>
    /\ dropped = 0
    /\ batch = <<>>
    /\ took = 0
    /\ next = 0
    /\ late = <<>>
    /\ rows = [t \in Tunnels |-> NoRow]
    /\ owed = 0
    /\ shipFaults = ShipFaults

ShipFault == shipFaults > 0 /\ shipFaults' = shipFaults - 1

----------------------------------------------------------------------------
(* The node: the tunnels it accepts and the buffer of reports.             *)

\* A full buffer forgets its oldest event and counts it.
ShipAdd(e) ==
    /\ Len(buf) >= ShipMax => dropped < MaxDropped
    /\ buf' = Append(IF Len(buf) >= ShipMax THEN Tail(buf) ELSE buf, e)
    /\ dropped' = IF Len(buf) >= ShipMax THEN dropped + 1 ELSE dropped
    /\ owed' = owed + 1

TrackTunnel(t) ==
    /\ t \in ids
    /\ accepted' = accepted \cup {t}
    /\ ids' = ids \ {t}
    /\ ShipAdd([msg |-> "open", t |-> t])
    /\ UNCHANGED <<listed, batch, took, next, late, rows, shipFaults>>

UntrackTunnel(t) ==
    /\ t \in accepted
    /\ accepted' = accepted \ {t}
    /\ ShipAdd([msg |-> "close", t |-> t])
    /\ UNCHANGED <<ids, listed, batch, took, next, late, rows, shipFaults>>

\* reportTunnels reads the list under the lock and reports without it: a
\* tunnel may end, and report its end, in between.
ReportTunnels ==
    /\ listed = {}
    /\ accepted # {}
    /\ listed' = accepted
    /\ UNCHANGED <<accepted, ids, buf, dropped, batch, took, next, late, rows,
                   owed, shipFaults>>

ReportOne(t) ==
    /\ t \in listed
    /\ listed' = listed \ {t}
    /\ ShipAdd([msg |-> "update", t |-> t])
    /\ UNCHANGED <<accepted, ids, batch, took, next, late, rows, shipFaults>>

\* A new session of the same process, once the old one's tunnels are gone.
SessionBegins ==
    /\ accepted = {}
    /\ ShipAdd([msg |-> "reset", t |-> NoTunnel])
    /\ UNCHANGED <<accepted, ids, listed, batch, took, next, late, rows,
                   shipFaults>>

\* The process ends, with or without the last flush of Close: what was in
\* its memory is gone.  Its next session begins with a reset.
NodeRestarts ==
    /\ ShipFault
    /\ accepted' = {}
    /\ listed' = {}
    /\ buf' = <<[msg |-> "reset", t |-> NoTunnel]>>
    /\ dropped' = 0
    /\ batch' = <<>>
    /\ took' = 0
    /\ next' = 0
    /\ late' = IF batch # <<>> /\ late = <<>>
               THEN SubSeq(batch, next + 1, Len(batch)) ELSE late
    /\ owed' = 1
    /\ UNCHANGED <<ids, rows>>

\* flush takes the oldest events and the count of dropped ones.
FlushTakes ==
    /\ batch = <<>>
    /\ buf # <<>>
    /\ LET n == IF Len(buf) < ShipMaxEvents THEN Len(buf) ELSE ShipMaxEvents
       IN  /\ batch' = SubSeq(buf, 1, n)
           /\ buf' = SubSeq(buf, n + 1, Len(buf))
    /\ took' = dropped
    /\ dropped' = 0
    /\ next' = 0
    /\ UNCHANGED <<accepted, ids, listed, late, rows, owed, shipFaults>>

FlushOK ==
    /\ batch # <<>>
    /\ next = Len(batch)
    /\ owed' = owed - Len(batch) - took
    /\ batch' = <<>>
    /\ took' = 0
    /\ next' = 0
    /\ UNCHANGED <<accepted, ids, listed, buf, dropped, late, rows, shipFaults>>

RequeuedBehind == buf \o batch

\* What a failed request leaves: its batch before what came since, cut to
\* the newest ShipMax events.
Requeued == batch \o buf

Excess == IF Len(Requeued) > ShipMax THEN Len(Requeued) - ShipMax ELSE 0

FlushFails ==
    /\ batch # <<>>
    /\ ShipFault
    /\ dropped + took + Excess <= MaxDropped
    /\ buf' = SubSeq(Requeued, Excess + 1, Len(Requeued))
    /\ dropped' = dropped + took + Excess
    /\ batch' = <<>>
    /\ took' = 0
    /\ next' = 0
    /\ late' \in IF late = <<>>
                 THEN {late, SubSeq(batch, next + 1, Len(batch))} ELSE {late}
    /\ UNCHANGED <<accepted, ids, listed, rows, owed>>

----------------------------------------------------------------------------
(* The control plane: one statement per event, no transaction around them. *)

UpsertReopens(row, msg) ==
    [there |-> TRUE, closed |-> msg = "close",
     why |-> IF msg = "close" THEN "ended" ELSE "", fresh |-> TRUE]

\* UpsertTunnel: the first report makes the row, a close is final, and only
\* a row closed for silence is opened again by a report of an open tunnel.
UpsertTunnel(row, msg) ==
    LET silent == row.why = "silent"
        shut == msg = "close"
    IN  IF ~row.there
        THEN [there |-> TRUE, closed |-> shut,
              why |-> IF shut THEN "ended" ELSE "", fresh |-> TRUE]
        ELSE [there |-> TRUE,
              closed |-> IF silent /\ ~shut THEN FALSE ELSE row.closed \/ shut,
              why |-> IF ~row.closed \/ silent
                      THEN IF shut THEN "ended" ELSE "" ELSE row.why,
              fresh |-> TRUE]

CloseHubTunnels(table) ==
    [t \in Tunnels |-> IF table[t].there /\ ~table[t].closed
                       THEN [table[t] EXCEPT !.closed = TRUE, !.why = "restarted"]
                       ELSE table[t]]

Applied(table, e) ==
    IF e.msg = "reset" THEN CloseHubTunnels(table)
    ELSE [table EXCEPT ![e.t] = UpsertTunnel(@, e.msg)]

NodeShipLogs ==
    /\ batch # <<>>
    /\ next < Len(batch)
    /\ next' = next + 1
    /\ rows' = Applied(rows, batch[next + 1])
    /\ UNCHANGED <<accepted, ids, listed, buf, dropped, batch, took, late, owed,
                   shipFaults>>

\* The statement failed: the event counts as rejected, the batch goes on.
ReportRejected ==
    /\ batch # <<>>
    /\ next < Len(batch)
    /\ ShipFault
    /\ next' = next + 1
    /\ UNCHANGED <<accepted, ids, listed, buf, dropped, batch, took, late, rows,
                   owed>>

LateShipLogs ==
    /\ late # <<>>
    /\ rows' = Applied(rows, Head(late))
    /\ late' = Tail(late)
    /\ UNCHANGED <<accepted, ids, listed, buf, dropped, batch, took, next, owed,
                   shipFaults>>

\* Three minutes without a report of this tunnel.
FallsSilent(t) ==
    /\ IsOpen(t) /\ rows[t].fresh
    /\ rows' = [rows EXCEPT ![t].fresh = FALSE]
    /\ UNCHANGED <<accepted, ids, listed, buf, dropped, batch, took, next, late,
                   owed, shipFaults>>

CloseStaleTunnels ==
    /\ \E t \in Tunnels : IsOpen(t) /\ ~rows[t].fresh
    /\ rows' = [t \in Tunnels |->
                  IF IsOpen(t) /\ ~rows[t].fresh
                  THEN [rows[t] EXCEPT !.closed = TRUE, !.why = "silent"]
                  ELSE rows[t]]
    /\ UNCHANGED <<accepted, ids, listed, buf, dropped, batch, took, next, late,
                   owed, shipFaults>>

PruneTunnels(t) ==
    /\ rows[t].there /\ rows[t].closed
    /\ rows' = [rows EXCEPT ![t] = NoRow]
    /\ UNCHANGED <<accepted, ids, listed, buf, dropped, batch, took, next, late,
                   owed, shipFaults>>

----------------------------------------------------------------------------
ShipNext ==
    \/ \E t \in Tunnels : \/ TrackTunnel(t)
                          \/ UntrackTunnel(t)
                          \/ ReportOne(t)
                          \/ FallsSilent(t)
                          \/ PruneTunnels(t)
    \/ ReportTunnels
    \/ SessionBegins
    \/ NodeRestarts
    \/ FlushTakes
    \/ FlushOK
    \/ FlushFails
    \/ NodeShipLogs
    \/ ReportRejected
    \/ LateShipLogs
    \/ CloseStaleTunnels

ShipSpec == ShipInit /\ [][ShipNext]_shipVars

----------------------------------------------------------------------------
ShipTypeOK ==
    /\ accepted \subseteq Tunnels
    /\ ids \subseteq Tunnels
    /\ listed \subseteq Tunnels
    /\ buf \in Seq(Events) /\ Len(buf) <= ShipMax
    /\ batch \in Seq(Events) /\ Len(batch) <= ShipMaxEvents
    /\ late \in Seq(Events)
    /\ dropped \in 0..MaxDropped
    /\ took \in 0..MaxDropped
    /\ next \in 0..Len(batch)
    /\ rows \in [Tunnels -> Rows]
    /\ owed \in Nat
    /\ shipFaults \in 0..ShipFaults

\* No event vanishes without a count: what was added and neither
\* acknowledged nor reported as dropped is in the buffer, in the request in
\* flight, or in the count of dropped events, however the requests fail.
NoEventUncounted ==
    owed = Len(buf) + Len(batch) + dropped + took

\* Events keep their order through failures and retries: behind the close
\* of a tunnel no open of it waits to be sent.
OpenNeverFollowsClose ==
    LET waiting == batch \o buf
    IN  \A i, j \in DOMAIN waiting :
            i < j /\ waiting[i].msg = "close" /\ waiting[j].msg = "open"
                => waiting[i].t # waiting[j].t

\* A close is final: as long as its row is kept, a tunnel that was closed
\* for any reason but silence stays closed for that reason, whatever is sent
\* twice, late or out of order.
CloseIsFinal ==
    [][\A t \in Tunnels :
          rows[t].closed /\ rows[t].why # "silent" /\ rows'[t].there
             => rows'[t].closed /\ rows'[t].why = rows[t].why]_rows

\* A tunnel the node no longer has is not shown open forever, also when its
\* close was dropped or the node never came back.
GoneIsClosed == \A t \in Tunnels : []<>(t \notin accepted => ~IsOpen(t))

\* Every event is on its way or counted, and events keep their order (flush).
ShipInv == ShipTypeOK /\ NoEventUncounted /\ OpenNeverFollowsClose

-----------------------------------------------------------------------------
(***************************************************************************)
(* The event log, beside the connection history (internal/control/db       *)
(* logs.go); it shares no state with it and has a next-state relation of   *)
(* its own.                                                                *)
(*                                                                         *)
(* The attributes the admin UI filters on became columns of their own; the *)
(* events written before that are filled in batches from the newest down,  *)
(* while events are inserted, pruned and searched.  A watermark says from  *)
(* which id up the columns are filled: it is kept in the database, where   *)
(* the batch that moves it commits it, and in memory, where the queries    *)
(* read it.                                                                *)
(*                                                                         *)
(* One filtered attribute stands for the five; an event is the value of    *)
(* that attribute and the value of its column.                             *)
(***************************************************************************)
CONSTANTS
    AttrValues,    \* values of the attribute
    NullColumn,    \* the column of an event the backfill has not reached
    OldEvents,     \* how many events were there before the columns
    MaxEvents,     \* bound: ids given out
    BackfillBatch, \* events one transaction fills
    PageLimit,     \* events one query returns
    MaxRestarts    \* bound: restarts of the control plane

ASSUME LogBounds ==
    /\ NullColumn \notin AttrValues
    /\ MaxEvents \in Nat /\ OldEvents \in 0 .. MaxEvents
    /\ BackfillBatch \in Nat \ {0} /\ PageLimit \in Nat \ {0}
    /\ MaxRestarts \in Nat

VARIABLES
    events,    \* id -> event, for the ids that are stored
    lastId,    \* the autoincrement counter
    watermark, \* log_events_backfill.watermark
    mark,      \* DB.logCols
    filling,   \* the mark a committed batch has yet to store, 0 when none
    pager,     \* a client that pages through the matches of one value
    restarts

logVars == <<events, lastId, watermark, mark, filling, pager, restarts>>

Stored == DOMAIN events

Infinite == MaxEvents + 1     \* math.MaxInt64: above every id

\* Event i as logArgs writes it: column and attribute agree.
Event(v) == [attr |-> v, column |-> v]

NoPager == [stage |-> "idle", value |-> NullColumn, mark |-> 0, before |-> 0,
         seen |-> {}, start |-> {}]

LogInit ==
    /\ \E v \in [1..OldEvents -> AttrValues] :
         events = [i \in 1..OldEvents |->
                     [attr |-> v[i], column |-> NullColumn]]
    /\ lastId = OldEvents
    /\ watermark = OldEvents + 1
    /\ mark = OldEvents + 1
    /\ filling = 0
    /\ pager = NoPager
    /\ restarts = MaxRestarts

----------------------------------------------------------------------------
(* Writers.                                                                *)

\* InsertLogs: one transaction for the batch of a node; here one event.
InsertLogs(v) ==
    /\ lastId < MaxEvents
    /\ lastId' = lastId + 1
    /\ events' = [i \in Stored \cup {lastId + 1} |->
                    IF i \in Stored THEN events[i] ELSE Event(v)]
    /\ UNCHANGED <<watermark, mark, filling, pager, restarts>>

\* PruneLogs: the events past the retention go, a batch at a time.  Their
\* time is the reporting node's, so they need not be the lowest ids.
PruneLogs(gone) ==
    /\ gone # {}
    /\ events' = [i \in Stored \ gone |-> events[i]]
    /\ UNCHANGED <<lastId, watermark, mark, filling, pager, restarts>>

\* The lowest id of the newest BackfillBatch events below the mark, 1 when
\* pruning has left none.
Below(m) == {i \in Stored : i < m}

Lowest(m) ==
    LET newest == {i \in Below(m) :
                    Cardinality({j \in Below(m) : j > i}) < BackfillBatch}
    IN  IF newest = {} THEN 1 ELSE Min(newest)

\* BackfillLogColumns: the transaction that fills a newest and moves the
\* watermark of the database...
BackfillLogColumns ==
    /\ filling = 0
    /\ mark > 1
    /\ LET lowest == Lowest(mark)
       IN  /\ events' = [i \in Stored |->
                           IF i >= lowest /\ i < mark
                           THEN [events[i] EXCEPT !.column = events[i].attr]
                           ELSE events[i]]
           /\ watermark' = lowest
           /\ filling' = lowest
    /\ UNCHANGED <<lastId, mark, pager, restarts>>

\* ... and, after the checkpoint, the mark the queries use.
BackfillStores ==
    /\ filling # 0
    /\ mark' = filling
    /\ filling' = 0
    /\ UNCHANGED <<events, lastId, watermark, pager, restarts>>

\* The control plane restarts, between the two as well.  The watermark is
\* read again; a read that fails says that no column is filled.
Restart ==
    /\ restarts > 0
    /\ restarts' = restarts - 1
    /\ mark' \in {watermark, Infinite}
    /\ filling' = 0
    /\ pager' = NoPager
    /\ UNCHANGED <<events, lastId, watermark>>

----------------------------------------------------------------------------
(* Readers.                                                                *)

\* LogQuery.where: columns from the mark up, the stored attributes below it.
Matches(v, m) ==
    {i \in Stored : IF m <= 1 THEN events[i].column = v
                    ELSE \/ i >= m /\ events[i].column = v
                         \/ i < m /\ events[i].attr = v}

\* What a query means: the events whose attribute has the value.
Having(v) == {i \in Stored : events[i].attr = v}

PagerBegins(v) ==
    /\ pager.stage = "idle"
    /\ pager' = [stage |-> "asks", value |-> v, mark |-> 0, before |-> Infinite,
                 seen |-> {}, start |-> Having(v)]
    /\ UNCHANGED <<events, lastId, watermark, mark, filling, restarts>>

\* ListLogs loads the mark and then reads on another connection: a batch of
\* the backfill may commit, and store its mark, in between.
LoadsMark ==
    /\ pager.stage = "asks"
    /\ pager' = [pager EXCEPT !.stage = "reads", !.mark = mark]
    /\ UNCHANGED <<events, lastId, watermark, mark, filling, restarts>>

\* The newest PageLimit matches before the cursor; the client asks for the
\* next page from the last id it got.
ListLogs ==
    /\ pager.stage = "reads"
    /\ LET found == {i \in Matches(pager.value, pager.mark) : i < pager.before}
           page == {i \in found :
                      Cardinality({j \in found : j > i}) < PageLimit}
       IN  pager' = [pager EXCEPT
                       !.stage = IF Cardinality(page) < PageLimit
                                 THEN "done" ELSE "asks",
                       !.mark = 0,
                       !.seen = @ \cup page,
                       !.before = IF page = {} THEN @ ELSE Min(page)]
    /\ UNCHANGED <<events, lastId, watermark, mark, filling, restarts>>

PagerEnds ==
    /\ pager.stage = "done"
    /\ pager' = NoPager
    /\ UNCHANGED <<events, lastId, watermark, mark, filling, restarts>>

----------------------------------------------------------------------------
LogNext ==
    \/ \E v \in AttrValues : InsertLogs(v) \/ PagerBegins(v)
    \/ \E gone \in SUBSET Stored : PruneLogs(gone)
    \/ BackfillLogColumns
    \/ BackfillStores
    \/ Restart
    \/ LoadsMark
    \/ ListLogs
    \/ PagerEnds

LogSpec == LogInit /\ [][LogNext]_logVars

----------------------------------------------------------------------------
LogTypeOK ==
    /\ Stored \subseteq 1..lastId
    /\ \A i \in Stored : /\ events[i].attr \in AttrValues
                         /\ events[i].column \in AttrValues \cup {NullColumn}
    /\ lastId \in 0..MaxEvents
    /\ watermark \in 1..Infinite /\ mark \in 1..Infinite
    /\ filling \in 0..Infinite
    /\ pager.seen \subseteq 1..MaxEvents
    /\ restarts \in 0..MaxRestarts

\* A filter finds exactly the events whose attribute has the value, with
\* the mark of now and with one loaded before a batch of the backfill moved
\* it, before and after a restart.
QueryIsExact ==
    /\ \A v \in AttrValues : Matches(v, mark) = Having(v)
    /\ pager.stage = "reads" =>
         Matches(pager.value, pager.mark) = Having(pager.value)

\* A client that pages to the end has seen every match that was there when
\* it began and still is: nothing slips between two pages while events are
\* inserted, pruned and filled.
PagesAreComplete ==
    pager.stage = "done" => pager.start \cap Stored \subseteq pager.seen

\* The backfill is over: every filter reads columns only.
Filled == mark = 1

\* A filter finds exactly the events that have the value, and pages miss none
\* (where, ListLogs, BackfillLogColumns).
LogInv == LogTypeOK /\ QueryIsExact /\ PagesAreComplete

=============================================================================
