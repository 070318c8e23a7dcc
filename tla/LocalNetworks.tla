--------------------------- MODULE LocalNetworks ---------------------------
(***************************************************************************)
(* The networks of one device (cmd/boundgate-node/networks.go and          *)
(* internal/node/ipc): the list the daemon keeps, the loop that runs one   *)
(* of them at a time, and the requests of the local socket.                *)
(*                                                                         *)
(* A request is handled in three steps: the checks of its handler, the     *)
(* operation under networks.mu, and, after the answer, the end of the      *)
(* server it came to.  A server that ends does not wait for its handlers,  *)
(* so one of them may still act on the next turn of the loop.              *)
(*                                                                         *)
(* A place is a state directory: the root or that of one network.  A       *)
(* crash in the middle of an operation is a failed write and a crash.      *)
(***************************************************************************)
EXTENDS Naturals, Sequences, SequencesExt, FiniteSets

CONSTANTS
    NetIds,     \* what freeID makes of the names
    Controls,   \* control planes
    Root,       \* the state root as a place
    Nothing,    \* no network, no control plane
    NetReqs,    \* requests at one time
    NetFaults,  \* bound: failed writes
    Late        \* a handler may outlive the server it came to

ASSUME NetConstants == Root \notin NetIds /\ Nothing \notin NetIds \cup Controls

VARIABLES
    netlist,  \* networks.list: the entries in memory
    chosen,   \* its Current
    removing, \* networks.removing
    upNext,   \* networks.upNext: the next node comes up by itself
    netFile,     \* networks.json
    settings, \* settings.json: the control plane it names
    used,     \* the control planes each device key on disk was used with
    made,     \* the directories that exist
    turn,     \* where the loop is
    runs,     \* the network the loop runs
    conn,     \* the node has an overlay session
    ended,    \* the server of this turn ends
    reqs,     \* the requests under way
    netFaults,   \* failed writes so far
    upset     \* history: a write failed, or a handler outlived its server

netVars == <<netlist, chosen, removing, upNext, netFile, settings, used, made, turn,
             runs, conn, ended, reqs, netFaults, upset>>

inMemory == <<netlist, chosen, removing, upNext>>
files == <<netFile, settings, used, made>>
loop == <<turn, runs, conn, ended>>

NoNet == [id |-> Nothing, ctl |-> Nothing, dir |-> Nothing]
NoReq == [op |-> "none", id |-> Nothing, at |-> Nothing, was |-> FALSE, old |-> FALSE]

Ids(list) == {list[i].id : i \in DOMAIN list}
Get(list, id) == CHOOSE n \in Range(list) : n.id = id

LocalInit ==
    /\ netlist = <<>> /\ chosen = Nothing /\ removing = Nothing /\ upNext = FALSE
    /\ netFile = [there |-> FALSE, list |-> <<>>, current |-> Nothing]
    \* a new device, or the one network of an older version
    /\ settings \in Controls \cup {Nothing}
    /\ used = [p \in NetIds \cup {Root} |->
                 IF p = Root /\ settings # Nothing THEN {settings} ELSE {}]
    /\ made = {Root}
    /\ turn = "turn" /\ runs = NoNet /\ conn = FALSE /\ ended = FALSE
    /\ reqs = [q \in NetReqs |-> NoReq]
    /\ netFaults = 0
    /\ upset = FALSE

----------------------------------------------------------------------------
\* Files.

\* SaveNetworks, which may fail and then leaves the file as it was.
SaveNetworks(list, current) ==
    \/ /\ netFile' = [there |-> TRUE, list |-> list, current |-> current]
       /\ UNCHANGED <<netFaults, upset>>
    \/ /\ netFaults < NetFaults /\ netFaults' = netFaults + 1 /\ upset' = TRUE
       /\ UNCHANGED netFile
Saved == netFaults' = netFaults

KeepsRootKey(n) ==
    /\ used' = [used EXCEPT ![n.dir] = IF n.dir = Root THEN @ ELSE {}]
    /\ made' = made \ ({n.dir} \ {Root})
    /\ settings' = IF n.dir = Root THEN Nothing ELSE settings

\* Network.Discard: the root loses its settings and its key, any other
\* network its directory.
Discard(n) ==
    /\ used' = [used EXCEPT ![n.dir] = {}]
    /\ made' = made \ ({n.dir} \ {Root})
    /\ settings' = IF n.dir = Root THEN Nothing ELSE settings

\* Networks.Remove: the entry goes, and the first of the rest is current.
RemovedFrom(list, id) == RemoveAt(list, CHOOSE i \in DOMAIN list : list[i].id = id)
NextCurrent(list, current, id) ==
    LET rest == RemovedFrom(list, id)
    IN  IF current # id THEN current
        ELSE IF rest = <<>> THEN Nothing ELSE rest[1].id

----------------------------------------------------------------------------
\* The requests of the socket.

Serving == turn \in {"run", "setup"}
IsDown == turn = "setup" \/ ~conn

\* Serve refuses every change once the node is ending; the setup server
\* does not.
Admits(q) == Serving /\ reqs[q] = NoReq /\ (turn = "run" => ~ended)

\* The checks of a handler, before the operation.
Begin(q, op, id) ==
    /\ Admits(q)
    /\ op \in {"addSelect", "select"} => IsDown
    /\ op = "remove" /\ id = chosen => IsDown
    /\ op \in {"reset", "renew"} => turn = "run" /\ ~conn /\ id = runs.id
    /\ op \in {"select", "remove"} => id \in Ids(netlist)
    /\ reqs' = [reqs EXCEPT ![q] = [op |-> op, id |-> id, was |-> id = chosen, old |-> FALSE,
                                     at |-> IF op = "renew" THEN runs.dir ELSE Nothing]]
    /\ UNCHANGED <<inMemory, files, loop, netFaults, upset>>

\* What is left of a request once its operation is done: the switch that
\* follows the answer, or nothing.
NetAnswered(q, ends) ==
    reqs' = [reqs EXCEPT ![q] = IF ends THEN [@ EXCEPT !.op = "stop"] ELSE NoReq]

\* The directory of a new network: the first one has the root.
DirFor(id) == IF netlist = <<>> THEN Root ELSE id

\* networks.Add.  The address is compared as it was typed, so another
\* spelling of one that is known is not noticed.  An entry whose write
\* failed stays in the list.
AddNetwork(q, c, id) ==
    LET n == [id |-> id, ctl |-> c, dir |-> DirFor(id)]
        sel == reqs[q].op = "addSelect"
    IN  /\ reqs[q].op \in {"add", "addSelect"}
        /\ id \notin Ids(netlist)
        /\ n.dir \notin made \ {Root}
        /\ made' = made \cup {n.dir}
        /\ netlist' = Append(netlist, n)
        /\ chosen' = IF sel THEN id ELSE chosen
        /\ upNext' \in IF sel THEN BOOLEAN ELSE {upNext}
        /\ settings' = IF n.dir = Root THEN c ELSE settings
        /\ SaveNetworks(netlist', chosen')
        /\ NetAnswered(q, Saved /\ sel)
        /\ UNCHANGED <<removing, used, loop>>

\* networks.Add of the first network whose settings cannot be written: an
\* error, and an entry in memory.
AddHalf(q, c, id) ==
    /\ reqs[q].op \in {"add", "addSelect"} /\ netlist = <<>>
    /\ netFaults < NetFaults /\ netFaults' = netFaults + 1 /\ upset' = TRUE
    /\ netlist' = <<[id |-> id, ctl |-> c, dir |-> Root]>>
    /\ NetAnswered(q, FALSE)
    /\ UNCHANGED <<chosen, removing, upNext, files, loop>>

\* networks.Add that is refused: the control plane is known, or a directory
\* of that name is still there.
AddRefused(q) ==
        /\ reqs[q].op \in {"add", "addSelect"}
        /\ \/ netlist # <<>>
           \/ \E id \in NetIds \ Ids(netlist) : DirFor(id) \in made \ {Root}
        /\ NetAnswered(q, FALSE)
        /\ UNCHANGED <<inMemory, files, loop, netFaults, upset>>

\* networks.Select.
SelectNetwork(q) ==
    /\ reqs[q].op = "select" /\ reqs[q].id \in Ids(netlist)
    /\ chosen' = reqs[q].id /\ upNext' \in BOOLEAN
    /\ SaveNetworks(netlist, chosen')
    /\ NetAnswered(q, Saved)
    /\ UNCHANGED <<netlist, removing, settings, used, made, loop>>

\* networks.Remove of the network that is current: once its node has ended.
RemoveCurrent(q) ==
    /\ reqs[q].op \in {"remove", "reset"}
    /\ reqs[q].id \in Ids(netlist) /\ reqs[q].id = chosen
    /\ removing' = chosen /\ upNext' = FALSE
    /\ NetAnswered(q, reqs[q].op = "reset" \/ reqs[q].was)
    /\ UNCHANGED <<netlist, chosen, files, loop, netFaults, upset>>

\* networks.Remove of another network: at once.
RemoveOther(q) ==
    LET n == Get(netlist, reqs[q].id)
    IN  /\ reqs[q].op \in {"remove", "reset"}
        /\ reqs[q].id \in Ids(netlist) /\ reqs[q].id # chosen
        /\ Discard(n)
        /\ netlist' = RemovedFrom(netlist, n.id)
        /\ upNext' = FALSE
        /\ SaveNetworks(netlist', chosen)
        /\ NetAnswered(q, Saved /\ (reqs[q].op = "reset" \/ reqs[q].was))
        /\ UNCHANGED <<chosen, removing, loop>>

\* networks.Select and networks.Remove of a network that is not there, and
\* a removal whose files cannot be removed.
Refused(q) ==
    /\ \/ reqs[q].op \in {"select", "remove", "reset"} /\ reqs[q].id \notin Ids(netlist)
          /\ UNCHANGED <<netFaults, upset>>
       \/ reqs[q].op \in {"remove", "reset"} /\ reqs[q].id \in Ids(netlist) /\ reqs[q].id # chosen
          /\ netFaults < NetFaults /\ netFaults' = netFaults + 1 /\ upset' = TRUE
    /\ NetAnswered(q, FALSE)
    /\ upNext' = (upNext /\ reqs[q].id \notin Ids(netlist))
    /\ UNCHANGED <<netlist, chosen, removing, files, loop>>

\* resetFunc for a new identity: the key of the running network goes at
\* once, the network stays.
RenewIdentity(q) ==
    /\ reqs[q].op = "renew"
    /\ used' = [p \in DOMAIN used |-> IF p = reqs[q].at THEN {} ELSE used[p]]
    /\ settings' = IF reqs[q].at = Root THEN Nothing ELSE settings
    /\ NetAnswered(q, TRUE)
    /\ UNCHANGED <<inMemory, netFile, made, loop, netFaults, upset>>

\* After the answer: the server the request came to is told to end.
Stop(q) ==
    /\ reqs[q].op = "stop"
    /\ reqs' = [reqs EXCEPT ![q] = NoReq]
    /\ ended' = IF reqs[q].old THEN ended ELSE Serving
    /\ UNCHANGED <<inMemory, files, turn, runs, conn, netFaults, upset>>

\* POST /v1/up and /v1/down.
Connect ==
    /\ turn = "run" /\ ~ended
    /\ conn' = ~conn
    /\ UNCHANGED <<inMemory, files, turn, runs, ended, reqs, netFaults, upset>>

----------------------------------------------------------------------------
\* The loop of the daemon.

\* The server returned and the node is closed.  Its handlers are not
\* waited for.
TurnEnds ==
    /\ Serving /\ ended /\ (Late \/ \A q \in NetReqs : reqs[q] = NoReq)
    /\ turn' = "turn" /\ runs' = NoNet 
    /\ conn' = FALSE /\ ended' = FALSE
    /\ reqs' = [q \in NetReqs |-> IF reqs[q] = NoReq THEN NoReq
                                  ELSE [reqs[q] EXCEPT !.old = TRUE]]
    /\ upset' = (upset \/ \E q \in NetReqs : reqs[q] # NoReq)
    /\ UNCHANGED <<inMemory, files, netFaults>>

\* LoadNetworks: the file, or the network of an older version.
Loaded ==
    IF netFile.there \/ settings = Nothing THEN {[list |-> netFile.list, current |-> netFile.current]}
    ELSE {[list |-> <<[id |-> i, ctl |-> settings, dir |-> Root]>>, current |-> i]
            : i \in NetIds}

\* networks.reload: read, remove what was asked to go, and choose.
Reload ==
    /\ turn = "turn"
    /\ \E l \in Loaded :
         LET go == removing \in Ids(l.list)
             list == IF go THEN RemovedFrom(l.list, removing) ELSE l.list
             current == IF go THEN NextCurrent(l.list, l.current, removing) ELSE l.current
             n == IF current = Nothing THEN NoNet ELSE Get(list, current)
         IN  /\ removing' = Nothing
             /\ IF go THEN Discard(Get(l.list, removing))
                ELSE UNCHANGED <<used, made, settings>>
             /\ IF go \/ l.list # netFile.list THEN SaveNetworks(list, current)
                ELSE UNCHANGED <<netFile, netFaults, upset>>
             /\ IF Saved
                THEN /\ netlist' = list /\ chosen' = current /\ runs' = n
                     /\ turn' = IF n = NoNet THEN "setup" ELSE "start"
                     /\ UNCHANGED upNext
                ELSE /\ netlist' = <<>> /\ chosen' = Nothing /\ upNext' = FALSE
                     /\ turn' = "off" /\ UNCHANGED runs
    /\ UNCHANGED <<conn, ended, reqs>>

\* takeProfile and runNode: the node opens the key of its directory, or
\* makes one, and shows it to its control plane.
StartNode ==
    /\ turn = "start"
    /\ turn' = "run"
    /\ conn' = upNext /\ upNext' = FALSE
    /\ made' = made \cup {runs.dir}
    /\ used' = [used EXCEPT ![runs.dir] = @ \cup {runs.ctl}]
    /\ UNCHANGED <<netlist, chosen, removing, netFile, settings, runs, ended, reqs,
                   netFaults, upset>>

\* The daemon ends without warning, and the service manager starts it.
DaemonCrashes ==
    /\ turn # "off"
    /\ turn' = "off" /\ runs' = NoNet  /\ conn' = FALSE /\ ended' = FALSE
    /\ netlist' = <<>> /\ chosen' = Nothing /\ removing' = Nothing /\ upNext' = FALSE
    /\ reqs' = [q \in NetReqs |-> NoReq]
    /\ UNCHANGED <<files, netFaults, upset>>

DaemonRestarts ==
    /\ turn = "off" /\ turn' = "turn"
    /\ reqs' = [q \in NetReqs |-> NoReq]
    /\ UNCHANGED <<inMemory, files, runs, conn, ended, netFaults, upset>>

Act(q) == \/ \E c \in Controls, id \in NetIds : AddNetwork(q, c, id) \/ AddHalf(q, c, id)
          \/ AddRefused(q)
          \/ SelectNetwork(q) \/ RemoveCurrent(q) \/ RemoveOther(q)
          \/ Refused(q) \/ RenewIdentity(q)

LoopStep == TurnEnds \/ Reload \/ StartNode \/ DaemonRestarts

LocalNext ==
    \/ \E q \in NetReqs :
         \/ \E op \in {"add", "addSelect"} : Begin(q, op, Nothing)
         \/ \E id \in NetIds, op \in {"select", "remove", "reset", "renew"} : Begin(q, op, id)
         \/ turn # "off" /\ (Act(q) \/ Stop(q))
    \/ Connect \/ LoopStep \/ DaemonCrashes

LocalSpec == LocalInit /\ [][LocalNext]_netVars

----------------------------------------------------------------------------
LocalTypeOK ==
    /\ Cardinality(Ids(netlist)) = Len(netlist)
    /\ chosen \in Ids(netlist) \cup {Nothing}
    /\ removing \in NetIds \cup {Nothing} /\ upNext \in BOOLEAN
    /\ turn \in {"turn", "start", "run", "setup", "off"}
    /\ netFile.current \in Ids(netFile.list) \cup {Nothing}
    /\ runs = NoNet \/ runs.dir \in {Root, runs.id}

\* R142 (networks.go): no device key is ever shown to two control planes,
\* whatever networks are added, removed, renewed and added again in between,
\* with failed writes and crashes.
NoInheritedKey == \A p \in DOMAIN used : Cardinality(used[p]) <= 1

\* Two networks never share a state directory, in memory or in the file, so
\* removing one does not take the key of the other.
OneNetworkPerPlace ==
    \A list \in {netlist, netFile.list} : \A i, j \in DOMAIN list :
        list[i].dir = list[j].dir => i = j

\* What runs is what is current once every request is answered, unless a
\* write failed or a handler acted after its server had ended.
RunsAsChosen ==
    turn = "run" /\ ~ended /\ ~upset /\ (\A q \in NetReqs : reqs[q] = NoReq) =>
        runs.id = chosen

\* No device key is ever shown to two control planes (Discard), no two networks
\* share a state directory (Networks.Add), and what runs is what is current
\* once every request is answered (runWith), unless a write failed.
NetsInv == LocalTypeOK /\ NoInheritedKey /\ OneNetworkPerPlace /\ RunsAsChosen

=============================================================================
