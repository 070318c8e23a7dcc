------------------------------ MODULE PrivSep -------------------------------
(***************************************************************************)
(* Privilege separation (internal/privsep, cmd/boundgate-node/             *)
(* privsep_linux.go): the worker's calls, the parent that answers several  *)
(* of them at once, the descriptor of the tunnel device that travels with  *)
(* an answer, and the loop that ends, cleans up after and restarts the     *)
(* worker.                                                                 *)
(*                                                                         *)
(* What the parent checks of the arguments is left out: a call that is     *)
(* refused changes nothing.  The journal is HostJournal's, the anchors are *)
(* BindingHistory's and SignerChain's.                                     *)
(***************************************************************************)
EXTENDS Naturals, FiniteSets

CONSTANTS MaxIds,       \* bound: calls of one worker
          MaxWorkers,   \* bound: workers one after the other
          MaxInFlight,  \* maxInFlight
          SocketRoom,   \* answers that fit into the socket unread
          MaxChain      \* binding.MaxChain: links of a chain in pieces

ASSUME PrivSepAssumption ==
    /\ MaxIds \in Nat \ {0} /\ MaxWorkers \in Nat \ {0} /\ MaxInFlight \in Nat \ {0}
    /\ SocketRoom \in Nat \ {0} /\ MaxChain \in Nat

Ids == 1 .. MaxIds

\* What a worker asks for: a signature; the device; a change of the host,
\* a piece of a chain or its last; to forget the identity.
Ops == {"sign", "create_tun", "change", "piece", "last", "forget_identity"}

VARIABLES worker,   \* "running", "wedged" (it reads no answers) or "gone"
          number,   \* workers so far
          phase,    \* of the parent: "serving", "draining", "cleaning", "backoff" or "ended"
          conn,     \* the parent's end of the socket is open
          ask,      \* per call: [op, at, caller, fd]
          chain,    \* p.chain: links that have arrived
          forgot,   \* p.forgot
          keyGone,  \* the device key is deleted
          left,     \* the host has changes the worker asked for
          stopping  \* the service was told to stop

sepVars == <<worker, number, phase, conn, ask, chain, forgot, keyGone, left, stopping>>

NoAsk == [op |-> "none", at |-> "none", caller |-> "none", fd |-> "none"]

SepInit ==
    /\ worker = "running" /\ number = 1 /\ phase = "serving" /\ conn = TRUE
    /\ ask = [i \in Ids |-> NoAsk]
    /\ chain = 0 /\ forgot = FALSE /\ keyGone = FALSE /\ left = FALSE /\ stopping = FALSE

\* Places of a call in the parent.
Working == {"handling", "forgetting", "writing"}

InFlight == {i \in Ids : ask[i].at \in Working}

\* Descriptors of the device anywhere.
FdsOpen == {i \in Ids : ask[i].fd \in {"parent", "passed", "worker"}}
-----------------------------------------------------------------------------
(* The worker.                                                             *)

\* call: ids are not used again.
ClientCall(i, op) ==
    /\ worker # "gone" /\ conn /\ ask[i] = NoAsk /\ \A j \in Ids : j < i => ask[j] # NoAsk
    /\ ask' = [ask EXCEPT ![i] = [op |-> op, at |-> "sent", caller |-> "waiting", fd |-> "none"]]
    /\ UNCHANGED <<worker, number, phase, conn, chain, forgot, keyGone, left, stopping>>

\* readLoop: an answer nobody waits for is dropped, its descriptor closed.
ReadLoop(i) ==
    /\ worker = "running" /\ ask[i].at = "answer"
    /\ ask' = [ask EXCEPT ![i] =
                 IF @.caller = "waiting"
                   THEN [@ EXCEPT !.at = "channel"]
                   ELSE [@ EXCEPT !.at = "over", !.fd = "none"]]
    /\ UNCHANGED <<worker, number, phase, conn, chain, forgot, keyGone, left, stopping>>

\* The caller takes its answer, and the descriptor with it.
CallReturns(i) ==
    /\ worker # "gone" /\ ask[i].at = "channel" /\ ask[i].caller = "waiting"
    /\ ask' = [ask EXCEPT ![i].at = "over", ![i].caller = "got",
                          ![i].fd = IF @ = "passed" THEN "worker" ELSE @]
    /\ UNCHANGED <<worker, number, phase, conn, chain, forgot, keyGone, left, stopping>>

\* Its deadline ends the call: also when the answer is in its channel.
CallTimesOut(i) ==
    /\ worker # "gone" /\ ask[i].caller = "waiting"
    /\ ask' = [ask EXCEPT ![i].caller = "gave up"]
    /\ UNCHANGED <<worker, number, phase, conn, chain, forgot, keyGone, left, stopping>>

\* The node closes its device.
DeviceCloses(i) ==
    /\ ask[i].fd = "worker"
    /\ ask' = [ask EXCEPT ![i].fd = "none"]
    /\ UNCHANGED <<worker, number, phase, conn, chain, forgot, keyGone, left, stopping>>

WorkerWedges ==
    /\ worker = "running"
    /\ worker' = "wedged"
    /\ UNCHANGED <<number, phase, conn, ask, chain, forgot, keyGone, left, stopping>>

\* What a worker held goes with it; so do answers on their way to it.
WithoutWorker(a) ==
    [i \in Ids |->
       [a[i] EXCEPT !.fd = IF @ = "parent" THEN @ ELSE "none",
                    !.at = IF @ \in Working THEN @ ELSE "over",
                    !.caller = "none"]]
-----------------------------------------------------------------------------
(* The parent.                                                             *)

\* handle begins: nothing is answered once the identity was given up.
Admitted(i) == ~forgot

\* Serve reads a request when it may work on another one.
ServeReads(i) ==
    /\ phase = "serving" /\ conn /\ ask[i].at = "sent" /\ Cardinality(InFlight) < MaxInFlight
    /\ ask' = [ask EXCEPT ![i].at = IF Admitted(i) THEN "handling" ELSE "writing"]
    /\ UNCHANGED <<worker, number, phase, conn, chain, forgot, keyGone, left, stopping>>

\* Call i has been handled: its answer is to be written.
Handled(i, f) == ask' = [ask EXCEPT ![i].at = "writing", ![i].fd = f]

\* opSign, and every change of the host's network that was recorded; what
\* the rules refuse (another device, an address that is none) changes nothing.
HandleChange(i) ==
    /\ ask[i].at = "handling" /\ ask[i].op \in {"sign", "change"}
    /\ left' \in {left, left \/ ask[i].op = "change"}
    /\ Handled(i, "none")
    /\ UNCHANGED <<worker, number, phase, conn, chain, forgot, keyGone, stopping>>

\* opCreateTUN: the parent's own descriptor of the device goes, a duplicate
\* is passed on.
HandleCreateTUN(i) ==
    /\ ask[i].at = "handling" /\ ask[i].op = "create_tun"
    /\ Handled(i, "parent")
    /\ UNCHANGED <<worker, number, phase, conn, chain, forgot, keyGone, left, stopping>>

\* opFollowSigners: a chain that grows too long is dropped, one that is
\* complete is verified and gone.
HandleFollow(i) ==
    /\ ask[i].at = "handling" /\ ask[i].op \in {"piece", "last"}
    /\ chain' = IF ask[i].op = "piece" /\ chain < MaxChain THEN chain + 1 ELSE 0
    /\ Handled(i, "none")
    /\ UNCHANGED <<worker, number, phase, conn, forgot, keyGone, left, stopping>>

\* opForgetIdentity begins: end.
HandleForget(i) ==
    /\ ask[i].at = "handling" /\ ask[i].op = "forget_identity"
    /\ forgot' = TRUE
    /\ ask' = [ask EXCEPT ![i].at = "forgetting"]
    /\ UNCHANGED <<worker, number, phase, conn, chain, keyGone, left, stopping>>

\* ForgetIdentity deletes the key and the enrollment.
ForgetIdentity(i) ==
    /\ ask[i].at = "forgetting"
    /\ keyGone' = TRUE
    /\ Handled(i, "none")
    /\ UNCHANGED <<worker, number, phase, conn, chain, forgot, left, stopping>>

RoomForAnswer == Cardinality({j \in Ids : ask[j].at = "answer"}) < SocketRoom

\* The answer fits into the socket; the parent's descriptor is closed.
WriteAnswer(i) ==
    /\ ask[i].at = "writing" /\ conn /\ worker # "gone" /\ RoomForAnswer
    /\ ask' = [ask EXCEPT ![i].at = "answer", ![i].fd = IF @ = "parent" THEN "passed" ELSE @]
    /\ UNCHANGED <<worker, number, phase, conn, chain, forgot, keyGone, left, stopping>>

\* Nobody reads any more, or writeTimeout has passed: the socket is closed.
WriteFails(i) ==
    /\ ask[i].at = "writing" /\ (~conn \/ worker = "gone" \/ ~RoomForAnswer)
    /\ ask' = [ask EXCEPT ![i].at = "over", ![i].fd = "none"]
    /\ conn' = FALSE
    /\ UNCHANGED <<worker, number, phase, chain, forgot, keyGone, left, stopping>>
-----------------------------------------------------------------------------
(* The supervisor.                                                         *)

\* The worker ends by itself, by its sandbox or by a signal (waited).
WorkerEnds ==
    /\ worker # "gone" /\ phase = "serving"
    /\ worker' = "gone" /\ phase' = "draining"
    /\ ask' = WithoutWorker(ask)
    /\ UNCHANGED <<number, conn, chain, forgot, keyGone, left, stopping>>

\* superviseWorker kills it: the socket was closed (served), it gave up the
\* identity (Ended), or it did not stop in time.
WorkerIsKilled ==
    /\ worker # "gone" /\ phase = "serving" /\ (~conn \/ forgot \/ stopping)
    /\ worker' = "gone" /\ phase' = "draining"
    /\ ask' = WithoutWorker(ask)
    /\ UNCHANGED <<number, conn, chain, forgot, keyGone, left, stopping>>

\* Mutant: the parent does not wait for what it is working on.
ServeReturnsEarly ==
    /\ phase = "draining"
    /\ phase' = "cleaning" /\ conn' = FALSE
    /\ UNCHANGED <<worker, number, ask, chain, forgot, keyGone, left, stopping>>

\* Serve returns when every request it took has been handled.
ServeReturns ==
    /\ phase = "draining" /\ InFlight = {}
    /\ phase' = "cleaning" /\ conn' = FALSE
    /\ UNCHANGED <<worker, number, ask, chain, forgot, keyGone, left, stopping>>

\* cleanUp and reclaimParentFiles; the service ends when it was told to or
\* gave up its identity.
CleanUp ==
    /\ phase = "cleaning"
    /\ left' = FALSE
    /\ phase' = IF stopping \/ keyGone THEN "ended" ELSE "backoff"
    /\ UNCHANGED <<worker, number, conn, ask, chain, forgot, keyGone, stopping>>

\* After the backoff the next worker gets a Parent and a socket of its own.
StartWorker ==
    /\ phase = "backoff" /\ ~stopping /\ number < MaxWorkers
    /\ worker' = "running" /\ number' = number + 1 /\ phase' = "serving" /\ conn' = TRUE
    /\ ask' = [i \in Ids |-> NoAsk] /\ chain' = 0 /\ forgot' = FALSE
    /\ UNCHANGED <<keyGone, left, stopping>>

\* SIGTERM: the parent answers on until the worker is gone (serveContext).
StopService ==
    /\ ~stopping
    /\ stopping' = TRUE
    /\ phase' = IF phase = "backoff" THEN "ended" ELSE phase
    /\ UNCHANGED <<worker, number, conn, ask, chain, forgot, keyGone, left>>

SepNext ==
    \/ \E i \in Ids :
         \/ \E op \in Ops : ClientCall(i, op)
         \/ ReadLoop(i) \/ CallReturns(i) \/ CallTimesOut(i) \/ DeviceCloses(i)
         \/ ServeReads(i) \/ HandleChange(i) \/ HandleCreateTUN(i) \/ HandleFollow(i)
         \/ HandleForget(i) \/ ForgetIdentity(i) \/ WriteAnswer(i) \/ WriteFails(i)
    \/ WorkerWedges \/ WorkerEnds \/ WorkerIsKilled \/ ServeReturns \/ CleanUp
    \/ StartWorker \/ StopService

SepSpec == SepInit /\ [][SepNext]_sepVars

-----------------------------------------------------------------------------
(* Properties.                                                             *)

SepTypeOK ==
    /\ worker \in {"running", "wedged", "gone"} /\ number \in 1 .. MaxWorkers
    /\ phase \in {"serving", "draining", "cleaning", "backoff", "ended"}
    /\ Cardinality(InFlight) <= MaxInFlight /\ chain <= MaxChain

\* Between two workers, and when the service has ended, nothing of the last
\* one is on the host and no process holds its device: no request it made
\* takes effect after the cleanup (superviseWorker waits for Serve, Serve for
\* its responders).
NextWorkerStartsClean ==
    phase \in {"backoff", "ended"} => ~left /\ FdsOpen = {} /\ InFlight = {}

\* No worker runs on with a key that was deleted: the service ends, however
\* the deletion, the end of the worker and the other requests interleave
\* (forget, runPrivileged).
ForgottenEndsService == [][keyGone => number' = number]_sepVars

\* What the parent began to answer comes to an end, also when the worker
\* stops reading (writeTimeout): no worker can hold the parent.
AnswersEnd == \A i \in Ids : []<>(ask[i].at \notin Working)

\* A worker that gave up the identity is gone soon after, and the parent with
\* it.
ForgetEnds == []<>(keyGone => phase = "ended")

\* When a worker is over and the parent has cleaned up, nothing it asked for
\* is on the host and nobody holds its device (superviseWorker, Serve).
SepInv == SepTypeOK /\ NextWorkerStartsClean

=============================================================================
