----------------------------- MODULE Host_proofs -----------------------------
(***************************************************************************)
(* Proofs about what runs on a machine around the tunnels: the privileged  *)
(* process and its worker (PrivSep), the watch of the default routes       *)
(* (NetWatch), the device of an app (EmbeddedTun), its engine              *)
(* (EmbedEngine), its updates (Updates), the reports of a node and the log *)
(* of the control plane (TunnelReports), and of all of them together.      *)
(***************************************************************************)
EXTENDS MCHost, FiniteSetTheorems, SequenceTheorems, WellFoundedInduction, TLAPS

-----------------------------------------------------------------------------
(***************************************************************************)
(* PrivSep.  The parent holds a descriptor only while it writes an answer, *)
(* and what a worker that is gone left behind is at most a call the parent *)
(* still works on; the supervisor goes on when there is none.              *)
(***************************************************************************)
AskRecord ==
    [op : Ops \cup {"none"}, at : {"none", "sent", "handling", "forgetting", "writing", "answer", "channel", "over"},
     caller : {"none", "waiting", "got", "gave up"}, fd : {"none", "parent", "passed", "worker"}]

SepTypes ==
    /\ worker \in {"running", "wedged", "gone"} /\ number \in 1 .. MaxWorkers /\ chain \in 0 .. MaxChain
    /\ phase \in {"serving", "draining", "cleaning", "backoff", "ended"}
    /\ conn \in BOOLEAN /\ forgot \in BOOLEAN /\ keyGone \in BOOLEAN /\ left \in BOOLEAN /\ stopping \in BOOLEAN
    /\ ask \in [Ids -> AskRecord]

ParentWrites == \A i \in Ids : ask[i].fd = "parent" => ask[i].at = "writing"
GoneIsDrained ==
    /\ worker = "gone" <=> phase # "serving"
    /\ worker = "gone" => \A i \in Ids : ask[i].at \in Working \cup {"over"} /\ ask[i].fd \in {"parent", "none"}
Cleaned ==
    /\ phase \in {"cleaning", "backoff", "ended"} => \A i \in Ids : ask[i].at \notin Working
    /\ phase \in {"backoff", "ended"} => ~left
FewInFlight == Cardinality(InFlight) <= MaxInFlight

SepIInv == SepTypes /\ ParentWrites /\ GoneIsDrained /\ Cleaned /\ FewInFlight

LEMMA InFlightFinite ==
  ASSUME NEW S, S \subseteq Ids
  PROVE  IsFiniteSet(S) /\ Cardinality(S) \in Nat
<1>1. IsFiniteSet(Ids)
  BY PrivSepAssumption, FS_Interval DEF Ids
<1>2. QED
  BY <1>1, FS_Subset, FS_CardinalityType

\* No step but ServeReads takes a call into the parent.
LEMMA InFlightShrinks ==
  ASSUME FewInFlight, \A i \in Ids : ask'[i].at \in Working => ask[i].at \in Working
  PROVE  FewInFlight'
<1>1. InFlight' \subseteq InFlight /\ InFlight \subseteq Ids
  BY DEF InFlight
<1>2. IsFiniteSet(InFlight) /\ Cardinality(InFlight) \in Nat /\ Cardinality(InFlight') \in Nat
  BY <1>1, InFlightFinite
<1>3. Cardinality(InFlight') <= Cardinality(InFlight)
  BY <1>1, <1>2, FS_Subset
<1>4. QED
  BY <1>2, <1>3, PrivSepAssumption DEF FewInFlight

\* A step that moves one call and leaves the phase alone.
OneCall(i, r) == ask' = [ask EXCEPT ![i] = r] /\ UNCHANGED <<worker, number, phase, keyGone, stopping>>

LEMMA OneCallKeeps ==
  ASSUME SepIInv, NEW i \in Ids, NEW r \in AskRecord, OneCall(i, r),
         conn' \in BOOLEAN, forgot' \in BOOLEAN, left' \in BOOLEAN, chain' \in 0 .. MaxChain,
         r.fd = "parent" => r.at = "writing",
         worker = "gone" => r.at \in Working \cup {"over"} /\ r.fd \in {"parent", "none"},
         r.at \in Working => ask[i].at \in Working,
         left' # left => ask[i].at \in Working
  PROVE  SepIInv'
<1>1. /\ ask \in [Ids -> AskRecord] /\ ask' \in [Ids -> AskRecord] /\ ask'[i] = r
      /\ \A j \in Ids : j # i => ask'[j] = ask[j]
      /\ UNCHANGED <<worker, number, phase, keyGone, stopping>>
  BY DEF SepIInv, SepTypes, OneCall
<1>2. SepTypes'
  BY <1>1 DEF SepIInv, SepTypes
<1>3. ParentWrites'
  BY <1>1 DEF SepIInv, ParentWrites
<1>4. GoneIsDrained'
  BY <1>1 DEF SepIInv, GoneIsDrained
<1>5. Cleaned'
  BY <1>1 DEF SepIInv, Cleaned
<1>6. FewInFlight'
  BY <1>1, InFlightShrinks DEF SepIInv
<1>7. QED
  BY <1>2, <1>3, <1>4, <1>5, <1>6 DEF SepIInv

LEMMA SepStarts == SepInit => SepIInv
<1> SUFFICES ASSUME SepInit PROVE SepIInv
  OBVIOUS
<1>1. NoAsk \in AskRecord /\ NoAsk.at = "none" /\ NoAsk.fd = "none"
  BY DEF NoAsk, AskRecord
<1>2. ask \in [Ids -> AskRecord] /\ \A i \in Ids : ask[i] = NoAsk
  BY <1>1 DEF SepInit
<1>3. SepTypes
  <2>1. 1 \in 1 .. MaxWorkers /\ 0 \in 0 .. MaxChain
    BY PrivSepAssumption
  <2>2. QED
    BY <1>2, <2>1 DEF SepInit, SepTypes
<1>4. ParentWrites /\ GoneIsDrained /\ Cleaned
  BY <1>1, <1>2 DEF SepInit, ParentWrites, GoneIsDrained, Cleaned
<1>5. InFlight = {}
  BY <1>1, <1>2 DEF InFlight, Working
<1>6. FewInFlight
  BY <1>5, FS_EmptySet, PrivSepAssumption DEF FewInFlight
<1>7. QED
  BY <1>3, <1>4, <1>6 DEF SepIInv

LEMMA WorkerCallsKeep ==
  ASSUME SepIInv, NEW i \in Ids,
         \/ \E op \in Ops : ClientCall(i, op)
         \/ ReadLoop(i) \/ CallReturns(i) \/ CallTimesOut(i) \/ DeviceCloses(i)
  PROVE  SepIInv'
<1>1. ask[i] \in AskRecord /\ ask \in [Ids -> AskRecord] /\ SepTypes
  BY DEF SepIInv, SepTypes
<1>2. ASSUME NEW op \in Ops, ClientCall(i, op) PROVE SepIInv'
  <2> DEFINE r == [op |-> op, at |-> "sent", caller |-> "waiting", fd |-> "none"]
  <2>1. OneCall(i, r) /\ r \in AskRecord /\ UNCHANGED <<conn, forgot, left, chain>> /\ worker # "gone"
    BY <1>2 DEF ClientCall, OneCall, AskRecord
  <2>2. QED
    BY <1>1, <2>1, OneCallKeeps DEF SepTypes, Working
<1>3. ASSUME ReadLoop(i) PROVE SepIInv'
  <2> DEFINE r == IF ask[i].caller = "waiting" THEN [ask[i] EXCEPT !.at = "channel"]
                  ELSE [ask[i] EXCEPT !.at = "over", !.fd = "none"]
  <2>1. /\ r \in AskRecord /\ r.at \in {"channel", "over"} /\ r.fd \in {"none", ask[i].fd}
    BY <1>1 DEF AskRecord
  <2>2. OneCall(i, r) /\ UNCHANGED <<conn, forgot, left, chain>> /\ worker = "running" /\ ask[i].at = "answer"
    BY <1>3 DEF ReadLoop, OneCall
  <2>3. ask[i].fd # "parent"
    BY <2>2 DEF SepIInv, ParentWrites
  <2> HIDE DEF r
  <2>4. QED
    BY <1>1, <2>1, <2>2, <2>3, OneCallKeeps DEF SepTypes, Working
<1>4. ASSUME CallReturns(i) PROVE SepIInv'
  <2> DEFINE r == [ask[i] EXCEPT !.at = "over", !.caller = "got", !.fd = IF @ = "passed" THEN "worker" ELSE @]
  <2>1. r \in AskRecord /\ r.at = "over" /\ r.fd \in {"worker", ask[i].fd}
    BY <1>1 DEF AskRecord
  <2>2. OneCall(i, r) /\ UNCHANGED <<conn, forgot, left, chain>> /\ worker # "gone" /\ ask[i].at = "channel"
    BY <1>1, <1>4 DEF CallReturns, OneCall
  <2>3. ask[i].fd # "parent"
    BY <2>2 DEF SepIInv, ParentWrites
  <2> HIDE DEF r
  <2>4. QED
    BY <1>1, <2>1, <2>2, <2>3, OneCallKeeps DEF SepTypes, Working
<1>5. ASSUME CallTimesOut(i) PROVE SepIInv'
  <2> DEFINE r == [ask[i] EXCEPT !.caller = "gave up"]
  <2>1. r \in AskRecord /\ r.at = ask[i].at /\ r.fd = ask[i].fd
    BY <1>1 DEF AskRecord
  <2>2. OneCall(i, r) /\ UNCHANGED <<conn, forgot, left, chain>> /\ worker # "gone"
    BY <1>1, <1>5 DEF CallTimesOut, OneCall
  <2>3. ask[i].fd = "parent" => ask[i].at = "writing"
    BY DEF SepIInv, ParentWrites
  <2> HIDE DEF r
  <2>4. QED
    BY <1>1, <2>1, <2>2, <2>3, OneCallKeeps DEF SepTypes, Working
<1>6. ASSUME DeviceCloses(i) PROVE SepIInv'
  <2> DEFINE r == [ask[i] EXCEPT !.fd = "none"]
  <2>1. r \in AskRecord /\ r.at = ask[i].at /\ r.fd = "none"
    BY <1>1 DEF AskRecord
  <2>2. OneCall(i, r) /\ UNCHANGED <<conn, forgot, left, chain>> /\ ask[i].fd = "worker"
    BY <1>1, <1>6 DEF DeviceCloses, OneCall
  <2>3. worker # "gone"
    BY <2>2 DEF SepIInv, GoneIsDrained
  <2> HIDE DEF r
  <2>4. QED
    BY <1>1, <2>1, <2>2, <2>3, OneCallKeeps DEF SepTypes, Working
<1>7. QED
  BY <1>2, <1>3, <1>4, <1>5, <1>6

LEMMA ServeReadsKeeps == ASSUME SepIInv, NEW i \in Ids, ServeReads(i) PROVE SepIInv'
<1> DEFINE r == [ask[i] EXCEPT !.at = IF Admitted(i) THEN "handling" ELSE "writing"]
<1>1. ask[i] \in AskRecord /\ ask \in [Ids -> AskRecord] /\ SepTypes
  BY DEF SepIInv, SepTypes
<1>2. r \in AskRecord /\ r.at \in {"handling", "writing"} /\ r.fd = ask[i].fd
  BY <1>1 DEF AskRecord
<1>3. /\ ask' = [ask EXCEPT ![i] = r] /\ phase = "serving" /\ ask[i].at = "sent" /\ Cardinality(InFlight) < MaxInFlight
      /\ UNCHANGED <<worker, number, phase, conn, chain, forgot, keyGone, left, stopping>>
  BY <1>1 DEF ServeReads
<1> HIDE DEF r
<1>4. ask' \in [Ids -> AskRecord] /\ ask'[i] = r /\ \A j \in Ids : j # i => ask'[j] = ask[j]
  BY <1>1, <1>2, <1>3
<1>5. worker # "gone" /\ ask[i].fd # "parent"
  BY <1>3 DEF SepIInv, GoneIsDrained, ParentWrites
<1>6. SepTypes'
  BY <1>1, <1>3, <1>4 DEF SepTypes
<1>7. ParentWrites' /\ GoneIsDrained' /\ Cleaned'
  BY <1>2, <1>3, <1>4, <1>5 DEF SepIInv, ParentWrites, GoneIsDrained, Cleaned
<1>8. FewInFlight'
  <2>1. InFlight' = InFlight \cup {i} /\ InFlight \subseteq Ids /\ i \notin InFlight
    BY <1>2, <1>3, <1>4 DEF InFlight, Working
  <2>2. IsFiniteSet(InFlight) /\ Cardinality(InFlight) \in Nat
    BY <2>1, InFlightFinite
  <2>3. Cardinality(InFlight') = Cardinality(InFlight) + 1
    BY <2>1, <2>2, FS_AddElement
  <2>4. QED
    BY <1>3, <2>2, <2>3, PrivSepAssumption DEF FewInFlight
<1>9. QED
  BY <1>6, <1>7, <1>8 DEF SepIInv

LEMMA ParentCallsKeep ==
  ASSUME SepIInv, NEW i \in Ids,
         \/ HandleChange(i) \/ HandleCreateTUN(i) \/ HandleFollow(i) \/ HandleForget(i)
         \/ ForgetIdentity(i) \/ WriteAnswer(i) \/ WriteFails(i)
  PROVE  SepIInv' \/ ForgetIdentity(i)
<1>1. ask[i] \in AskRecord /\ ask \in [Ids -> AskRecord] /\ SepTypes
  BY DEF SepIInv, SepTypes
<1>2. ask[i].fd = "parent" => ask[i].at = "writing"
  BY DEF SepIInv, ParentWrites
<1>3. ASSUME HandleChange(i) PROVE SepIInv'
  <2> DEFINE r == [ask[i] EXCEPT !.at = "writing", !.fd = "none"]
  <2>1. r \in AskRecord /\ r.at = "writing" /\ r.fd = "none"
    BY <1>1 DEF AskRecord
  <2>2. OneCall(i, r) /\ UNCHANGED <<conn, forgot, chain>> /\ ask[i].at = "handling"
    BY <1>1, <1>3 DEF HandleChange, Handled, OneCall
  <2>3. left' \in BOOLEAN
    BY <1>1, <1>3 DEF HandleChange, SepTypes
  <2> HIDE DEF r
  <2>4. QED
    BY <1>1, <2>1, <2>2, <2>3, OneCallKeeps DEF SepTypes, Working
<1>4. ASSUME HandleCreateTUN(i) PROVE SepIInv'
  <2> DEFINE r == [ask[i] EXCEPT !.at = "writing", !.fd = "parent"]
  <2>1. r \in AskRecord /\ r.at = "writing" /\ r.fd = "parent"
    BY <1>1 DEF AskRecord
  <2>2. OneCall(i, r) /\ UNCHANGED <<conn, forgot, chain, left>> /\ ask[i].at = "handling"
    BY <1>1, <1>4 DEF HandleCreateTUN, Handled, OneCall
  <2> HIDE DEF r
  <2>3. QED
    BY <1>1, <2>1, <2>2, OneCallKeeps DEF SepTypes, Working
<1>5. ASSUME HandleFollow(i) PROVE SepIInv'
  <2> DEFINE r == [ask[i] EXCEPT !.at = "writing", !.fd = "none"]
  <2>1. r \in AskRecord /\ r.at = "writing" /\ r.fd = "none"
    BY <1>1 DEF AskRecord
  <2>2. OneCall(i, r) /\ UNCHANGED <<conn, forgot, left>> /\ ask[i].at = "handling"
    BY <1>1, <1>5 DEF HandleFollow, Handled, OneCall
  <2>3. chain' \in 0 .. MaxChain
    <3>1. (chain' = chain + 1 /\ chain < MaxChain) \/ chain' = 0
      BY <1>5 DEF HandleFollow
    <3>2. QED
      BY <1>1, <3>1, PrivSepAssumption DEF SepTypes
  <2> HIDE DEF r
  <2>4. QED
    BY <1>1, <2>1, <2>2, <2>3, OneCallKeeps DEF SepTypes, Working
<1>6. ASSUME HandleForget(i) PROVE SepIInv'
  <2> DEFINE r == [ask[i] EXCEPT !.at = "forgetting"]
  <2>1. r \in AskRecord /\ r.at = "forgetting" /\ r.fd = ask[i].fd
    BY <1>1 DEF AskRecord
  <2>2. OneCall(i, r) /\ UNCHANGED <<conn, chain, left>> /\ forgot' = TRUE /\ ask[i].at = "handling"
    BY <1>1, <1>6 DEF HandleForget, OneCall
  <2>3. worker = "gone" => ask[i].fd \in {"parent", "none"}
    BY DEF SepIInv, GoneIsDrained
  <2> HIDE DEF r
  <2>4. QED
    BY <1>1, <1>2, <2>1, <2>2, <2>3, OneCallKeeps DEF SepTypes, Working
<1>7. ASSUME WriteAnswer(i) PROVE SepIInv'
  <2> DEFINE r == [ask[i] EXCEPT !.at = "answer", !.fd = IF @ = "parent" THEN "passed" ELSE @]
  <2>1. r \in AskRecord /\ r.at = "answer" /\ r.fd # "parent"
    BY <1>1 DEF AskRecord
  <2>2. OneCall(i, r) /\ UNCHANGED <<conn, forgot, left, chain>> /\ worker # "gone"
    BY <1>1, <1>7 DEF WriteAnswer, OneCall
  <2> HIDE DEF r
  <2>3. QED
    BY <1>1, <2>1, <2>2, OneCallKeeps DEF SepTypes, Working
<1>8. ASSUME WriteFails(i) PROVE SepIInv'
  <2> DEFINE r == [ask[i] EXCEPT !.at = "over", !.fd = "none"]
  <2>1. r \in AskRecord /\ r.at = "over" /\ r.fd = "none"
    BY <1>1 DEF AskRecord
  <2>2. OneCall(i, r) /\ UNCHANGED <<forgot, left, chain>> /\ conn' = FALSE
    BY <1>1, <1>8 DEF WriteFails, OneCall
  <2> HIDE DEF r
  <2>3. QED
    BY <1>1, <2>1, <2>2, OneCallKeeps DEF SepTypes, Working
<1>9. QED
  BY <1>3, <1>4, <1>5, <1>6, <1>7, <1>8

\* The key goes: the call is handled like any other.
LEMMA ForgetIdentityKeeps == ASSUME SepIInv, NEW i \in Ids, ForgetIdentity(i) PROVE SepIInv'
<1> DEFINE r == [ask[i] EXCEPT !.at = "writing", !.fd = "none"]
<1>1. ask[i] \in AskRecord /\ ask \in [Ids -> AskRecord] /\ SepTypes
  BY DEF SepIInv, SepTypes
<1>2. r \in AskRecord /\ r.at = "writing" /\ r.fd = "none"
  BY <1>1 DEF AskRecord
<1>3. /\ ask' = [ask EXCEPT ![i] = r] /\ ask[i].at = "forgetting" /\ keyGone' = TRUE
      /\ UNCHANGED <<worker, number, phase, conn, chain, forgot, left, stopping>>
  BY <1>1 DEF ForgetIdentity, Handled
<1> HIDE DEF r
<1>4. ask' \in [Ids -> AskRecord] /\ ask'[i] = r /\ \A j \in Ids : j # i => ask'[j] = ask[j]
  BY <1>1, <1>2, <1>3
<1>5. SepTypes' /\ ParentWrites' /\ GoneIsDrained'
  BY <1>1, <1>2, <1>3, <1>4 DEF SepIInv, SepTypes, ParentWrites, GoneIsDrained, Working
<1>6. Cleaned'
  BY <1>1, <1>3, <1>4 DEF SepIInv, Cleaned, Working
<1>7. FewInFlight'
  BY <1>3, <1>4, InFlightShrinks DEF SepIInv, Working
<1>8. QED
  BY <1>5, <1>6, <1>7 DEF SepIInv

LEMMA WorkerGoesKeeps == ASSUME SepIInv, WorkerEnds \/ WorkerIsKilled PROVE SepIInv'
<1>1. /\ SepTypes /\ ask \in [Ids -> AskRecord] /\ worker' = "gone" /\ phase' = "draining" /\ ask' = WithoutWorker(ask)
      /\ UNCHANGED <<number, conn, chain, forgot, keyGone, left, stopping>>
  BY DEF SepIInv, SepTypes, WorkerEnds, WorkerIsKilled
<1>2. ASSUME NEW i \in Ids
      PROVE  /\ ask'[i] \in AskRecord /\ ask'[i].fd = (IF ask[i].fd = "parent" THEN "parent" ELSE "none")
             /\ ask'[i].at = (IF ask[i].at \in Working THEN ask[i].at ELSE "over")
  <2>1. ask[i] \in AskRecord
    BY <1>1
  <2> DEFINE r == [ask[i] EXCEPT !.fd = IF @ = "parent" THEN @ ELSE "none",
                                 !.at = IF @ \in Working THEN @ ELSE "over", !.caller = "none"]
  <2>2. ask'[i] = r
    BY <1>1 DEF WithoutWorker
  <2>3. r \in AskRecord /\ r.fd = (IF ask[i].fd = "parent" THEN "parent" ELSE "none")
    BY <2>1 DEF AskRecord
  <2>4. r.at = (IF ask[i].at \in Working THEN ask[i].at ELSE "over")
    BY <2>1 DEF AskRecord
  <2> HIDE DEF r
  <2>5. QED
    BY <2>2, <2>3, <2>4
<1>3. ask' \in [Ids -> AskRecord]
  BY <1>1, <1>2 DEF WithoutWorker
<1>4. SepTypes'
  BY <1>1, <1>3 DEF SepTypes
<1>5. ParentWrites'
  BY <1>2 DEF SepIInv, ParentWrites, Working
<1>6. GoneIsDrained' /\ Cleaned'
  BY <1>1, <1>2 DEF GoneIsDrained, Cleaned
<1>7. FewInFlight'
  BY <1>2, InFlightShrinks DEF SepIInv, Working
<1>8. QED
  BY <1>4, <1>5, <1>6, <1>7 DEF SepIInv

LEMMA SupervisorKeeps ==
  ASSUME SepIInv, WorkerWedges \/ ServeReturns \/ CleanUp \/ StopService
  PROVE  SepIInv'
<1>1. ask' = ask /\ number' = number /\ chain' = chain
  BY DEF WorkerWedges, ServeReturns, CleanUp, StopService
<1>2. FewInFlight'
  BY <1>1, InFlightShrinks DEF SepIInv
<1>3. ParentWrites'
  BY <1>1 DEF SepIInv, ParentWrites
<1>4. SepTypes' /\ GoneIsDrained' /\ Cleaned'
  <2>1. CASE WorkerWedges
    BY <1>1, <2>1 DEF WorkerWedges, SepIInv, SepTypes, GoneIsDrained, Cleaned
  <2>2. CASE ServeReturns
    BY <1>1, <2>2 DEF ServeReturns, InFlight, SepIInv, SepTypes, GoneIsDrained, Cleaned
  <2>3. CASE CleanUp
    BY <1>1, <2>3 DEF CleanUp, SepIInv, SepTypes, GoneIsDrained, Cleaned
  <2>4. CASE StopService
    BY <1>1, <2>4 DEF StopService, SepIInv, SepTypes, GoneIsDrained, Cleaned
  <2>5. QED
    BY <2>1, <2>2, <2>3, <2>4
<1>5. QED
  BY <1>2, <1>3, <1>4 DEF SepIInv

LEMMA StartWorkerKeeps == ASSUME SepIInv, StartWorker PROVE SepIInv'
<1>1. /\ SepTypes /\ number < MaxWorkers /\ worker' = "running" /\ number' = number + 1 /\ phase' = "serving" /\ conn' = TRUE
      /\ ask' = [i \in Ids |-> NoAsk] /\ chain' = 0 /\ forgot' = FALSE /\ UNCHANGED <<keyGone, left, stopping>>
  BY DEF SepIInv, StartWorker
<1>2. NoAsk \in AskRecord /\ NoAsk.at = "none" /\ NoAsk.fd = "none"
  BY DEF NoAsk, AskRecord
<1>3. ask' \in [Ids -> AskRecord] /\ \A i \in Ids : ask'[i] = NoAsk
  BY <1>1, <1>2
<1>4. number' \in 1 .. MaxWorkers /\ chain' \in 0 .. MaxChain
  BY <1>1, PrivSepAssumption DEF SepTypes
<1>5. SepTypes'
  BY <1>1, <1>3, <1>4 DEF SepTypes
<1>6. ParentWrites' /\ GoneIsDrained' /\ Cleaned'
  BY <1>1, <1>2, <1>3 DEF ParentWrites, GoneIsDrained, Cleaned
<1>7. FewInFlight'
  BY <1>2, <1>3, InFlightShrinks DEF SepIInv, Working
<1>8. QED
  BY <1>5, <1>6, <1>7 DEF SepIInv

LEMMA SepKept ==
  ASSUME SepIInv, [SepNext]_sepVars
  PROVE  SepIInv'
<1>1. CASE SepNext
  <2>1. ASSUME NEW i \in Ids, \/ \E op \in Ops : ClientCall(i, op)
                              \/ ReadLoop(i) \/ CallReturns(i) \/ CallTimesOut(i) \/ DeviceCloses(i)
        PROVE  SepIInv'
    BY <2>1, WorkerCallsKeep
  <2>2. ASSUME NEW i \in Ids, \/ HandleChange(i) \/ HandleCreateTUN(i) \/ HandleFollow(i) \/ HandleForget(i)
                              \/ ForgetIdentity(i) \/ WriteAnswer(i) \/ WriteFails(i) \/ ServeReads(i)
        PROVE  SepIInv'
    BY <2>2, ParentCallsKeep, ForgetIdentityKeeps, ServeReadsKeeps
  <2>3. ASSUME WorkerWedges \/ WorkerEnds \/ WorkerIsKilled \/ ServeReturns \/ CleanUp \/ StartWorker \/ StopService
        PROVE  SepIInv'
    BY <2>3, SupervisorKeeps, WorkerGoesKeeps, StartWorkerKeeps
  <2>4. QED
    BY <1>1, <2>1, <2>2, <2>3 DEF SepNext
<1>2. CASE UNCHANGED sepVars
  <2>1. UNCHANGED <<worker, number, phase, conn, ask, chain, forgot, keyGone, left, stopping>>
    BY <1>2 DEF sepVars
  <2>2. FewInFlight'
    BY <2>1, InFlightShrinks DEF SepIInv
  <2>3. QED
    BY <2>1, <2>2 DEF SepIInv, SepTypes, ParentWrites, GoneIsDrained, Cleaned
<1>3. QED
  BY <1>1, <1>2

LEMMA SepImplies ==
  ASSUME SepIInv
  PROVE  SepInv
<1>1. SepTypeOK
  <2>1. chain <= MaxChain
    BY PrivSepAssumption DEF SepIInv, SepTypes
  <2>2. QED
    BY <2>1 DEF SepIInv, SepTypes, FewInFlight, SepTypeOK
<1>2. NextWorkerStartsClean
  <2> SUFFICES ASSUME phase \in {"backoff", "ended"} PROVE ~left /\ FdsOpen = {} /\ InFlight = {}
    BY DEF NextWorkerStartsClean
  <2>1. ~left /\ InFlight = {}
    BY DEF SepIInv, Cleaned, InFlight
  <2>2. \A i \in Ids : ask[i].fd \in {"parent", "none"} /\ ask[i].at \notin Working
    BY DEF SepIInv, GoneIsDrained, Cleaned
  <2>3. FdsOpen = {}
    BY <2>2 DEF SepIInv, ParentWrites, FdsOpen, Working
  <2>4. QED
    BY <2>1, <2>3
<1>3. QED
  BY <1>1, <1>2 DEF SepInv

\* When a worker is over and the parent has cleaned up, nothing it asked for
\* is on the host, nobody holds its device and no call is under way, for any
\* number of workers and calls and any order of answers, deadlines, failed
\* writes and signals (superviseWorker, Serve, cleanUp).
THEOREM SepSound == SepSpec => []SepInv
<1>1. SepIInv /\ [SepNext]_sepVars => SepIInv'
  BY SepKept
<1>2. SepIInv => SepInv
  BY SepImplies
<1>3. QED
  BY <1>1, <1>2, SepStarts, PTL DEF SepSpec

-----------------------------------------------------------------------------
(***************************************************************************)
(* PrivSep, the end of a service without identity: a key is deleted only   *)
(* while the parent works on a call, and the cleanup after that ends the   *)
(* service.                                                                *)
(***************************************************************************)
NoBackoffWithoutKey == keyGone => phase # "backoff"

LEMMA ForgottenStep ==
  ASSUME SepIInv, NoBackoffWithoutKey, [SepNext]_sepVars
  PROVE  NoBackoffWithoutKey' /\ [keyGone => number' = number]_sepVars
<1> USE DEF NoBackoffWithoutKey
<1>1. CASE \E i \in Ids : \/ \E op \in Ops : ClientCall(i, op)
                          \/ ReadLoop(i) \/ CallReturns(i) \/ CallTimesOut(i) \/ DeviceCloses(i)
  <2>1. UNCHANGED <<number, phase, keyGone>>
    <3>1. ASSUME NEW i \in Ids, NEW op \in Ops, ClientCall(i, op) PROVE UNCHANGED <<number, phase, keyGone>>
      BY <3>1 DEF ClientCall
    <3>2. ASSUME NEW i \in Ids, ReadLoop(i) PROVE UNCHANGED <<number, phase, keyGone>>
      BY <3>2 DEF ReadLoop
    <3>3. ASSUME NEW i \in Ids, CallReturns(i) PROVE UNCHANGED <<number, phase, keyGone>>
      BY <3>3 DEF CallReturns
    <3>4. ASSUME NEW i \in Ids, CallTimesOut(i) \/ DeviceCloses(i) PROVE UNCHANGED <<number, phase, keyGone>>
      BY <3>4 DEF CallTimesOut, DeviceCloses
    <3>5. QED
      BY <1>1, <3>1, <3>2, <3>3, <3>4
  <2>2. QED
    BY <2>1
<1>2. CASE \E i \in Ids : ServeReads(i) \/ HandleChange(i) \/ HandleCreateTUN(i) \/ HandleFollow(i) \/ HandleForget(i)
  BY <1>2 DEF ServeReads, HandleChange, HandleCreateTUN, HandleFollow, HandleForget
<1>3. CASE \E i \in Ids : WriteAnswer(i) \/ WriteFails(i)
  BY <1>3 DEF WriteAnswer, WriteFails
<1>4. CASE \E i \in Ids : ForgetIdentity(i)
  <2>1. PICK i \in Ids : ForgetIdentity(i)
    BY <1>4
  <2>2. ask[i].at \in Working
    BY <2>1 DEF ForgetIdentity, Working
  <2>3. phase # "backoff"
    BY <2>2 DEF SepIInv, Cleaned
  <2>4. QED
    BY <2>1, <2>3 DEF ForgetIdentity
<1>5. CASE WorkerWedges \/ WorkerEnds \/ WorkerIsKilled \/ ServeReturns
  BY <1>5 DEF WorkerWedges, WorkerEnds, WorkerIsKilled, ServeReturns
<1>6. CASE CleanUp
  BY <1>6 DEF CleanUp
<1>7. CASE StartWorker
  BY <1>7 DEF StartWorker
<1>8. CASE StopService
  BY <1>8 DEF StopService
<1>9. CASE UNCHANGED sepVars
  BY <1>9 DEF sepVars
<1>10. QED
  BY <1>1, <1>2, <1>3, <1>4, <1>5, <1>6, <1>7, <1>8, <1>9 DEF SepNext

\* No worker is started once the key is deleted, however the deletion, the
\* end of the worker and other requests interleave (forget, runPrivileged).
THEOREM ForgottenIsFinal == SepSpec => ForgottenEndsService
<1>1. SepInit => NoBackoffWithoutKey
  BY DEF SepInit, NoBackoffWithoutKey
<1>2. SepIInv /\ [SepNext]_sepVars => SepIInv'
  BY SepKept
<1>3. SepIInv /\ NoBackoffWithoutKey /\ [SepNext]_sepVars => NoBackoffWithoutKey' /\ [keyGone => number' = number]_sepVars
  BY ForgottenStep
<1>4. QED
  BY <1>1, <1>2, <1>3, SepStarts, PTL DEF SepSpec, ForgottenEndsService

-----------------------------------------------------------------------------
(***************************************************************************)
(* NetWatch.  Until the watcher looks again, a change it has not seen is   *)
(* announced by a message or by the token; a look that failed breaks that. *)
(***************************************************************************)
ChangeIsAnnounced ==
    /\ watcher = "wait" => token \/ message \/ seen = real
    /\ watcher = "compare" => token \/ message \/ cur = real

WatchIInv ==
    /\ WatchTypeOK /\ moves \in Nat /\ unread \in Nat
    /\ unread = 0 => ChangeIsAnnounced

LEMMA WatchInitial ==
  ASSUME WatchInit
  PROVE  WatchIInv
BY DEF WatchInit, WatchIInv, WatchTypeOK, ChangeIsAnnounced

LEMMA WatchKept ==
  ASSUME WatchIInv, [WatchNext]_watchVars
  PROVE  WatchIInv'
<1> USE DEF WatchIInv, WatchTypeOK, ChangeIsAnnounced
<1>1. CASE Move
  BY <1>1 DEF Move
<1>2. CASE OwnRoute
  BY <1>2 DEF OwnRoute
<1>3. CASE Notify
  BY <1>3 DEF Notify
<1>4. CASE FirstLook
  BY <1>4 DEF FirstLook, Snapshot
<1>5. CASE TakeEvent
  BY <1>5 DEF TakeEvent
<1>6. CASE Drain
  BY <1>6 DEF Drain
<1>7. CASE Look
  BY <1>7 DEF Look, Snapshot
<1>8. CASE Compare
  BY <1>8 DEF Compare
<1>9. CASE LookFails
  BY <1>9 DEF LookFails
<1>10. CASE UNCHANGED watchVars
  BY <1>10 DEF watchVars
<1>11. QED
  BY <1>1, <1>2, <1>3, <1>4, <1>5, <1>6, <1>7, <1>8, <1>9, <1>10 DEF WatchNext, WatchStep

LEMMA WatchImplies ==
  ASSUME WatchIInv
  PROVE  WatchInv
BY DEF WatchIInv, WatchInv, WatchTypeOK, ChangeIsAnnounced, RestIsCurrent

\* Watcher and reader lose no change of the default routes between them:
\* when both are at rest and every look succeeded, what was last reported is
\* what the machine has (watchDefaults, watch_linux.go).
THEOREM WatchSound == WatchSpec => []WatchInv
<1>1. WatchInit => WatchIInv
  BY WatchInitial
<1>2. WatchIInv /\ [WatchNext]_watchVars => WatchIInv'
  BY WatchKept
<1>3. WatchIInv => WatchInv
  BY WatchImplies
<1>4. QED
  BY <1>1, <1>2, <1>3, PTL DEF WatchSpec

-----------------------------------------------------------------------------
(***************************************************************************)
(* EmbeddedTun.  Only an open device has a descriptor behind it, and a     *)
(* read that began in the present generation is a read of that descriptor: *)
(* a read that fails has either lost its device or its generation.         *)
(***************************************************************************)
TunTypes ==
    /\ TunTypeOK
    /\ tun \in [no : 0 .. MaxTuns, state : {"none", "open", "closed", "released"}]
    /\ behind \in 0 .. MaxFd /\ gen \in Nat
    /\ reader \in [at : {"idle", "reading", "closed", "error"}, dev : 0 .. MaxFd, gen : Nat]

BehindIsOpen == behind # 0 => Opened
ReadsTheCurrent ==
    reader.at = "reading" /\ Opened =>
      reader.gen <= gen /\ (reader.gen = gen => behind # 0 /\ reader.dev = behind)

TunIInv ==
    /\ TunTypes /\ BehindIsOpen /\ ReadsTheCurrent
    /\ ReaderSurvivesSwap /\ DescriptorIsOwned /\ ReleaseIsLast

LEMMA TunInitial ==
  ASSUME TunInit
  PROVE  TunIInv
BY TunAssumption DEF TunInit, TunIInv, TunTypes, TunTypeOK, BehindIsOpen, ReadsTheCurrent,
   ReaderSurvivesSwap, DescriptorIsOwned, ReleaseIsLast, IdleReader, Opened

LEMMA TunKept ==
  ASSUME TunIInv, [TunNext]_tunVars
  PROVE  TunIInv'
<1> USE TunAssumption DEF TunIInv, TunTypes, TunTypeOK, BehindIsOpen, ReadsTheCurrent,
      ReaderSurvivesSwap, DescriptorIsOwned, ReleaseIsLast, Opened
<1>1. CASE CreateTun
  BY <1>1 DEF CreateTun, IdleReader
<1>2. CASE Want
  BY <1>2 DEF Want
<1>3. CASE Refresh
  BY <1>3 DEF Refresh
<1>4. CASE Apply
  BY <1>4 DEF Apply
<1>5. CASE Refused
  BY <1>5 DEF Refused
<1>6. CASE AppliedKept
  BY <1>6 DEF AppliedKept
<1>7. CASE AppliedNew
  <2>1. PICK f \in (1 .. MaxFd) \ openFds : openFds' = openFds \cup {f} /\ fd' = f /\ Swap(f)
    BY <1>7 DEF AppliedNew
  <2>2. f # 0 /\ f \notin closing /\ tun.state # "released"
    BY <1>7 DEF AppliedNew
  <2>3. CASE tun.state = "open"
    <3>1. behind' = f /\ gen' = gen + 1 /\ closing' = closing \cup ({behind} \ {0})
      BY <2>1, <2>3 DEF Swap
    <3>2. QED
      BY <1>7, <2>1, <2>2, <2>3, <3>1 DEF AppliedNew
  <2>4. CASE tun.state # "open"
    <3>1. closing' = closing \cup {f} /\ UNCHANGED <<behind, gen>>
      BY <2>1, <2>4 DEF Swap
    <3>2. QED
      BY <1>7, <2>1, <2>2, <2>4, <3>1 DEF AppliedNew
  <2>5. QED
    BY <2>3, <2>4
<1>8. CASE NoDevice
  BY <1>8 DEF NoDevice
<1>9. CASE CloseFd
  BY <1>9 DEF CloseFd
<1>10. CASE CloseTun
  BY <1>10 DEF CloseTun
<1>11. CASE Release
  BY <1>11 DEF Release
<1>12. CASE ReadCurrent
  BY <1>12 DEF ReadCurrent
<1>13. CASE ReadDone
  BY <1>13 DEF ReadDone, IdleReader
<1>14. CASE UNCHANGED tunVars
  BY <1>14 DEF tunVars
<1>15. QED
  BY <1>1, <1>2, <1>3, <1>4, <1>5, <1>6, <1>7, <1>8, <1>9, <1>10, <1>11, <1>12, <1>13, <1>14 DEF TunNext

\* The device of an app is never lost while the platform replaces it: no
\* read fails for it, every descriptor is read or being closed, and after
\* Release nothing of the device is left (swapTUN, Declarative).
THEOREM TunSound == TunSpec => []TunInv
<1>1. TunInit => TunIInv
  BY TunInitial
<1>2. TunIInv /\ [TunNext]_tunVars => TunIInv'
  BY TunKept
<1>3. TunIInv => TunInv
  BY DEF TunIInv, TunInv, TunTypes
<1>4. QED
  BY <1>1, <1>2, <1>3, PTL DEF TunSpec

-----------------------------------------------------------------------------
(***************************************************************************)
(* Updates.  A daemon that runs has its app in its place except between    *)
(* the two renames; one that does not run is in no check and offers        *)
(* nothing; and a fresh record lies only while no daemon runs.             *)
(***************************************************************************)
AppInPlace ==
    /\ current # None /\ install # "swap" => bundle # None
    /\ install = "swap" => aside # None
    /\ install \in {"stage", "swap"} => staged # None
NotRunning ==
    current = None =>
      /\ install = "idle" /\ ~restarting /\ ~status.available
      /\ \A c \in Checkers : look[c].stage = "idle"
FreshIsForUpdate == record = "fresh" => current = None /\ forUpdate

UpdateIInv ==
    /\ UpdateTypeOK /\ AppIsKept /\ OfferIsNew
    /\ AppInPlace /\ NotRunning /\ FreshIsForUpdate

LEMMA UpdateInitial ==
  ASSUME UpdateInit
  PROVE  UpdateIInv
<1> USE UpdateBounds DEF UpdateInit, NoStatus, NoLook, Versions, None
<1>1. status \in [error : BOOLEAN, available : BOOLEAN, latest : Versions \cup {None}, installed : Versions \cup {None}]
      /\ ~status.available
  OBVIOUS
<1>2. look \in [Checkers -> [stage : {"idle", "asks", "heard", "marked"}, release : Versions \cup {None}]]
      /\ \A c \in Checkers : look[c].stage = "idle"
  OBVIOUS
<1>3. UpdateTypeOK
  <2>1. {current, bundle, aside, staged} \subseteq Versions \cup {None}
    OBVIOUS
  <2>2. {restarting, up, forUpdate} \subseteq BOOLEAN
    OBVIOUS
  <2>3. checks \in 0 .. MaxChecks /\ ends \in 0 .. MaxEnds
    OBVIOUS
  <2>4. install = "idle" /\ record = "none"
    OBVIOUS
  <2>5. QED
    BY <1>1, <1>2, <2>1, <2>2, <2>3, <2>4 DEF UpdateTypeOK
<1>4. QED
  BY <1>1, <1>2, <1>3 DEF UpdateIInv, AppIsKept, OfferIsNew, AppInPlace, NotRunning, FreshIsForUpdate

\* A check of a release, in the background or for an installation.
LEMMA CheckKeeps ==
  ASSUME UpdateIInv, NEW c \in Checkers,
         CheckBegins(c) \/ CheckHears(c) \/ CheckMarks(c) \/ CheckReturns
  PROVE  UpdateIInv'
<1> USE UpdateBounds DEF UpdateIInv, UpdateTypeOK, AppIsKept, OfferIsNew, AppInPlace, NotRunning,
      FreshIsForUpdate, Versions, None
<1>1. CASE CheckBegins(c)
  BY <1>1 DEF CheckBegins
<1>2. CASE CheckHears(c)
  <2>1. PICK o \in Offers : look' = [look EXCEPT ![c] = [stage |-> "heard", release |-> Latest(o)]]
    BY <1>2 DEF CheckHears
  <2>2. Latest(o) \in Versions \cup {None}
    BY <2>1 DEF Latest, Offers
  <2>3. QED
    BY <1>2, <2>1, <2>2 DEF CheckHears
<1>3. CASE CheckMarks(c)
  <2> DEFINE r == look[c].release
  <2>1. current # None /\ r \in Versions \cup {None}
    BY <1>3 DEF CheckMarks
  <2>2. status' \in [error : BOOLEAN, available : BOOLEAN, latest : Versions \cup {None}, installed : Versions \cup {None}]
    BY <1>3, <2>1 DEF CheckMarks, Marked, Newer
  <2>3. OfferIsNew'
    <3>1. CASE r = None
      BY <1>3, <3>1 DEF CheckMarks, Marked
    <3>2. CASE r # None
      <4>1. status'.latest = r /\ status'.installed = status.installed
            /\ (status'.available => Newer(current, r) /\ status.installed # r)
        BY <1>3, <3>2 DEF CheckMarks, Marked
      <4>2. current' = current
        BY <1>3 DEF CheckMarks
      <4>3. QED
        BY <4>1, <4>2 DEF Newer
    <3>3. QED
      BY <3>1, <3>2
  <2>4. look' \in [Checkers -> [stage : {"idle", "asks", "heard", "marked"}, release : Versions \cup {None}]]
    BY <1>3 DEF CheckMarks
  <2>5. QED
    BY <1>3, <2>1, <2>2, <2>3, <2>4 DEF CheckMarks
<1>4. CASE CheckReturns
  BY <1>4 DEF CheckReturns, NoLook, Checkers
<1>5. QED
  BY <1>1, <1>2, <1>3, <1>4

\* An installation.
LEMMA ApplyKeeps ==
  ASSUME UpdateIInv,
         \/ ApplyBegins \/ ApplyRefuses \/ ApplyPanics \/ ApplyDownloads \/ ApplyFails
         \/ MoveAside \/ MoveIn \/ MoveBack \/ Installed
  PROVE  UpdateIInv'
<1> USE UpdateBounds DEF UpdateIInv, UpdateTypeOK, AppIsKept, OfferIsNew, AppInPlace, NotRunning,
      FreshIsForUpdate, Versions, None
<1>1. CASE ApplyBegins
  BY <1>1 DEF ApplyBegins
<1>2. ASSUME ApplyEnds, install # "swap"
      PROVE  UpdateIInv'
  BY <1>2 DEF ApplyEnds, NoLook, Checkers
<1>3. CASE ApplyRefuses \/ ApplyPanics \/ ApplyFails
  BY <1>2, <1>3 DEF ApplyRefuses, ApplyPanics, ApplyFails
<1>4. CASE ApplyDownloads
  BY <1>4 DEF ApplyDownloads, Verified, Served
<1>5. CASE MoveAside
  BY <1>5 DEF MoveAside
<1>6. CASE MoveIn
  BY <1>6 DEF MoveIn
<1>7. CASE MoveBack
  BY <1>7 DEF MoveBack, NoLook, Checkers
<1>8. CASE Installed
  <2>1. look["apply"].release \in Versions \cup {None}
    BY DEF Checkers
  <2>2. status' \in [error : BOOLEAN, available : BOOLEAN, latest : Versions \cup {None}, installed : Versions \cup {None}]
        /\ ~status'.available
    BY <1>8, <2>1 DEF Installed
  <2>3. QED
    BY <1>8, <2>2 DEF Installed, NoLook, Checkers
<1>9. QED
  BY <1>1, <1>3, <1>4, <1>5, <1>6, <1>7, <1>8

\* The daemon ends and starts, and its user acts.
LEMMA DaemonKeeps ==
  ASSUME UpdateIInv,
         \/ RestartSoon \/ RestartWhenReplaced \/ Crashes \/ DaemonStarts \/ RecordAges
         \/ UserConnects \/ UserRestores
  PROVE  UpdateIInv'
<1> USE UpdateBounds DEF UpdateIInv, UpdateTypeOK, AppIsKept, OfferIsNew, AppInPlace, NotRunning,
      FreshIsForUpdate, Versions, None
<1>1. ASSUME NEW rec \in {"none", "fresh", "old"}, Ended(rec), rec = "fresh" => restarting /\ up, ends' \in 0 .. MaxEnds
      PROVE  UpdateIInv'
  BY <1>1 DEF Ended, NoStatus, NoLook
<1>2. CASE RestartSoon
  BY <1>1, <1>2 DEF RestartSoon
<1>3. CASE RestartWhenReplaced
  BY <1>1, <1>3 DEF RestartWhenReplaced
<1>4. CASE Crashes
  BY <1>1, <1>4 DEF Crashes
<1>5. CASE DaemonStarts
  BY <1>5 DEF DaemonStarts
<1>6. CASE RecordAges
  BY <1>6 DEF RecordAges
<1>7. CASE UserConnects
  BY <1>7 DEF UserConnects
<1>8. CASE UserRestores
  BY <1>8 DEF UserRestores
<1>9. QED
  BY <1>2, <1>3, <1>4, <1>5, <1>6, <1>7, <1>8

LEMMA UpdateKept ==
  ASSUME UpdateIInv, [UpdateNext]_updateVars
  PROVE  UpdateIInv'
<1>1. CASE UpdateNext
  <2>1. "apply" \in Checkers
    BY DEF Checkers
  <2>2. QED
    BY <1>1, <2>1, CheckKeeps, ApplyKeeps, DaemonKeeps DEF UpdateNext
<1>2. CASE UNCHANGED updateVars
  BY <1>2 DEF updateVars, UpdateIInv, UpdateTypeOK, AppIsKept, OfferIsNew, AppInPlace, NotRunning, FreshIsForUpdate
<1>3. QED
  BY <1>1, <1>2

\* An installation never leaves the machine without an app, wherever it is
\* cut off, and nothing is offered that runs already or was just installed
\* (Install, check).
THEOREM UpdateSound == UpdateSpec => []UpdateInv
<1>1. UpdateInit => UpdateIInv
  BY UpdateInitial
<1>2. UpdateIInv /\ [UpdateNext]_updateVars => UpdateIInv'
  BY UpdateKept
<1>3. UpdateIInv => UpdateInv
  BY DEF UpdateIInv, UpdateInv
<1>4. QED
  BY <1>1, <1>2, <1>3, PTL DEF UpdateSpec

LEMMA ConnectingStep ==
  ASSUME UpdateIInv, [UpdateNext]_updateVars
  PROVE  [current = None /\ current' # None /\ up' => forUpdate]_updateVars
<1> SUFFICES ASSUME UpdateNext, current = None, current' # None, up'
             PROVE  forUpdate
  OBVIOUS
<1>1. DaemonStarts
  BY DEF UpdateNext, CheckBegins, CheckHears, CheckMarks, CheckReturns, ApplyBegins, ApplyRefuses, ApplyPanics,
     ApplyEnds, ApplyDownloads, ApplyFails, MoveAside, MoveIn, MoveBack, Installed, RestartSoon,
     RestartWhenReplaced, Crashes, Ended, RecordAges, UserConnects, UserRestores
<1>2. QED
  BY <1>1 DEF DaemonStarts, UpdateIInv, FreshIsForUpdate

\* A daemon connects by itself only when the one before it ended connected,
\* for an update: the record it finds was written for it (Restart,
\* takeResume).
THEOREM ConnectingFollowsUpdate == UpdateSpec => ConnectsOnlyAfterUpdate
<1>1. UpdateInit => UpdateIInv
  BY UpdateInitial
<1>2. UpdateIInv /\ [UpdateNext]_updateVars => UpdateIInv'
  BY UpdateKept
<1>3. UpdateIInv /\ [UpdateNext]_updateVars => [current = None /\ current' # None /\ up' => forUpdate]_updateVars
  BY ConnectingStep
<1>4. QED
  BY <1>1, <1>2, <1>3, PTL DEF UpdateSpec, ConnectsOnlyAfterUpdate

-----------------------------------------------------------------------------
(***************************************************************************)
(* EmbedEngine, with one configure request of an engine at a time: the     *)
(* code lets two through, and then the first one's node is lost.  A slot   *)
(* that names a node belongs to the engine that made it, and while a       *)
(* configure or a reset is under way there is no node in its way.          *)
(***************************************************************************)
OneCaller == \A s, t \in Callers : s = t

CallRecord(stages) == [at : stages, node : NodeSeq \cup {NoOne}]

EngineTypes ==
    /\ EngineTypeOK
    /\ owner \in [NodeSeq -> Engines \cup {NoOne}]
    /\ halt \in [Engines -> NodeSeq \cup {NoOne}]
    /\ reset \in [Engines -> CallRecord({"idle", "wait", "stop", "setup"})]
    /\ calls \in [Engines -> [Callers -> CallRecord({"idle", "saved", "made", "undo"})]]

EmptySlots(e) ==
    /\ reset[e].at # "stop" => reset[e].node = NoOne
    /\ engine[e] # "stopping" => halt[e] = NoOne
    /\ \A t \in Callers : calls[e][t].at \in {"idle", "saved"} => calls[e][t].node = NoOne
OwnNodes(e) ==
    /\ run[e] # NoOne => owner[run[e]] = e
    /\ halt[e] # NoOne => owner[halt[e]] = e
    /\ reset[e].node # NoOne => owner[reset[e].node] = e
    /\ \A t \in Callers : calls[e][t].node # NoOne => owner[calls[e][t].node] = e
OneAtATime(e) ==
    /\ Stopped(e) => run[e] = NoOne
    /\ engine[e] = "off" =>
         handler[e] = "none" /\ run[e] = NoOne /\ reset[e].at = "idle" /\ \A t \in Callers : calls[e][t].at = "idle"
    /\ reset[e].at \in {"stop", "setup"} => run[e] = NoOne
    /\ ~Stopped(e) => /\ handler[e] = "setup" => run[e] = NoOne /\ reset[e].at = "idle"
                      /\ \A t \in Callers : calls[e][t].at # "idle" => handler[e] = "setup"

EngineIInv ==
    /\ EngineTypes /\ NodeIsHeld
    /\ \A e \in Engines : EmptySlots(e) /\ OwnNodes(e) /\ OneAtATime(e)

LEMMA EngineInitial ==
  ASSUME EngineInit
  PROVE  EngineIInv
<1> USE EngineConstants DEF EngineInit
<1>1. EngineTypes
  BY DEF EngineTypes, EngineTypeOK, Unmade, CallRecord, IdleCall
<1>2. NodeIsHeld
  BY DEF NodeIsHeld
<1>3. ASSUME NEW e \in Engines
      PROVE  EmptySlots(e) /\ OwnNodes(e) /\ OneAtATime(e)
  BY DEF EmptySlots, OwnNodes, OneAtATime, Stopped, IdleCall
<1>4. QED
  BY <1>1, <1>2, <1>3 DEF EngineIInv

LEMMA StartSetupKeeps ==
  ASSUME EngineIInv, NEW e \in Engines, StartSetup(e)
  PROVE  EngineIInv'
<1> USE EngineConstants DEF EngineIInv
<1>1. EngineTypes'
  BY DEF StartSetup, LockDir, EngineTypes, EngineTypeOK, Unmade, CallRecord, OneAtATime, Stopped
<1>2. NodeIsHeld'
  <2> SUFFICES ASSUME NEW m \in alive'
               PROVE  (\E d \in Engines : \/ run[d] = m \/ halt[d] = m \/ reset[d].node = m
                                         \/ \E s \in Callers : calls[d][s].node = m)'
    BY DEF NodeIsHeld
  <2>1. QED
    BY DEF StartSetup, LockDir, NodeIsHeld, EngineTypes, EngineTypeOK, CallRecord, EmptySlots, OwnNodes, OneAtATime,
       Stopped
<1>3. ASSUME NEW d \in Engines
      PROVE  (EmptySlots(d) /\ OwnNodes(d) /\ OneAtATime(d))'
  BY DEF StartSetup, LockDir, EngineTypes, EngineTypeOK, CallRecord, EmptySlots, OwnNodes, OneAtATime, Stopped
<1>4. QED
  BY <1>1, <1>2, <1>3

LEMMA StartWithNodeKeeps ==
  ASSUME EngineIInv, NEW e \in Engines, NEW n \in NodeSeq, StartWithNode(e, n)
  PROVE  EngineIInv'
<1> USE EngineConstants DEF EngineIInv
<1>1. EngineTypes'
  BY DEF StartWithNode, LockDir, NewNode, EngineTypes, EngineTypeOK, Unmade, CallRecord, OneAtATime, Stopped
<1>2. NodeIsHeld'
  <2> SUFFICES ASSUME NEW m \in alive'
               PROVE  (\E d \in Engines : \/ run[d] = m \/ halt[d] = m \/ reset[d].node = m
                                         \/ \E s \in Callers : calls[d][s].node = m)'
    BY DEF NodeIsHeld
  <2>1. QED
    BY DEF StartWithNode, LockDir, NewNode, NodeIsHeld, EngineTypes, EngineTypeOK, CallRecord, EmptySlots, OwnNodes,
       OneAtATime, Stopped
<1>3. ASSUME NEW d \in Engines
      PROVE  (EmptySlots(d) /\ OwnNodes(d) /\ OneAtATime(d))'
  BY DEF StartWithNode, LockDir, NewNode, Unmade, EngineTypes, EngineTypeOK, CallRecord, EmptySlots, OwnNodes,
     OneAtATime, Stopped
<1>4. QED
  BY <1>1, <1>2, <1>3

LEMMA StartFailsKeeps ==
  ASSUME EngineIInv, NEW e \in Engines, StartFails(e)
  PROVE  EngineIInv'
<1> USE EngineConstants DEF EngineIInv
<1>1. EngineTypes'
  BY DEF StartFails, EngineTypes, EngineTypeOK, Unmade, CallRecord, OneAtATime, Stopped
<1>2. NodeIsHeld'
  <2> SUFFICES ASSUME NEW m \in alive'
               PROVE  (\E d \in Engines : \/ run[d] = m \/ halt[d] = m \/ reset[d].node = m
                                         \/ \E s \in Callers : calls[d][s].node = m)'
    BY DEF NodeIsHeld
  <2>1. QED
    BY DEF StartFails, NodeIsHeld, EngineTypes, EngineTypeOK, CallRecord, EmptySlots, OwnNodes, OneAtATime, Stopped
<1>3. ASSUME NEW d \in Engines
      PROVE  (EmptySlots(d) /\ OwnNodes(d) /\ OneAtATime(d))'
  BY DEF StartFails, EngineTypes, EngineTypeOK, CallRecord, EmptySlots, OwnNodes, OneAtATime, Stopped
<1>4. QED
  BY <1>1, <1>2, <1>3

LEMMA ConfigureSavesKeeps ==
  ASSUME EngineIInv, NEW e \in Engines, NEW t \in Callers, NEW c \in Planes, ConfigureSaves(e, t, c)
  PROVE  EngineIInv'
<1> USE EngineConstants DEF EngineIInv
<1>1. EngineTypes'
  BY DEF ConfigureSaves, IdleCall, EngineTypes, EngineTypeOK, Unmade, CallRecord, OneAtATime, Stopped
<1>2. NodeIsHeld'
  <2> SUFFICES ASSUME NEW m \in alive'
               PROVE  (\E d \in Engines : \/ run[d] = m \/ halt[d] = m \/ reset[d].node = m
                                         \/ \E s \in Callers : calls[d][s].node = m)'
    BY DEF NodeIsHeld
  <2>1. QED
    BY DEF ConfigureSaves, IdleCall, NodeIsHeld, EngineTypes, EngineTypeOK, CallRecord, EmptySlots, OwnNodes,
       OneAtATime, Stopped
<1>3. ASSUME NEW d \in Engines
      PROVE  (EmptySlots(d) /\ OwnNodes(d) /\ OneAtATime(d))'
  BY DEF ConfigureSaves, IdleCall, EngineTypes, EngineTypeOK, CallRecord, EmptySlots, OwnNodes, OneAtATime, Stopped
<1>4. QED
  BY <1>1, <1>2, <1>3

LEMMA ConfigureStartsKeeps ==
  ASSUME EngineIInv, NEW e \in Engines, NEW t \in Callers, ConfigureStarts(e, t)
  PROVE  EngineIInv'
<1> USE EngineConstants DEF EngineIInv
<1>1. calls[e][t].at = "saved" /\ calls[e][t].node = NoOne
      /\ UNCHANGED <<engine, handler, run, holder, reset, halt>>
  BY DEF ConfigureStarts, EmptySlots
<1>2. CASE \E n \in Unmade : NewNode(e, n) /\ calls' = [calls EXCEPT ![e][t] = [at |-> "made", node |-> n]]
  <2>1. PICK n \in Unmade : owner' = [owner EXCEPT ![n] = e] /\ alive' = alive \cup {n}
                           /\ calls' = [calls EXCEPT ![e][t] = [at |-> "made", node |-> n]]
    BY <1>2 DEF NewNode
  <2>2. n \in NodeSeq /\ owner[n] = NoOne
    BY DEF Unmade
  <2>3. EngineTypes'
    BY <1>1, <2>1, <2>2 DEF EngineTypes, EngineTypeOK, Unmade, CallRecord, OneAtATime, Stopped
  <2>4. NodeIsHeld'
    <3> SUFFICES ASSUME NEW m \in alive'
                 PROVE  (\E d \in Engines : \/ run[d] = m \/ halt[d] = m \/ reset[d].node = m
                                           \/ \E s \in Callers : calls[d][s].node = m)'
      BY DEF NodeIsHeld
    <3>1. QED
      BY <1>1, <2>1, <2>2 DEF NodeIsHeld, EngineTypes, EngineTypeOK, CallRecord, EmptySlots, OwnNodes, OneAtATime,
         Stopped
  <2>5. ASSUME NEW d \in Engines
        PROVE  (EmptySlots(d) /\ OwnNodes(d) /\ OneAtATime(d))'
    BY <1>1, <2>1, <2>2 DEF EngineTypes, EngineTypeOK, CallRecord, EmptySlots, OwnNodes, OneAtATime, Stopped
  <2>6. QED
    BY <2>3, <2>4, <2>5
<1>3. CASE config' = NoOne /\ calls' = [calls EXCEPT ![e][t] = IdleCall] /\ UNCHANGED <<owner, alive>>
  <2>1. EngineTypes'
    BY <1>1, <1>3 DEF IdleCall, EngineTypes, EngineTypeOK, Unmade, CallRecord, OneAtATime, Stopped
  <2>2. NodeIsHeld'
    <3> SUFFICES ASSUME NEW m \in alive'
                 PROVE  (\E d \in Engines : \/ run[d] = m \/ halt[d] = m \/ reset[d].node = m
                                           \/ \E s \in Callers : calls[d][s].node = m)'
      BY DEF NodeIsHeld
    <3>1. QED
      BY <1>1, <1>3 DEF IdleCall, NodeIsHeld, EngineTypes, EngineTypeOK, CallRecord, EmptySlots, OwnNodes, OneAtATime,
         Stopped
  <2>3. ASSUME NEW d \in Engines
        PROVE  (EmptySlots(d) /\ OwnNodes(d) /\ OneAtATime(d))'
    BY <1>1, <1>3 DEF IdleCall, EngineTypes, EngineTypeOK, CallRecord, EmptySlots, OwnNodes, OneAtATime, Stopped
  <2>4. QED
    BY <2>1, <2>2, <2>3
<1>4. QED
  BY <1>2, <1>3 DEF ConfigureStarts

LEMMA ConfigureInstallsKeeps ==
  ASSUME EngineIInv, NEW e \in Engines, NEW t \in Callers, ConfigureInstalls(e, t), OneCaller
  PROVE  EngineIInv'
<1> USE EngineConstants DEF EngineIInv
<1>1. calls[e][t].at = "made" /\ UNCHANGED <<engine, holder, config, owner, alive, reset, halt>>
  BY DEF ConfigureInstalls
<1>2. CASE Stopped(e)
  <2>1. calls' = [calls EXCEPT ![e][t].at = "undo"] /\ UNCHANGED <<run, handler>>
    BY <1>2 DEF ConfigureInstalls
  <2>2. EngineTypes'
    <3>1. calls[e][t] \in CallRecord({"idle", "saved", "made", "undo"})
      BY DEF EngineTypes
    <3>2. [calls[e][t] EXCEPT !.at = "undo"] \in CallRecord({"idle", "saved", "made", "undo"})
      BY <3>1 DEF CallRecord
    <3>3. calls' \in [Engines -> [Callers -> CallRecord({"idle", "saved", "made", "undo"})]]
      BY <2>1, <3>2 DEF EngineTypes
    <3>4. QED
      BY <1>1, <2>1, <3>3 DEF EngineTypes, EngineTypeOK, Unmade
  <2>3. NodeIsHeld'
    <3> SUFFICES ASSUME NEW m \in alive'
                 PROVE  (\E d \in Engines : \/ run[d] = m \/ halt[d] = m \/ reset[d].node = m
                                           \/ \E s \in Callers : calls[d][s].node = m)'
      BY DEF NodeIsHeld
    <3>1. QED
      BY <1>1, <1>2, <2>1 DEF NodeIsHeld, EngineTypes, EngineTypeOK, CallRecord, EmptySlots, OwnNodes, OneAtATime,
         Stopped
  <2>4. ASSUME NEW d \in Engines
        PROVE  (EmptySlots(d) /\ OwnNodes(d) /\ OneAtATime(d))'
    BY <1>1, <1>2, <2>1 DEF EngineTypes, EngineTypeOK, CallRecord, EmptySlots, OwnNodes, OneAtATime, Stopped
  <2>5. QED
    BY <2>2, <2>3, <2>4
<1>3. CASE ~Stopped(e)
  <2>1. run' = [run EXCEPT ![e] = calls[e][t].node] /\ handler' = [handler EXCEPT ![e] = "node"]
        /\ calls' = [calls EXCEPT ![e][t] = [at |-> "idle", node |-> NoOne]]
    BY <1>3 DEF ConfigureInstalls, IdleCall
  <2>2. run[e] = NoOne /\ reset[e].at = "idle" /\ \A s \in Callers : s = t
    BY <1>1, <1>3 DEF OneCaller, OneAtATime
  <2>3. EngineTypes'
    BY <1>1, <1>3, <2>1, <2>2 DEF EngineTypes, EngineTypeOK, Unmade, CallRecord, OneAtATime, Stopped
  <2>4. NodeIsHeld'
    <3> SUFFICES ASSUME NEW m \in alive'
                 PROVE  (\E d \in Engines : \/ run[d] = m \/ halt[d] = m \/ reset[d].node = m
                                           \/ \E s \in Callers : calls[d][s].node = m)'
      BY DEF NodeIsHeld
    <3>1. QED
      BY <1>1, <1>3, <2>1, <2>2 DEF NodeIsHeld, EngineTypes, EngineTypeOK, CallRecord, EmptySlots, OwnNodes,
         OneAtATime, Stopped
  <2>5. ASSUME NEW d \in Engines
        PROVE  (EmptySlots(d) /\ OwnNodes(d) /\ OneAtATime(d))'
    BY <1>1, <1>3, <2>1, <2>2 DEF EngineTypes, EngineTypeOK, CallRecord, EmptySlots, OwnNodes, OneAtATime, Stopped
  <2>6. QED
    BY <2>3, <2>4, <2>5
<1>4. QED
  BY <1>2, <1>3

LEMMA ConfigureUndoesKeeps ==
  ASSUME EngineIInv, NEW e \in Engines, NEW t \in Callers, ConfigureUndoes(e, t)
  PROVE  EngineIInv'
<1> USE EngineConstants DEF EngineIInv
<1>1. EngineTypes'
  BY DEF ConfigureUndoes, IdleCall, EngineTypes, EngineTypeOK, Unmade, CallRecord, OneAtATime, Stopped
<1>2. NodeIsHeld'
  <2> SUFFICES ASSUME NEW m \in alive'
               PROVE  (\E d \in Engines : \/ run[d] = m \/ halt[d] = m \/ reset[d].node = m
                                         \/ \E s \in Callers : calls[d][s].node = m)'
    BY DEF NodeIsHeld
  <2>1. QED
    BY DEF ConfigureUndoes, IdleCall, NodeIsHeld, EngineTypes, EngineTypeOK, CallRecord, EmptySlots, OwnNodes,
       OneAtATime, Stopped
<1>3. ASSUME NEW d \in Engines
      PROVE  (EmptySlots(d) /\ OwnNodes(d) /\ OneAtATime(d))'
  BY DEF ConfigureUndoes, IdleCall, EngineTypes, EngineTypeOK, CallRecord, EmptySlots, OwnNodes, OneAtATime, Stopped
<1>4. QED
  BY <1>1, <1>2, <1>3

LEMMA ResetForgetsKeeps ==
  ASSUME EngineIInv, NEW e \in Engines, ResetForgets(e)
  PROVE  EngineIInv'
<1> USE EngineConstants DEF EngineIInv
<1>1. EngineTypes'
  BY DEF ResetForgets, IdleCall, EngineTypes, EngineTypeOK, Unmade, CallRecord, OneAtATime, Stopped
<1>2. NodeIsHeld'
  <2> SUFFICES ASSUME NEW m \in alive'
               PROVE  (\E d \in Engines : \/ run[d] = m \/ halt[d] = m \/ reset[d].node = m
                                         \/ \E s \in Callers : calls[d][s].node = m)'
    BY DEF NodeIsHeld
  <2>1. QED
    BY DEF ResetForgets, IdleCall, NodeIsHeld, EngineTypes, EngineTypeOK, CallRecord, EmptySlots, OwnNodes,
       OneAtATime, Stopped
<1>3. ASSUME NEW d \in Engines
      PROVE  (EmptySlots(d) /\ OwnNodes(d) /\ OneAtATime(d))'
  BY DEF ResetForgets, IdleCall, EngineTypes, EngineTypeOK, CallRecord, EmptySlots, OwnNodes, OneAtATime, Stopped
<1>4. QED
  BY <1>1, <1>2, <1>3

LEMMA ResetTakesKeeps ==
  ASSUME EngineIInv, NEW e \in Engines, ResetTakes(e)
  PROVE  EngineIInv'
<1> USE EngineConstants DEF EngineIInv
<1>1. EngineTypes'
  BY DEF ResetTakes, EngineTypes, EngineTypeOK, Unmade, CallRecord, OneAtATime, Stopped
<1>2. NodeIsHeld'
  <2> SUFFICES ASSUME NEW m \in alive'
               PROVE  (\E d \in Engines : \/ run[d] = m \/ halt[d] = m \/ reset[d].node = m
                                         \/ \E s \in Callers : calls[d][s].node = m)'
    BY DEF NodeIsHeld
  <2>1. QED
    BY DEF ResetTakes, NodeIsHeld, EngineTypes, EngineTypeOK, CallRecord, EmptySlots, OwnNodes, OneAtATime, Stopped
<1>3. ASSUME NEW d \in Engines
      PROVE  (EmptySlots(d) /\ OwnNodes(d) /\ OneAtATime(d))'
  BY DEF ResetTakes, EngineTypes, EngineTypeOK, CallRecord, EmptySlots, OwnNodes, OneAtATime, Stopped
<1>4. QED
  BY <1>1, <1>2, <1>3

LEMMA ResetStopsKeeps ==
  ASSUME EngineIInv, NEW e \in Engines, ResetStops(e)
  PROVE  EngineIInv'
<1> USE EngineConstants DEF EngineIInv
<1>1. EngineTypes'
  BY DEF ResetStops, EngineTypes, EngineTypeOK, Unmade, CallRecord, OneAtATime, Stopped
<1>2. NodeIsHeld'
  <2> SUFFICES ASSUME NEW m \in alive'
               PROVE  (\E d \in Engines : \/ run[d] = m \/ halt[d] = m \/ reset[d].node = m
                                         \/ \E s \in Callers : calls[d][s].node = m)'
    BY DEF NodeIsHeld
  <2>1. PICK d \in Engines : \/ run[d] = m \/ halt[d] = m \/ reset[d].node = m
                            \/ \E s \in Callers : calls[d][s].node = m
    BY DEF ResetStops, NodeIsHeld
  <2>2. m # reset[e].node /\ UNCHANGED <<run, halt, calls>>
        /\ reset' = [reset EXCEPT ![e] = [at |-> "setup", node |-> NoOne]]
    BY DEF ResetStops
  <2>3. reset[d].node = m => reset'[d].node = m
    BY <2>2 DEF EngineTypes
  <2>4. QED
    BY <2>1, <2>2, <2>3
<1>3. ASSUME NEW d \in Engines
      PROVE  (EmptySlots(d) /\ OwnNodes(d) /\ OneAtATime(d))'
  BY DEF ResetStops, EngineTypes, EngineTypeOK, CallRecord, EmptySlots, OwnNodes, OneAtATime, Stopped
<1>4. QED
  BY <1>1, <1>2, <1>3

LEMMA ResetServesKeeps ==
  ASSUME EngineIInv, NEW e \in Engines, ResetServes(e)
  PROVE  EngineIInv'
<1> USE EngineConstants DEF EngineIInv
<1>1. EngineTypes'
  BY DEF ResetServes, IdleCall, EngineTypes, EngineTypeOK, Unmade, CallRecord, OneAtATime, Stopped
<1>2. NodeIsHeld'
  <2> SUFFICES ASSUME NEW m \in alive'
               PROVE  (\E d \in Engines : \/ run[d] = m \/ halt[d] = m \/ reset[d].node = m
                                         \/ \E s \in Callers : calls[d][s].node = m)'
    BY DEF NodeIsHeld
  <2>1. QED
    BY DEF ResetServes, IdleCall, NodeIsHeld, EngineTypes, EngineTypeOK, CallRecord, EmptySlots, OwnNodes, OneAtATime,
       Stopped
<1>3. ASSUME NEW d \in Engines
      PROVE  (EmptySlots(d) /\ OwnNodes(d) /\ OneAtATime(d))'
  BY DEF ResetServes, IdleCall, EngineTypes, EngineTypeOK, CallRecord, EmptySlots, OwnNodes, OneAtATime, Stopped
<1>4. QED
  BY <1>1, <1>2, <1>3

LEMMA StopBeginsKeeps ==
  ASSUME EngineIInv, NEW e \in Engines, StopBegins(e)
  PROVE  EngineIInv'
<1> USE EngineConstants DEF EngineIInv
<1>1. EngineTypes'
  BY DEF StopBegins, EngineTypes, EngineTypeOK, Unmade, CallRecord, OneAtATime, Stopped
<1>2. NodeIsHeld'
  <2> SUFFICES ASSUME NEW m \in alive'
               PROVE  (\E d \in Engines : \/ run[d] = m \/ halt[d] = m \/ reset[d].node = m
                                         \/ \E s \in Callers : calls[d][s].node = m)'
    BY DEF NodeIsHeld
  <2>1. QED
    BY DEF StopBegins, NodeIsHeld, EngineTypes, EngineTypeOK, CallRecord, EmptySlots, OwnNodes, OneAtATime, Stopped
<1>3. ASSUME NEW d \in Engines
      PROVE  (EmptySlots(d) /\ OwnNodes(d) /\ OneAtATime(d))'
  BY DEF StopBegins, EngineTypes, EngineTypeOK, CallRecord, EmptySlots, OwnNodes, OneAtATime, Stopped
<1>4. QED
  BY <1>1, <1>2, <1>3

LEMMA StopEndsKeeps ==
  ASSUME EngineIInv, NEW e \in Engines, StopEnds(e)
  PROVE  EngineIInv'
<1> USE EngineConstants DEF EngineIInv
<1>1. EngineTypes'
  BY DEF StopEnds, EngineTypes, EngineTypeOK, Unmade, CallRecord, OneAtATime, Stopped
<1>2. NodeIsHeld'
  <2> SUFFICES ASSUME NEW m \in alive'
               PROVE  (\E d \in Engines : \/ run[d] = m \/ halt[d] = m \/ reset[d].node = m
                                         \/ \E s \in Callers : calls[d][s].node = m)'
    BY DEF NodeIsHeld
  <2>1. QED
    BY DEF StopEnds, NodeIsHeld, EngineTypes, EngineTypeOK, CallRecord, EmptySlots, OwnNodes, OneAtATime, Stopped
<1>3. ASSUME NEW d \in Engines
      PROVE  (EmptySlots(d) /\ OwnNodes(d) /\ OneAtATime(d))'
  BY DEF StopEnds, EngineTypes, EngineTypeOK, CallRecord, EmptySlots, OwnNodes, OneAtATime, Stopped
<1>4. QED
  BY <1>1, <1>2, <1>3

LEMMA KilledKeeps ==
  ASSUME EngineIInv, NEW e \in Engines, Killed(e)
  PROVE  EngineIInv'
<1> USE EngineConstants DEF EngineIInv
<1>1. EngineTypes'
  BY DEF Killed, IdleCall, EngineTypes, EngineTypeOK, Unmade, CallRecord, OneAtATime, Stopped
<1>2. NodeIsHeld'
  <2> SUFFICES ASSUME NEW m \in alive'
               PROVE  (\E d \in Engines : \/ run[d] = m \/ halt[d] = m \/ reset[d].node = m
                                         \/ \E s \in Callers : calls[d][s].node = m)'
    BY DEF NodeIsHeld
  <2>1. PICK d \in Engines : \/ run[d] = m \/ halt[d] = m \/ reset[d].node = m
                            \/ \E s \in Callers : calls[d][s].node = m
    BY DEF Killed, NodeIsHeld
  <2>2. m \in NodeSeq /\ owner[m] # e
    BY DEF Killed, EngineTypes, EngineTypeOK
  <2>3. d # e
    BY <2>1, <2>2 DEF OwnNodes
  <2>4. run'[d] = run[d] /\ halt'[d] = halt[d] /\ reset'[d] = reset[d] /\ calls'[d] = calls[d]
    BY <2>3 DEF Killed, EngineTypes, EngineTypeOK
  <2>5. QED
    BY <2>1, <2>4
<1>3. ASSUME NEW d \in Engines
      PROVE  (EmptySlots(d) /\ OwnNodes(d) /\ OneAtATime(d))'
  BY DEF Killed, IdleCall, EngineTypes, EngineTypeOK, CallRecord, EmptySlots, OwnNodes, OneAtATime, Stopped
<1>4. QED
  BY <1>1, <1>2, <1>3

LEMMA EngineKept ==
  ASSUME EngineIInv, OneCaller, [EngineNext]_engineVars
  PROVE  EngineIInv'
<1>1. CASE EngineNext
  <2>1. PICK e \in Engines :
          \/ StartSetup(e) \/ (\E n \in NodeSeq : StartWithNode(e, n)) \/ StartFails(e)
          \/ \E t \in Callers, c \in Planes : ConfigureSaves(e, t, c)
          \/ ResetForgets(e) \/ StopBegins(e) \/ Killed(e) \/ Work(e)
    BY <1>1 DEF EngineNext
  <2>2. CASE Work(e)
    BY <2>2, ConfigureStartsKeeps, ConfigureInstallsKeeps, ConfigureUndoesKeeps, ResetTakesKeeps, ResetStopsKeeps,
       ResetServesKeeps, StopEndsKeeps DEF Work
  <2>3. QED
    BY <2>1, <2>2, StartSetupKeeps, StartWithNodeKeeps, StartFailsKeeps, ConfigureSavesKeeps, ResetForgetsKeeps,
       StopBeginsKeeps, KilledKeeps
<1>2. CASE UNCHANGED engineVars
  BY <1>2 DEF engineVars, EngineIInv, EngineTypes, EngineTypeOK, Unmade, NodeIsHeld, EmptySlots, OwnNodes, OneAtATime,
     Stopped
<1>3. QED
  BY <1>1, <1>2

\* A stopped engine has no node, and every node that runs has somebody who
\* will stop it, however start, configure, reset, stop and the end of the
\* process interleave, when an engine serves one configure request at a time
\* (startNode, resetToSetup, Stop).
THEOREM EngineSound ==
  ASSUME OneCaller
  PROVE  EngineSpec => []EngineInv
<1>1. EngineInit => EngineIInv
  BY EngineInitial
<1>2. EngineIInv /\ [EngineNext]_engineVars => EngineIInv'
  BY EngineKept
<1>3. EngineIInv => EngineInv
  BY DEF EngineIInv, EngineInv, EngineTypes, OneAtATime, StoppedRunsNothing
<1>4. QED
  BY <1>1, <1>2, <1>3, PTL DEF EngineSpec

-----------------------------------------------------------------------------
(***************************************************************************)
(* TunnelReports, the shipper.  What waits to be sent is the request in    *)
(* flight and the buffer behind it.  An id is used once, so a close in     *)
(* there belongs to an id that no open will name again.                    *)
(***************************************************************************)
Overtakes(a, b) == a.msg = "close" /\ b.msg = "open" /\ a.t = b.t
InOrder(s) == \A i, j \in 1 .. Len(s) : i < j => ~Overtakes(s[i], s[j])
Before(r, s) == \A i \in 1 .. Len(r), j \in 1 .. Len(s) : ~Overtakes(r[i], s[j])
ClosesAreUsed(s, unused) == \A i \in 1 .. Len(s) : s[i].msg = "close" => s[i].t \notin unused

WaitInOrder ==
    /\ InOrder(batch) /\ InOrder(buf) /\ Before(batch, buf)
    /\ ClosesAreUsed(batch, ids) /\ ClosesAreUsed(buf, ids)
IdsAreFresh == accepted \cap ids = {}
TookInFlight == batch = <<>> => took = 0
ClosedIsThere == \A t \in Tunnels : rows[t].closed => rows[t].there

ShipIInv == ShipTypeOK /\ NoEventUncounted /\ WaitInOrder /\ IdsAreFresh /\ TookInFlight /\ ClosedIsThere

\* A part of a sequence.
LEMMA PartOf ==
  ASSUME NEW s \in Seq(Events), NEW m \in Nat \ {0}, NEW n \in 0 .. Len(s), m <= n + 1
  PROVE  LET p == SubSeq(s, m, n) IN
         /\ p \in Seq(Events) /\ Len(p) = n - m + 1
         /\ \A i \in 1 .. Len(p) : i + m - 1 \in 1 .. Len(s) /\ p[i] = s[i + m - 1]
<1> DEFINE p == SubSeq(s, m, n)
<1>1. Len(s) \in Nat /\ m \in Int /\ n \in Int
  BY LenProperties
<1>2. \A i \in m .. n : s[i] \in Events
  <2> SUFFICES ASSUME NEW i \in m .. n PROVE s[i] \in Events
    OBVIOUS
  <2>1. i \in 1 .. Len(s)
    BY <1>1
  <2>2. QED
    BY <2>1, ElementOfSeq
<1>3. /\ p \in Seq(Events)
      /\ Len(p) = IF m <= n THEN n - m + 1 ELSE 0
      /\ \A i \in 1 .. n - m + 1 : p[i] = s[m + i - 1]
  BY <1>1, <1>2, SubSeqProperties
<1> HIDE DEF p
<1>4. Len(p) = n - m + 1
  BY <1>1, <1>3
<1>5. ASSUME NEW i \in 1 .. Len(p) PROVE i + m - 1 \in 1 .. Len(s) /\ p[i] = s[i + m - 1]
  <2>1. i \in 1 .. n - m + 1 /\ m + i - 1 = i + m - 1
    BY <1>1, <1>4
  <2>2. i + m - 1 \in 1 .. Len(s)
    BY <1>1, <2>1
  <2>3. QED
    BY <1>3, <2>1, <2>2
<1>6. QED
  BY <1>3, <1>4, <1>5 DEF p

\* Order and used ids pass to a part.
LEMMA PartInOrder ==
  ASSUME NEW s \in Seq(Events), NEW m \in Nat \ {0}, NEW n \in 0 .. Len(s), m <= n + 1, NEW unused
  PROVE  /\ InOrder(s) => InOrder(SubSeq(s, m, n))
         /\ ClosesAreUsed(s, unused) => ClosesAreUsed(SubSeq(s, m, n), unused)
         /\ \A r : Before(r, s) => Before(r, SubSeq(s, m, n))
<1> DEFINE p == SubSeq(s, m, n)
<1>1. p \in Seq(Events) /\ \A i \in 1 .. Len(p) : i + m - 1 \in 1 .. Len(s) /\ p[i] = s[i + m - 1]
  BY PartOf
<1>2. Len(p) \in Nat
  BY <1>1, LenProperties
<1> HIDE DEF p
<1>3. ASSUME InOrder(s) PROVE InOrder(p)
  <2> SUFFICES ASSUME NEW i \in 1 .. Len(p), NEW j \in 1 .. Len(p), i < j PROVE ~Overtakes(p[i], p[j])
    BY DEF InOrder
  <2>1. i + m - 1 \in 1 .. Len(s) /\ j + m - 1 \in 1 .. Len(s) /\ p[i] = s[i + m - 1] /\ p[j] = s[j + m - 1]
    BY <1>1
  <2>2. i + m - 1 < j + m - 1
    BY <1>2
  <2>3. ~Overtakes(s[i + m - 1], s[j + m - 1])
    BY <1>3, <2>1, <2>2 DEF InOrder
  <2>4. QED
    BY <2>1, <2>3
<1>4. ASSUME ClosesAreUsed(s, unused) PROVE ClosesAreUsed(p, unused)
  BY <1>1, <1>4 DEF ClosesAreUsed
<1>5. ASSUME NEW r, Before(r, s) PROVE Before(r, p)
  BY <1>1, <1>5 DEF Before
<1>6. QED
  BY <1>3, <1>4, <1>5 DEF p

\* Two parts of an ordered sequence, one behind the other.
LEMMA PartsApart ==
  ASSUME NEW s \in Seq(Events), NEW n \in 0 .. Len(s), InOrder(s)
  PROVE  Before(SubSeq(s, 1, n), SubSeq(s, n + 1, Len(s)))
<1> DEFINE p == SubSeq(s, 1, n)
           q == SubSeq(s, n + 1, Len(s))
<1>1. Len(s) \in Nat /\ n \in Nat /\ n + 1 \in Nat \ {0} /\ 1 \in Nat \ {0} /\ Len(s) \in 0 .. Len(s) /\ 1 <= n + 1
      /\ n + 1 <= Len(s) + 1
  BY LenProperties
<1>2. Len(p) = n - 1 + 1 /\ \A i \in 1 .. Len(p) : i + 1 - 1 \in 1 .. Len(s) /\ p[i] = s[i + 1 - 1]
  BY <1>1, PartOf
<1>3. Len(q) = Len(s) - (n + 1) + 1 /\ \A i \in 1 .. Len(q) : i + (n + 1) - 1 \in 1 .. Len(s) /\ q[i] = s[i + (n + 1) - 1]
  BY <1>1, PartOf
<1> HIDE DEF p, q
<1> SUFFICES ASSUME NEW i \in 1 .. Len(p), NEW j \in 1 .. Len(q) PROVE ~Overtakes(p[i], q[j])
  BY DEF Before, p, q
<1>4. i + 1 - 1 < j + (n + 1) - 1
  <2>1. Len(p) = n /\ Len(q) = Len(s) - n
    BY <1>1, <1>2, <1>3
  <2>2. i \in 1 .. n /\ j \in 1 .. (Len(s) - n)
    BY <2>1
  <2>3. i <= n /\ 1 <= j /\ i \in Nat /\ j \in Nat
    BY <1>1, <2>2
  <2>4. QED
    BY <1>1, <2>3
<1>5. ~Overtakes(s[i + 1 - 1], s[j + (n + 1) - 1])
  BY <1>2, <1>3, <1>4 DEF InOrder
<1>6. QED
  BY <1>2, <1>3, <1>5

\* A request in front of the buffer.
LEMMA JoinedInOrder ==
  ASSUME NEW r \in Seq(Events), NEW s \in Seq(Events), NEW unused
  PROVE  /\ r \o s \in Seq(Events) /\ Len(r \o s) = Len(r) + Len(s)
         /\ InOrder(r) /\ InOrder(s) /\ Before(r, s) => InOrder(r \o s)
         /\ ClosesAreUsed(r, unused) /\ ClosesAreUsed(s, unused) => ClosesAreUsed(r \o s, unused)
<1> DEFINE w == r \o s
<1>1. /\ w \in Seq(Events) /\ Len(w) = Len(r) + Len(s)
      /\ \A i \in 1 .. Len(r) + Len(s) : w[i] = IF i <= Len(r) THEN r[i] ELSE s[i - Len(r)]
  BY ConcatProperties
<1>2. Len(r) \in Nat /\ Len(s) \in Nat
  BY LenProperties
<1> HIDE DEF w
<1>3. ASSUME NEW i \in 1 .. Len(w)
      PROVE  \/ i <= Len(r) /\ i \in 1 .. Len(r) /\ w[i] = r[i]
             \/ i > Len(r) /\ i - Len(r) \in 1 .. Len(s) /\ w[i] = s[i - Len(r)]
  <2>1. CASE i <= Len(r)
    BY <1>1, <1>2, <2>1
  <2>2. CASE i > Len(r)
    <3>1. i - Len(r) \in 1 .. Len(s)
      BY <1>1, <1>2, <2>2
    <3>2. w[i] = s[i - Len(r)]
      BY <1>1, <1>2, <2>2
    <3>3. QED
      BY <2>2, <3>1, <3>2
  <2>3. QED
    BY <1>1, <1>2, <2>1, <2>2
<1>4. ASSUME InOrder(r), InOrder(s), Before(r, s)
      PROVE  InOrder(w)
  <2> SUFFICES ASSUME NEW i \in 1 .. Len(w), NEW j \in 1 .. Len(w), i < j PROVE ~Overtakes(w[i], w[j])
    BY DEF InOrder
  <2>1. CASE i <= Len(r) /\ j <= Len(r)
    <3>1. i \in 1 .. Len(r) /\ j \in 1 .. Len(r) /\ w[i] = r[i] /\ w[j] = r[j]
      BY <1>1, <1>2, <1>3, <2>1
    <3>2. QED
      BY <1>4, <3>1 DEF InOrder
  <2>2. CASE i <= Len(r) /\ j > Len(r)
    <3>1. i \in 1 .. Len(r) /\ j - Len(r) \in 1 .. Len(s) /\ w[i] = r[i] /\ w[j] = s[j - Len(r)]
      BY <1>1, <1>2, <1>3, <2>2
    <3>2. QED
      BY <1>4, <3>1 DEF Before
  <2>3. CASE i > Len(r) /\ j > Len(r)
    <3>1. i - Len(r) \in 1 .. Len(s) /\ j - Len(r) \in 1 .. Len(s) /\ w[i] = s[i - Len(r)] /\ w[j] = s[j - Len(r)]
      BY <1>1, <1>2, <1>3, <2>3
    <3>2. i - Len(r) < j - Len(r)
      BY <1>1, <1>2
    <3>3. QED
      BY <1>4, <3>1, <3>2 DEF InOrder
  <2>4. QED
    BY <1>1, <1>2, <2>1, <2>2, <2>3
<1>5. ASSUME ClosesAreUsed(r, unused), ClosesAreUsed(s, unused)
      PROVE  ClosesAreUsed(w, unused)
  BY <1>3, <1>5 DEF ClosesAreUsed
<1>6. QED
  BY <1>1, <1>4, <1>5 DEF w

\* One more event behind the others.
LEMMA AppendedInOrder ==
  ASSUME NEW r \in Seq(Events), NEW s \in Seq(Events), NEW e \in Events, NEW unused, NEW rest,
         InOrder(s), Before(r, s), ClosesAreUsed(r, unused), ClosesAreUsed(s, unused), rest \subseteq unused,
         e.msg = "open" => e.t \in unused, e.msg = "close" => e.t \notin rest
  PROVE  LET w == Append(s, e) IN
         /\ w \in Seq(Events) /\ Len(w) = Len(s) + 1
         /\ InOrder(w) /\ Before(r, w) /\ ClosesAreUsed(w, rest) /\ ClosesAreUsed(r, rest)
<1> DEFINE w == Append(s, e)
<1>1. w \in Seq(Events) /\ Len(w) = Len(s) + 1 /\ (\A i \in 1 .. Len(s) : w[i] = s[i]) /\ w[Len(s) + 1] = e
  BY AppendProperties
<1>2. Len(s) \in Nat /\ Len(r) \in Nat
  BY LenProperties
<1> HIDE DEF w
<1>3. ASSUME NEW i \in 1 .. Len(w) PROVE (i \in 1 .. Len(s) /\ w[i] = s[i]) \/ (i = Len(s) + 1 /\ w[i] = e)
  BY <1>1, <1>2
<1>4. InOrder(w)
  <2> SUFFICES ASSUME NEW i \in 1 .. Len(w), NEW j \in 1 .. Len(w), i < j PROVE ~Overtakes(w[i], w[j])
    BY DEF InOrder
  <2>1. i \in 1 .. Len(s) /\ w[i] = s[i]
    BY <1>1, <1>2, <1>3
  <2>2. CASE j \in 1 .. Len(s) /\ w[j] = s[j]
    BY <2>1, <2>2 DEF InOrder
  <2>3. CASE w[j] = e
    BY <2>1, <2>3 DEF Overtakes, ClosesAreUsed
  <2>4. QED
    BY <1>3, <2>2, <2>3
<1>5. Before(r, w)
  <2> SUFFICES ASSUME NEW i \in 1 .. Len(r), NEW j \in 1 .. Len(w) PROVE ~Overtakes(r[i], w[j])
    BY DEF Before
  <2>1. CASE j \in 1 .. Len(s) /\ w[j] = s[j]
    BY <2>1 DEF Before
  <2>2. CASE w[j] = e
    BY <2>2 DEF Overtakes, ClosesAreUsed
  <2>3. QED
    BY <1>3, <2>1, <2>2
<1>6. ClosesAreUsed(w, rest)
  <2> SUFFICES ASSUME NEW i \in 1 .. Len(w), w[i].msg = "close" PROVE w[i].t \notin rest
    BY DEF ClosesAreUsed
  <2>1. QED
    BY <1>3 DEF ClosesAreUsed
<1>7. ClosesAreUsed(r, rest)
  BY DEF ClosesAreUsed
<1>8. QED
  BY <1>1, <1>4, <1>5, <1>6, <1>7 DEF w

\* Len of the sequences of the shipper.
LEMMA ShipLengths ==
  ASSUME ShipIInv
  PROVE  /\ Len(buf) \in Nat /\ Len(batch) \in Nat /\ Len(buf) <= ShipMax /\ Len(batch) <= ShipMaxEvents
         /\ dropped \in Nat /\ took \in Nat /\ owed \in Nat /\ next \in Nat /\ next <= Len(batch)
         /\ dropped <= MaxDropped /\ took <= MaxDropped
         /\ ShipMax \in Nat \ {0} /\ ShipMaxEvents \in Nat \ {0} /\ MaxDropped \in Nat
<1>1. Len(buf) \in Nat /\ Len(batch) \in Nat
  BY LenProperties DEF ShipIInv, ShipTypeOK
<1>2. QED
  BY <1>1, ShipBounds DEF ShipIInv, ShipTypeOK

\* Adding an event.
LEMMA ShipAddKeeps ==
  ASSUME ShipIInv, NEW e \in Events, ShipAdd(e), NEW rest, rest \subseteq ids,
         e.msg = "open" => e.t \in ids, e.msg = "close" => e.t \notin rest
  PROVE  /\ buf' \in Seq(Events) /\ Len(buf') <= ShipMax /\ dropped' \in 0 .. MaxDropped /\ owed' \in Nat
         /\ owed' = Len(buf') + Len(batch) + dropped' + took
         /\ InOrder(buf') /\ Before(batch, buf') /\ ClosesAreUsed(buf', rest) /\ ClosesAreUsed(batch, rest)
<1> DEFINE full == Len(buf) >= ShipMax
           kept == IF full THEN Tail(buf) ELSE buf
<1>1. buf' = Append(kept, e) /\ owed' = owed + 1 /\ (full => dropped < MaxDropped)
      /\ dropped' = (IF full THEN dropped + 1 ELSE dropped)
  BY DEF ShipAdd
<1>2. buf \in Seq(Events) /\ batch \in Seq(Events) /\ owed = Len(buf) + Len(batch) + dropped + took
      /\ InOrder(batch) /\ InOrder(buf) /\ Before(batch, buf) /\ ClosesAreUsed(batch, ids) /\ ClosesAreUsed(buf, ids)
  BY DEF ShipIInv, ShipTypeOK, NoEventUncounted, WaitInOrder
<1>3. kept \in Seq(Events) /\ InOrder(kept) /\ Before(batch, kept) /\ ClosesAreUsed(kept, ids)
      /\ Len(kept) = IF full THEN Len(buf) - 1 ELSE Len(buf)
  <2>1. CASE full
    <3>1. buf # <<>> /\ Len(buf) \in 0 .. Len(buf) /\ 2 \in Nat \ {0} /\ 2 <= Len(buf) + 1
      BY <2>1, <1>2, ShipLengths, EmptySeq
    <3>2. Tail(buf) = SubSeq(buf, 2, Len(buf))
      BY <1>2, <3>1, TailIsSubSeq
    <3>3. Tail(buf) \in Seq(Events) /\ Len(Tail(buf)) = Len(buf) - 1
      BY <1>2, <3>1, HeadTailProperties
    <3>4. InOrder(Tail(buf)) /\ Before(batch, Tail(buf)) /\ ClosesAreUsed(Tail(buf), ids)
      BY <1>2, <3>1, <3>2, PartInOrder
    <3>5. QED
      BY <2>1, <3>3, <3>4
  <2>2. CASE ~full
    BY <1>2, <2>2
  <2>3. QED
    BY <2>1, <2>2
<1> HIDE DEF kept
<1>4. /\ buf' \in Seq(Events) /\ Len(buf') = Len(kept) + 1
      /\ InOrder(buf') /\ Before(batch, buf') /\ ClosesAreUsed(buf', rest) /\ ClosesAreUsed(batch, rest)
  BY <1>1, <1>2, <1>3, AppendedInOrder
<1>5. Len(buf') <= ShipMax /\ dropped' \in 0 .. MaxDropped /\ owed' \in Nat
      /\ owed' = Len(buf') + Len(batch) + dropped' + took
  <2> DEFINE l == Len(buf)
             b == Len(batch)
             k == Len(buf')
  <2>1. /\ l \in Nat /\ b \in Nat /\ l <= ShipMax /\ dropped \in Nat /\ took \in Nat /\ dropped <= MaxDropped
        /\ ShipMax \in Nat \ {0} /\ MaxDropped \in Nat /\ owed = l + b + dropped + took /\ owed' = owed + 1
    BY <1>1, <1>2, ShipLengths
  <2>2. CASE full
    <3>1. k = l - 1 + 1 /\ dropped' = dropped + 1 /\ dropped < MaxDropped
      BY <1>1, <1>3, <1>4, <2>2
    <3> HIDE DEF l, b, k
    <3>2. k <= ShipMax /\ dropped' \in 0 .. MaxDropped /\ owed' \in Nat /\ owed' = k + b + dropped' + took
      BY <2>1, <3>1
    <3>3. QED
      BY <3>2 DEF k, b
  <2>3. CASE ~full
    <3>1. k = l + 1 /\ dropped' = dropped /\ ~(l >= ShipMax)
      BY <1>1, <1>3, <1>4, <2>3
    <3> HIDE DEF l, b, k
    <3>2. k <= ShipMax /\ dropped' \in 0 .. MaxDropped /\ owed' \in Nat /\ owed' = k + b + dropped' + took
      BY <2>1, <3>1
    <3>3. QED
      BY <3>2 DEF k, b
  <2>4. QED
    BY <2>2, <2>3
<1>6. QED
  BY <1>4, <1>5

-----------------------------------------------------------------------------
(***************************************************************************)
(* The table of tunnels.                                                   *)
(***************************************************************************)
TableOK(table) == table \in [Tunnels -> Rows] /\ \A t \in Tunnels : table[t].closed => table[t].there

\* No row is opened again that was closed for a reason but silence.
StaysClosed(old, new) ==
    \A t \in Tunnels : old[t].closed /\ old[t].why # "silent" /\ new[t].there
                         => new[t].closed /\ new[t].why = old[t].why

LEMMA UpsertRow ==
  ASSUME NEW row \in Rows, row.closed => row.there, NEW msg \in {"open", "update", "close"}
  PROVE  LET new == UpsertTunnel(row, msg) IN
         /\ new \in Rows /\ new.there
         /\ row.closed /\ row.why # "silent" => new.closed /\ new.why = row.why
<1>1. CASE ~row.there
  BY <1>1 DEF UpsertTunnel, Rows, Reasons
<1>2. CASE row.there
  BY <1>2 DEF UpsertTunnel, Rows, Reasons
<1>3. QED
  BY <1>1, <1>2

LEMMA AppliedTable ==
  ASSUME NEW table, TableOK(table), NEW e \in Events
  PROVE  TableOK(Applied(table, e)) /\ StaysClosed(table, Applied(table, e))
<1>1. CASE e.msg = "reset"
  <2>1. Applied(table, e) = CloseHubTunnels(table)
    BY <1>1 DEF Applied
  <2>2. CloseHubTunnels(table) \in [Tunnels -> Rows]
    BY DEF TableOK, CloseHubTunnels, Rows, Reasons
  <2>3. ASSUME NEW t \in Tunnels
        PROVE  /\ CloseHubTunnels(table)[t].closed => CloseHubTunnels(table)[t].there
               /\ table[t].closed => CloseHubTunnels(table)[t] = table[t]
    BY DEF TableOK, CloseHubTunnels, Rows
  <2>4. QED
    BY <2>1, <2>2, <2>3 DEF TableOK, StaysClosed
<1>2. CASE e.msg # "reset"
  <2>1. e.t \in Tunnels /\ e.msg \in {"open", "update", "close"}
    BY <1>2 DEF Events
  <2> DEFINE new == UpsertTunnel(table[e.t], e.msg)
  <2>2. Applied(table, e) = [table EXCEPT ![e.t] = new]
    BY <1>2 DEF Applied
  <2>3. new \in Rows /\ new.there /\ (table[e.t].closed /\ table[e.t].why # "silent" => new.closed /\ new.why = table[e.t].why)
    BY <2>1, UpsertRow DEF TableOK
  <2> HIDE DEF new
  <2>4. QED
    BY <2>1, <2>2, <2>3 DEF TableOK, StaysClosed
<1>3. QED
  BY <1>1, <1>2

\* The steps of housekeeping.
LEMMA HousekeepingTable ==
  ASSUME ShipIInv, (\E t \in Tunnels : FallsSilent(t) \/ PruneTunnels(t)) \/ CloseStaleTunnels
  PROVE  TableOK(rows') /\ StaysClosed(rows, rows')
<1>1. rows \in [Tunnels -> Rows] /\ \A t \in Tunnels : rows[t].closed => rows[t].there
  BY DEF ShipIInv, ShipTypeOK, ClosedIsThere
<1>2. ASSUME NEW t \in Tunnels, NEW row \in Rows, row.closed => row.there, rows' = [rows EXCEPT ![t] = row],
             rows[t].closed => ~row.there
      PROVE  TableOK(rows') /\ StaysClosed(rows, rows')
  BY <1>1, <1>2 DEF TableOK, StaysClosed
<1>3. ASSUME NEW t \in Tunnels, FallsSilent(t)
      PROVE  TableOK(rows') /\ StaysClosed(rows, rows')
  <2> DEFINE row == [rows[t] EXCEPT !.fresh = FALSE]
  <2>1. row \in Rows /\ ~row.closed /\ rows' = [rows EXCEPT ![t] = row] /\ ~rows[t].closed
    BY <1>1, <1>3 DEF FallsSilent, IsOpen, Rows
  <2> HIDE DEF row
  <2>2. QED
    BY <1>2, <2>1
<1>4. ASSUME NEW t \in Tunnels, PruneTunnels(t)
      PROVE  TableOK(rows') /\ StaysClosed(rows, rows')
  <2>1. NoRow \in Rows /\ ~NoRow.closed /\ ~NoRow.there
    BY DEF NoRow, Rows, Reasons
  <2>2. QED
    BY <1>2, <1>4, <2>1 DEF PruneTunnels
<1>5. CASE CloseStaleTunnels
  BY <1>1, <1>5 DEF CloseStaleTunnels, IsOpen, Rows, Reasons, TableOK, StaysClosed
<1>6. QED
  BY <1>3, <1>4, <1>5

\* The steps of the handler.
LEMMA HandlerTable ==
  ASSUME ShipIInv, NodeShipLogs \/ LateShipLogs
  PROVE  TableOK(rows') /\ StaysClosed(rows, rows')
<1>1. TableOK(rows)
  BY DEF ShipIInv, ShipTypeOK, ClosedIsThere, TableOK
<1>2. CASE NodeShipLogs
  <2>1. next + 1 \in 1 .. Len(batch) /\ batch \in Seq(Events)
    BY <1>2, ShipLengths DEF NodeShipLogs, ShipIInv, ShipTypeOK
  <2>2. batch[next + 1] \in Events
    BY <2>1, ElementOfSeq
  <2>3. QED
    BY <1>1, <1>2, <2>2, AppliedTable DEF NodeShipLogs
<1>3. CASE LateShipLogs
  <2>1. Head(late) \in Events
    BY <1>3, HeadTailProperties DEF LateShipLogs, ShipIInv, ShipTypeOK
  <2>2. QED
    BY <1>1, <1>3, <2>1, AppliedTable DEF LateShipLogs
<1>4. QED
  BY <1>2, <1>3

-----------------------------------------------------------------------------
LEMMA ShipInitial ==
  ASSUME ShipInit
  PROVE  ShipIInv
<1> USE ShipBounds DEF ShipInit
<1>1. <<>> \in Seq(Events) /\ Len(<<>>) = 0
  BY EmptySeq
<1>2. WaitInOrder
  BY <1>1 DEF WaitInOrder, InOrder, Before, ClosesAreUsed
<1>3. rows \in [Tunnels -> Rows] /\ ClosedIsThere
  BY DEF NoRow, Rows, Reasons, ClosedIsThere
<1>4. ShipTypeOK
  BY <1>1, <1>3 DEF ShipTypeOK
<1>5. QED
  BY <1>1, <1>2, <1>3, <1>4 DEF ShipIInv, NoEventUncounted, IdsAreFresh, TookInFlight

\* The node adds an event.
LEMMA ReportingKeeps ==
  ASSUME ShipIInv, (\E t \in Tunnels : TrackTunnel(t) \/ UntrackTunnel(t) \/ ReportOne(t)) \/ SessionBegins
  PROVE  ShipIInv'
<1>1. PICK e \in Events, rest \in SUBSET ids :
        /\ ShipAdd(e) /\ ids' = rest /\ UNCHANGED <<batch, took, next, late, rows, shipFaults>>
        /\ e.msg = "open" => e.t \in ids
        /\ e.msg = "close" => e.t \notin rest
        /\ accepted' \subseteq Tunnels /\ listed' \subseteq Tunnels /\ accepted' \cap rest = {}
  <2>1. CASE \E t \in Tunnels : TrackTunnel(t)
    <3>1. PICK t \in Tunnels : TrackTunnel(t)
      BY <2>1
    <3>2. [msg |-> "open", t |-> t] \in Events
      BY DEF Events
    <3>3. QED
      BY <3>1, <3>2 DEF TrackTunnel, ShipIInv, ShipTypeOK, IdsAreFresh
  <2>2. CASE \E t \in Tunnels : UntrackTunnel(t)
    <3>1. PICK t \in Tunnels : UntrackTunnel(t)
      BY <2>2
    <3>2. [msg |-> "close", t |-> t] \in Events
      BY DEF Events
    <3>3. QED
      BY <3>1, <3>2 DEF UntrackTunnel, ShipIInv, ShipTypeOK, IdsAreFresh
  <2>3. CASE \E t \in Tunnels : ReportOne(t)
    <3>1. PICK t \in Tunnels : ReportOne(t)
      BY <2>3
    <3>2. [msg |-> "update", t |-> t] \in Events
      BY DEF Events
    <3>3. QED
      BY <3>1, <3>2 DEF ReportOne, ShipIInv, ShipTypeOK, IdsAreFresh
  <2>4. CASE SessionBegins
    <3>1. [msg |-> "reset", t |-> NoTunnel] \in Events
      BY DEF Events
    <3>2. QED
      BY <2>4, <3>1 DEF SessionBegins, ShipIInv, ShipTypeOK, IdsAreFresh
  <2>5. QED
    BY <2>1, <2>2, <2>3, <2>4
<1>2. /\ buf' \in Seq(Events) /\ Len(buf') <= ShipMax /\ dropped' \in 0 .. MaxDropped /\ owed' \in Nat
      /\ owed' = Len(buf') + Len(batch) + dropped' + took
      /\ InOrder(buf') /\ Before(batch, buf') /\ ClosesAreUsed(buf', rest) /\ ClosesAreUsed(batch, rest)
  BY <1>1, ShipAddKeeps
<1>3. ShipTypeOK'
  BY <1>1, <1>2 DEF ShipIInv, ShipTypeOK
<1>4. WaitInOrder'
  BY <1>1, <1>2 DEF ShipIInv, WaitInOrder
<1>5. NoEventUncounted' /\ IdsAreFresh' /\ TookInFlight' /\ ClosedIsThere'
  BY <1>1, <1>2 DEF ShipIInv, NoEventUncounted, IdsAreFresh, TookInFlight, ClosedIsThere
<1>6. QED
  BY <1>3, <1>4, <1>5 DEF ShipIInv

\* The control plane applies events and keeps house.
LEMMA TableKeeps ==
  ASSUME ShipIInv, \/ NodeShipLogs \/ LateShipLogs \/ CloseStaleTunnels
                   \/ \E t \in Tunnels : FallsSilent(t) \/ PruneTunnels(t)
  PROVE  ShipIInv'
<1>1. rows' \in [Tunnels -> Rows] /\ ClosedIsThere'
  BY HousekeepingTable, HandlerTable DEF TableOK, ClosedIsThere
<1>2. UNCHANGED <<accepted, ids, listed, buf, dropped, batch, took, owed, shipFaults>>
  BY DEF NodeShipLogs, LateShipLogs, CloseStaleTunnels, FallsSilent, PruneTunnels
<1>3. next' \in 0 .. Len(batch) /\ late' \in Seq(Events)
  <2>1. CASE NodeShipLogs
    BY <2>1, ShipLengths DEF NodeShipLogs, ShipIInv, ShipTypeOK
  <2>2. CASE LateShipLogs
    BY <2>2, HeadTailProperties DEF LateShipLogs, ShipIInv, ShipTypeOK
  <2>3. CASE UNCHANGED <<next, late>>
    BY <2>3 DEF ShipIInv, ShipTypeOK
  <2>4. QED
    BY <2>1, <2>2, <2>3 DEF CloseStaleTunnels, FallsSilent, PruneTunnels
<1>4. ShipTypeOK'
  BY <1>1, <1>2, <1>3 DEF ShipIInv, ShipTypeOK
<1>5. QED
  BY <1>1, <1>2, <1>4 DEF ShipIInv, NoEventUncounted, WaitInOrder, IdsAreFresh, TookInFlight

\* The process ends, and a request is abandoned with it.
LEMMA NodeRestartsKeeps ==
  ASSUME ShipIInv, NodeRestarts
  PROVE  ShipIInv'
<1> DEFINE e == [msg |-> "reset", t |-> NoTunnel]
<1>1. e \in Events /\ e.msg # "close" /\ e.msg # "open"
  BY DEF Events
<1>2. /\ accepted' = {} /\ listed' = {} /\ buf' = <<e>> /\ dropped' = 0 /\ batch' = <<>> /\ took' = 0 /\ next' = 0
      /\ owed' = 1 /\ ids' = ids /\ rows' = rows
  BY DEF NodeRestarts
<1> HIDE DEF e
<1>3. <<>> \in Seq(Events) /\ Len(<<>>) = 0 /\ <<e>> \in Seq(Events) /\ Len(<<e>>) = 1 /\ <<e>>[1] = e
  BY <1>1
<1>4. late' \in Seq(Events)
  <2>1. SubSeq(batch, next + 1, Len(batch)) \in Seq(Events)
    <3>1. batch \in Seq(Events) /\ next + 1 \in Nat \ {0} /\ Len(batch) \in 0 .. Len(batch) /\ next + 1 <= Len(batch) + 1
      BY ShipLengths DEF ShipIInv, ShipTypeOK
    <3>2. QED
      BY <3>1, PartOf
  <2>2. QED
    BY <2>1 DEF NodeRestarts, ShipIInv, ShipTypeOK
<1>5. shipFaults' \in 0 .. ShipFaults
  BY ShipBounds DEF NodeRestarts, ShipFault, ShipIInv, ShipTypeOK
<1>6. ShipTypeOK'
  BY <1>2, <1>3, <1>4, <1>5, ShipBounds DEF ShipIInv, ShipTypeOK
<1>7. WaitInOrder'
  <2>1. \A i \in 1 .. Len(<<e>>) : <<e>>[i] = e
    BY <1>3
  <2>2. InOrder(<<e>>) /\ ClosesAreUsed(<<e>>, ids)
    BY <1>1, <2>1 DEF InOrder, Overtakes, ClosesAreUsed
  <2>3. InOrder(<<>>) /\ ClosesAreUsed(<<>>, ids) /\ Before(<<>>, <<e>>)
    BY <1>3 DEF InOrder, ClosesAreUsed, Before
  <2>4. QED
    BY <1>2, <2>2, <2>3 DEF WaitInOrder
<1>8. QED
  BY <1>2, <1>3, <1>6, <1>7 DEF ShipIInv, NoEventUncounted, IdsAreFresh, TookInFlight, ClosedIsThere

\* flush takes its events.
LEMMA FlushTakesKeeps ==
  ASSUME ShipIInv, FlushTakes
  PROVE  ShipIInv'
<1> DEFINE n == IF Len(buf) < ShipMaxEvents THEN Len(buf) ELSE ShipMaxEvents
           p == SubSeq(buf, 1, n)
           q == SubSeq(buf, n + 1, Len(buf))
<1>1. /\ batch = <<>> /\ batch' = p /\ buf' = q /\ took' = dropped /\ dropped' = 0 /\ next' = 0
      /\ UNCHANGED <<accepted, ids, listed, late, rows, owed, shipFaults>>
  BY DEF FlushTakes
<1>2. buf \in Seq(Events) /\ InOrder(buf) /\ ClosesAreUsed(buf, ids)
  BY DEF ShipIInv, ShipTypeOK, WaitInOrder
<1>3. n \in Nat /\ n <= Len(buf) /\ n <= ShipMaxEvents /\ Len(buf) \in Nat /\ Len(buf) <= ShipMax
  BY ShipLengths
<1> HIDE DEF n
<1>4. n \in 0 .. Len(buf) /\ 1 \in Nat \ {0} /\ 1 <= n + 1 /\ n + 1 \in Nat \ {0} /\ Len(buf) \in 0 .. Len(buf)
      /\ n + 1 <= Len(buf) + 1
  BY <1>3
<1>5. p \in Seq(Events) /\ Len(p) = n - 1 + 1
  BY <1>2, <1>4, PartOf
<1>6. q \in Seq(Events) /\ Len(q) = Len(buf) - (n + 1) + 1
  BY <1>2, <1>4, PartOf
<1>7. InOrder(p) /\ InOrder(q) /\ Before(p, q) /\ ClosesAreUsed(p, ids) /\ ClosesAreUsed(q, ids)
  BY <1>2, <1>4, PartInOrder, PartsApart
<1> HIDE DEF p, q
<1>8. Len(p) = n /\ Len(q) = Len(buf) - n
  BY <1>3, <1>5, <1>6
<1>9. ShipTypeOK'
  <2>1. Len(q) <= ShipMax /\ Len(p) <= ShipMaxEvents /\ 0 \in 0 .. Len(p) /\ 0 \in 0 .. MaxDropped
    BY <1>3, <1>8, ShipLengths
  <2>2. QED
    BY <1>1, <1>5, <1>6, <2>1 DEF ShipIInv, ShipTypeOK
<1>10. NoEventUncounted'
  <2>1. owed = Len(buf) + 0 + dropped + took /\ took = 0
    <3>1. Len(batch) = 0
      BY <1>1
    <3>2. QED
      BY <3>1 DEF ShipIInv, NoEventUncounted, TookInFlight
  <2>2. owed = Len(q) + Len(p) + 0 + dropped
    BY <1>3, <1>8, <2>1, ShipLengths
  <2>3. QED
    BY <1>1, <2>2 DEF NoEventUncounted
<1>11. TookInFlight'
  <2>1. Len(buf) # 0
    BY <1>2, EmptySeq DEF FlushTakes
  <2>2. n # 0
    BY <1>3, <2>1, ShipLengths DEF n
  <2>3. p # <<>>
    BY <1>8, <2>2
  <2>4. QED
    BY <1>1, <2>3 DEF TookInFlight
<1>12. QED
  BY <1>1, <1>7, <1>9, <1>10, <1>11 DEF ShipIInv, WaitInOrder, IdsAreFresh, ClosedIsThere

\* The request was answered.
LEMMA FlushOKKeeps ==
  ASSUME ShipIInv, FlushOK
  PROVE  ShipIInv'
<1>1. /\ batch' = <<>> /\ took' = 0 /\ next' = 0 /\ owed' = owed - Len(batch) - took
      /\ UNCHANGED <<accepted, ids, listed, buf, dropped, late, rows, shipFaults>>
  BY DEF FlushOK
<1>2. <<>> \in Seq(Events) /\ Len(<<>>) = 0
  BY EmptySeq
<1>3. owed' = Len(buf) + dropped /\ owed' \in Nat
  <2>1. owed = Len(buf) + Len(batch) + dropped + took
    BY DEF ShipIInv, NoEventUncounted
  <2>2. QED
    BY <1>1, <2>1, ShipLengths
<1>4. ShipTypeOK'
  BY <1>1, <1>2, <1>3, ShipBounds DEF ShipIInv, ShipTypeOK
<1>5. NoEventUncounted'
  <2>1. owed' = Len(buf) + 0 + dropped + 0
    BY <1>3, ShipLengths
  <2>2. QED
    BY <1>1, <1>2, <2>1 DEF NoEventUncounted
<1>6. WaitInOrder'
  <2>1. InOrder(<<>>) /\ Before(<<>>, buf) /\ ClosesAreUsed(<<>>, ids)
    BY <1>2 DEF InOrder, Before, ClosesAreUsed
  <2>2. QED
    BY <1>1, <2>1 DEF ShipIInv, WaitInOrder
<1>7. QED
  BY <1>1, <1>4, <1>5, <1>6 DEF ShipIInv, IdsAreFresh, TookInFlight, ClosedIsThere

\* It was not: its events go back in front, and the oldest are cut off.
LEMMA FlushFailsKeeps ==
  ASSUME ShipIInv, FlushFails
  PROVE  ShipIInv'
<1> DEFINE w == Requeued
           x == Excess
           p == SubSeq(w, x + 1, Len(w))
<1>1. /\ batch' = <<>> /\ took' = 0 /\ next' = 0 /\ buf' = p /\ dropped' = dropped + took + x
      /\ dropped + took + x <= MaxDropped
      /\ UNCHANGED <<accepted, ids, listed, rows, owed>>
  BY DEF FlushFails
<1>2. batch \in Seq(Events) /\ buf \in Seq(Events) /\ InOrder(batch) /\ InOrder(buf) /\ Before(batch, buf)
      /\ ClosesAreUsed(batch, ids) /\ ClosesAreUsed(buf, ids)
  BY DEF ShipIInv, ShipTypeOK, WaitInOrder
<1>3. w \in Seq(Events) /\ Len(w) = Len(batch) + Len(buf) /\ InOrder(w) /\ ClosesAreUsed(w, ids)
  BY <1>2, JoinedInOrder DEF Requeued
<1>4. x = IF Len(w) > ShipMax THEN Len(w) - ShipMax ELSE 0
  BY DEF Excess
<1> HIDE DEF w, x
<1>5. /\ Len(w) \in Nat /\ x \in Nat /\ x <= Len(w) /\ Len(w) - x <= ShipMax
      /\ x + 1 \in Nat \ {0} /\ Len(w) \in 0 .. Len(w) /\ x + 1 <= Len(w) + 1
  BY <1>3, <1>4, ShipLengths
<1>6. p \in Seq(Events) /\ Len(p) = Len(w) - (x + 1) + 1
  BY <1>3, <1>5, PartOf
<1>7. InOrder(p) /\ ClosesAreUsed(p, ids)
  BY <1>3, <1>5, PartInOrder
<1> HIDE DEF p
<1>8. Len(p) = Len(w) - x /\ Len(p) <= ShipMax
  BY <1>5, <1>6
<1>9. late' \in Seq(Events)
  <2>1. SubSeq(batch, next + 1, Len(batch)) \in Seq(Events)
    <3>1. next + 1 \in Nat \ {0} /\ Len(batch) \in 0 .. Len(batch) /\ next + 1 <= Len(batch) + 1
      BY ShipLengths
    <3>2. QED
      BY <1>2, <3>1, PartOf
  <2>2. late \in Seq(Events) /\ late' \in {late, SubSeq(batch, next + 1, Len(batch))}
    BY DEF FlushFails, ShipIInv, ShipTypeOK
  <2>3. QED
    BY <2>1, <2>2
<1>10. <<>> \in Seq(Events) /\ Len(<<>>) = 0
  BY EmptySeq
<1>11. ShipTypeOK'
  <2>1. dropped' \in 0 .. MaxDropped /\ 0 \in 0 .. MaxDropped
    BY <1>1, <1>5, ShipLengths
  <2>2. shipFaults' \in 0 .. ShipFaults
    BY ShipBounds DEF FlushFails, ShipFault, ShipIInv, ShipTypeOK
  <2>3. Len(batch') = 0 /\ Len(batch') <= ShipMaxEvents /\ next' \in 0 .. Len(batch')
    BY <1>1, <1>10, ShipLengths
  <2>4. QED
    BY <1>1, <1>6, <1>8, <1>9, <1>10, <2>1, <2>2, <2>3 DEF ShipIInv, ShipTypeOK
<1>12. NoEventUncounted'
  <2>1. owed = Len(buf) + Len(batch) + dropped + took
    BY DEF ShipIInv, NoEventUncounted
  <2>2. owed = Len(p) + 0 + (dropped + took + x) + 0
    <3> DEFINE l == Len(buf)
               b == Len(batch)
               k == Len(p)
    <3>1. /\ l \in Nat /\ b \in Nat /\ dropped \in Nat /\ took \in Nat /\ x \in Nat
          /\ k = (b + l) - x /\ owed = l + b + dropped + took
      BY <1>3, <1>5, <1>8, <2>1, ShipLengths
    <3> HIDE DEF l, b, k
    <3>2. owed = k + 0 + (dropped + took + x) + 0
      BY <3>1
    <3>3. QED
      BY <3>2 DEF k
  <2>3. QED
    BY <1>1, <1>10, <2>2 DEF NoEventUncounted
<1>13. WaitInOrder'
  <2>1. InOrder(<<>>) /\ Before(<<>>, p) /\ ClosesAreUsed(<<>>, ids)
    BY <1>10 DEF InOrder, Before, ClosesAreUsed
  <2>2. QED
    BY <1>1, <1>7, <2>1 DEF WaitInOrder
<1>14. QED
  BY <1>1, <1>11, <1>12, <1>13 DEF ShipIInv, IdsAreFresh, TookInFlight, ClosedIsThere

LEMMA ShipKept ==
  ASSUME ShipIInv, [ShipNext]_shipVars
  PROVE  ShipIInv'
<1>1. CASE ReportTunnels
  BY <1>1 DEF ReportTunnels, ShipIInv, ShipTypeOK, NoEventUncounted, WaitInOrder, IdsAreFresh, TookInFlight,
     ClosedIsThere
<1>2. CASE ReportRejected
  <2>1. next' \in 0 .. Len(batch) /\ shipFaults' \in 0 .. ShipFaults
    BY <1>2, ShipLengths, ShipBounds DEF ReportRejected, ShipFault, ShipIInv, ShipTypeOK
  <2>2. QED
    BY <1>2, <2>1 DEF ReportRejected, ShipIInv, ShipTypeOK, NoEventUncounted, WaitInOrder, IdsAreFresh, TookInFlight,
       ClosedIsThere
<1>3. CASE UNCHANGED shipVars
  BY <1>3 DEF shipVars, ShipIInv, ShipTypeOK, NoEventUncounted, WaitInOrder, IdsAreFresh, TookInFlight, ClosedIsThere
<1>4. QED
  BY <1>1, <1>2, <1>3, TableKeeps, ReportingKeeps, NodeRestartsKeeps, FlushTakesKeeps, FlushOKKeeps, FlushFailsKeeps
     DEF ShipNext

LEMMA ShipImplies ==
  ASSUME ShipIInv
  PROVE  ShipInv
<1> DEFINE w == batch \o buf
<1>1. w \in Seq(Events) /\ InOrder(w)
  BY JoinedInOrder DEF ShipIInv, ShipTypeOK, WaitInOrder
<1>2. DOMAIN w = 1 .. Len(w)
  BY <1>1, LenProperties
<1>3. OpenNeverFollowsClose
  BY <1>1, <1>2 DEF OpenNeverFollowsClose, InOrder, Overtakes
<1>4. QED
  BY <1>3 DEF ShipIInv, ShipInv

\* No report vanishes without a count and none overtakes another, for any
\* size of the buffer and of a request and any number of lost answers,
\* crashes and retries (shipper.add, flush).
THEOREM ShipSound == ShipSpec => []ShipInv
<1>1. ShipInit => ShipIInv
  BY ShipInitial
<1>2. ShipIInv /\ [ShipNext]_shipVars => ShipIInv'
  BY ShipKept
<1>3. ShipIInv => ShipInv
  BY ShipImplies
<1>4. QED
  BY <1>1, <1>2, <1>3, PTL DEF ShipSpec

LEMMA CloseStep ==
  ASSUME ShipIInv, [ShipNext]_shipVars
  PROVE  [StaysClosed(rows, rows')]_rows
<1>1. UNCHANGED rows \/ NodeShipLogs \/ LateShipLogs \/ CloseStaleTunnels
      \/ \E t \in Tunnels : FallsSilent(t) \/ PruneTunnels(t)
  <2>1. CASE \E t \in Tunnels : TrackTunnel(t) \/ UntrackTunnel(t) \/ ReportOne(t)
    BY <2>1 DEF TrackTunnel, UntrackTunnel, ReportOne
  <2>2. CASE ReportTunnels \/ SessionBegins \/ NodeRestarts
    BY <2>2 DEF ReportTunnels, SessionBegins, NodeRestarts
  <2>3. CASE FlushTakes \/ FlushOK \/ FlushFails \/ ReportRejected
    BY <2>3 DEF FlushTakes, FlushOK, FlushFails, ReportRejected
  <2>4. CASE UNCHANGED shipVars
    BY <2>4 DEF shipVars
  <2>5. QED
    BY <2>1, <2>2, <2>3, <2>4 DEF ShipNext
<1>2. QED
  BY <1>1, HousekeepingTable, HandlerTable

\* A tunnel that was closed for a reason stays closed for that reason,
\* whatever arrives twice, late or out of order (UpsertTunnel,
\* CloseHubTunnels).
THEOREM ClosesAreFinal == ShipSpec => CloseIsFinal
<1>1. ShipInit => ShipIInv
  BY ShipInitial
<1>2. ShipIInv /\ [ShipNext]_shipVars => ShipIInv'
  BY ShipKept
<1>3. ShipIInv /\ [ShipNext]_shipVars =>
        [\A t \in Tunnels : rows[t].closed /\ rows[t].why # "silent" /\ rows'[t].there
                              => rows'[t].closed /\ rows'[t].why = rows[t].why]_rows
  BY CloseStep DEF StaysClosed
<1>4. QED
  BY <1>1, <1>2, <1>3, PTL DEF ShipSpec, CloseIsFinal

-----------------------------------------------------------------------------
(***************************************************************************)
(* TunnelReports, the log.  From each mark that is or will be used, the    *)
(* columns are filled; a batch only ever fills.  A client that pages has   *)
(* seen the matches from its cursor up.                                    *)
(***************************************************************************)
EventRecord == [attr : AttrValues, column : AttrValues \cup {NullColumn}]

LogTypes ==
    /\ LogTypeOK
    /\ events \in [Stored -> EventRecord]
    /\ pager \in [stage : {"idle", "asks", "reads", "done"}, value : AttrValues \cup {NullColumn},
                  mark : 0 .. Infinite, before : 0 .. Infinite, seen : SUBSET (1 .. MaxEvents),
                  start : SUBSET (1 .. MaxEvents)]

FilledFrom(m) == \A i \in Stored : i >= m => events[i].column = events[i].attr
MarksAreFilled ==
    /\ FilledFrom(watermark) /\ FilledFrom(mark)
    /\ filling # 0 => FilledFrom(filling)
    /\ pager.stage = "reads" => FilledFrom(pager.mark)
PagerHasSeen ==
    /\ pager.start \subseteq 1 .. lastId
    /\ pager.stage # "idle" =>
         \A i \in pager.start \cap Stored : events[i].attr = pager.value /\ (i >= pager.before => i \in pager.seen)
    /\ pager.stage \in {"asks", "reads"} => pager.value \in AttrValues

LogIInv == LogTypes /\ MarksAreFilled /\ PagerHasSeen /\ PagesAreComplete

\* The lowest of some ids.
LEMMA MinOf ==
  ASSUME NEW T \in SUBSET Nat, T # {}
  PROVE  Min(T) \in T /\ \A y \in T : Min(T) <= y
<1>1. PICK x \in T : \A y \in T : ~ (<<y, x>> \in OpToRel(<, Nat))
  BY NatLessThanWellFounded, WFMin, Zenon
<1>2. \A y \in T : ~ (y < x)
  BY <1>1 DEF OpToRel
<1>3. \A y \in T : x <= y
  BY <1>2
<1>4. QED
  BY <1>3 DEF Min

\* Some ids up to a bound have a highest.
LEMMA MaxOf ==
  ASSUME NEW b \in Nat, NEW T \in SUBSET (1 .. b), T # {}
  PROVE  \E x \in T : \A y \in T : y <= x
<1> DEFINE D == {d \in Nat : b - d \in T}
<1>1. D \in SUBSET Nat /\ D # {}
  <2>1. PICK x \in T : x \in 1 .. b
    OBVIOUS
  <2>2. b - x \in Nat /\ b - (b - x) = x
    BY <2>1
  <2>3. b - x \in D
    BY <2>1, <2>2
  <2>4. QED
    BY <2>3
<1>2. Min(D) \in D /\ \A y \in D : Min(D) <= y
  BY <1>1, MinOf
<1>3. Min(D) \in Nat /\ b - Min(D) \in T
  BY <1>2
<1>4. ASSUME NEW y \in T PROVE y <= b - Min(D)
  <2>1. y \in 1 .. b /\ b - y \in Nat /\ b - (b - y) = y
    OBVIOUS
  <2>2. b - y \in D
    BY <2>1
  <2>3. Min(D) <= b - y
    BY <1>2, <2>2
  <2> HIDE DEF D
  <2>4. QED
    BY <1>3, <2>1, <2>3
<1>5. QED
  BY <1>3, <1>4

\* A page of some ids: the newest ones, and all when it is not full.
PageOf(found) == {i \in found : Cardinality({j \in found : j > i}) < PageLimit}

LEMMA PageIsNewest ==
  ASSUME NEW found \in SUBSET (1 .. MaxEvents)
  PROVE  /\ IsFiniteSet(PageOf(found)) /\ Cardinality(PageOf(found)) \in Nat
         /\ \A i \in found, p \in PageOf(found) : i >= p => i \in PageOf(found)
         /\ Cardinality(PageOf(found)) < PageLimit => PageOf(found) = found
<1> DEFINE Up(i) == {j \in found : j > i}
<1>1. MaxEvents \in Nat /\ PageLimit \in Nat
  BY LogBounds
<1>2. IsFiniteSet(1 .. MaxEvents)
  BY <1>1, FS_Interval
<1>3. ASSUME NEW S \in SUBSET found PROVE IsFiniteSet(S) /\ Cardinality(S) \in Nat
  BY <1>2, FS_Subset, FS_CardinalityType
<1>4. PageOf(found) \in SUBSET found /\ \A i \in found : i \in PageOf(found) <=> Cardinality(Up(i)) < PageLimit
  BY DEF PageOf
<1>5. \A i : Up(i) \in SUBSET found
  OBVIOUS
<1>6. ASSUME NEW i \in found, NEW p \in PageOf(found), i >= p
      PROVE  i \in PageOf(found)
  <2>1. Up(i) \subseteq Up(p)
    <3> SUFFICES ASSUME NEW j \in found, j > i PROVE j > p
      OBVIOUS
    <3>1. p \in found
      BY <1>4
    <3>2. i \in Nat /\ j \in Nat /\ p \in Nat
      BY <1>1, <3>1
    <3>3. QED
      BY <1>6, <3>2
  <2>2. Cardinality(Up(i)) <= Cardinality(Up(p))
    <3> HIDE DEF Up
    <3>1. QED
      BY <1>3, <1>5, <2>1, FS_Subset
  <2>3. Cardinality(Up(p)) < PageLimit /\ Cardinality(Up(i)) \in Nat /\ Cardinality(Up(p)) \in Nat
    BY <1>3, <1>4, <1>5
  <2> HIDE DEF Up
  <2>4. Cardinality(Up(i)) < PageLimit
    BY <1>1, <2>2, <2>3
  <2>5. QED
    BY <1>4, <2>4
<1>7. ASSUME Cardinality(PageOf(found)) < PageLimit, PageOf(found) # found
      PROVE  FALSE
  <2>1. found \ PageOf(found) # {} /\ found \ PageOf(found) \in SUBSET (1 .. MaxEvents)
    BY <1>4, <1>7
  <2>2. PICK i \in found \ PageOf(found) : \A y \in found \ PageOf(found) : y <= i
    BY <1>1, <2>1, MaxOf
  <2>3. Up(i) \subseteq PageOf(found)
    <3> SUFFICES ASSUME NEW j \in found, j > i, j \notin PageOf(found) PROVE FALSE
      OBVIOUS
    <3>1. i \in Nat /\ j \in Nat /\ j <= i
      BY <1>1, <2>2
    <3>2. QED
      BY <3>1
  <2>4. Cardinality(Up(i)) <= Cardinality(PageOf(found))
    <3> HIDE DEF Up
    <3>1. QED
      BY <1>3, <1>4, <2>3, FS_Subset
  <2>5. ~(Cardinality(Up(i)) < PageLimit) /\ Cardinality(Up(i)) \in Nat /\ Cardinality(PageOf(found)) \in Nat
    BY <1>3, <1>4, <1>5, <2>2
  <2> HIDE DEF Up
  <2>6. QED
    BY <1>1, <1>7, <2>4, <2>5
<1>8. QED
  BY <1>3, <1>4, <1>6, <1>7

\* A filter is exact where the columns are filled from its mark.
LEMMA FilledIsExact ==
  ASSUME LogTypes, NEW m \in Nat, FilledFrom(m), NEW v
  PROVE  Matches(v, m) = Having(v)
<1>1. ASSUME NEW i \in Stored
      PROVE  i \in Nat /\ i >= 1
  BY LogBounds DEF LogTypes, LogTypeOK
<1>2. CASE m <= 1
  <2>1. \A i \in Stored : events[i].column = events[i].attr
    BY <1>1, <1>2 DEF FilledFrom
  <2>2. QED
    BY <1>2, <2>1 DEF Matches, Having
<1>3. CASE ~(m <= 1)
  <2>1. \A i \in Stored : (i >= m /\ events[i].column = events[i].attr) \/ (i < m /\ ~(i >= m))
    BY <1>1 DEF FilledFrom
  <2>2. QED
    BY <1>3, <2>1 DEF Matches, Having
<1>4. QED
  BY <1>2, <1>3

LEMMA LowestIsId ==
  ASSUME LogTypes
  PROVE  Lowest(mark) \in 1 .. Infinite
<1> DEFINE newest == {i \in Below(mark) : Cardinality({j \in Below(mark) : j > i}) < BackfillBatch}
<1>1. newest \subseteq 1 .. Infinite /\ 1 \in 1 .. Infinite /\ newest \in SUBSET Nat
  <2>1. newest \subseteq Stored
    BY DEF Below
  <2>2. Stored \subseteq 1 .. Infinite /\ 1 \in 1 .. Infinite /\ Stored \in SUBSET Nat
    BY LogBounds DEF LogTypes, LogTypeOK, Infinite
  <2>3. QED
    BY <2>1, <2>2
<1>2. Lowest(mark) = IF newest = {} THEN 1 ELSE Min(newest)
  BY DEF Lowest
<1> HIDE DEF newest
<1>3. QED
  BY <1>1, <1>2, MinOf

LEMMA LogInitial ==
  ASSUME LogInit
  PROVE  LogIInv
<1>1. PICK v \in [1 .. OldEvents -> AttrValues] :
        events = [i \in 1 .. OldEvents |-> [attr |-> v[i], column |-> NullColumn]]
  BY DEF LogInit
<1>2. Stored = 1 .. OldEvents /\ events \in [Stored -> EventRecord]
  BY <1>1 DEF Stored, EventRecord
<1>3. MaxEvents \in Nat /\ OldEvents \in Nat /\ OldEvents <= MaxEvents /\ Infinite = MaxEvents + 1 /\ MaxRestarts \in Nat
  BY LogBounds DEF Infinite
<1>4. /\ lastId = OldEvents /\ watermark = OldEvents + 1 /\ mark = OldEvents + 1 /\ filling = 0 /\ restarts = MaxRestarts
      /\ pager = NoPager
  BY DEF LogInit
<1>5. /\ pager \in [stage : {"idle", "asks", "reads", "done"}, value : AttrValues \cup {NullColumn},
                    mark : 0 .. Infinite, before : 0 .. Infinite, seen : SUBSET (1 .. MaxEvents),
                    start : SUBSET (1 .. MaxEvents)]
      /\ pager.stage = "idle" /\ pager.seen = {} /\ pager.start = {}
  BY <1>3, <1>4 DEF NoPager
<1>6. LogTypeOK
  <2>1. \A i \in Stored : events[i].attr \in AttrValues /\ events[i].column \in AttrValues \cup {NullColumn}
    BY <1>2 DEF EventRecord
  <2>2. lastId \in 0 .. MaxEvents /\ watermark \in 1 .. Infinite /\ mark \in 1 .. Infinite /\ filling \in 0 .. Infinite
        /\ restarts \in 0 .. MaxRestarts
    BY <1>3, <1>4
  <2>3. QED
    BY <1>2, <1>4, <1>5, <2>1, <2>2 DEF LogTypeOK
<1>7. FilledFrom(OldEvents + 1)
  BY <1>2, <1>3 DEF FilledFrom
<1>8. QED
  BY <1>2, <1>4, <1>5, <1>6, <1>7 DEF LogIInv, LogTypes, MarksAreFilled, PagerHasSeen, PagesAreComplete

\* A writer: what was filled stays filled, what is kept keeps its attribute.
LEMMA WriterKeeps ==
  ASSUME LogIInv, UNCHANGED pager, LogTypes',
         watermark' = watermark \/ FilledFrom(watermark)', mark' = mark \/ FilledFrom(mark)',
         filling' = filling \/ filling' = 0 \/ FilledFrom(filling)',
         lastId' \in Nat, lastId' >= lastId,
         \A i \in Stored' : i > lastId \/ (i \in Stored /\ events'[i].attr = events[i].attr),
         \A i \in Stored' : \/ events'[i].column = events'[i].attr
                            \/ i \in Stored /\ events'[i] = events[i]
  PROVE  LogIInv'
<1>1. lastId \in Nat
  BY LogBounds DEF LogIInv, LogTypes, LogTypeOK
<1>2. ASSUME NEW m, FilledFrom(m) PROVE \A i \in Stored' : i >= m => events'[i].column = events'[i].attr
  BY <1>2 DEF FilledFrom
<1>3. MarksAreFilled'
  <2>1. FilledFrom(watermark)'
    <3>1. CASE watermark' = watermark
      BY <1>2, <3>1 DEF LogIInv, MarksAreFilled, FilledFrom
    <3>2. QED
      BY <3>1
  <2>2. FilledFrom(mark)'
    <3>1. CASE mark' = mark
      BY <1>2, <3>1 DEF LogIInv, MarksAreFilled, FilledFrom
    <3>2. QED
      BY <3>1
  <2>3. (filling # 0 => FilledFrom(filling))'
    <3>1. CASE filling' = filling
      BY <1>2, <3>1 DEF LogIInv, MarksAreFilled, FilledFrom
    <3>2. QED
      BY <3>1
  <2>4. (pager.stage = "reads" => FilledFrom(pager.mark))'
    BY <1>2 DEF LogIInv, MarksAreFilled, FilledFrom
  <2>5. QED
    BY <2>1, <2>2, <2>3, <2>4 DEF MarksAreFilled
<1>4. ASSUME NEW i \in pager.start, i \in Stored'
      PROVE  i \in Stored /\ events'[i].attr = events[i].attr
  <2>1. i \in 1 .. lastId
    BY DEF LogIInv, PagerHasSeen
  <2>2. ~(i > lastId)
    BY <1>1, <2>1
  <2>3. QED
    BY <1>4, <2>2
<1>5. pager.start \subseteq 1 .. lastId'
  BY <1>1 DEF LogIInv, PagerHasSeen
<1>6. PagerHasSeen' /\ PagesAreComplete'
  BY <1>4, <1>5 DEF LogIInv, PagerHasSeen, PagesAreComplete
<1>7. QED
  BY <1>3, <1>6 DEF LogIInv

LEMMA InsertLogsKeeps ==
  ASSUME LogIInv, NEW v \in AttrValues, InsertLogs(v)
  PROVE  LogIInv'
<1>1. /\ lastId < MaxEvents /\ lastId' = lastId + 1
      /\ events' = [i \in Stored \cup {lastId + 1} |-> IF i \in Stored THEN events[i] ELSE Event(v)]
      /\ UNCHANGED <<watermark, mark, filling, pager, restarts>>
  BY DEF InsertLogs
<1>2. lastId \in Nat /\ MaxEvents \in Nat /\ lastId' \in 0 .. MaxEvents /\ Stored \subseteq 1 .. lastId /\ lastId + 1 > lastId
      /\ lastId' \in Nat /\ lastId' >= lastId
  BY <1>1, LogBounds DEF LogIInv, LogTypes, LogTypeOK
<1>3. Event(v) \in EventRecord /\ Event(v).column = Event(v).attr
  BY DEF Event, EventRecord
<1>4. Stored' = Stored \cup {lastId + 1} /\ Stored' \subseteq 1 .. lastId'
  BY <1>1, <1>2 DEF Stored
<1>5. ASSUME NEW i \in Stored'
      PROVE  \/ i \in Stored /\ events'[i] = events[i] /\ events[i] \in EventRecord
             \/ i > lastId /\ events'[i] = Event(v)
  BY <1>1, <1>2, <1>4 DEF LogIInv, LogTypes
<1>6. LogTypes'
  <2>1. \A i \in Stored' : events'[i] \in EventRecord
    BY <1>3, <1>5
  <2>2. events' \in [Stored' -> EventRecord]
    BY <1>1, <1>4, <2>1
  <2>3. \A i \in Stored' : events'[i].attr \in AttrValues /\ events'[i].column \in AttrValues \cup {NullColumn}
    BY <2>1 DEF EventRecord
  <2>4. QED
    BY <1>1, <1>2, <1>4, <2>2, <2>3 DEF LogIInv, LogTypes, LogTypeOK, Infinite
<1>7. \A i \in Stored' : i > lastId \/ (i \in Stored /\ events'[i].attr = events[i].attr)
  BY <1>5
<1>8. \A i \in Stored' : events'[i].column = events'[i].attr \/ (i \in Stored /\ events'[i] = events[i])
  BY <1>3, <1>5
<1>9. QED
  BY <1>1, <1>2, <1>6, <1>7, <1>8, WriterKeeps

LEMMA PruneLogsKeeps ==
  ASSUME LogIInv, NEW gone \in SUBSET Stored, PruneLogs(gone)
  PROVE  LogIInv'
<1>1. events' = [i \in Stored \ gone |-> events[i]] /\ UNCHANGED <<lastId, watermark, mark, filling, pager, restarts>>
  BY DEF PruneLogs
<1>2. Stored' = Stored \ gone
  BY <1>1 DEF Stored
<1>3. \A i \in Stored' : i \in Stored /\ events'[i] = events[i] /\ events[i] \in EventRecord
  BY <1>1, <1>2 DEF LogIInv, LogTypes
<1>4. events' \in [Stored' -> EventRecord]
  BY <1>1, <1>2, <1>3
<1>5. LogTypes'
  BY <1>1, <1>2, <1>3, <1>4 DEF LogIInv, LogTypes, LogTypeOK, Infinite
<1>6. lastId' \in Nat /\ lastId' >= lastId
  BY <1>1, LogBounds DEF LogIInv, LogTypes, LogTypeOK
<1>7. QED
  BY <1>1, <1>3, <1>5, <1>6, WriterKeeps

LEMMA BackfillKeeps ==
  ASSUME LogIInv, BackfillLogColumns
  PROVE  LogIInv'
<1> DEFINE lowest == Lowest(mark)
<1>1. /\ watermark' = lowest /\ filling' = lowest /\ UNCHANGED <<lastId, mark, pager, restarts>>
      /\ events' = [i \in Stored |-> IF i >= lowest /\ i < mark THEN [events[i] EXCEPT !.column = events[i].attr]
                                     ELSE events[i]]
  BY DEF BackfillLogColumns
<1>2. lowest \in 1 .. Infinite
  BY LowestIsId DEF LogIInv
<1> HIDE DEF lowest
<1>3. Stored' = Stored /\ Stored \subseteq Nat /\ mark \in Nat /\ lowest \in Nat
  BY <1>1, <1>2, LogBounds DEF Stored, LogIInv, LogTypes, LogTypeOK, Infinite
<1>4. ASSUME NEW i \in Stored
      PROVE  /\ events'[i] \in EventRecord /\ events'[i].attr = events[i].attr
             /\ events'[i] = events[i] \/ events'[i].column = events'[i].attr
             /\ i >= lowest /\ i < mark => events'[i].column = events'[i].attr
  <2>1. events[i] \in EventRecord
    BY DEF LogIInv, LogTypes
  <2>2. CASE i >= lowest /\ i < mark
    <3> DEFINE e == [events[i] EXCEPT !.column = events[i].attr]
    <3>1. e \in EventRecord /\ e.attr = events[i].attr /\ e.column = e.attr
      BY <2>1 DEF EventRecord
    <3>2. events'[i] = e
      BY <1>1, <2>2
    <3> HIDE DEF e
    <3>3. QED
      BY <3>1, <3>2
  <2>3. CASE ~(i >= lowest /\ i < mark)
    BY <1>1, <2>1, <2>3
  <2>4. QED
    BY <2>2, <2>3
<1>5. \A i \in Stored' : i >= lowest => events'[i].column = events'[i].attr
  <2> SUFFICES ASSUME NEW i \in Stored, i >= lowest PROVE events'[i].column = events'[i].attr
    BY <1>3
  <2>1. CASE i < mark
    BY <1>4, <2>1
  <2>2. CASE ~(i < mark)
    <3>1. i >= mark
      BY <1>3, <2>2
    <3>2. events[i].column = events[i].attr
      BY <3>1 DEF LogIInv, MarksAreFilled, FilledFrom
    <3>3. QED
      BY <1>4, <3>2
  <2>3. QED
    BY <2>1, <2>2
<1>6. FilledFrom(watermark)' /\ FilledFrom(filling)'
  BY <1>1, <1>5 DEF FilledFrom
<1>7. LogTypes'
  <2>1. events' \in [Stored' -> EventRecord]
    BY <1>1, <1>3, <1>4
  <2>2. \A i \in Stored' : events'[i].attr \in AttrValues /\ events'[i].column \in AttrValues \cup {NullColumn}
    BY <1>3, <1>4 DEF EventRecord
  <2>3. watermark' \in 1 .. Infinite /\ filling' \in 0 .. Infinite
    BY <1>1, <1>2, LogBounds DEF Infinite
  <2>4. QED
    BY <1>1, <1>3, <2>1, <2>2, <2>3 DEF LogIInv, LogTypes, LogTypeOK, Infinite
<1>8. lastId' \in Nat /\ lastId' >= lastId
  BY <1>1, LogBounds DEF LogIInv, LogTypes, LogTypeOK
<1>9. QED
  BY <1>1, <1>3, <1>4, <1>6, <1>7, <1>8, WriterKeeps

LEMMA StoresKeeps ==
  ASSUME LogIInv, BackfillStores
  PROVE  LogIInv'
<1>1. filling # 0 /\ mark' = filling /\ filling' = 0 /\ UNCHANGED <<events, lastId, watermark, pager, restarts>>
  BY DEF BackfillStores
<1>2. mark' \in 1 .. Infinite /\ filling' \in 0 .. Infinite
  BY <1>1, LogBounds DEF LogIInv, LogTypes, LogTypeOK, Infinite
<1>3. LogTypes'
  BY <1>1, <1>2 DEF LogIInv, LogTypes, LogTypeOK, Infinite, Stored
<1>4. QED
  BY <1>1, <1>3 DEF LogIInv, MarksAreFilled, FilledFrom, Stored, PagerHasSeen, PagesAreComplete

LEMMA RestartKeeps ==
  ASSUME LogIInv, Restart
  PROVE  LogIInv'
<1>1. /\ restarts > 0 /\ restarts' = restarts - 1 /\ mark' \in {watermark, Infinite} /\ filling' = 0 /\ pager' = NoPager
      /\ UNCHANGED <<events, lastId, watermark>>
  BY DEF Restart
<1>2. /\ mark' \in 1 .. Infinite /\ filling' \in 0 .. Infinite /\ restarts' \in 0 .. MaxRestarts
  BY <1>1, LogBounds DEF LogIInv, LogTypes, LogTypeOK, Infinite
<1>3. /\ pager' \in [stage : {"idle", "asks", "reads", "done"}, value : AttrValues \cup {NullColumn},
                     mark : 0 .. Infinite, before : 0 .. Infinite, seen : SUBSET (1 .. MaxEvents),
                     start : SUBSET (1 .. MaxEvents)]
      /\ pager'.stage = "idle" /\ pager'.seen = {} /\ pager'.start = {}
  BY <1>1, LogBounds DEF NoPager, Infinite
<1>4. FilledFrom(Infinite)
  <2>1. MaxEvents \in Nat /\ lastId \in 0 .. MaxEvents /\ Stored \subseteq 1 .. lastId
    BY LogBounds DEF LogIInv, LogTypes, LogTypeOK
  <2>2. \A i \in Stored : ~(i >= MaxEvents + 1)
    BY <2>1
  <2>3. QED
    BY <2>2 DEF FilledFrom, Infinite
<1>5. FilledFrom(mark)'
  BY <1>1, <1>4 DEF FilledFrom, Stored, Infinite, LogIInv, MarksAreFilled
<1>6. LogTypes'
  BY <1>1, <1>2, <1>3 DEF LogIInv, LogTypes, LogTypeOK, Infinite, Stored
<1>7. MarksAreFilled'
  BY <1>1, <1>3, <1>5 DEF LogIInv, MarksAreFilled, FilledFrom, Stored
<1>8. QED
  BY <1>3, <1>6, <1>7 DEF LogIInv, PagerHasSeen, PagesAreComplete

\* A reader leaves the log as it is.
LEMMA ReaderKeeps ==
  ASSUME LogIInv, UNCHANGED <<events, lastId, watermark, mark, filling, restarts>>,
         pager' \in [stage : {"idle", "asks", "reads", "done"}, value : AttrValues \cup {NullColumn},
                     mark : 0 .. Infinite, before : 0 .. Infinite, seen : SUBSET (1 .. MaxEvents),
                     start : SUBSET (1 .. MaxEvents)],
         pager'.stage = "reads" => FilledFrom(pager'.mark), PagerHasSeen', PagesAreComplete'
  PROVE  LogIInv'
<1>1. Stored' = Stored
  BY DEF Stored
<1>2. LogTypes'
  BY <1>1 DEF LogIInv, LogTypes, LogTypeOK, Infinite
<1>3. MarksAreFilled'
  BY <1>1 DEF LogIInv, MarksAreFilled, FilledFrom
<1>4. QED
  BY <1>2, <1>3 DEF LogIInv

LEMMA PagerBeginsKeeps ==
  ASSUME LogIInv, NEW v \in AttrValues, PagerBegins(v)
  PROVE  LogIInv'
<1> DEFINE q == [stage |-> "asks", value |-> v, mark |-> 0, before |-> Infinite, seen |-> {}, start |-> Having(v)]
<1>1. pager' = q /\ UNCHANGED <<events, lastId, watermark, mark, filling, restarts>>
  BY DEF PagerBegins
<1>2. MaxEvents \in Nat /\ lastId \in 0 .. MaxEvents /\ Stored \subseteq 1 .. lastId /\ Having(v) \subseteq Stored
      /\ Infinite = MaxEvents + 1
  BY LogBounds DEF LogIInv, LogTypes, LogTypeOK, Having, Infinite
<1>3. 0 \in 0 .. Infinite /\ Infinite \in 0 .. Infinite /\ Having(v) \in SUBSET (1 .. MaxEvents) /\ Having(v) \subseteq 1 .. lastId
  <2>1. 0 \in 0 .. Infinite /\ Infinite \in 0 .. Infinite
    BY <1>2
  <2>2. 1 .. lastId \subseteq 1 .. MaxEvents
    BY <1>2
  <2>3. QED
    BY <1>2, <2>1, <2>2
<1>4. /\ q \in [stage : {"idle", "asks", "reads", "done"}, value : AttrValues \cup {NullColumn},
                mark : 0 .. Infinite, before : 0 .. Infinite, seen : SUBSET (1 .. MaxEvents),
                start : SUBSET (1 .. MaxEvents)]
      /\ q.stage = "asks" /\ q.value = v /\ q.before = Infinite /\ q.start = Having(v)
  BY <1>3
<1> HIDE DEF q
<1>5. \A i \in Having(v) : events[i].attr = v /\ ~(i >= Infinite)
  <2> SUFFICES ASSUME NEW i \in Having(v) PROVE events[i].attr = v /\ ~(i >= Infinite)
    OBVIOUS
  <2>1. i \in 1 .. lastId
    BY <1>3
  <2>2. ~(i >= MaxEvents + 1)
    BY <1>2, <2>1
  <2>3. QED
    BY <1>2, <2>2 DEF Having
<1>6. PagerHasSeen' /\ PagesAreComplete'
  BY <1>1, <1>3, <1>4, <1>5 DEF PagerHasSeen, PagesAreComplete
<1>7. QED
  BY <1>1, <1>4, <1>6, ReaderKeeps

LEMMA LoadsMarkKeeps ==
  ASSUME LogIInv, LoadsMark
  PROVE  LogIInv'
<1> DEFINE q == [pager EXCEPT !.stage = "reads", !.mark = mark]
<1>1. pager.stage = "asks" /\ pager' = q /\ UNCHANGED <<events, lastId, watermark, mark, filling, restarts>>
  BY DEF LoadsMark
<1>2. mark \in 0 .. Infinite
  BY LogBounds DEF LogIInv, LogTypes, LogTypeOK, Infinite
<1>3. /\ q \in [stage : {"idle", "asks", "reads", "done"}, value : AttrValues \cup {NullColumn},
                mark : 0 .. Infinite, before : 0 .. Infinite, seen : SUBSET (1 .. MaxEvents),
                start : SUBSET (1 .. MaxEvents)]
      /\ q.stage = "reads" /\ q.value = pager.value /\ q.before = pager.before /\ q.start = pager.start
      /\ q.seen = pager.seen /\ q.mark = mark
  BY <1>2 DEF LogIInv, LogTypes
<1> HIDE DEF q
<1>4. FilledFrom(mark)
  BY DEF LogIInv, MarksAreFilled
<1>5. PagerHasSeen' /\ PagesAreComplete'
  BY <1>1, <1>3 DEF LogIInv, PagerHasSeen, PagesAreComplete, Stored
<1>6. QED
  BY <1>1, <1>3, <1>4, <1>5, ReaderKeeps

LEMMA PagerEndsKeeps ==
  ASSUME LogIInv, PagerEnds
  PROVE  LogIInv'
<1>1. pager' = NoPager /\ UNCHANGED <<events, lastId, watermark, mark, filling, restarts>>
  BY DEF PagerEnds
<1>2. /\ pager' \in [stage : {"idle", "asks", "reads", "done"}, value : AttrValues \cup {NullColumn},
                     mark : 0 .. Infinite, before : 0 .. Infinite, seen : SUBSET (1 .. MaxEvents),
                     start : SUBSET (1 .. MaxEvents)]
      /\ pager'.stage = "idle" /\ pager'.seen = {} /\ pager'.start = {}
  BY <1>1, LogBounds DEF NoPager, Infinite
<1>3. PagerHasSeen' /\ PagesAreComplete'
  BY <1>2 DEF PagerHasSeen, PagesAreComplete
<1>4. QED
  BY <1>1, <1>2, <1>3, ReaderKeeps

\* A page: what lies from the new cursor up was seen before or is in it.
LEMMA ListLogsKeeps ==
  ASSUME LogIInv, ListLogs
  PROVE  LogIInv'
<1> DEFINE found == {i \in Matches(pager.value, pager.mark) : i < pager.before}
           page == PageOf(found)
           q == [pager EXCEPT !.stage = IF Cardinality(page) < PageLimit THEN "done" ELSE "asks",
                              !.mark = 0, !.seen = @ \cup page, !.before = IF page = {} THEN @ ELSE Min(page)]
<1>1. pager.stage = "reads" /\ pager' = q /\ UNCHANGED <<events, lastId, watermark, mark, filling, restarts>>
  BY DEF ListLogs, PageOf
<1>2. MaxEvents \in Nat /\ lastId \in 0 .. MaxEvents /\ Stored \subseteq 1 .. lastId /\ Infinite = MaxEvents + 1
      /\ pager.mark \in Nat /\ pager.before \in Nat /\ pager.before \in 0 .. Infinite
  BY LogBounds DEF LogIInv, LogTypes, LogTypeOK, Infinite
<1>3. Matches(pager.value, pager.mark) = Having(pager.value)
  BY <1>1, <1>2, FilledIsExact DEF LogIInv, MarksAreFilled
<1>4. found \subseteq Stored /\ \A i \in Stored : i \in found <=> events[i].attr = pager.value /\ i < pager.before
  BY <1>3 DEF Having
<1> HIDE DEF found
<1>5. Stored \in SUBSET (1 .. MaxEvents) /\ found \in SUBSET (1 .. MaxEvents)
  BY <1>2, <1>4
<1>6. /\ Cardinality(page) \in Nat
      /\ \A i \in found, p \in page : i >= p => i \in page
      /\ Cardinality(page) < PageLimit => page = found
  BY <1>5, PageIsNewest
<1>7. page \in SUBSET found /\ page \in SUBSET (1 .. MaxEvents) /\ page \in SUBSET Nat
  <2>1. page \subseteq found
    BY DEF PageOf
  <2>2. 1 .. MaxEvents \subseteq Nat
    BY <1>2
  <2> HIDE DEF page
  <2>3. QED
    BY <1>5, <2>1, <2>2
<1>8. page # {} => Min(page) \in page /\ Min(page) \in 0 .. Infinite
  <2>1. page # {} => Min(page) \in page
    BY <1>7, MinOf
  <2>2. \A x \in 1 .. MaxEvents : x \in 0 .. Infinite
    BY <1>2
  <2>3. QED
    BY <1>7, <2>1, <2>2
<1> HIDE DEF page
<1>9. /\ q \in [stage : {"idle", "asks", "reads", "done"}, value : AttrValues \cup {NullColumn},
                mark : 0 .. Infinite, before : 0 .. Infinite, seen : SUBSET (1 .. MaxEvents),
                start : SUBSET (1 .. MaxEvents)]
      /\ q.value = pager.value /\ q.start = pager.start /\ q.seen = pager.seen \cup page
      /\ q.stage = (IF Cardinality(page) < PageLimit THEN "done" ELSE "asks")
      /\ q.before = (IF page = {} THEN pager.before ELSE Min(page))
  <2>1. 0 \in 0 .. Infinite
    BY <1>2
  <2>2. pager.seen \cup page \in SUBSET (1 .. MaxEvents)
    BY <1>7 DEF LogIInv, LogTypes
  <2>3. (IF page = {} THEN pager.before ELSE Min(page)) \in 0 .. Infinite
    BY <1>2, <1>8
  <2>4. QED
    BY <2>1, <2>2, <2>3 DEF LogIInv, LogTypes
<1> HIDE DEF q
<1>10. ASSUME NEW i \in pager.start, i \in Stored
       PROVE  /\ events[i].attr = pager.value /\ i \in Nat
              /\ i >= pager.before \/ i \in found
              /\ i >= pager.before => i \in pager.seen
  <2>1. events[i].attr = pager.value /\ (i >= pager.before => i \in pager.seen)
    BY <1>1, <1>10 DEF LogIInv, PagerHasSeen
  <2>2. i \in Nat
    <3>1. i \in 1 .. lastId
      BY <1>2, <1>10
    <3>2. QED
      BY <3>1
  <2>3. i >= pager.before \/ i < pager.before
    BY <1>2, <2>2
  <2>4. QED
    BY <1>4, <1>10, <2>1, <2>2, <2>3
<1>11. ASSUME NEW i \in pager.start, i \in Stored, i >= q.before
       PROVE  i \in q.seen
  <2>1. CASE i >= pager.before
    BY <1>9, <1>10, <1>11, <2>1
  <2>2. CASE ~(i >= pager.before)
    <3>1. i \in found
      BY <1>10, <1>11, <2>2
    <3>2. page # {} /\ i >= Min(page)
      BY <1>9, <1>11, <2>2
    <3>3. i \in page
      BY <1>6, <1>8, <3>1, <3>2
    <3>4. QED
      BY <1>9, <3>3
  <2>3. QED
    BY <2>1, <2>2
<1>12. PagerHasSeen'
  <2>1. pager.value \in AttrValues /\ pager.start \subseteq 1 .. lastId
    BY <1>1 DEF LogIInv, PagerHasSeen
  <2>2. Stored' = Stored
    BY <1>1 DEF Stored
  <2>3. QED
    BY <1>1, <1>9, <1>10, <1>11, <2>1, <2>2 DEF PagerHasSeen
<1>13. PagesAreComplete'
  <2> SUFFICES ASSUME q.stage = "done", NEW i \in pager.start, i \in Stored PROVE i \in q.seen
    BY <1>1, <1>9 DEF PagesAreComplete, Stored
  <2>1. page = found
    BY <1>6, <1>9
  <2>2. QED
    BY <1>9, <1>10, <2>1
<1>14. QED
  BY <1>1, <1>9, <1>12, <1>13, ReaderKeeps

LEMMA LogKept ==
  ASSUME LogIInv, [LogNext]_logVars
  PROVE  LogIInv'
<1>1. CASE LogNext
  BY <1>1, InsertLogsKeeps, PagerBeginsKeeps, PruneLogsKeeps, BackfillKeeps, StoresKeeps, RestartKeeps, LoadsMarkKeeps,
     ListLogsKeeps, PagerEndsKeeps DEF LogNext
<1>2. CASE UNCHANGED logVars
  BY <1>2 DEF logVars, LogIInv, LogTypes, LogTypeOK, Infinite, Stored, MarksAreFilled, FilledFrom, PagerHasSeen,
     PagesAreComplete
<1>3. QED
  BY <1>1, <1>2

LEMMA LogImplies ==
  ASSUME LogIInv
  PROVE  LogInv
<1>1. mark \in Nat /\ pager.mark \in Nat
  BY LogBounds DEF LogIInv, LogTypes, LogTypeOK, Infinite
<1>2. QueryIsExact
  BY <1>1, FilledIsExact DEF QueryIsExact, LogIInv, MarksAreFilled
<1>3. QED
  BY <1>2 DEF LogIInv, LogTypes, LogInv

\* A filter finds exactly the events that have the value and a client that
\* pages to the end misses none, for any number of events, size of a batch
\* or of a page, while the columns are filled, events come and go and the
\* control plane restarts (where, ListLogs, BackfillLogColumns).
THEOREM LogSound == LogSpec => []LogInv
<1>1. LogInit => LogIInv
  BY LogInitial
<1>2. LogIInv /\ [LogNext]_logVars => LogIInv'
  BY LogKept
<1>3. LogIInv => LogInv
  BY LogImplies
<1>4. QED
  BY <1>1, <1>2, <1>3, PTL DEF LogSpec

-----------------------------------------------------------------------------
(***************************************************************************)
(* The machine: no step of one part disturbs another.  All but the engine  *)
(* needs no assumption on callers.                                         *)
(***************************************************************************)
HostIInv ==
    /\ SepIInv /\ NoBackoffWithoutKey /\ TunIInv /\ UpdateIInv /\ WatchIInv /\ LogIInv /\ ShipIInv

LEMMA HostInitial ==
  ASSUME HostInit
  PROVE  HostIInv
<1>1. SepInit /\ TunInit /\ UpdateInit /\ ShipInit /\ EngineInit /\ WatchInit /\ LogInit
  BY DEF HostInit
<1>2. NoBackoffWithoutKey
  BY <1>1 DEF SepInit, NoBackoffWithoutKey
<1>3. QED
  BY <1>1, <1>2, SepStarts, TunInitial, UpdateInitial, ShipInitial, WatchInitial, LogInitial DEF HostIInv

\* A step of the machine is a step of each part, or leaves it alone.
LEMMA HostParts ==
  ASSUME [HostNext]_hostVars
  PROVE  /\ [SepNext]_sepVars /\ [TunNext]_tunVars /\ [EngineNext]_engineVars /\ [UpdateNext]_updateVars
         /\ [WatchNext]_watchVars /\ [LogNext]_logVars /\ [ShipNext]_shipVars
<1>1. CASE HostNext
  BY <1>1 DEF HostNext
<1>2. CASE UNCHANGED hostVars
  BY <1>2 DEF hostVars
<1>3. QED
  BY <1>1, <1>2

LEMMA HostKept ==
  ASSUME HostIInv, [HostNext]_hostVars
  PROVE  HostIInv'
BY HostParts, SepKept, ForgottenStep, TunKept, UpdateKept, WatchKept, LogKept, ShipKept DEF HostIInv

LEMMA HostImplies ==
  ASSUME HostIInv
  PROVE  SepInv /\ ReportsInv /\ DeviceInv /\ UpdateInv
<1>1. SepInv /\ ShipInv /\ LogInv /\ WatchInv
  BY SepImplies, ShipImplies, LogImplies, WatchImplies DEF HostIInv
<1>2. TunInv
  BY DEF HostIInv, TunIInv, TunInv, TunTypes
<1>3. UpdateInv
  BY DEF HostIInv, UpdateIInv, UpdateInv
<1>4. QED
  BY <1>1, <1>2, <1>3 DEF ReportsInv, DeviceInv

\* What is promised around the node holds of the machine, whoever calls: the
\* next worker starts clean (superviseWorker), reports and log are exact
\* (shipper, BackfillLogColumns).
THEOREM HostSound == HostSpec => [](SepInv /\ ReportsInv)
<1>1. HostInit => HostIInv
  BY HostInitial
<1>2. HostIInv /\ [HostNext]_hostVars => HostIInv'
  BY HostKept
<1>3. HostIInv => SepInv /\ ReportsInv
  BY HostImplies
<1>4. QED
  BY <1>1, <1>2, <1>3, PTL DEF HostSpec

\* An app's device survives its replacement and is given back whole (swapTUN),
\* and no change of the default routes is lost (watch_linux.go), on the
\* machine as alone.
THEOREM DeviceSound == HostSpec => []DeviceInv
<1>1. HostInit => HostIInv
  BY HostInitial
<1>2. HostIInv /\ [HostNext]_hostVars => HostIInv'
  BY HostKept
<1>3. HostIInv => DeviceInv
  BY HostImplies
<1>4. QED
  BY <1>1, <1>2, <1>3, PTL DEF HostSpec

\* There is always an app to start and only a newer one is offered (update),
\* and the engine inside it loses no node when it serves one configure
\* request at a time (embed).
THEOREM AppSound ==
  ASSUME OneCaller
  PROVE  HostSpec => []AppInv
<1>1. HostInit => HostIInv /\ EngineIInv
  BY HostInitial, EngineInitial DEF HostInit
<1>2. (HostIInv /\ EngineIInv) /\ [HostNext]_hostVars => (HostIInv /\ EngineIInv)'
  BY HostKept, HostParts, EngineKept
<1>3. HostIInv /\ EngineIInv => AppInv
  <2> SUFFICES ASSUME HostIInv, EngineIInv PROVE AppInv
    OBVIOUS
  <2>1. UpdateInv
    BY HostImplies
  <2>2. EngineInv
    BY DEF EngineIInv, EngineInv, EngineTypes, OneAtATime, StoppedRunsNothing
  <2>3. QED
    BY <2>1, <2>2 DEF AppInv
<1>4. QED
  BY <1>1, <1>2, <1>3, PTL DEF HostSpec

\* No step of the machine reopens a tunnel that was closed for a reason,
\* connects without an update to follow, or starts a worker without an
\* identity.
THEOREM HostStepsSound == HostSpec => HostSteps
<1>1. HostInit => HostIInv
  BY HostInitial
<1>2. HostIInv /\ [HostNext]_hostVars => HostIInv'
  BY HostKept
<1>3. HostIInv /\ [HostNext]_hostVars =>
        [\A t \in Tunnels : rows[t].closed /\ rows[t].why # "silent" /\ rows'[t].there
                              => rows'[t].closed /\ rows'[t].why = rows[t].why]_rows
  BY HostParts, CloseStep DEF HostIInv, StaysClosed
<1>4. HostIInv /\ [HostNext]_hostVars => [current = None /\ current' # None /\ up' => forUpdate]_updateVars
  BY HostParts, ConnectingStep DEF HostIInv
<1>5. HostIInv /\ [HostNext]_hostVars => [keyGone => number' = number]_sepVars
  BY HostParts, ForgottenStep DEF HostIInv
<1>6. QED
  BY <1>1, <1>2, <1>3, <1>4, <1>5, PTL DEF HostSpec, HostSteps, CloseIsFinal, ConnectsOnlyAfterUpdate,
     ForgottenEndsService

=============================================================================
