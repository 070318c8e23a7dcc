----------------------------- MODULE Enrollment -----------------------------
(***************************************************************************)
(* How a node comes to its control plane: the key of the control plane is  *)
(* pinned once, as a person accepted it (Node.confirmPin, filePin,         *)
(* anchors.Files.SetPin); every handshake of the control channel is held   *)
(* against the pin (ClientTLSConfigControl); then the node asks to be      *)
(* enrolled and follows what the control plane says of it (Node.Enroll,    *)
(* Node.Run), which it keeps in a file for the next start.                 *)
(*                                                                         *)
(* The loop of Node.Run and the people who enroll (command line, tray) are *)
(* callers that run side by side; each reads the pin, connects, is         *)
(* answered and notes the answer in steps of its own.  Who answers at the  *)
(* configured address may change.  On the other side nodeEnroll looks the  *)
(* key up and enters it in two steps.                                      *)
(*                                                                         *)
(* Abstractions.  A pin from the configuration, rate limits and the bound  *)
(* on pending requests are left out; the connection is one for HTTP/3 and  *)
(* TCP together; a row has a status only (NodeRegistry has the rest).      *)
(***************************************************************************)
EXTENDS Naturals, FiniteSets

CONSTANTS
  Keys,        \* keys of control planes
  People,      \* calls of Enroll
  NoKey,
  MaxSwaps     \* bound on changes of who answers, restarts and damage

Loop == "loop"
EnrollCallers == People \cup {Loop}
Damaged == "damaged"

ASSUME EnrollmentAssumption ==
  /\ NoKey \notin Keys \cup {Damaged, "new"}
  /\ {Damaged, "new"} \cap Keys = {}
  /\ Loop \notin People
  /\ MaxSwaps \in Nat

RowStatus == {"unknown", "pending", "confirmed", "approved", "revoked"}

VARIABLES
  pinFile,     \* control.pin: NoKey, a key, or Damaged
  pinSeen,     \* filePin.seen
  plane,       \* who answers at the address
  channel,     \* the open connection: NoKey or the key of its other end
  caller,      \* per caller, where it is
  enrolled,    \* status.Enrollment
  enrollFile,  \* enrollment.json
  nodeRow,     \* per control plane, its row of this node
  accepted,    \* keys a person accepted, or let be accepted unseen
  swaps

enrollVars == <<pinFile, pinSeen, plane, channel, caller, enrolled, enrollFile, nodeRow, accepted, swaps>>

\* pc; the key the call was given to accept; what it was answered.
Waiting == [pc |-> "idle", accept |-> NoKey, answer |-> NoKey]

EnrollTypeOK ==
  /\ pinFile \in Keys \cup {NoKey, Damaged}
  /\ pinSeen \in Keys \cup {NoKey}
  /\ plane \in Keys
  /\ channel \in Keys \cup {NoKey}
  /\ caller \in [EnrollCallers -> [pc : {"idle", "confirm", "probe", "probed", "connect", "sent", "insert", "answered", "following", "done"},
                                   accept : Keys \cup {NoKey, "new"}, answer : RowStatus \cup {NoKey}]]
  /\ enrolled \in RowStatus
  /\ enrollFile \in RowStatus
  /\ nodeRow \in [Keys -> RowStatus]
  /\ accepted \subseteq Keys
  /\ swaps \in 0..MaxSwaps

EnrollInit ==
  /\ pinFile = NoKey
  /\ pinSeen = NoKey
  /\ plane \in Keys
  /\ channel = NoKey
  /\ caller = [c \in EnrollCallers |-> Waiting]
  /\ enrolled = "unknown"
  /\ enrollFile = "unknown"
  /\ nodeRow = [k \in Keys |-> "unknown"]
  /\ accepted = {}
  /\ swaps = 0

Upset == swaps < MaxSwaps /\ swaps' = swaps + 1

At(c, pc) == caller' = [caller EXCEPT ![c].pc = pc]

\* A call of a person is over; the loop waits and asks again.
Over(c) == caller' = [caller EXCEPT ![c] = IF c = Loop THEN Waiting ELSE [Waiting EXCEPT !.pc = "done"]]

-----------------------------------------------------------------------------
(***************************************************************************)
(* The pin.                                                                *)
(***************************************************************************)

\* anchors.Files.SetPin: only where nothing is pinned; the same key twice is
\* no error.  Callers are serialised by its lock.
SetPin(k) == pinFile \in {NoKey, k} /\ pinFile' = k

\* Mutant: a control plane is pinned by the first handshake with it.
HandshakeLearns ==
  IF pinFile \in Keys
  THEN /\ channel' = IF pinFile = plane THEN plane ELSE NoKey
       /\ UNCHANGED <<pinFile, pinSeen>>
  ELSE pinFile' = plane /\ channel' = plane /\ UNCHANGED pinSeen

\* VerifyPeerCertificate: a key that is not the pinned one is refused; without
\* a pin, and with one that cannot be read, the key is remembered and
\* refused (filePin.Learn).
Handshake ==
  /\ UNCHANGED pinFile
  /\ IF pinFile \in Keys
     THEN /\ channel' = IF pinFile = plane THEN plane ELSE NoKey
          /\ UNCHANGED pinSeen
     ELSE channel' = NoKey /\ pinSeen' = plane

\* A request goes out on the open connection, or on one that is made now.
Reach == IF channel # NoKey THEN UNCHANGED <<pinFile, pinSeen, channel>> ELSE Handshake

-----------------------------------------------------------------------------
(***************************************************************************)
(* A person enrolls: confirmPin.                                           *)
(***************************************************************************)

\* boundgatectl enroll, with no key, with the key of a fingerprint, or "new".
Begin(c, a) ==
  /\ c \in People
  /\ caller[c].pc = "idle"
  /\ caller' = [caller EXCEPT ![c] = [Waiting EXCEPT !.pc = "confirm", !.accept = a]]
  /\ accepted' = accepted \cup ({a} \cap Keys)
  /\ UNCHANGED <<pinFile, pinSeen, plane, channel, enrolled, enrollFile, nodeRow, swaps>>

\* There is a pin: nothing to confirm.
PinIsThere(c) ==
  /\ caller[c].pc = "confirm"
  /\ pinFile \in Keys
  /\ At(c, "connect")
  /\ UNCHANGED <<pinFile, pinSeen, plane, channel, enrolled, enrollFile, nodeRow, accepted, swaps>>

\* A pin that cannot be read ends the call: it is no reason to pin again.
PinUnreadable(c) ==
  /\ caller[c].pc = "confirm"
  /\ pinFile = Damaged
  /\ Over(c)
  /\ UNCHANGED <<pinFile, pinSeen, plane, channel, enrolled, enrollFile, nodeRow, accepted, swaps>>

\* The look found no pin: what the person gave is about to be pinned, or the
\* key is looked at first, over connections that are new (Reconnect).
LooksForKey(c) ==
  /\ caller[c].pc = "confirm"
  /\ pinFile = NoKey
  /\ IF caller[c].accept \in Keys THEN At(c, "probed") /\ UNCHANGED channel
     ELSE At(c, "probe") /\ channel' = NoKey
  /\ UNCHANGED <<pinFile, pinSeen, plane, enrolled, enrollFile, nodeRow, accepted, swaps>>

\* EnrollStatus, for the key the handshake presents.
Probe(c) ==
  /\ caller[c].pc = "probe"
  /\ Reach
  /\ At(c, "probed")
  /\ UNCHANGED <<plane, enrolled, enrollFile, nodeRow, accepted, swaps>>

\* filePin.Accept, with the key that was given or the one that was seen.
Chosen(c) == IF caller[c].accept = "new" THEN pinSeen ELSE caller[c].accept

AcceptPin(c) ==
  /\ caller[c].pc = "probed"
  /\ Chosen(c) # NoKey
  /\ SetPin(Chosen(c))
  /\ accepted' = IF caller[c].accept = "new" THEN accepted \cup {pinSeen} ELSE accepted
  /\ At(c, "connect")
  /\ UNCHANGED <<pinSeen, plane, channel, enrolled, enrollFile, nodeRow, swaps>>

\* Somebody else pinned another key meanwhile (ErrPinned), or the file is
\* damaged.
AcceptRefused(c) ==
  /\ caller[c].pc = "probed"
  /\ Chosen(c) # NoKey
  /\ pinFile \notin {NoKey, Chosen(c)}
  /\ Over(c)
  /\ UNCHANGED <<pinFile, pinSeen, plane, channel, enrolled, enrollFile, nodeRow, accepted, swaps>>

\* PinUnconfirmedError with the fingerprint, or no key was presented.
ReportsKey(c) ==
  /\ caller[c].pc = "probed"
  /\ Chosen(c) = NoKey
  /\ Over(c)
  /\ UNCHANGED <<pinFile, pinSeen, plane, channel, enrolled, enrollFile, nodeRow, accepted, swaps>>

-----------------------------------------------------------------------------
(***************************************************************************)
(* Requests and answers.                                                   *)
(***************************************************************************)

LoopAsks ==
  /\ caller[Loop].pc = "idle"
  /\ At(Loop, "connect")
  /\ UNCHANGED <<pinFile, pinSeen, plane, channel, enrolled, enrollFile, nodeRow, accepted, swaps>>

\* The request goes out, or the handshake fails and with it the call.
Connect(c) ==
  /\ caller[c].pc = "connect"
  /\ Reach
  /\ IF channel' = NoKey THEN Over(c) ELSE At(c, "sent")
  /\ UNCHANGED <<plane, enrolled, enrollFile, nodeRow, accepted, swaps>>

\* nodeEnrollStatus, and nodeEnroll of a key that has a row.
Answer(c) ==
  /\ caller[c].pc = "sent"
  /\ channel # NoKey
  /\ c = Loop \/ nodeRow[channel] # "unknown"
  /\ caller' = [caller EXCEPT ![c].pc = "answered", ![c].answer = nodeRow[channel]]
  /\ UNCHANGED <<pinFile, pinSeen, plane, channel, enrolled, enrollFile, nodeRow, accepted, swaps>>

\* nodeEnroll finds no row of this key.
Unlisted(c) ==
  /\ caller[c].pc = "sent"
  /\ c # Loop
  /\ channel # NoKey
  /\ nodeRow[channel] = "unknown"
  /\ At(c, "insert")
  /\ UNCHANGED <<pinFile, pinSeen, plane, channel, enrolled, enrollFile, nodeRow, accepted, swaps>>

\* CreatePending: the key is unique; entered meanwhile, it is a conflict and
\* the call fails.
CreatePending(c) ==
  /\ caller[c].pc = "insert"
  /\ channel # NoKey
  /\ IF nodeRow[channel] = "unknown"
     THEN /\ nodeRow' = [nodeRow EXCEPT ![channel] = "pending"]
          /\ caller' = [caller EXCEPT ![c].pc = "answered", ![c].answer = "pending"]
     ELSE Over(c) /\ UNCHANGED nodeRow
  /\ UNCHANGED <<pinFile, pinSeen, plane, channel, enrolled, enrollFile, accepted, swaps>>

\* The connection was reset under the request (Reconnect): it goes out again.
Repeat(c) ==
  /\ caller[c].pc \in {"sent", "insert"}
  /\ channel = NoKey
  /\ At(c, "connect")
  /\ UNCHANGED <<pinFile, pinSeen, plane, channel, enrolled, enrollFile, nodeRow, accepted, swaps>>

\* applyEnrollStatus; an "unknown" removes the file.  An approved node
\* follows the snapshots and does not ask again (controlclient.Run).
Note(c) ==
  /\ caller[c].pc = "answered"
  /\ enrolled' = caller[c].answer
  /\ enrollFile' = caller[c].answer
  /\ IF c = Loop /\ caller[c].answer = "approved" THEN At(c, "following") ELSE Over(c)
  /\ UNCHANGED <<pinFile, pinSeen, plane, channel, nodeRow, accepted, swaps>>

\* The snapshot loop, over a connection that is made as above: 403 ends it,
\* and the node counts as revoked until it has asked again.
NotApproved ==
  /\ caller[Loop].pc = "following"
  /\ channel # NoKey
  /\ nodeRow[channel] # "approved"
  /\ enrolled' = "revoked"
  /\ enrollFile' = "revoked"
  /\ Over(Loop)
  /\ UNCHANGED <<pinFile, pinSeen, plane, channel, nodeRow, accepted, swaps>>

\* A poll of the snapshot loop that finds no connection makes one.
Redial ==
  /\ caller[Loop].pc = "following"
  /\ channel = NoKey
  /\ Reach
  /\ UNCHANGED <<plane, caller, enrolled, enrollFile, nodeRow, accepted, swaps>>

-----------------------------------------------------------------------------
(***************************************************************************)
(* The surroundings.                                                       *)
(***************************************************************************)

\* Administrators confirm, sign, change a grant, reject and revoke.
RowMoves ==
  {<<"pending", "confirmed">>, <<"confirmed", "approved">>, <<"approved", "confirmed">>}
  \cup ({"pending", "confirmed"} \X {"unknown"}) \cup ({"approved", "confirmed"} \X {"revoked"})

Administer(k) ==
  /\ \E m \in RowMoves : nodeRow[k] = m[1] /\ nodeRow' = [nodeRow EXCEPT ![k] = m[2]]
  /\ UNCHANGED <<pinFile, pinSeen, plane, channel, caller, enrolled, enrollFile, accepted, swaps>>

\* Another machine answers at the address (a DNS change, a new installation).
Swap ==
  /\ Upset
  /\ plane' \in Keys \ {plane}
  /\ channel' = NoKey
  /\ UNCHANGED <<pinFile, pinSeen, caller, enrolled, enrollFile, nodeRow, accepted>>

Damage ==
  /\ Upset
  /\ pinFile \in Keys
  /\ pinFile' = Damaged
  /\ UNCHANGED <<pinSeen, plane, channel, caller, enrolled, enrollFile, nodeRow, accepted>>

\* Node.init: what was saved is shown until the control plane answers.
RestartsNode ==
  /\ Upset
  /\ pinSeen' = NoKey
  /\ channel' = NoKey
  /\ caller' = [c \in EnrollCallers |-> IF caller[c].pc = "idle" \/ c = Loop THEN Waiting ELSE [Waiting EXCEPT !.pc = "done"]]
  /\ enrolled' = enrollFile
  /\ UNCHANGED <<pinFile, plane, enrollFile, nodeRow, accepted>>

CallStep(c) ==
  \/ PinIsThere(c) \/ PinUnreadable(c) \/ LooksForKey(c) \/ Probe(c)
  \/ AcceptPin(c) \/ AcceptRefused(c) \/ ReportsKey(c)
  \/ Connect(c) \/ Answer(c) \/ Unlisted(c) \/ CreatePending(c) \/ Repeat(c) \/ Note(c)

LoopStep == LoopAsks \/ CallStep(Loop) \/ NotApproved \/ Redial

EnrollNext ==
  \/ \E c \in People, a \in Keys \cup {NoKey, "new"} : Begin(c, a)
  \/ \E c \in People : CallStep(c)
  \/ LoopStep
  \/ \E k \in Keys : Administer(k)
  \/ Swap \/ Damage \/ RestartsNode

EnrollSpec == EnrollInit /\ [][EnrollNext]_enrollVars

-----------------------------------------------------------------------------
\* The node is pinned to a key a person accepted and to no other one, and
\* talks to nobody else: not while several people enroll at once with
\* different keys, not after the machine at the address was exchanged between
\* the look at the key and the pin, not over a connection from before.
\* ("Whoever answers at the configured address first would otherwise be this
\* node's control plane for good", filePin)
TalksToAccepted ==
  /\ pinFile \in Keys => pinFile \in accepted
  /\ channel # NoKey => channel \in accepted /\ pinFile \in {channel, Damaged}

\* A key once pinned is not exchanged by any enrollment, and a row once
\* revoked does not come back by enrolling again ("Revoked keys stay
\* revoked", nodeEnroll).
NothingIsTakenOver ==
  [][/\ pinFile \in Keys => pinFile' \in {pinFile, Damaged}
     /\ \A k \in Keys : /\ nodeRow[k] = "revoked" => nodeRow'[k] = "revoked"
                        /\ nodeRow[k] \in {"confirmed", "approved"} => nodeRow'[k] # "pending"]_enrollVars

\* A node that is approved for good, by the control plane it is pinned to and
\* that answers, ends up following its snapshots, and one that is revoked
\* stops: whatever people enroll beside it, and over all restarts.
Settled(s) == pinFile \in Keys /\ plane = pinFile /\ nodeRow[pinFile] = s
ApprovalArrives ==
  /\ <>[]Settled("approved") => <>[](caller[Loop].pc = "following")
  /\ <>[]Settled("revoked") => <>[](caller[Loop].pc # "following")

\* A node is pinned to a key a person accepted and talks to nobody else
\* (confirmPin, ClientTLSConfigControl), whoever answers at the address
\* between the look at the key and the pin.
EnrollInv == EnrollTypeOK /\ TalksToAccepted

=============================================================================
