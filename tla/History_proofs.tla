--------------------------- MODULE History_proofs ---------------------------
(***************************************************************************)
(* Proofs about what a device keeps on its disk: the history of bindings   *)
(* (BindingHistory) for every set of nodes and signed statements, every    *)
(* feed and any pattern of failed writes and restarts, the journal of host *)
(* changes (HostJournal) for every set of changes, calls, cut-off commands *)
(* and crashes, and the networks of a device (LocalNetworks) for every set *)
(* of networks, control planes and requests and any failed writes.         *)
(***************************************************************************)
EXTENDS MCHistory, FiniteSetTheorems, SequenceTheorems, TLAPS

-----------------------------------------------------------------------------
(***************************************************************************)
(* The operators on books.                                                 *)
(***************************************************************************)

\* Book.Saw keeps a book a book, never lowers an entry, leaves revocations
\* alone, and leaves the recorded time at the larger of the two.
LEMMA SawFacts ==
  ASSUME NEW b \in Book, NEW recs \in Records
  PROVE  /\ Saw(b, recs) \in Book
         /\ \A n \in Nodes : /\ Saw(b, recs)[n].revoked = b[n].revoked
                             /\ Saw(b, recs)[n].issued >= b[n].issued
                             /\ n \notin DOMAIN recs => Saw(b, recs)[n] = b[n]
         /\ \A n \in DOMAIN recs : Saw(b, recs)[n].issued = Newer(recs[n], b[n].issued)
<1>1. DOMAIN recs \in SUBSET Nodes /\ \A n \in DOMAIN recs : recs[n] \in Times
  BY DEF Records
<1>2. ASSUME NEW n \in Nodes
      PROVE  b[n] \in Entry
  BY DEF Book
<1>3. ASSUME NEW n \in Nodes
      PROVE  /\ Saw(b, recs)[n] \in Entry
             /\ Saw(b, recs)[n].revoked = b[n].revoked
             /\ Saw(b, recs)[n].issued >= b[n].issued
             /\ n \notin DOMAIN recs => Saw(b, recs)[n] = b[n]
             /\ n \in DOMAIN recs => Saw(b, recs)[n].issued = Newer(recs[n], b[n].issued)
  BY <1>1, <1>2, ConstantsAssumption DEF Saw, Newer, Entry, Times
<1>4. Saw(b, recs) = [n \in Nodes |-> Saw(b, recs)[n]]
  BY DEF Saw
<1>5. QED
  BY <1>1, <1>3, <1>4 DEF Book

\* Book.Revoke likewise.
LEMMA RevokeFacts ==
  ASSUME NEW b \in Book, NEW revs \in [Nodes -> Times]
  PROVE  /\ Revoke(b, revs) \in Book
         /\ \A n \in Nodes : /\ Revoke(b, revs)[n].issued = b[n].issued
                             /\ Revoke(b, revs)[n].revoked = Newer(revs[n], b[n].revoked)
                             /\ Revoke(b, revs)[n].revoked >= b[n].revoked
<1>1. ASSUME NEW n \in Nodes
      PROVE  b[n] \in Entry /\ revs[n] \in Times
  BY DEF Book
<1>2. ASSUME NEW n \in Nodes
      PROVE  /\ Revoke(b, revs)[n] \in Entry
             /\ Revoke(b, revs)[n].issued = b[n].issued
             /\ Revoke(b, revs)[n].revoked = Newer(revs[n], b[n].revoked)
             /\ Revoke(b, revs)[n].revoked >= b[n].revoked
  BY <1>1, ConstantsAssumption DEF Revoke, Newer, Entry, Times
<1>3. Revoke(b, revs) = [n \in Nodes |-> Revoke(b, revs)[n]]
  BY DEF Revoke
<1>4. QED
  BY <1>2, <1>3 DEF Book

-----------------------------------------------------------------------------
(***************************************************************************)
(* What verification and recording do to the books.                        *)
(***************************************************************************)

\* After VerifySnapshot the guard is a book that covers the one before, and
\* every record kept is signed, is now the newest seen of its node and is
\* not covered by a revocation.
LEMMA VerifyFacts ==
  ASSUME TypeOK, NEW s \in Snapshot
  PROVE  /\ Verified(s.revs) \in [Nodes -> Times]
         /\ Revoked(s) \in Book
         /\ Kept(s) \in Records
         /\ Seen(s) \in Book
         /\ \A n \in Nodes : /\ Revoked(s)[n].issued = book[n].issued
                             /\ Revoked(s)[n].revoked >= book[n].revoked
                             /\ Seen(s)[n].revoked = Revoked(s)[n].revoked
                             /\ Seen(s)[n].issued >= book[n].issued
         /\ \A n \in DOMAIN Kept(s) : /\ n \in Nodes
                                      /\ Kept(s)[n] \in Times
                                      /\ <<n, Kept(s)[n]>> \in SignedBindings
                                      /\ Seen(s)[n].issued = Kept(s)[n]
                                      /\ Seen(s)[n].revoked # 0 => Kept(s)[n] > Seen(s)[n].revoked
<1>1. book \in Book /\ s.revs \in [Nodes -> Times] /\ s.recs \in Records
  BY DEF TypeOK, Snapshot
<1>2. 0 \in Times
  BY ConstantsAssumption DEF Times
<1>3. Verified(s.revs) \in [Nodes -> Times]
  BY <1>1, <1>2 DEF Verified
<1>4. /\ Revoked(s) \in Book
      /\ \A n \in Nodes : /\ Revoked(s)[n].issued = book[n].issued
                          /\ Revoked(s)[n].revoked >= book[n].revoked
  BY <1>1, <1>3, RevokeFacts DEF Revoked
<1>5. /\ Kept(s) \in Records
      /\ \A n \in DOMAIN Kept(s) : /\ n \in Nodes
                                   /\ Kept(s)[n] \in Times
                                   /\ Admissible(Revoked(s), n, Kept(s)[n])
  <2> DEFINE D == {m \in DOMAIN s.recs : Admissible(Revoked(s), m, s.recs[m])}
  <2>1. Kept(s) = [n \in D |-> s.recs[n]]
    BY DEF Kept
  <2>2. PICK S \in SUBSET Nodes : s.recs \in [S -> Times]
    BY <1>1 DEF Records
  <2>3. D \in SUBSET Nodes /\ \A n \in D : s.recs[n] \in Times
    BY <2>2
  <2>4. Kept(s) \in [D -> Times]
    BY <2>1, <2>3
  <2>5. Kept(s) \in Records
    BY <2>3, <2>4 DEF Records
  <2>6. \A n \in D : Admissible(Revoked(s), n, s.recs[n])
    OBVIOUS
  <2>7. DOMAIN Kept(s) = D /\ \A n \in D : Kept(s)[n] = s.recs[n]
    BY <2>1
  <2> HIDE DEF D
  <2>8. QED
    BY <2>3, <2>5, <2>6, <2>7
<1>6. /\ Seen(s) \in Book
      /\ \A n \in Nodes : /\ Seen(s)[n].revoked = Revoked(s)[n].revoked
                          /\ Seen(s)[n].issued >= Revoked(s)[n].issued
      /\ \A n \in DOMAIN Kept(s) : Seen(s)[n].issued = Newer(Kept(s)[n], Revoked(s)[n].issued)
  BY <1>4, <1>5, SawFacts DEF Seen
<1>7. ASSUME NEW n \in DOMAIN Kept(s)
      PROVE  /\ <<n, Kept(s)[n]>> \in SignedBindings
             /\ Seen(s)[n].issued = Kept(s)[n]
             /\ Seen(s)[n].revoked # 0 => Kept(s)[n] > Seen(s)[n].revoked
  <2>1. Revoked(s)[n] \in Entry /\ Kept(s)[n] \in Times
    BY <1>4, <1>5 DEF Book
  <2>2. Admissible(Revoked(s), n, Kept(s)[n])
    BY <1>5
  <2>3. QED
    BY <2>1, <2>2, <1>5, <1>6, ConstantsAssumption DEF Admissible, Check, Newer, Entry, Times
<1>8. QED
  BY <1>3, <1>4, <1>5, <1>6, <1>7

\* Recording proven changes: the file never loses an entry and never gets
\* ahead of the guard that was in memory when it was written.
LEMMA RecordFacts ==
  ASSUME TypeOK, MemoryCoversDisk, NEW s \in Snapshot,
         NEW B \in SUBSET IssuedProof(s), NEW R \in SUBSET RevokedProof(s)
  PROVE  /\ Record(s, B, R) \in Book
         /\ \A n \in Nodes : /\ Record(s, B, R)[n].issued >= disk[n].issued
                             /\ Record(s, B, R)[n].revoked >= disk[n].revoked
                             /\ Seen(s)[n].issued >= Record(s, B, R)[n].issued
                             /\ Seen(s)[n].revoked >= Record(s, B, R)[n].revoked
<1> DEFINE recs == [n \in B |-> Kept(s)[n]]
           revs == [n \in Nodes |-> IF n \in R THEN s.revs[n] ELSE 0]
<1>1. /\ B \subseteq DOMAIN Kept(s)
      /\ \A n \in R : s.revs[n] = Revoked(s)[n].revoked
  BY DEF IssuedProof, RevokedProof
<1>2. recs \in Records
  BY <1>1, VerifyFacts DEF Records
<1>3. revs \in [Nodes -> Times]
  <2>1. s.revs \in [Nodes -> Times] /\ 0 \in Times
    BY ConstantsAssumption DEF Snapshot, Times
  <2>2. QED
    BY <2>1
<1>4. disk \in Book
  BY DEF TypeOK
<1>5. /\ Saw(disk, recs) \in Book
      /\ \A n \in Nodes : /\ Saw(disk, recs)[n].revoked = disk[n].revoked
                          /\ Saw(disk, recs)[n].issued >= disk[n].issued
                          /\ n \notin B => Saw(disk, recs)[n] = disk[n]
      /\ \A n \in B : Saw(disk, recs)[n].issued = Newer(Kept(s)[n], disk[n].issued)
  <2>1. DOMAIN recs = B /\ \A n \in B : recs[n] = Kept(s)[n]
    OBVIOUS
  <2> HIDE DEF recs
  <2>2. QED
    BY <1>2, <1>4, <2>1, SawFacts
<1>6. /\ Record(s, B, R) \in Book
      /\ \A n \in Nodes : /\ Record(s, B, R)[n].issued = Saw(disk, recs)[n].issued
                          /\ Record(s, B, R)[n].revoked = Newer(revs[n], disk[n].revoked)
                          /\ Record(s, B, R)[n].revoked >= disk[n].revoked
  <2>1. Record(s, B, R) = Revoke(Saw(disk, recs), revs)
    BY DEF Record
  <2> HIDE DEF recs, revs
  <2>2. QED
    BY <1>3, <1>5, <2>1, RevokeFacts
<1>7. ASSUME NEW n \in Nodes
      PROVE  /\ Seen(s)[n].issued >= Record(s, B, R)[n].issued
             /\ Seen(s)[n].revoked >= Record(s, B, R)[n].revoked
  <2>1. /\ Seen(s)[n] \in Entry /\ disk[n] \in Entry /\ book[n] \in Entry
        /\ Revoked(s)[n] \in Entry /\ Record(s, B, R)[n] \in Entry
    BY <1>4, <1>6, VerifyFacts DEF Book, TypeOK
  <2>2. book[n].issued >= disk[n].issued /\ book[n].revoked >= disk[n].revoked
    BY DEF MemoryCoversDisk
  <2>3. /\ Seen(s)[n].issued >= book[n].issued
        /\ Seen(s)[n].revoked = Revoked(s)[n].revoked
        /\ Revoked(s)[n].revoked >= book[n].revoked
    BY VerifyFacts
  <2>4. Seen(s)[n].issued >= Record(s, B, R)[n].issued
    <3>1. CASE n \in B
      <4>1. Seen(s)[n].issued = Kept(s)[n] /\ Kept(s)[n] \in Times
        BY <1>1, <3>1, VerifyFacts
      <4>2. Record(s, B, R)[n].issued = Newer(Kept(s)[n], disk[n].issued)
        BY <1>5, <1>6, <3>1
      <4>3. QED
        BY <2>1, <2>2, <2>3, <4>1, <4>2, ConstantsAssumption DEF Newer, Entry, Times
    <3>2. CASE n \notin B
      <4>1. Record(s, B, R)[n].issued = disk[n].issued
        BY <1>5, <1>6, <3>2
      <4>2. QED
        BY <2>1, <2>2, <2>3, <4>1, ConstantsAssumption DEF Entry, Times
    <3>3. QED
      BY <3>1, <3>2
  <2>5. Seen(s)[n].revoked >= Record(s, B, R)[n].revoked
    <3>1. revs[n] = 0 \/ revs[n] = Revoked(s)[n].revoked
      BY <1>1
    <3>2. Record(s, B, R)[n].revoked = Newer(revs[n], disk[n].revoked)
      BY <1>6
    <3> HIDE DEF revs
    <3>3. QED
      BY <2>1, <2>2, <2>3, <3>1, <3>2, ConstantsAssumption DEF Newer, Entry, Times
  <2>6. QED
    BY <2>4, <2>5
<1>8. QED
  BY <1>5, <1>6, <1>7

-----------------------------------------------------------------------------
(***************************************************************************)
(* The inductive invariant.  MemoryCoversDisk is what makes recording      *)
(* safe, InUseIsCurrent is what is wanted of it.                           *)
(***************************************************************************)
Inv == TypeOK /\ MemoryCoversDisk /\ InUseIsCurrent

LEMMA InitInv == Init => Inv
<1> SUFFICES ASSUME Init PROVE Inv
  OBVIOUS
<1>1. 0 \in Times /\ \A a \in {0} : a >= a
  BY ConstantsAssumption DEF Times
<1>2. [n \in Nodes |-> NoEntry] \in Book
  BY <1>1 DEF Book, Entry, NoEntry
<1>3. NoRecords \in Records /\ DOMAIN NoRecords = {}
  BY DEF NoRecords, Records
<1>4. TypeOK
  BY <1>2, <1>3 DEF Init, TypeOK
<1>5. MemoryCoversDisk
  BY DEF Init, MemoryCoversDisk, NoEntry
<1>6. InUseIsCurrent
  BY <1>3 DEF Init, InUseIsCurrent
<1>7. QED
  BY <1>4, <1>5, <1>6 DEF Inv

\* A holder that was cleared satisfies InUseIsCurrent whatever the book.
LEMMA Cleared ==
  ASSUME holder' = NoRecords
  PROVE  holder' \in Records /\ InUseIsCurrent'
<1>1. NoRecords \in Records /\ DOMAIN NoRecords = {}
  BY DEF NoRecords, Records
<1>2. QED
  BY <1>1 DEF InUseIsCurrent

LEMMA NextInv == Inv /\ [Next]_vars => Inv'
<1> SUFFICES ASSUME Inv, [Next]_vars PROVE Inv'
  OBVIOUS
<1> USE DEF Inv
<1>1. ASSUME NEW s \in Snapshot, RefuseSelf(s) PROVE Inv'
  <2>1. holder' \in Records /\ InUseIsCurrent'
    BY <1>1, Cleared DEF RefuseSelf
  <2>2. TypeOK'
    <3>1. book' \in Book
      BY <1>1, VerifyFacts DEF RefuseSelf
    <3>2. newRevoked' \in SUBSET Nodes
      BY <1>1 DEF RefuseSelf, PendingRevoked, TypeOK
    <3>3. QED
      BY <1>1, <2>1, <3>1, <3>2 DEF RefuseSelf, TypeOK
  <2>3. MemoryCoversDisk'
    <3>1. ASSUME NEW n \in Nodes
          PROVE  book'[n].issued >= disk'[n].issued /\ book'[n].revoked >= disk'[n].revoked
      <4>1. book'[n] \in Entry /\ book[n] \in Entry /\ disk[n] \in Entry /\ disk' = disk
        BY <1>1, <2>2 DEF RefuseSelf, TypeOK, Book
      <4>2. book'[n].issued = book[n].issued /\ book'[n].revoked >= book[n].revoked
        BY <1>1, VerifyFacts DEF RefuseSelf
      <4>3. QED
        BY <4>1, <4>2, ConstantsAssumption DEF MemoryCoversDisk, Entry, Times
    <3>2. QED
      BY <3>1 DEF MemoryCoversDisk
  <2>4. QED
    BY <2>1, <2>2, <2>3
<1>2. ASSUME NEW s \in Snapshot, RefuseUnproven(s) PROVE Inv'
  <2>1. holder' \in Records /\ InUseIsCurrent'
    BY <1>2, Cleared DEF RefuseUnproven
  <2>2. TypeOK'
    <3>1. book' \in Book
      BY <1>2, VerifyFacts DEF RefuseUnproven
    <3>2. QED
      BY <1>2, <2>1, <3>1 DEF RefuseUnproven, TypeOK
  <2>3. MemoryCoversDisk'
    <3>1. ASSUME NEW n \in Nodes
          PROVE  book'[n].issued >= disk'[n].issued /\ book'[n].revoked >= disk'[n].revoked
      <4>1. book'[n] \in Entry /\ book[n] \in Entry /\ disk[n] \in Entry /\ disk' = disk
        BY <1>2, <2>2 DEF RefuseUnproven, TypeOK, Book
      <4>2. book'[n].issued >= book[n].issued /\ book'[n].revoked >= book[n].revoked
        BY <1>2, VerifyFacts DEF RefuseUnproven
      <4>3. QED
        BY <4>1, <4>2, ConstantsAssumption DEF MemoryCoversDisk, Entry, Times
    <3>2. QED
      BY <3>1 DEF MemoryCoversDisk
  <2>4. QED
    BY <2>1, <2>2, <2>3
<1>3. ASSUME NEW s \in Snapshot,
             NEW B \in SUBSET IssuedProof(s), NEW R \in SUBSET RevokedProof(s), RecordFails(s, B, R)
      PROVE  Inv'
  <2>1. holder' \in Records /\ InUseIsCurrent'
    BY <1>3, Cleared DEF RecordFails
  <2>2. TypeOK'
    <3>1. book' \in Book /\ disk' \in Book
      BY <1>3, VerifyFacts, RecordFacts DEF RecordFails
    <3>2. newRevoked' \in SUBSET Nodes /\ newIssued' \in SUBSET Nodes
      BY <1>3 DEF RecordFails, PendingRevoked, PendingIssued, TypeOK
    <3>3. QED
      BY <1>3, <2>1, <3>1, <3>2 DEF RecordFails, TypeOK
  <2>3. MemoryCoversDisk'
    BY <1>3, RecordFacts DEF RecordFails, MemoryCoversDisk
  <2>4. QED
    BY <2>1, <2>2, <2>3
<1>4. ASSUME NEW s \in Snapshot, Proven(s), Accept(s) PROVE Inv'
  <2>1. PendingIssued(s) \in SUBSET IssuedProof(s) /\ PendingRevoked(s) \in SUBSET RevokedProof(s)
    BY <1>4 DEF Accept, Proven
  <2>2. holder' \in Records /\ InUseIsCurrent'
    <3>1. CASE s.self = Me
      <4>1. holder' = Kept(s) /\ book' = Seen(s)
        BY <1>4, <3>1 DEF Accept
      <4>2. QED
        BY <4>1, VerifyFacts DEF InUseIsCurrent
    <3>2. CASE s.self # Me
      BY <1>4, <3>2, Cleared DEF Accept
    <3>3. QED
      BY <3>1, <3>2
  <2>3. TypeOK'
    <3>1. book' \in Book /\ disk' \in Book
      BY <1>4, <2>1, VerifyFacts, RecordFacts DEF Accept
    <3>2. QED
      BY <1>4, <2>2, <3>1 DEF Accept, TypeOK
  <2>4. MemoryCoversDisk'
    BY <1>4, <2>1, RecordFacts DEF Accept, MemoryCoversDisk
  <2>5. QED
    BY <2>2, <2>3, <2>4
<1>5. ASSUME Restart PROVE Inv'
  <2>1. holder' \in Records /\ InUseIsCurrent'
    BY <1>5, Cleared DEF Restart
  <2>2. TypeOK'
    BY <1>5, <2>1 DEF Restart, TypeOK
  <2>3. MemoryCoversDisk'
    <3>1. ASSUME NEW n \in Nodes
          PROVE  book'[n].issued >= disk'[n].issued /\ book'[n].revoked >= disk'[n].revoked
      <4>1. disk[n] \in Entry /\ book' = disk /\ disk' = disk
        BY <1>5 DEF Restart, TypeOK, Book
      <4>2. QED
        BY <4>1, ConstantsAssumption DEF Entry, Times
    <3>2. QED
      BY <3>1 DEF MemoryCoversDisk
  <2>4. QED
    BY <2>1, <2>2, <2>3
<1>6. CASE UNCHANGED vars
  BY <1>6 DEF vars, TypeOK, MemoryCoversDisk, InUseIsCurrent
<1>7. QED
  BY <1>1, <1>2, <1>3, <1>4, <1>5, <1>6 DEF Next, Deliver

-----------------------------------------------------------------------------
\* Type correctness of the history, its file and the holder.
THEOREM TypeCorrect == Spec => []TypeOK
<1>1. Inv => TypeOK
  BY DEF Inv
<1>2. QED
  BY <1>1, InitInv, NextInv, PTL DEF Spec

\* history.nodes never knows less than bindings_seen.json: for any number of
\* nodes, any deliveries, failed writes and restarts.
THEOREM MemoryCovers == Spec => []MemoryCoversDisk
<1>1. Inv => MemoryCoversDisk
  BY DEF Inv
<1>2. QED
  BY <1>1, InitInv, NextInv, PTL DEF Spec

\* VerifySnapshot, history and the holder together: whatever a control plane
\* delivers, every record in use is signed, is the newest the process knows
\* of its node, and no revocation the process ever verified covers it.
THEOREM InUseCurrent == Spec => []InUseIsCurrent
<1>1. Inv => InUseIsCurrent
  BY DEF Inv
<1>2. QED
  BY <1>1, InitInv, NextInv, PTL DEF Spec

\* bindings_seen.json only ever learns: Files.Record never lowers an entry
\* and nothing else writes the file.
THEOREM DiskGrows == Spec => DiskOnlyGrows
<1>1. ASSUME Inv, [Next]_vars
      PROVE  [\A n \in Nodes : disk'[n].issued >= disk[n].issued /\ disk'[n].revoked >= disk[n].revoked]_disk
  <2>1. ASSUME NEW s \in Snapshot,
               NEW B \in SUBSET IssuedProof(s), NEW R \in SUBSET RevokedProof(s), RecordFails(s, B, R)
        PROVE  \A n \in Nodes : disk'[n].issued >= disk[n].issued /\ disk'[n].revoked >= disk[n].revoked
    BY <1>1, <2>1, RecordFacts DEF RecordFails, Inv
  <2>2. ASSUME NEW s \in Snapshot, Proven(s), Accept(s)
        PROVE  \A n \in Nodes : disk'[n].issued >= disk[n].issued /\ disk'[n].revoked >= disk[n].revoked
    <3>1. PendingIssued(s) \in SUBSET IssuedProof(s) /\ PendingRevoked(s) \in SUBSET RevokedProof(s)
      BY <2>2 DEF Accept, Proven
    <3>2. QED
      BY <1>1, <2>2, <3>1, RecordFacts DEF Accept, Inv
  <2>3. ASSUME NEW s \in Snapshot, RefuseSelf(s) \/ RefuseUnproven(s) PROVE UNCHANGED disk
    BY <2>3 DEF RefuseSelf, RefuseUnproven
  <2>4. Restart \/ UNCHANGED vars => UNCHANGED disk
    BY DEF Restart, vars
  <2>5. QED
    BY <1>1, <2>1, <2>2, <2>3, <2>4 DEF Next, Deliver
<1>2. QED
  BY <1>1, InitInv, NextInv, PTL DEF Spec, DiskOnlyGrows
-----------------------------------------------------------------------------
(***************************************************************************)
(* HostJournal.  A change of these kinds is on the host once per change:   *)
(* nothing but its own command adds or removes it.  What is on the host    *)
(* and not lost is recorded, or its own call is still under way and will   *)
(* record it; while Recover is at work it has yet to be tried or was kept. *)
(***************************************************************************)
Tracked == {"route", "bypass", "dns"}

CallRecord == [c : Changes, on : BOOLEAN, answer : {"waits", "ok", "refused", "cut", "none"}]

OncePerSlot(r) == \A c, d \in r : c.kind = d.kind /\ c.kind \in Slotted => c = d

JournalTypes ==
    /\ changed \subseteq Changes /\ recorded \subseteq Changes /\ onDisk \subseteq Changes /\ faults \in Nat
    /\ todo \subseteq onDisk /\ kept \subseteq onDisk /\ lost \subseteq Changes
    /\ daemon \in {"dead", "recovering", "up"} /\ calls \subseteq CallRecord
    /\ OncePerSlot(recorded) /\ OncePerSlot(onDisk)
    /\ daemon # "recovering" => todo = {} /\ kept = {}

CallsApart ==
    /\ \A k, m \in calls : k.c.kind = m.c.kind => k = m
    /\ daemon # "up" => calls = {}

\* A call that will not record its change has left it as it found it, or
\* taken it away.
CallsLeave == \A k \in calls : k.c.kind \in Tracked =>
    /\ (k.c \in changed /\ k.c \notin lost \cup recorded) => k.on /\ k.answer \in {"ok", "cut"}
    /\ (~k.on /\ k.answer \notin {"waits", "cut"} /\ ~ (k.c.kind = "dns" /\ k.answer = "refused")) => k.c \notin changed

UpIsKnown == daemon = "up" =>
    \A c \in changed : c.kind \in Tracked => c \in lost \cup {k.c : k \in calls} \cup recorded
RecoveryIsKnown == daemon = "recovering" => \A c \in changed : c.kind \in Tracked => c \in lost \cup todo \cup kept
DeadIsKnown == daemon = "dead" => \A c \in changed : c.kind \in Tracked => c \in lost \cup onDisk

JournalIInv ==
    /\ JournalTypes /\ CallsApart /\ CallsLeave /\ UpIsKnown /\ RecoveryIsKnown /\ DeadIsKnown
    /\ DiskIsBehindByFault

\* What a command may leave of the host.
LEMMA OutcomesAre ==
  ASSUME NEW h \in SUBSET Changes, NEW c \in Changes, NEW on \in BOOLEAN, NEW o \in Outcomes(h, c, on)
  PROVE  /\ o.host \subseteq h \cup {c} /\ o.fault \in {0, 1}
         /\ o.answer \in {"ok", "refused", "cut", "none"}
         /\ \A d \in h : d.kind # c.kind => d \in o.host
         /\ c.kind \in Tracked => /\ h \ {c} \subseteq o.host
                                  /\ on /\ o.answer \notin {"ok", "cut"} => o.host = h
                                  /\ ~on => o.host \subseteq h
                                  /\ ~on /\ o.answer \notin {"cut"} /\ ~ (c.kind = "dns" /\ o.answer = "refused")
                                       => c \notin o.host
<1> USE DEF Answer, With, Without, Shared, Tracked
<1>1. CASE c.kind = "route"
  <2>1. o \in RouteCommand(h, c, on)
    BY <1>1 DEF Outcomes
  <2>2. CASE on
    BY <1>1, <2>1, <2>2 DEF RouteCommand
  <2>3. CASE ~on
    BY <1>1, <2>1, <2>3 DEF RouteCommand
  <2>4. QED
    BY <2>2, <2>3
<1>2. CASE c.kind = "bypass"
  <2>1. o \in BypassCommand(h, c, on)
    BY <1>2 DEF Outcomes
  <2>2. CASE on
    BY <1>2, <2>1, <2>2 DEF BypassCommand
  <2>3. CASE ~on
    BY <1>2, <2>1, <2>3 DEF BypassCommand
  <2>4. QED
    BY <2>2, <2>3
<1>3. CASE c.kind = "nat"
  <2>1. o \in NATCommand(h, c, on)
    BY <1>3 DEF Outcomes
  <2>2. CASE on
    BY <1>3, <2>1, <2>2 DEF NATCommand
  <2>3. CASE ~on
    BY <1>3, <2>1, <2>3 DEF NATCommand
  <2>4. QED
    BY <2>2, <2>3
<1>4. CASE c.kind = "forward"
  <2>1. o \in ForwardCommand(h, c, on)
    BY <1>4 DEF Outcomes
  <2>2. CASE on
    BY <1>4, <2>1, <2>2 DEF ForwardCommand
  <2>3. CASE ~on
    BY <1>4, <2>1, <2>3 DEF ForwardCommand
  <2>4. QED
    BY <2>2, <2>3
<1>5. CASE c.kind = "dns"
  <2>1. o \in DNSCommand(h, c, on)
    BY <1>5 DEF Outcomes
  <2>2. CASE on
    BY <1>5, <2>1, <2>2 DEF DNSCommand
  <2>3. CASE ~on
    BY <1>5, <2>1, <2>3 DEF DNSCommand
  <2>4. QED
    BY <2>2, <2>3
<1>6. CASE c.kind = "arrival"
  <2>1. o \in ArrivalCommand(h, c, on)
    BY <1>6 DEF Outcomes
  <2>2. CASE on
    BY <1>6, <2>1, <2>2 DEF ArrivalCommand
  <2>3. CASE ~on
    BY <1>6, <2>1, <2>3 DEF ArrivalCommand
  <2>4. QED
    BY <2>2, <2>3
<1>7. QED
  BY <1>1, <1>2, <1>3, <1>4, <1>5, <1>6, JournalAssumption DEF JournalKinds

\* What the journal writes down and strikes out.
LEMMA PutAndDrop ==
  ASSUME NEW r \in SUBSET Changes, NEW c \in Changes, OncePerSlot(r)
  PROVE  /\ Put(r, c) \subseteq Changes /\ OncePerSlot(Put(r, c)) /\ c \in Put(r, c)
         /\ Drop(r, c) \subseteq Changes /\ OncePerSlot(Drop(r, c))
         /\ \A d \in r : d.kind # c.kind => d \in Put(r, c) /\ d \in Drop(r, c)
         /\ c.kind \in Tracked => \A d \in r : d \in Put(r, c) /\ (d # c => d \in Drop(r, c))
<1>1. c.kind \in Slotted \/ c.kind \notin Slotted
  OBVIOUS
<1>2. CASE c.kind \in Slotted
  <2>1. Put(r, c) = {d \in r : d.kind # c.kind} \cup {c} /\ Drop(r, c) = {d \in r : d.kind # c.kind}
    BY <1>2 DEF Put, Drop
  <2>2. c.kind \in Tracked => c.kind = "dns"
    BY <1>2 DEF Tracked, Slotted
  <2>3. c.kind = "dns" => \A d \in r : d.kind = c.kind => d = c
    BY JournalAssumption
  <2>4. QED
    BY <2>1, <2>2, <2>3 DEF OncePerSlot
<1>3. CASE c.kind \notin Slotted
  <2>1. Put(r, c) = r \cup {c} /\ Drop(r, c) = r \ {c}
    BY <1>3 DEF Put, Drop
  <2>2. QED
    BY <1>3, <2>1 DEF OncePerSlot
<1>4. QED
  BY <1>1, <1>2, <1>3


LEMMA JournalStarts == JournalInit => JournalIInv
  BY DEF JournalInit, JournalIInv, JournalTypes, CallsApart, CallsLeave, UpIsKnown, RecoveryIsKnown, DeadIsKnown,
         DiskIsBehindByFault, OncePerSlot

LEMMA CallKeeps ==
  ASSUME JournalIInv, NEW c \in Changes, NEW on \in BOOLEAN, Call(c, on)
  PROVE  JournalIInv'
<1> DEFINE k == [c |-> c, on |-> on, answer |-> "waits"]
<1>1. /\ daemon = "up" /\ calls' = calls \cup {k} /\ \A m \in calls : m.c.kind # c.kind
      /\ UNCHANGED <<changed, recorded, onDisk, daemon, todo, kept, lost, faults>>
  BY DEF Call
<1>2. k \in CallRecord /\ k.c = c /\ k.on = on /\ k.answer = "waits"
  BY DEF CallRecord
<1> HIDE DEF k
<1>3. JournalTypes'
  BY <1>1, <1>2 DEF JournalIInv, JournalTypes, OncePerSlot
<1>4. CallsApart'
  BY <1>1, <1>2 DEF JournalIInv, CallsApart
<1>5. CallsLeave'
  <2>1. c.kind \in Tracked /\ c \in changed => c \in lost \cup recorded
    BY <1>1 DEF JournalIInv, UpIsKnown
  <2>2. QED
    BY <1>1, <1>2, <2>1 DEF JournalIInv, CallsLeave
<1>6. UpIsKnown' /\ RecoveryIsKnown' /\ DeadIsKnown' /\ DiskIsBehindByFault'
  BY <1>1 DEF JournalIInv, UpIsKnown, RecoveryIsKnown, DeadIsKnown, DiskIsBehindByFault
<1>7. QED
  BY <1>3, <1>4, <1>5, <1>6 DEF JournalIInv

\* A command touches its own change; the call is still there to record it.
LEMMA CommandKeeps ==
  ASSUME JournalIInv, NEW k \in calls, Command(k)
  PROVE  JournalIInv'
<1>1. k \in CallRecord /\ k.c \in Changes /\ k.on \in BOOLEAN /\ daemon = "up" /\ changed \subseteq Changes
  BY DEF JournalIInv, JournalTypes, CallRecord, CallsApart
<1>2. PICK o \in Outcomes(changed, k.c, k.on) :
        /\ Faulty(o.fault) /\ changed' = o.host
        /\ calls' = (calls \ {k}) \cup {[k EXCEPT !.answer = o.answer]}
  BY DEF Command
<1> DEFINE m == [k EXCEPT !.answer = o.answer]
<1>3. /\ changed' \subseteq changed \cup {k.c} /\ o.fault \in {0, 1} /\ o.answer \in {"ok", "refused", "cut", "none"}
      /\ \A d \in changed : d.kind # k.c.kind => d \in changed'
  BY <1>1, <1>2, OutcomesAre
<1>4. k.c.kind \in Tracked =>
        /\ changed \ {k.c} \subseteq changed'
        /\ k.on /\ o.answer \notin {"ok", "cut"} => changed' = changed
        /\ ~k.on => changed' \subseteq changed
        /\ ~k.on /\ o.answer \notin {"cut"} /\ ~ (k.c.kind = "dns" /\ o.answer = "refused") => k.c \notin changed'
  BY <1>1, <1>2, OutcomesAre
<1>5. /\ lost' = lost \cap changed' /\ k.answer = "waits"
      /\ UNCHANGED <<recorded, onDisk, daemon, todo, kept>>
  BY DEF Command, Losing
<1>6. m \in CallRecord /\ m.c = k.c /\ m.on = k.on /\ m.answer = o.answer
  BY <1>1, <1>3 DEF CallRecord
<1> HIDE DEF m
<1>7. calls' = (calls \ {k}) \cup {m}
  BY <1>2 DEF m
<1>8. JournalTypes'
  <2>1. faults' \in Nat
    BY <1>2, <1>3 DEF Faulty, JournalIInv, JournalTypes
  <2>2. QED
    BY <1>1, <1>3, <1>5, <1>6, <1>7, <2>1 DEF JournalIInv, JournalTypes, OncePerSlot
<1>9. CallsApart'
  BY <1>1, <1>5, <1>6, <1>7 DEF JournalIInv, CallsApart
<1>10. CallsLeave'
  <2> SUFFICES ASSUME NEW n \in calls', n.c.kind \in Tracked
               PROVE  /\ (n.c \in changed' /\ n.c \notin lost' \cup recorded') => n.on /\ n.answer \in {"ok", "cut"}
                      /\ (~n.on /\ n.answer \notin {"waits", "cut"} /\ ~ (n.c.kind = "dns" /\ n.answer = "refused"))
                           => n.c \notin changed'
    BY DEF CallsLeave
  <2>1. CASE n # m
    <3>1. n \in calls /\ n # k /\ n.c.kind # k.c.kind
      BY <1>7, <2>1 DEF JournalIInv, CallsApart
    <3>2. n.c \in changed' <=> n.c \in changed
      BY <1>3, <3>1
    <3>3. n.c \in changed' /\ n.c \in lost => n.c \in lost'
      BY <1>5
    <3>4. QED
      BY <1>5, <3>1, <3>2, <3>3 DEF JournalIInv, CallsLeave
  <2>2. CASE n = m
    <3>1. k.c.kind \in Tracked
      BY <1>6, <2>2
    <3>2. k.c \in changed => k.c \in lost \cup recorded
      BY <1>5, <3>1 DEF JournalIInv, CallsLeave
    <3>3. k.c \in changed' /\ k.c \in changed => k.c \in lost' \cup recorded'
      BY <1>5, <3>2
    <3>4. k.c \in changed' /\ k.c \notin changed => k.on /\ o.answer \in {"ok", "cut"}
      BY <1>1, <1>4, <3>1
    <3>5. QED
      BY <1>4, <1>6, <2>2, <3>1, <3>3, <3>4
  <2>3. QED
    BY <2>1, <2>2
<1>11. UpIsKnown'
  <2>1. {n.c : n \in calls} = {n.c : n \in calls'}
    BY <1>6, <1>7
  <2>2. k.c \in {n.c : n \in calls'}
    BY <1>6, <1>7
  <2>3. QED
    BY <1>1, <1>3, <1>5, <2>1, <2>2 DEF JournalIInv, UpIsKnown
<1>12. RecoveryIsKnown' /\ DeadIsKnown'
  BY <1>1, <1>5 DEF RecoveryIsKnown, DeadIsKnown
<1>13. DiskIsBehindByFault'
  BY <1>2, <1>3, <1>5 DEF JournalIInv, DiskIsBehindByFault, Faulty, JournalTypes
<1>14. QED
  BY <1>8, <1>9, <1>10, <1>11, <1>12, <1>13 DEF JournalIInv

\* What every end of a call has to see to.
LEMMA FinishKeeps ==
  ASSUME JournalIInv, NEW k \in calls, NEW changes \in BOOLEAN, NEW r \in SUBSET Changes, OncePerSlot(r),
         Finish(k, changes, r),
         \A d \in recorded : d.kind # k.c.kind => d \in r,
         k.c.kind \in Tracked => /\ \A d \in recorded : d # k.c => d \in r
                                 /\ k.c \in changed \ lost => IF changes THEN k.c \in r ELSE k.c \in recorded
  PROVE  JournalIInv'
<1>1. /\ calls' = calls \ {k} /\ UNCHANGED <<changed, daemon, todo, kept, lost>> /\ daemon = "up"
      /\ IF changes THEN recorded' = r /\ Save(r) ELSE UNCHANGED <<recorded, onDisk, faults>>
  BY DEF Finish, JournalIInv, CallsApart
<1>2. /\ recorded' \subseteq Changes /\ OncePerSlot(recorded') /\ recorded' \in {recorded, r}
      /\ onDisk' \subseteq Changes /\ OncePerSlot(onDisk') /\ onDisk' \in {onDisk, r}
      /\ faults' \in Nat /\ faults' >= faults
  BY <1>1 DEF Save, Faulty, JournalIInv, JournalTypes
<1>3. todo = {} /\ kept = {}
  BY <1>1 DEF JournalIInv, JournalTypes
<1>4. JournalTypes'
  BY <1>1, <1>2, <1>3 DEF JournalIInv, JournalTypes, OncePerSlot
<1>5. CallsApart'
  BY <1>1 DEF JournalIInv, CallsApart
<1>6. CallsLeave'
  <2> SUFFICES ASSUME NEW n \in calls', n.c.kind \in Tracked
               PROVE  /\ (n.c \in changed' /\ n.c \notin lost' \cup recorded') => n.on /\ n.answer \in {"ok", "cut"}
                      /\ (~n.on /\ n.answer \notin {"waits", "cut"} /\ ~ (n.c.kind = "dns" /\ n.answer = "refused"))
                           => n.c \notin changed'
    BY DEF CallsLeave
  <2>1. n \in calls /\ n.c.kind # k.c.kind
    BY <1>1 DEF JournalIInv, CallsApart
  <2>2. n.c \in recorded => n.c \in recorded'
    BY <1>2, <2>1
  <2>3. QED
    BY <1>1, <2>1, <2>2 DEF JournalIInv, CallsLeave
<1>7. UpIsKnown'
  <2> SUFFICES ASSUME NEW c \in changed, c.kind \in Tracked, c \notin lost, c \notin recorded'
               PROVE  c \in {n.c : n \in calls'}
    BY <1>1 DEF UpIsKnown
  <2>1. c # k.c
    BY <1>1
  <2>2. c \notin recorded
    BY <1>2, <2>1
  <2>3. PICK n \in calls : n.c = c
    BY <1>1, <2>2 DEF JournalIInv, UpIsKnown
  <2>4. QED
    BY <1>1, <2>1, <2>3
<1>8. RecoveryIsKnown' /\ DeadIsKnown'
  BY <1>1 DEF RecoveryIsKnown, DeadIsKnown
<1>9. DiskIsBehindByFault'
  BY <1>1 DEF JournalIInv, DiskIsBehindByFault, Save, Faulty, JournalTypes
<1>10. QED
  BY <1>4, <1>5, <1>6, <1>7, <1>8, <1>9 DEF JournalIInv

LEMMA AnsweredCall ==
  ASSUME JournalIInv, NEW k \in calls, k.answer # "waits"
  PROVE  /\ k.c \in Changes /\ k.on \in BOOLEAN /\ k.answer \in {"ok", "refused", "cut", "none"}
         /\ recorded \in SUBSET Changes /\ OncePerSlot(recorded)
         /\ k.c.kind \in Tracked /\ k.c \in changed \ lost =>
              /\ k.c \notin recorded => k.on /\ k.answer \in {"ok", "cut"}
              /\ ~k.on => k.answer = "cut" \/ (k.c.kind = "dns" /\ k.answer = "refused")
  BY DEF JournalIInv, JournalTypes, CallRecord, CallsLeave

\* The ends of the calls, one by one.
LEMMA AddRouteKeeps == ASSUME JournalIInv, NEW k \in calls, AddRoute(k) PROVE JournalIInv'
<1> DEFINE goes == k.answer # "refused" /\ k.c \notin recorded
<1> DEFINE r == Put(recorded, k.c)
<1>1. k.c.kind = "route" /\ k.answer # "waits" /\ Finish(k, goes, r) /\ k.on
  BY DEF AddRoute, Answered
<1>2. goes \in BOOLEAN
  OBVIOUS
<1>3. r \in SUBSET Changes /\ OncePerSlot(r) /\ \A d \in recorded : d.kind # k.c.kind => d \in r
  BY <1>1, AnsweredCall, PutAndDrop
<1>4. k.c.kind \in Tracked => /\ \A d \in recorded : d # k.c => d \in r
                              /\ k.c \in changed \ lost => IF goes THEN k.c \in r ELSE k.c \in recorded
  BY <1>1, AnsweredCall, PutAndDrop DEF Tracked
<1> HIDE DEF goes, r
<1>5. QED
  BY <1>1, <1>2, <1>3, <1>4, FinishKeeps

LEMMA DelRouteKeeps == ASSUME JournalIInv, NEW k \in calls, DelRoute(k) PROVE JournalIInv'
<1> DEFINE goes == k.answer # "cut"
<1> DEFINE r == Drop(recorded, k.c)
<1>1. k.c.kind = "route" /\ k.answer # "waits" /\ Finish(k, goes, r) /\ ~k.on
  BY DEF DelRoute, Answered
<1>2. goes \in BOOLEAN
  OBVIOUS
<1>3. r \in SUBSET Changes /\ OncePerSlot(r) /\ \A d \in recorded : d.kind # k.c.kind => d \in r
  BY <1>1, AnsweredCall, PutAndDrop
<1>4. k.c.kind \in Tracked => /\ \A d \in recorded : d # k.c => d \in r
                              /\ k.c \in changed \ lost => IF goes THEN k.c \in r ELSE k.c \in recorded
  BY <1>1, AnsweredCall, PutAndDrop DEF Tracked
<1> HIDE DEF goes, r
<1>5. QED
  BY <1>1, <1>2, <1>3, <1>4, FinishKeeps

LEMMA AddBypassKeeps == ASSUME JournalIInv, NEW k \in calls, AddBypass(k) PROVE JournalIInv'
<1> DEFINE goes == k.answer # "refused" /\ k.c \notin recorded
<1> DEFINE r == Put(recorded, k.c)
<1>1. k.c.kind = "bypass" /\ k.answer # "waits" /\ Finish(k, goes, r) /\ k.on
  BY DEF AddBypass, Answered
<1>2. goes \in BOOLEAN
  OBVIOUS
<1>3. r \in SUBSET Changes /\ OncePerSlot(r) /\ \A d \in recorded : d.kind # k.c.kind => d \in r
  BY <1>1, AnsweredCall, PutAndDrop
<1>4. k.c.kind \in Tracked => /\ \A d \in recorded : d # k.c => d \in r
                              /\ k.c \in changed \ lost => IF goes THEN k.c \in r ELSE k.c \in recorded
  BY <1>1, AnsweredCall, PutAndDrop DEF Tracked
<1> HIDE DEF goes, r
<1>5. QED
  BY <1>1, <1>2, <1>3, <1>4, FinishKeeps

LEMMA DelBypassKeeps == ASSUME JournalIInv, NEW k \in calls, DelBypass(k) PROVE JournalIInv'
<1> DEFINE goes == k.answer # "cut"
<1> DEFINE r == Drop(recorded, k.c)
<1>1. k.c.kind = "bypass" /\ k.answer # "waits" /\ Finish(k, goes, r) /\ ~k.on
  BY DEF DelBypass, Answered
<1>2. goes \in BOOLEAN
  OBVIOUS
<1>3. r \in SUBSET Changes /\ OncePerSlot(r) /\ \A d \in recorded : d.kind # k.c.kind => d \in r
  BY <1>1, AnsweredCall, PutAndDrop
<1>4. k.c.kind \in Tracked => /\ \A d \in recorded : d # k.c => d \in r
                              /\ k.c \in changed \ lost => IF goes THEN k.c \in r ELSE k.c \in recorded
  BY <1>1, AnsweredCall, PutAndDrop DEF Tracked
<1> HIDE DEF goes, r
<1>5. QED
  BY <1>1, <1>2, <1>3, <1>4, FinishKeeps

LEMMA SetNATKeeps == ASSUME JournalIInv, NEW k \in calls, SetNAT(k) PROVE JournalIInv'
<1> DEFINE goes == IF k.on THEN k.answer # "refused" ELSE k.answer = "ok"
<1> DEFINE r == IF k.on THEN Put(recorded, k.c) ELSE Drop(recorded, k.c)
<1>1. k.c.kind = "nat" /\ k.answer # "waits" /\ Finish(k, goes, r)
  BY DEF SetNAT, Answered
<1>2. goes \in BOOLEAN
  OBVIOUS
<1>3. r \in SUBSET Changes /\ OncePerSlot(r) /\ \A d \in recorded : d.kind # k.c.kind => d \in r
  BY <1>1, AnsweredCall, PutAndDrop
<1>4. k.c.kind \in Tracked => /\ \A d \in recorded : d # k.c => d \in r
                              /\ k.c \in changed \ lost => IF goes THEN k.c \in r ELSE k.c \in recorded
  BY <1>1, AnsweredCall, PutAndDrop DEF Tracked
<1> HIDE DEF goes, r
<1>5. QED
  BY <1>1, <1>2, <1>3, <1>4, FinishKeeps

LEMMA AllowForwardKeeps == ASSUME JournalIInv, NEW k \in calls, AllowForward(k) PROVE JournalIInv'
<1> DEFINE goes == IF k.on THEN k.answer \in {"ok", "cut"} ELSE k.answer \in {"ok", "none"}
<1> DEFINE r == IF k.on THEN Put(recorded, k.c) ELSE Drop(recorded, k.c)
<1>1. k.c.kind = "forward" /\ k.answer # "waits" /\ Finish(k, goes, r)
  BY DEF AllowForward, Answered
<1>2. goes \in BOOLEAN
  <2>1. CASE k.on
    BY <2>1
  <2>2. CASE ~k.on
    BY <2>2
  <2>3. QED
    BY <2>1, <2>2
<1>3. r \in SUBSET Changes /\ OncePerSlot(r) /\ \A d \in recorded : d.kind # k.c.kind => d \in r
  BY <1>1, AnsweredCall, PutAndDrop
<1>4. k.c.kind \in Tracked => /\ \A d \in recorded : d # k.c => d \in r
                              /\ k.c \in changed \ lost => IF goes THEN k.c \in r ELSE k.c \in recorded
  BY <1>1, AnsweredCall, PutAndDrop DEF Tracked
<1> HIDE DEF goes, r
<1>5. QED
  BY <1>1, <1>2, <1>3, <1>4, FinishKeeps

LEMMA SetLinkDNSKeeps == ASSUME JournalIInv, NEW k \in calls, SetLinkDNS(k) PROVE JournalIInv'
<1> DEFINE goes == k.on \/ k.answer = "ok"
<1> DEFINE r == IF ~k.on THEN Drop(recorded, k.c)
                ELSE IF k.answer = "refused" THEN recorded ELSE Put(recorded, k.c)
<1>1. k.c.kind = "dns" /\ k.answer # "waits" /\ Finish(k, goes, r)
  BY DEF SetLinkDNS, Answered
<1>2. goes \in BOOLEAN
  OBVIOUS
<1>3. r \in SUBSET Changes /\ OncePerSlot(r) /\ \A d \in recorded : d.kind # k.c.kind => d \in r
  BY <1>1, AnsweredCall, PutAndDrop
<1>4. k.c.kind \in Tracked => /\ \A d \in recorded : d # k.c => d \in r
                              /\ k.c \in changed \ lost => IF goes THEN k.c \in r ELSE k.c \in recorded
  BY <1>1, AnsweredCall, PutAndDrop DEF Tracked
<1> HIDE DEF goes, r
<1>5. QED
  BY <1>1, <1>2, <1>3, <1>4, FinishKeeps

LEMMA ReplyViaArrivalKeeps == ASSUME JournalIInv, NEW k \in calls, ReplyViaArrival(k) PROVE JournalIInv'
<1> DEFINE goes == k.answer # "cut" \/ (k.on /\ k.c \notin recorded)
<1> DEFINE r == IF ~k.on THEN Drop(recorded, k.c)
                ELSE IF k.answer = "refused" THEN recorded ELSE Put(recorded, k.c)
<1>1. k.c.kind = "arrival" /\ k.answer # "waits" /\ Finish(k, goes, r)
  BY DEF ReplyViaArrival, Answered
<1>2. goes \in BOOLEAN
  OBVIOUS
<1>3. r \in SUBSET Changes /\ OncePerSlot(r) /\ \A d \in recorded : d.kind # k.c.kind => d \in r
  BY <1>1, AnsweredCall, PutAndDrop
<1>4. k.c.kind \in Tracked => /\ \A d \in recorded : d # k.c => d \in r
                              /\ k.c \in changed \ lost => IF goes THEN k.c \in r ELSE k.c \in recorded
  BY <1>1, AnsweredCall, PutAndDrop DEF Tracked
<1> HIDE DEF goes, r
<1>5. QED
  BY <1>1, <1>2, <1>3, <1>4, FinishKeeps

LEMMA DiesKeeps == ASSUME JournalIInv, Dies PROVE JournalIInv'
<1>1. /\ daemon # "dead" /\ daemon' = "dead" /\ calls' = {} /\ recorded' = {} /\ todo' = {} /\ kept' = {}
      /\ changed' \subseteq changed /\ lost' = (lost \cup {k.c : k \in calls} \cup (recorded \ onDisk)) \cap changed'
      /\ onDisk' = onDisk /\ faults' = faults
  BY DEF Dies, Losing
<1>2. JournalTypes'
  <2>1. lost' \subseteq Changes
    BY <1>1 DEF JournalIInv, JournalTypes
  <2>2. QED
    BY <1>1, <2>1 DEF JournalIInv, JournalTypes, OncePerSlot
<1>3. CallsApart' /\ CallsLeave' /\ UpIsKnown' /\ RecoveryIsKnown' /\ DiskIsBehindByFault'
  BY <1>1 DEF CallsApart, CallsLeave, UpIsKnown, RecoveryIsKnown, DiskIsBehindByFault
<1>4. DeadIsKnown'
  <2> SUFFICES ASSUME NEW c \in changed', c.kind \in Tracked PROVE c \in lost' \cup onDisk
    BY <1>1 DEF DeadIsKnown
  <2>1. CASE daemon = "up"
    BY <1>1, <2>1 DEF JournalIInv, UpIsKnown
  <2>2. CASE daemon = "recovering"
    BY <1>1, <2>2 DEF JournalIInv, RecoveryIsKnown, JournalTypes
  <2>3. QED
    BY <1>1, <2>1, <2>2 DEF JournalIInv, JournalTypes
<1>5. QED
  BY <1>2, <1>3, <1>4 DEF JournalIInv

LEMMA RecoverBeginsKeeps == ASSUME JournalIInv, RecoverBegins PROVE JournalIInv'
<1>2. /\ daemon' = "recovering" /\ todo' = onDisk /\ kept' = {} /\ calls = {} /\ daemon \in {"dead", "up"}
      /\ lost' = (lost \cup (recorded \ onDisk)) \cap changed
      /\ UNCHANGED <<changed, recorded, onDisk, calls, faults>>
  BY DEF RecoverBegins, Losing, JournalIInv, CallsApart
<1>3. JournalTypes'
  BY <1>2 DEF JournalIInv, JournalTypes, OncePerSlot
<1>4. CallsApart' /\ CallsLeave' /\ UpIsKnown' /\ DeadIsKnown' /\ DiskIsBehindByFault'
  BY <1>2 DEF CallsApart, CallsLeave, UpIsKnown, DeadIsKnown, DiskIsBehindByFault
<1>5. RecoveryIsKnown'
  <2>1. CASE daemon = "up"
    BY <1>2, <2>1 DEF JournalIInv, UpIsKnown, RecoveryIsKnown
  <2>2. CASE daemon = "dead"
    BY <1>2, <2>2 DEF JournalIInv, DeadIsKnown, RecoveryIsKnown
  <2>3. QED
    BY <1>2, <2>1, <2>2
<1>6. QED
  BY <1>3, <1>4, <1>5 DEF JournalIInv

\* An entry is struck out of what is to do when its change is gone, or kept.
LEMMA RecoverOneKeeps == ASSUME JournalIInv, RecoverOne PROVE JournalIInv'
<1>1. PICK c \in todo :
         /\ todo' = todo \ {c}
         /\ \E o \in Outcomes(changed, c, FALSE) :
              /\ Faulty(o.fault) /\ changed' = o.host
              /\ kept' = IF o.answer \in {"ok", "none"} THEN kept ELSE kept \cup {c}
  BY DEF RecoverOne
<1>2. PICK o \in Outcomes(changed, c, FALSE) :
              /\ Faulty(o.fault) /\ changed' = o.host
              /\ kept' = IF o.answer \in {"ok", "none"} THEN kept ELSE kept \cup {c}
  BY <1>1
<1>3. /\ daemon = "recovering" /\ lost' = lost \cap changed' /\ UNCHANGED <<recorded, onDisk, daemon, calls>>
      /\ calls = {} /\ c \in Changes /\ c \in onDisk /\ changed \in SUBSET Changes
  BY DEF RecoverOne, Losing, JournalIInv, JournalTypes, CallsApart
<1>4. /\ changed' \subseteq changed \cup {c} /\ o.fault \in {0, 1}
      /\ c.kind \in Tracked => changed' \subseteq changed /\ (o.answer \in {"ok", "none"} => c \notin changed')
  BY <1>2, <1>3, OutcomesAre
<1>5. JournalTypes'
  <2>1. faults' \in Nat
    BY <1>2, <1>4 DEF Faulty, JournalIInv, JournalTypes
  <2>2. kept' \subseteq onDisk
    BY <1>2, <1>3 DEF JournalIInv, JournalTypes
  <2>3. QED
    BY <1>1, <1>3, <1>4, <2>1, <2>2 DEF JournalIInv, JournalTypes, OncePerSlot
<1>6. CallsApart' /\ CallsLeave' /\ UpIsKnown' /\ DeadIsKnown' /\ DiskIsBehindByFault'
  BY <1>3 DEF CallsApart, CallsLeave, UpIsKnown, DeadIsKnown, DiskIsBehindByFault
<1>7. RecoveryIsKnown'
  <2> SUFFICES ASSUME NEW d \in changed', d.kind \in Tracked PROVE d \in lost' \cup todo' \cup kept'
    BY DEF RecoveryIsKnown
  <2>1. CASE d = c
    BY <1>2, <1>4, <2>1
  <2>2. CASE d # c
    <3>1. d \in lost \cup todo \cup kept
      BY <1>3, <1>4, <2>2 DEF JournalIInv, RecoveryIsKnown
    <3>2. QED
      BY <1>1, <1>2, <1>3, <2>2, <3>1
  <2>3. QED
    BY <2>1, <2>2
<1>8. QED
  BY <1>5, <1>6, <1>7 DEF JournalIInv

LEMMA RecoverEndsKeeps == ASSUME JournalIInv, RecoverEnds PROVE JournalIInv'
<1>1. /\ daemon = "recovering" /\ todo = {} /\ recorded' = kept /\ Save(kept) /\ kept' = {} /\ daemon' = "up"
      /\ UNCHANGED <<changed, calls, todo, lost>> /\ calls = {}
  BY DEF RecoverEnds, JournalIInv, CallsApart
<1>2. kept \subseteq onDisk /\ kept \subseteq Changes /\ OncePerSlot(kept)
  BY DEF JournalIInv, JournalTypes, OncePerSlot
<1>3. /\ onDisk' \subseteq Changes /\ OncePerSlot(onDisk') /\ faults' \in Nat
      /\ onDisk' # kept => faults' > 0
  BY <1>1, <1>2 DEF Save, Faulty, JournalIInv, JournalTypes
<1>4. JournalTypes'
  BY <1>1, <1>2, <1>3 DEF JournalIInv, JournalTypes, OncePerSlot
<1>5. CallsApart' /\ CallsLeave' /\ RecoveryIsKnown' /\ DeadIsKnown' /\ DiskIsBehindByFault'
  BY <1>1, <1>3 DEF CallsApart, CallsLeave, RecoveryIsKnown, DeadIsKnown, DiskIsBehindByFault
<1>6. UpIsKnown'
  BY <1>1 DEF JournalIInv, RecoveryIsKnown, UpIsKnown
<1>7. QED
  BY <1>4, <1>5, <1>6 DEF JournalIInv

\* Every route, bypass route and redirect on the host is in the record a
\* crash leaves behind, however calls, deadlines, failed saves and crashes
\* follow each other, and the file is behind memory only after a failed save
\* (Journal.AddRoute and its siblings, save, Recover).
THEOREM JournalSound == JournalSpec => []JournalInv
<1>1. JournalInit => JournalIInv
  BY JournalStarts
<1>2. JournalIInv /\ [JournalNext]_journalVars => JournalIInv'
  <2> SUFFICES ASSUME JournalIInv, [JournalNext]_journalVars PROVE JournalIInv'
    OBVIOUS
  <2>1. CASE JournalNext
    <3>1. ASSUME NEW c \in Changes, NEW on \in BOOLEAN, Call(c, on) PROVE JournalIInv'
      BY <3>1, CallKeeps
    <3>2. ASSUME NEW k \in calls, Command(k) PROVE JournalIInv'
      BY <3>2, CommandKeeps
    <3>3. ASSUME NEW k \in calls, AddRoute(k) \/ DelRoute(k) \/ AddBypass(k) \/ DelBypass(k) PROVE JournalIInv'
      BY <3>3, AddRouteKeeps, DelRouteKeeps, AddBypassKeeps, DelBypassKeeps
    <3>4. ASSUME NEW k \in calls, SetNAT(k) \/ AllowForward(k) \/ SetLinkDNS(k) \/ ReplyViaArrival(k)
          PROVE  JournalIInv'
      BY <3>4, SetNATKeeps, AllowForwardKeeps, SetLinkDNSKeeps, ReplyViaArrivalKeeps
    <3>5. ASSUME Dies \/ RecoverBegins \/ RecoverOne \/ RecoverEnds PROVE JournalIInv'
      BY <3>5, DiesKeeps, RecoverBeginsKeeps, RecoverOneKeeps, RecoverEndsKeeps
    <3>6. QED
      BY <2>1, <3>1, <3>2, <3>3, <3>4, <3>5 DEF JournalNext
  <2>2. CASE UNCHANGED journalVars
    <3>1. UNCHANGED <<changed, recorded, onDisk, daemon, calls, todo, kept, lost, faults>>
      BY <2>2 DEF journalVars
    <3>2. JournalTypes' /\ CallsApart' /\ CallsLeave'
      BY <3>1 DEF JournalIInv, JournalTypes, OncePerSlot, CallsApart, CallsLeave
    <3>3. UpIsKnown' /\ RecoveryIsKnown' /\ DeadIsKnown' /\ DiskIsBehindByFault'
      BY <3>1 DEF JournalIInv, UpIsKnown, RecoveryIsKnown, DeadIsKnown, DiskIsBehindByFault
    <3>4. QED
      BY <3>2, <3>3 DEF JournalIInv
  <2>3. QED
    BY <2>1, <2>2
<1>3. JournalIInv => JournalInv
  <2> SUFFICES ASSUME JournalIInv PROVE JournalInv
    OBVIOUS
  <2>1. JournalTypeOK
    BY DEF JournalIInv, JournalTypes, JournalTypeOK, OncePerSlot
  <2>2. AnsweredIsKnown
    <3> SUFFICES ASSUME NEW c \in changed, c.kind \in Tracked PROVE c \in Known
      BY DEF AnsweredIsKnown, Tracked
    <3>1. CASE daemon = "up"
      BY <3>1 DEF JournalIInv, UpIsKnown, Known
    <3>2. CASE daemon = "recovering"
      BY <3>2 DEF JournalIInv, RecoveryIsKnown, Known, JournalTypes
    <3>3. CASE daemon = "dead"
      BY <3>3 DEF JournalIInv, DeadIsKnown, Known
    <3>4. QED
      BY <3>1, <3>2, <3>3 DEF JournalIInv, JournalTypes
  <2>3. QED
    BY <2>1, <2>2 DEF JournalInv, JournalIInv
<1>4. QED
  BY <1>1, <1>2, <1>3, PTL DEF JournalSpec

-----------------------------------------------------------------------------
(***************************************************************************)
(* LocalNetworks, in the turns of the loop that wait for the handlers of   *)
(* their server.  The keys on disk belong to the entries of the lists: a   *)
(* key in the directory of an entry was used with that entry's control     *)
(* plane alone, and a directory without an entry has no key.  The root     *)
(* directory is the exception, because it is always there: as long as it   *)
(* has a key an entry names it, or the settings of an older version do.    *)
(***************************************************************************)
Places == NetIds \cup {Root}
NetRec == [id : NetIds, ctl : Controls, dir : Places]
ReqRec == [op : {"none", "add", "addSelect", "select", "remove", "reset", "renew", "stop"},
           id : NetIds \cup {Nothing}, at : Places \cup {Nothing}, was : BOOLEAN, old : {FALSE}]

ListOk(L) ==
    /\ L \in Seq(NetRec) /\ \A i \in DOMAIN L : L[i].dir \in {Root, L[i].id}
    /\ \A i, j \in DOMAIN L : L[i].id = L[j].id \/ L[i].dir = L[j].dir => i = j

Listed(L, c) == ListOk(L) /\ c \in Ids(L) \cup {Nothing}

NetTypes ==
    /\ Listed(netlist, chosen) /\ Listed(netFile.list, netFile.current)
    /\ ~netFile.there => netFile.list = <<>> /\ netFile.current = Nothing
    /\ removing \in NetIds \cup {Nothing} /\ upNext \in BOOLEAN /\ turn \in {"turn", "start", "run", "setup", "off"}
    /\ ended \in BOOLEAN /\ upset \in BOOLEAN /\ netFaults \in Nat
    /\ (runs = NoNet \/ (runs \in NetRec /\ runs.dir \in {Root, runs.id}))
    /\ used \in [Places -> SUBSET Controls] /\ settings \in Controls \cup {Nothing}
    /\ reqs \in [NetReqs -> ReqRec] /\ (turn \notin {"run", "setup"} => \A q \in NetReqs : reqs[q] = NoReq)

Matches(L, u) == \A e \in Range(L) : u[e.dir] \subseteq {e.ctl}
HasRoot(L) == \E e \in Range(L) : e.dir = Root
FitsFile(u, file, s) ==
    u[Root] # {} => HasRoot(file.list) \/ (~file.there /\ s \in Controls /\ u[Root] \subseteq {s})

KeysOk ==
    /\ Matches(netlist, used) /\ Matches(netFile.list, used)
    /\ \A p \in NetIds : p \notin made => used[p] = {}
    /\ \A p \in Places : \A a, b \in used[p] : a = b
    /\ turn \in {"start", "run", "setup"} /\ used[Root] # {} => HasRoot(netlist)
    /\ FitsFile(used, netFile, settings)

StartsOk == turn = "start" => netlist = netFile.list /\ runs \in Range(netlist) /\ runs.id = chosen

Ending == ended \/ \E q \in NetReqs : reqs[q].op = "stop"
RunsOk == turn = "run" /\ ~upset /\ runs.id # chosen => Ending

NetsIInv == NetTypes /\ KeysOk /\ StartsOk /\ RunsOk

LEMMA EmptyListed == Listed(<<>>, Nothing) /\ Range(<<>>) = {} /\ Ids(<<>>) = {}
  BY DEF Listed, ListOk, Range, Ids

LEMMA IdsOfRange == ASSUME NEW L PROVE Ids(L) = {e.id : e \in Range(L)}
  BY DEF Ids, Range

LEMMA OneListed ==
  ASSUME NEW n \in NetRec, n.dir = Root
  PROVE  Listed(<<n>>, n.id) /\ Range(<<n>>) = {n} /\ Ids(<<n>>) = {n.id} /\ <<n>> # <<>>
  BY DEF Listed, ListOk, Range, Ids

LEMMA EntriesOk ==
  ASSUME NEW L, ListOk(L)
  PROVE  /\ \A e \in Range(L) : e \in NetRec /\ e.id \in Ids(L) /\ e.dir \in {Root, e.id}
         /\ \A e, f \in Range(L) : e.id = f.id \/ e.dir = f.dir => e = f
         /\ Ids(L) \subseteq NetIds
<1>1. \A e \in Range(L) : \E i \in DOMAIN L : e = L[i]
  BY DEF Range
<1>2. \A i \in DOMAIN L : L[i] \in NetRec /\ L[i].id \in Ids(L) /\ L[i].dir \in {Root, L[i].id}
  BY DEF ListOk, Ids
<1>3. ASSUME NEW e \in Range(L), NEW f \in Range(L), e.id = f.id \/ e.dir = f.dir PROVE e = f
  BY <1>1, <1>3 DEF ListOk
<1>4. Ids(L) \subseteq NetIds
  BY <1>2 DEF Ids, NetRec
<1>5. QED
  BY <1>1, <1>2, <1>3, <1>4

LEMMA GetOk ==
  ASSUME NEW L, ListOk(L), NEW id \in Ids(L)
  PROVE  Get(L, id) \in Range(L) /\ Get(L, id).id = id /\ Get(L, id) \in NetRec
<1>1. \E n \in Range(L) : n.id = id
  BY DEF Ids, Range
<1>2. QED
  BY <1>1, EntriesOk DEF Get

LEMMA AppendOk ==
  ASSUME NEW L, ListOk(L), NEW n \in NetRec, n.id \notin Ids(L), n.dir = IF L = <<>> THEN Root ELSE n.id
  PROVE  /\ ListOk(Append(L, n)) /\ Range(Append(L, n)) = Range(L) \cup {n}
         /\ Ids(Append(L, n)) = Ids(L) \cup {n.id}
<1> DEFINE M == Append(L, n)
<1>1. /\ L \in Seq(NetRec) /\ M \in Seq(NetRec) /\ Len(L) \in Nat /\ DOMAIN L = 1..Len(L) /\ DOMAIN M = 1..(Len(L) + 1)
      /\ M[Len(L) + 1] = n /\ \A i \in 1..Len(L) : M[i] = L[i]
  BY DEF ListOk
<1> HIDE DEF M
<1>2. DOMAIN M = DOMAIN L \cup {Len(L) + 1} /\ Len(L) + 1 \notin DOMAIN L
  BY <1>1
<1>3. \A i \in DOMAIN M : (i \in DOMAIN L /\ M[i] = L[i]) \/ (i = Len(L) + 1 /\ M[i] = n)
  BY <1>1, <1>2
<1>4. Range(M) = Range(L) \cup {n}
  BY <1>1, <1>2, <1>3 DEF Range
<1>5. Ids(M) = Ids(L) \cup {n.id}
  BY <1>4, IdsOfRange
<1>6. \A i \in DOMAIN L : L[i].id # n.id /\ L[i].dir # n.dir
  <2> SUFFICES ASSUME NEW i \in DOMAIN L PROVE L[i].id # n.id /\ L[i].dir # n.dir
    OBVIOUS
  <2>1. L # <<>> /\ L[i].id \in Ids(L) /\ L[i].dir \in {Root, L[i].id}
    BY DEF Ids, ListOk
  <2>2. n.id \in NetIds /\ n.dir = n.id
    BY <2>1 DEF NetRec
  <2>3. QED
    BY <2>1, <2>2, NetConstants
<1>7. ListOk(M)
  <2>1. \A i \in DOMAIN M : M[i].dir \in {Root, M[i].id}
    BY <1>3 DEF ListOk
  <2>2. ASSUME NEW i \in DOMAIN M, NEW j \in DOMAIN M, M[i].id = M[j].id \/ M[i].dir = M[j].dir PROVE i = j
    BY <1>3, <1>6, <2>2 DEF ListOk
  <2>3. QED
    BY <1>1, <2>1, <2>2 DEF ListOk
<1>8. QED
  BY <1>4, <1>5, <1>7 DEF M

LEMMA RemovedOk ==
  ASSUME NEW L, ListOk(L), NEW id \in Ids(L)
  PROVE  /\ ListOk(RemovedFrom(L, id)) /\ Range(RemovedFrom(L, id)) = {e \in Range(L) : e.id # id}
         /\ Ids(RemovedFrom(L, id)) = Ids(L) \ {id}
<1> DEFINE k == CHOOSE i \in DOMAIN L : L[i].id = id
<1> DEFINE M == RemovedFrom(L, id)
<1>1. \E i \in DOMAIN L : L[i].id = id
  BY DEF Ids
<1>2. k \in DOMAIN L /\ L[k].id = id
  BY <1>1
<1>3. M = SubSeq(L, 1, k - 1) \o SubSeq(L, k + 1, Len(L))
  BY DEF RemovedFrom, RemoveAt
<1> HIDE DEF k, M
<1>4. L \in Seq(NetRec) /\ Len(L) \in Nat /\ k \in 1..Len(L) /\ DOMAIN L = 1..Len(L)
  BY <1>2 DEF ListOk
<1> DEFINE A == SubSeq(L, 1, k - 1)
<1> DEFINE B == SubSeq(L, k + 1, Len(L))
<1>5. A \in Seq(NetRec) /\ Len(A) = k - 1 /\ \A i \in 1..(k - 1) : A[i] = L[i]
  BY <1>4, SubSeqProperties
<1>6. B \in Seq(NetRec) /\ Len(B) = Len(L) - k /\ \A i \in 1..(Len(L) - k) : B[i] = L[k + i]
  <2>1. \A i \in (k + 1)..Len(L) : L[i] \in NetRec
    BY <1>4
  <2>2. k + 1 \in Int /\ Len(L) \in Int /\ Len(L) - (k + 1) + 1 = Len(L) - k
    BY <1>4
  <2>3. B \in Seq(NetRec) /\ Len(B) = IF k + 1 <= Len(L) THEN Len(L) - (k + 1) + 1 ELSE 0
    BY <2>1, <2>2, SubSeqProperties
  <2>4. \A i \in 1..(Len(L) - (k + 1) + 1) : B[i] = L[(k + 1) + i - 1]
    BY <2>1, <2>2, SubSeqProperties
  <2> HIDE DEF B
  <2>5. Len(B) = Len(L) - k
    <3>1. CASE k + 1 <= Len(L)
      BY <2>2, <2>3, <3>1
    <3>2. CASE ~ (k + 1 <= Len(L))
      <4>1. \A l, j \in Nat : j <= l /\ ~ (j + 1 <= l) => l - j = 0
        OBVIOUS
      <4>2. k \in Nat /\ k <= Len(L)
        BY <1>4
      <4>3. Len(L) - k = 0
        BY <1>4, <3>2, <4>1, <4>2
      <4>4. QED
        BY <2>3, <3>2, <4>3
    <3>3. QED
      BY <3>1, <3>2
  <2>6. ASSUME NEW i \in 1..(Len(L) - k) PROVE B[i] = L[k + i]
    <3>1. i \in 1..(Len(L) - (k + 1) + 1) /\ (k + 1) + i - 1 = k + i
      BY <1>4
    <3>2. B[i] = L[(k + 1) + i - 1]
      BY <2>4, <3>1
    <3>3. QED
      BY <3>1, <3>2
  <2>7. QED
    BY <2>3, <2>5, <2>6
<1>7. M = A \o B
  BY <1>3
<1> HIDE DEF A, B
<1>8. M \in Seq(NetRec) /\ Len(M) = Len(L) - 1 /\ DOMAIN M = 1..(Len(L) - 1)
  <2>1. M \in Seq(NetRec) /\ Len(M) = Len(A) + Len(B)
    BY <1>5, <1>6, <1>7, ConcatProperties
  <2>2. QED
    BY <1>4, <1>5, <1>6, <2>1
<1>81. \A i \in DOMAIN M : M[i] = IF i < k THEN L[i] ELSE L[i + 1]
  <2>1. \A i \in 1..(Len(A) + Len(B)) : M[i] = IF i <= Len(A) THEN A[i] ELSE B[i - Len(A)]
    BY <1>5, <1>6, <1>7, ConcatProperties
  <2> SUFFICES ASSUME NEW i \in DOMAIN M PROVE M[i] = IF i < k THEN L[i] ELSE L[i + 1]
    OBVIOUS
  <2>2. i \in 1..(Len(A) + Len(B))
    BY <1>4, <1>5, <1>6, <1>8
  <2>3. CASE i < k
    <3>1. i <= Len(A) /\ i \in 1..(k - 1)
      BY <1>4, <1>5, <1>8, <2>3
    <3>2. M[i] = A[i]
      BY <2>1, <2>2, <3>1
    <3>3. QED
      BY <1>5, <2>3, <3>1, <3>2
  <2>4. CASE ~ (i < k)
    <3>1. ~ (i <= Len(A)) /\ i - Len(A) \in 1..(Len(L) - k) /\ k + (i - Len(A)) = i + 1
      BY <1>4, <1>5, <1>8, <2>4
    <3>2. M[i] = B[i - Len(A)]
      BY <2>1, <2>2, <3>1
    <3>3. B[i - Len(A)] = L[k + (i - Len(A))]
      BY <1>6, <3>1
    <3>4. QED
      BY <2>4, <3>1, <3>2, <3>3
  <2>5. QED
    BY <2>3, <2>4
<1>9. \A i \in DOMAIN M : LET j == IF i < k THEN i ELSE i + 1 IN j \in DOMAIN L /\ j # k /\ M[i] = L[j]
  BY <1>4, <1>8, <1>81
<1>10. \A j \in DOMAIN L : j # k => \E i \in DOMAIN M : M[i] = L[j]
  <2> SUFFICES ASSUME NEW j \in DOMAIN L, j # k PROVE \E i \in DOMAIN M : M[i] = L[j]
    OBVIOUS
  <2>1. CASE j < k
    BY <1>4, <1>8, <1>81, <2>1
  <2>2. CASE j > k
    <3>1. j - 1 \in DOMAIN M /\ ~ (j - 1 < k) /\ (j - 1) + 1 = j
      BY <1>4, <1>8, <2>2
    <3>2. QED
      BY <1>81, <3>1
  <2>3. QED
    BY <1>4, <2>1, <2>2
<1>11. \A j \in DOMAIN L : L[j].id = id <=> j = k
  BY <1>2 DEF ListOk
<1>12. Range(M) = {e \in Range(L) : e.id # id}
  <2>1. \A i \in DOMAIN M : M[i] \in {e \in Range(L) : e.id # id}
    BY <1>9, <1>11 DEF Range
  <2>2. \A j \in DOMAIN L : L[j].id # id => L[j] \in Range(M)
    BY <1>10, <1>11 DEF Range
  <2>3. QED
    BY <2>1, <2>2 DEF Range
<1>13. Ids(M) = Ids(L) \ {id}
  BY <1>12, IdsOfRange
<1>14. ListOk(M)
  <2>1. \A i \in DOMAIN M : M[i].dir \in {Root, M[i].id}
    BY <1>9 DEF ListOk
  <2>2. ASSUME NEW i \in DOMAIN M, NEW j \in DOMAIN M, M[i].id = M[j].id \/ M[i].dir = M[j].dir PROVE i = j
    <3> DEFINE a == IF i < k THEN i ELSE i + 1
    <3> DEFINE b == IF j < k THEN j ELSE j + 1
    <3>1. a \in DOMAIN L /\ b \in DOMAIN L /\ M[i] = L[a] /\ M[j] = L[b]
      BY <1>9
    <3>2. (a = b) => (i = j)
      BY <1>4, <1>8
    <3> HIDE DEF a, b
    <3>3. QED
      BY <2>2, <3>1, <3>2 DEF ListOk
  <2>3. QED
    BY <1>8, <2>1, <2>2 DEF ListOk
<1>15. QED
  BY <1>12, <1>13, <1>14 DEF M

LEMMA NextCurrentOk ==
  ASSUME NEW L, NEW c, Listed(L, c), NEW id \in Ids(L)
  PROVE  Listed(RemovedFrom(L, id), NextCurrent(L, c, id))
<1> DEFINE M == RemovedFrom(L, id)
<1>1. ListOk(M) /\ Ids(M) = Ids(L) \ {id}
  BY RemovedOk DEF Listed
<1>2. NextCurrent(L, c, id) = IF c # id THEN c ELSE IF M = <<>> THEN Nothing ELSE M[1].id
  BY DEF NextCurrent
<1> HIDE DEF M
<1>3. M # <<>> => M[1].id \in Ids(M)
  BY <1>1 DEF Ids, ListOk
<1>4. QED
  BY <1>1, <1>2, <1>3 DEF Listed, M

\* What the file is after a write that may fail.
LEMMA SaveFacts ==
  ASSUME NetTypes, NEW L, NEW c, Listed(L, c), SaveNetworks(L, c)
  PROVE  /\ Listed(netFile'.list, netFile'.current) /\ upset' \in BOOLEAN /\ netFaults' \in Nat /\ (upset => upset')
         /\ ~netFile'.there => netFile'.list = <<>> /\ netFile'.current = Nothing
         /\ \/ netFile'.list = L /\ netFile'.there /\ upset' = upset /\ netFaults' = netFaults
            \/ netFile' = netFile /\ upset' /\ netFaults' # netFaults
<1>1. CASE netFile' = [there |-> TRUE, list |-> L, current |-> c] /\ UNCHANGED <<netFaults, upset>>
  BY <1>1 DEF NetTypes
<1>2. CASE netFaults' = netFaults + 1 /\ upset' = TRUE /\ UNCHANGED netFile
  <2>1. netFaults' \in Nat /\ netFaults' # netFaults /\ upset' = TRUE /\ netFile' = netFile
    BY <1>2 DEF NetTypes
  <2>2. QED
    BY <2>1 DEF NetTypes
<1>3. QED
  BY <1>1, <1>2 DEF SaveNetworks

LEMMA NoReqOk == NoReq \in ReqRec /\ NoReq.op = "none" /\ NoReq.old = FALSE
  BY DEF NoReq, ReqRec

LEMMA AnsweredFacts ==
  ASSUME NetTypes, NEW q \in NetReqs, NEW ends \in BOOLEAN, NetAnswered(q, ends)
  PROVE  /\ reqs' \in [NetReqs -> ReqRec]
         /\ \A p \in NetReqs : p # q => reqs'[p] = reqs[p]
         /\ reqs'[q].op = IF ends THEN "stop" ELSE "none"
<1> DEFINE r == IF ends THEN [reqs[q] EXCEPT !.op = "stop"] ELSE NoReq
<1>1. reqs \in [NetReqs -> ReqRec] /\ reqs[q] \in ReqRec
  BY DEF NetTypes
<1>2. [reqs[q] EXCEPT !.op = "stop"] \in ReqRec /\ [reqs[q] EXCEPT !.op = "stop"].op = "stop"
  BY <1>1 DEF ReqRec
<1>3. r \in ReqRec /\ r.op = IF ends THEN "stop" ELSE "none"
  BY <1>2, NoReqOk
<1>4. reqs' = [reqs EXCEPT ![q] = r]
  BY DEF NetAnswered
<1> HIDE DEF r
<1>5. QED
  BY <1>1, <1>3, <1>4

\* A request that is answered was under way in a turn that serves.
LEMMA Acting ==
  ASSUME NetTypes, NEW q \in NetReqs, reqs[q].op # "none"
  PROVE  turn \in {"run", "setup"} /\ reqs[q] \in ReqRec
  BY NoReqOk DEF NetTypes

\* A server that ends keeps ending, whatever request q is answered.
LEMMA EndingStays ==
  ASSUME NetTypes, Ending, NEW q \in NetReqs, reqs[q].op # "stop", NEW ends \in BOOLEAN, NetAnswered(q, ends),
         ended' = ended
  PROVE  Ending'
<1>1. CASE ended
  BY <1>1 DEF Ending
<1>2. CASE \E p \in NetReqs : reqs[p].op = "stop"
  <2>1. PICK p \in NetReqs : reqs[p].op = "stop"
    BY <1>2
  <2>2. reqs'[p] = reqs[p]
    BY <2>1, AnsweredFacts
  <2>3. QED
    BY <2>1, <2>2 DEF Ending
<1>3. QED
  BY <1>1, <1>2 DEF Ending

LEMMA StopEnds ==
  ASSUME NetTypes, NEW q \in NetReqs, NetAnswered(q, TRUE)
  PROVE  Ending'
  BY AnsweredFacts DEF Ending

LEMMA LocalStarts == LocalInit => NetsIInv
<1> SUFFICES ASSUME LocalInit PROVE NetsIInv
  OBVIOUS
<1>1. NetTypes
  <2>1. Listed(netlist, chosen) /\ Listed(netFile.list, netFile.current)
    BY EmptyListed DEF LocalInit
  <2>2. used \in [Places -> SUBSET Controls]
    BY DEF LocalInit, Places
  <2>3. reqs \in [NetReqs -> ReqRec] /\ \A q \in NetReqs : reqs[q] = NoReq
    BY NoReqOk DEF LocalInit
  <2>4. QED
    BY <2>1, <2>2, <2>3 DEF LocalInit, NetTypes
<1>2. KeysOk
  <2>1. Matches(netlist, used) /\ Matches(netFile.list, used)
    BY EmptyListed DEF LocalInit, Matches
  <2>2. \A p \in Places : used[p] = IF p = Root /\ settings # Nothing THEN {settings} ELSE {}
    BY DEF LocalInit, Places
  <2>3. FitsFile(used, netFile, settings)
    BY <2>2 DEF FitsFile, LocalInit, Places
  <2>4. turn = "turn"
    BY DEF LocalInit
  <2>5. QED
    BY <2>1, <2>2, <2>3, <2>4, NetConstants DEF KeysOk, Places
<1>3. QED
  BY <1>1, <1>2 DEF NetsIInv, LocalInit, StartsOk, RunsOk

LEMMA BeginKeeps ==
  ASSUME NetsIInv, NEW q \in NetReqs, NEW id \in NetIds \cup {Nothing},
         NEW op \in {"add", "addSelect", "select", "remove", "reset", "renew"}, Begin(q, op, id)
  PROVE  NetsIInv'
<1> DEFINE r == [op |-> op, id |-> id, was |-> id = chosen, old |-> FALSE,
                 at |-> IF op = "renew" THEN runs.dir ELSE Nothing]
<1>1. /\ turn \in {"run", "setup"} /\ reqs' = [reqs EXCEPT ![q] = r] /\ reqs[q] = NoReq
      /\ UNCHANGED <<netlist, chosen, removing, upNext, netFile, settings, used, made, turn, runs, conn, ended, netFaults, upset>>
  BY DEF Begin, Admits, Serving, inMemory, files, loop
<1>2. r \in ReqRec
  <2>1. (IF op = "renew" THEN runs.dir ELSE Nothing) \in Places \cup {Nothing}
    BY DEF NetsIInv, NetTypes, NoNet, NetRec
  <2>2. QED
    BY <2>1 DEF ReqRec
<1> HIDE DEF r
<1>3. reqs \in [NetReqs -> ReqRec] /\ reqs' \in [NetReqs -> ReqRec] /\ \A p \in NetReqs : p # q => reqs'[p] = reqs[p]
  BY <1>1, <1>2 DEF NetsIInv, NetTypes
<1>4. NetTypes'
  BY <1>1, <1>3 DEF NetsIInv, NetTypes, Listed, ListOk, Ids
<1>5. KeysOk' /\ StartsOk'
  BY <1>1 DEF NetsIInv, KeysOk, StartsOk, Matches, HasRoot, FitsFile, Range
<1>6. RunsOk'
  BY <1>1, <1>3, NoReqOk DEF NetsIInv, RunsOk, Ending
<1>7. QED
  BY <1>4, <1>5, <1>6 DEF NetsIInv

\* What an answered request leaves: the parts of the invariant that do not
\* look at the lists.
LEMMA RequestKeeps ==
  ASSUME NetsIInv, NEW q \in NetReqs, reqs[q].op \notin {"none", "stop"}, NEW ends \in BOOLEAN, NetAnswered(q, ends),
         UNCHANGED <<turn, runs, ended>>, upset' \in BOOLEAN, upset => upset',
         chosen' = chosen \/ ends \/ upset'
  PROVE  /\ turn \in {"run", "setup"} /\ StartsOk' /\ RunsOk'
         /\ reqs' \in [NetReqs -> ReqRec] /\ (turn' \notin {"run", "setup"} => \A p \in NetReqs : reqs'[p] = NoReq)
<1>1. NetTypes /\ turn \in {"run", "setup"} /\ turn' = turn
  BY Acting DEF NetsIInv
<1>2. reqs' \in [NetReqs -> ReqRec]
  BY <1>1, AnsweredFacts
<1>3. StartsOk'
  BY <1>1 DEF StartsOk
<1>4. RunsOk'
  <2> SUFFICES ASSUME turn' = "run", ~upset', runs'.id # chosen' PROVE Ending'
    BY DEF RunsOk
  <2>1. CASE ends
    BY <1>1, <2>1, AnsweredFacts DEF Ending
  <2>2. CASE ~ends
    <3>1. chosen' = chosen /\ ~upset
      BY <2>2 DEF NetsIInv, NetTypes
    <3>2. Ending
      BY <1>1, <3>1 DEF NetsIInv, RunsOk
    <3>3. QED
      BY <1>1, <3>2, EndingStays
  <2>3. QED
    BY <2>1, <2>2
<1>5. QED
  BY <1>1, <1>2, <1>3, <1>4

LEMMA AddNetworkKeeps ==
  ASSUME NetsIInv, NEW q \in NetReqs, NEW c \in Controls, NEW id \in NetIds, AddNetwork(q, c, id)
  PROVE  NetsIInv'
<1> DEFINE n == [id |-> id, ctl |-> c, dir |-> DirFor(id)]
<1> DEFINE sel == reqs[q].op = "addSelect"
<1> DEFINE ends == Saved /\ sel
<1> DEFINE L == Append(netlist, n)
<1>1. /\ reqs[q].op \in {"add", "addSelect"} /\ id \notin Ids(netlist) /\ n.dir \notin made \ {Root}
      /\ made' = made \cup {n.dir} /\ netlist' = L /\ chosen' = (IF sel THEN id ELSE chosen)
      /\ upNext' \in (IF sel THEN BOOLEAN ELSE {upNext}) /\ settings' = (IF n.dir = Root THEN c ELSE settings)
      /\ SaveNetworks(L, chosen') /\ NetAnswered(q, ends)
      /\ UNCHANGED <<removing, used, turn, runs, conn, ended>>
  BY DEF AddNetwork, loop
<1>2. /\ n \in NetRec /\ n.id = id /\ n.ctl = c /\ n.dir = (IF netlist = <<>> THEN Root ELSE n.id)
      /\ n.dir \in {Root, id}
  BY DEF NetRec, DirFor, Places
<1> HIDE DEF n
<1>3. /\ NetTypes /\ KeysOk /\ ListOk(netlist) /\ chosen \in Ids(netlist) \cup {Nothing} /\ upNext \in BOOLEAN
      /\ settings \in Controls \cup {Nothing}
  BY DEF NetsIInv, NetTypes, Listed
<1>4. ListOk(L) /\ Range(L) = Range(netlist) \cup {n} /\ Ids(L) = Ids(netlist) \cup {id}
  BY <1>1, <1>2, <1>3, AppendOk
<1> HIDE DEF L
<1>5. Listed(L, chosen')
  BY <1>1, <1>3, <1>4 DEF Listed
<1>6. /\ Listed(netFile'.list, netFile'.current) /\ upset' \in BOOLEAN /\ netFaults' \in Nat /\ (upset => upset')
      /\ ~netFile'.there => netFile'.list = <<>> /\ netFile'.current = Nothing
      /\ \/ netFile'.list = L /\ netFile'.there /\ upset' = upset /\ netFaults' = netFaults
         \/ netFile' = netFile /\ upset' /\ netFaults' # netFaults
  BY <1>1, <1>3, <1>5, SaveFacts
<1>7. ends \in BOOLEAN /\ (chosen' = chosen \/ ends \/ upset')
  BY <1>1, <1>6 DEF Saved
<1> HIDE DEF ends
<1>8. /\ turn \in {"run", "setup"} /\ StartsOk' /\ RunsOk'
      /\ reqs' \in [NetReqs -> ReqRec] /\ (turn' \notin {"run", "setup"} => \A p \in NetReqs : reqs'[p] = NoReq)
  BY <1>1, <1>6, <1>7, RequestKeeps
<1>9. used[n.dir] = {}
  <2>1. CASE netlist = <<>>
    BY <1>2, <1>3, <1>8, <2>1, EmptyListed DEF KeysOk, HasRoot
  <2>2. CASE netlist # <<>>
    BY <1>1, <1>2, <1>3, <2>2, NetConstants DEF KeysOk
  <2>3. QED
    BY <2>1, <2>2
<1>10. NetTypes'
  <2>1. upNext' \in BOOLEAN /\ settings' \in Controls \cup {Nothing}
    BY <1>1, <1>3
  <2>2. QED
    BY <1>1, <1>3, <1>5, <1>6, <1>8, <2>1 DEF NetTypes
<1>11. KeysOk'
  <2>1. Matches(L, used)
    BY <1>3, <1>4, <1>9 DEF KeysOk, Matches
  <2>2. Matches(netFile'.list, used)
    BY <1>3, <1>6, <2>1 DEF KeysOk
  <2>3. HasRoot(netlist) => HasRoot(L)
    BY <1>4 DEF HasRoot
  <2>4. used[Root] # {} => HasRoot(L)
    BY <1>3, <1>8, <2>3 DEF KeysOk
  <2>5. FitsFile(used, netFile', settings')
    BY <1>1, <1>3, <1>6, <1>9, <2>4 DEF KeysOk, FitsFile
  <2>6. \A p \in NetIds : p \notin made' => used[p] = {}
    BY <1>1, <1>3 DEF KeysOk
  <2>7. QED
    BY <1>1, <1>3, <2>1, <2>2, <2>4, <2>5, <2>6 DEF KeysOk
<1>12. QED
  BY <1>8, <1>10, <1>11 DEF NetsIInv

LEMMA AddHalfKeeps ==
  ASSUME NetsIInv, NEW q \in NetReqs, NEW c \in Controls, NEW id \in NetIds, AddHalf(q, c, id)
  PROVE  NetsIInv'
<1> DEFINE n == [id |-> id, ctl |-> c, dir |-> Root]
<1>1. /\ reqs[q].op \in {"add", "addSelect"} /\ netlist = <<>> /\ netFaults' = netFaults + 1 /\ upset' = TRUE
      /\ netlist' = <<n>> /\ NetAnswered(q, FALSE)
      /\ UNCHANGED <<chosen, removing, upNext, netFile, settings, used, made, turn, runs, conn, ended>>
  BY DEF AddHalf, loop, files
<1>2. n \in NetRec /\ n.id = id /\ n.dir = Root
  BY DEF NetRec, Places
<1> HIDE DEF n
<1>3. NetTypes /\ KeysOk /\ chosen \in Ids(netlist) \cup {Nothing}
  BY DEF NetsIInv, NetTypes, Listed
<1>4. Listed(netlist', chosen') /\ Range(netlist') = {n}
  BY <1>1, <1>2, <1>3, OneListed, EmptyListed DEF Listed
<1>5. /\ turn \in {"run", "setup"} /\ StartsOk' /\ RunsOk'
      /\ reqs' \in [NetReqs -> ReqRec] /\ (turn' \notin {"run", "setup"} => \A p \in NetReqs : reqs'[p] = NoReq)
  BY <1>1, RequestKeeps
<1>6. netFaults' \in Nat
  BY <1>1, <1>3 DEF NetTypes
<1>7. NetTypes'
  BY <1>1, <1>3, <1>4, <1>5, <1>6 DEF NetTypes
<1>8. used[Root] = {}
  BY <1>1, <1>3, <1>5, EmptyListed DEF KeysOk, HasRoot
<1>9. KeysOk'
  <2>1. Matches(netlist', used)
    BY <1>2, <1>4, <1>8 DEF Matches
  <2>2. QED
    BY <1>1, <1>3, <1>8, <2>1 DEF KeysOk
<1>10. QED
  BY <1>5, <1>7, <1>9 DEF NetsIInv

LEMMA AddRefusedKeeps ==
  ASSUME NetsIInv, NEW q \in NetReqs, AddRefused(q)
  PROVE  NetsIInv'
<1>1. /\ reqs[q].op \in {"add", "addSelect"} /\ NetAnswered(q, FALSE)
      /\ UNCHANGED <<netlist, chosen, removing, upNext, netFile, settings, used, made, turn, runs, conn, ended, netFaults, upset>>
  BY DEF AddRefused, inMemory, loop, files
<1>2. NetTypes /\ KeysOk /\ upset \in BOOLEAN
  BY DEF NetsIInv, NetTypes
<1>3. /\ turn \in {"run", "setup"} /\ StartsOk' /\ RunsOk'
      /\ reqs' \in [NetReqs -> ReqRec] /\ (turn' \notin {"run", "setup"} => \A p \in NetReqs : reqs'[p] = NoReq)
  BY <1>1, <1>2, RequestKeeps
<1>4. NetTypes' /\ KeysOk'
  BY <1>1, <1>2, <1>3 DEF NetTypes, KeysOk
<1>5. QED
  BY <1>3, <1>4 DEF NetsIInv

LEMMA SelectNetworkKeeps ==
  ASSUME NetsIInv, NEW q \in NetReqs, SelectNetwork(q)
  PROVE  NetsIInv'
<1> DEFINE ends == Saved
<1>1. /\ reqs[q].op = "select" /\ chosen' \in Ids(netlist) /\ upNext' \in BOOLEAN
      /\ SaveNetworks(netlist, chosen') /\ NetAnswered(q, ends)
      /\ UNCHANGED <<netlist, removing, settings, used, made, turn, runs, conn, ended>>
  BY DEF SelectNetwork, loop
<1>2. NetTypes /\ KeysOk /\ Listed(netlist, chosen')
  BY <1>1 DEF NetsIInv, NetTypes, Listed
<1>3. /\ Listed(netFile'.list, netFile'.current) /\ upset' \in BOOLEAN /\ netFaults' \in Nat /\ (upset => upset')
      /\ ~netFile'.there => netFile'.list = <<>> /\ netFile'.current = Nothing
      /\ \/ netFile'.list = netlist /\ netFile'.there /\ upset' = upset /\ netFaults' = netFaults
         \/ netFile' = netFile /\ upset' /\ netFaults' # netFaults
  BY <1>1, <1>2, SaveFacts
<1>4. ends \in BOOLEAN /\ (chosen' = chosen \/ ends \/ upset')
  BY <1>1, <1>3 DEF Saved
<1> HIDE DEF ends
<1>5. /\ turn \in {"run", "setup"} /\ StartsOk' /\ RunsOk'
      /\ reqs' \in [NetReqs -> ReqRec] /\ (turn' \notin {"run", "setup"} => \A p \in NetReqs : reqs'[p] = NoReq)
  BY <1>1, <1>3, <1>4, RequestKeeps
<1>6. NetTypes'
  BY <1>1, <1>2, <1>3, <1>5 DEF NetTypes
<1>7. KeysOk'
  <2>1. Matches(netFile'.list, used)
    BY <1>2, <1>3 DEF KeysOk
  <2>2. used[Root] # {} => HasRoot(netlist)
    BY <1>2, <1>5 DEF KeysOk
  <2>3. FitsFile(used, netFile', settings)
    BY <1>2, <1>3, <2>2 DEF KeysOk, FitsFile
  <2>4. QED
    BY <1>1, <1>2, <2>1, <2>2, <2>3 DEF KeysOk
<1>8. QED
  BY <1>5, <1>6, <1>7 DEF NetsIInv

LEMMA RemoveCurrentKeeps ==
  ASSUME NetsIInv, NEW q \in NetReqs, RemoveCurrent(q)
  PROVE  NetsIInv'
<1> DEFINE ends == reqs[q].op = "reset" \/ reqs[q].was
<1>1. /\ reqs[q].op \in {"remove", "reset"} /\ chosen \in Ids(netlist) /\ removing' = chosen /\ upNext' = FALSE
      /\ NetAnswered(q, ends)
      /\ UNCHANGED <<netlist, chosen, netFile, settings, used, made, turn, runs, conn, ended, netFaults, upset>>
  BY DEF RemoveCurrent, loop, files
<1>2. NetTypes /\ KeysOk /\ upset \in BOOLEAN /\ ListOk(netlist)
  BY DEF NetsIInv, NetTypes, Listed
<1>3. ends \in BOOLEAN /\ removing' \in NetIds
  <2>1. reqs[q] \in ReqRec
    BY <1>2 DEF NetTypes
  <2>2. ends \in BOOLEAN
    BY <2>1 DEF ReqRec
  <2>3. QED
    BY <1>1, <1>2, <2>2, EntriesOk
<1> HIDE DEF ends
<1>4. /\ turn \in {"run", "setup"} /\ StartsOk' /\ RunsOk'
      /\ reqs' \in [NetReqs -> ReqRec] /\ (turn' \notin {"run", "setup"} => \A p \in NetReqs : reqs'[p] = NoReq)
  BY <1>1, <1>2, <1>3, RequestKeeps
<1>5. NetTypes' /\ KeysOk'
  BY <1>1, <1>2, <1>3, <1>4 DEF NetTypes, KeysOk
<1>6. QED
  BY <1>4, <1>5 DEF NetsIInv

\* Network.Discard leaves no key behind in its directory.
LEMMA DiscardFacts ==
  ASSUME NetTypes, NEW n \in NetRec, Discard(n)
  PROVE  /\ used' \in [Places -> SUBSET Controls] /\ used'[n.dir] = {} /\ settings' \in Controls \cup {Nothing}
         /\ \A p \in Places : p # n.dir => used'[p] = used[p]
         /\ \A p \in Places : used'[p] \subseteq used[p]
         /\ made' = made \ ({n.dir} \ {Root}) /\ n.dir \in Places
         /\ n.dir # Root => settings' = settings
<1>1. n.dir \in Places /\ used \in [Places -> SUBSET Controls] /\ settings \in Controls \cup {Nothing}
  BY DEF NetRec, NetTypes
<1>2. used' = [used EXCEPT ![n.dir] = {}] /\ settings' = IF n.dir = Root THEN Nothing ELSE settings
  BY DEF Discard
<1>3. QED
  BY <1>1, <1>2 DEF Discard

\* Fewer keys keep every match.
LEMMA MatchesLess ==
  ASSUME NEW L, ListOk(L), NEW u, NEW v, Matches(L, u), \A p \in Places : v[p] \subseteq u[p]
  PROVE  Matches(L, v)
<1>1. \A e \in Range(L) : e.dir \in Places
  BY EntriesOk DEF NetRec
<1>2. QED
  BY <1>1 DEF Matches

LEMMA RemoveOtherKeeps ==
  ASSUME NetsIInv, NEW q \in NetReqs, RemoveOther(q)
  PROVE  NetsIInv'
<1> DEFINE id == reqs[q].id
<1> DEFINE n == Get(netlist, id)
<1> DEFINE L == RemovedFrom(netlist, id)
<1> DEFINE ends == Saved /\ (reqs[q].op = "reset" \/ reqs[q].was)
<1>1. /\ NetTypes /\ KeysOk /\ ListOk(netlist) /\ chosen \in Ids(netlist) \cup {Nothing}
      /\ ListOk(netFile.list) /\ reqs[q] \in ReqRec
  BY DEF NetsIInv, NetTypes, Listed
<1>2. id \in Ids(netlist) /\ id # chosen /\ reqs[q].op \in {"remove", "reset"}
  BY DEF RemoveOther
<1>3. n \in Range(netlist) /\ n.id = id /\ n \in NetRec
  BY <1>1, <1>2, GetOk
<1>4. /\ Discard(n) /\ netlist' = L /\ upNext' = FALSE /\ SaveNetworks(L, chosen)
      /\ NetAnswered(q, ends) /\ UNCHANGED <<chosen, removing, turn, runs, conn, ended>>
  BY <1>3 DEF RemoveOther, loop
<1>5. ListOk(L) /\ Range(L) = {e \in Range(netlist) : e.id # id} /\ Ids(L) = Ids(netlist) \ {id}
  BY <1>1, <1>2, RemovedOk
<1> HIDE DEF n, L
<1>6. Listed(L, chosen)
  BY <1>1, <1>2, <1>5 DEF Listed
<1>7. /\ Listed(netFile'.list, netFile'.current) /\ upset' \in BOOLEAN /\ netFaults' \in Nat /\ (upset => upset')
      /\ ~netFile'.there => netFile'.list = <<>> /\ netFile'.current = Nothing
      /\ \/ netFile'.list = L /\ netFile'.there /\ upset' = upset /\ netFaults' = netFaults
         \/ netFile' = netFile /\ upset' /\ netFaults' # netFaults
  BY <1>1, <1>4, <1>6, SaveFacts
<1>8. ends \in BOOLEAN
  BY <1>1 DEF ReqRec, Saved
<1> HIDE DEF ends, id
<1>9. /\ turn \in {"run", "setup"} /\ StartsOk' /\ RunsOk'
      /\ reqs' \in [NetReqs -> ReqRec] /\ (turn' \notin {"run", "setup"} => \A p \in NetReqs : reqs'[p] = NoReq)
  BY <1>2, <1>4, <1>7, <1>8, RequestKeeps
<1>10. /\ used' \in [Places -> SUBSET Controls] /\ used'[n.dir] = {} /\ settings' \in Controls \cup {Nothing}
       /\ \A p \in Places : p # n.dir => used'[p] = used[p]
       /\ \A p \in Places : used'[p] \subseteq used[p]
       /\ made' = made \ ({n.dir} \ {Root}) /\ n.dir \in Places
       /\ n.dir # Root => settings' = settings
  BY <1>1, <1>3, <1>4, DiscardFacts
<1>11. NetTypes'
  BY <1>1, <1>4, <1>6, <1>7, <1>9, <1>10 DEF NetTypes
<1>12. KeysOk'
  <2>1. Matches(netlist, used') /\ Matches(netFile.list, used')
    BY <1>1, <1>10, MatchesLess DEF KeysOk
  <2>2. Matches(L, used')
    BY <1>5, <2>1 DEF Matches
  <2>3. Matches(netFile'.list, used')
    BY <1>7, <2>1, <2>2
  <2>4. used'[Root] # {} => HasRoot(L)
    <3> SUFFICES ASSUME used'[Root] # {} PROVE HasRoot(L)
      OBVIOUS
    <3>1. n.dir # Root /\ used[Root] # {}
      BY <1>10 DEF Places
    <3>2. PICK e \in Range(netlist) : e.dir = Root
      BY <1>1, <1>9, <3>1 DEF KeysOk, HasRoot
    <3>3. e.id # id
      BY <1>1, <1>3, <3>1, <3>2, EntriesOk
    <3>4. QED
      BY <1>5, <3>2, <3>3 DEF HasRoot
  <2>5. FitsFile(used', netFile', settings')
    <3>1. used'[Root] # {} => n.dir # Root /\ used[Root] = used'[Root] /\ settings' = settings
      BY <1>10 DEF Places
    <3>2. QED
      BY <1>1, <1>7, <2>4, <3>1 DEF KeysOk, FitsFile
  <2>6. ASSUME NEW p \in NetIds, p \notin made' PROVE used'[p] = {}
    BY <1>1, <1>10, <2>6 DEF KeysOk, Places
  <2>7. \A p \in Places : \A a, b \in used'[p] : a = b
    BY <1>1, <1>10 DEF KeysOk
  <2>8. QED
    BY <1>4, <2>2, <2>3, <2>4, <2>5, <2>6, <2>7 DEF KeysOk
<1>13. QED
  BY <1>9, <1>11, <1>12 DEF NetsIInv

LEMMA RefusedKeeps ==
  ASSUME NetsIInv, NEW q \in NetReqs, Refused(q)
  PROVE  NetsIInv'
<1>1. NetTypes /\ KeysOk /\ upset \in BOOLEAN /\ upNext \in BOOLEAN /\ netFaults \in Nat
  BY DEF NetsIInv, NetTypes
<1>2. /\ reqs[q].op \in {"select", "remove", "reset"} /\ NetAnswered(q, FALSE)
      /\ upNext' = (upNext /\ reqs[q].id \notin Ids(netlist))
      /\ UNCHANGED <<netlist, chosen, removing, netFile, settings, used, made, turn, runs, conn, ended>>
  BY DEF Refused, loop, files
<1>3. upset' \in BOOLEAN /\ (upset => upset') /\ netFaults' \in Nat /\ upNext' \in BOOLEAN
  <2>1. upNext' \in BOOLEAN
    BY <1>1, <1>2
  <2>2. CASE UNCHANGED <<netFaults, upset>>
    BY <1>1, <2>1, <2>2
  <2>3. CASE netFaults' = netFaults + 1 /\ upset' = TRUE
    BY <1>1, <2>1, <2>3
  <2>4. QED
    BY <2>2, <2>3 DEF Refused
<1>4. /\ turn \in {"run", "setup"} /\ StartsOk' /\ RunsOk'
      /\ reqs' \in [NetReqs -> ReqRec] /\ (turn' \notin {"run", "setup"} => \A p \in NetReqs : reqs'[p] = NoReq)
  BY <1>2, <1>3, RequestKeeps
<1>5. NetTypes' /\ KeysOk'
  BY <1>1, <1>2, <1>3, <1>4 DEF NetTypes, KeysOk
<1>6. QED
  BY <1>4, <1>5 DEF NetsIInv

LEMMA RenewIdentityKeeps ==
  ASSUME NetsIInv, NEW q \in NetReqs, RenewIdentity(q)
  PROVE  NetsIInv'
<1> DEFINE at == reqs[q].at
<1>1. /\ NetTypes /\ KeysOk /\ upset \in BOOLEAN /\ ListOk(netlist) /\ ListOk(netFile.list)
      /\ used \in [Places -> SUBSET Controls] /\ settings \in Controls \cup {Nothing}
  BY DEF NetsIInv, NetTypes, Listed
<1>2. /\ reqs[q].op = "renew" /\ used' = [p \in DOMAIN used |-> IF p = at THEN {} ELSE used[p]]
      /\ settings' = (IF at = Root THEN Nothing ELSE settings) /\ NetAnswered(q, TRUE)
      /\ UNCHANGED <<netlist, chosen, removing, upNext, netFile, made, turn, runs, conn, ended, netFaults, upset>>
  BY DEF RenewIdentity, loop, inMemory
<1> HIDE DEF at
<1>3. /\ used' \in [Places -> SUBSET Controls] /\ settings' \in Controls \cup {Nothing}
      /\ \A p \in Places : used'[p] \subseteq used[p]
      /\ used'[Root] # {} => used'[Root] = used[Root] /\ settings' = settings
  BY <1>1, <1>2 DEF Places
<1>4. /\ turn \in {"run", "setup"} /\ StartsOk' /\ RunsOk'
      /\ reqs' \in [NetReqs -> ReqRec] /\ (turn' \notin {"run", "setup"} => \A p \in NetReqs : reqs'[p] = NoReq)
  BY <1>1, <1>2, RequestKeeps
<1>5. NetTypes'
  BY <1>1, <1>2, <1>3, <1>4 DEF NetTypes
<1>6. KeysOk'
  <2>1. Matches(netlist, used') /\ Matches(netFile.list, used')
    BY <1>1, <1>3, MatchesLess DEF KeysOk
  <2>2. FitsFile(used', netFile, settings')
    BY <1>1, <1>3 DEF KeysOk, FitsFile
  <2>3. \A p \in NetIds : p \notin made => used'[p] = {}
    BY <1>1, <1>3 DEF KeysOk, Places
  <2>4. used'[Root] # {} => HasRoot(netlist)
    BY <1>1, <1>3, <1>4 DEF KeysOk
  <2>5. \A p \in Places : \A a, b \in used'[p] : a = b
    BY <1>1, <1>3 DEF KeysOk
  <2>6. QED
    BY <1>2, <2>1, <2>2, <2>3, <2>4, <2>5 DEF KeysOk
<1>7. QED
  BY <1>4, <1>5, <1>6 DEF NetsIInv

\* No handler outlives its server here, so the server told to end is this one.
LEMMA StopKeeps ==
  ASSUME NetsIInv, NEW q \in NetReqs, Stop(q)
  PROVE  NetsIInv'
<1>1. /\ NetTypes /\ KeysOk /\ reqs[q].op = "stop" /\ reqs' = [reqs EXCEPT ![q] = NoReq]
      /\ ended' = (IF reqs[q].old THEN ended ELSE Serving)
      /\ UNCHANGED <<netlist, chosen, removing, upNext, netFile, settings, used, made, turn, runs, conn, netFaults, upset>>
  BY DEF Stop, NetsIInv, inMemory, files
<1>2. turn \in {"run", "setup"} /\ reqs[q] \in ReqRec
  BY <1>1, Acting
<1>3. ended' = TRUE
  BY <1>1, <1>2 DEF ReqRec, Serving
<1>4. NetTypes'
  BY <1>1, <1>2, <1>3, NoReqOk DEF NetTypes
<1>5. KeysOk' /\ StartsOk' /\ RunsOk'
  BY <1>1, <1>2, <1>3 DEF KeysOk, StartsOk, RunsOk, Ending
<1>6. QED
  BY <1>4, <1>5 DEF NetsIInv

LEMMA ConnectKeeps == ASSUME NetsIInv, Connect PROVE NetsIInv'
<1>1. UNCHANGED <<netlist, chosen, removing, upNext, netFile, settings, used, made, turn, runs, ended, reqs, netFaults, upset>>
  BY DEF Connect, inMemory, files
<1>2. NetTypes' /\ KeysOk' /\ StartsOk' /\ RunsOk'
  BY <1>1 DEF NetsIInv, NetTypes, KeysOk, StartsOk, RunsOk, Ending
<1>3. QED
  BY <1>2 DEF NetsIInv

LEMMA TurnEndsKeeps == ASSUME ~Late, NetsIInv, TurnEnds PROVE NetsIInv'
<1>1. /\ NetTypes /\ KeysOk /\ \A q \in NetReqs : reqs[q] = NoReq
  BY DEF NetsIInv, TurnEnds
<1>2. /\ turn' = "turn" /\ runs' = NoNet /\ ended' = FALSE /\ \A q \in NetReqs : reqs'[q] = NoReq
      /\ reqs' = [q \in NetReqs |-> NoReq]
      /\ upset' = upset
      /\ UNCHANGED <<netlist, chosen, removing, upNext, netFile, settings, used, made, netFaults>>
  BY <1>1 DEF TurnEnds, inMemory, files, NetTypes
<1>3. reqs' \in [NetReqs -> ReqRec]
  BY <1>2, NoReqOk
<1>4. NetTypes' /\ KeysOk' /\ StartsOk' /\ RunsOk'
  BY <1>1, <1>2, <1>3 DEF NetTypes, KeysOk, StartsOk, RunsOk
<1>5. QED
  BY <1>4 DEF NetsIInv

LEMMA StartNodeKeeps == ASSUME NetsIInv, StartNode PROVE NetsIInv'
<1>1. /\ NetTypes /\ KeysOk /\ turn = "start" /\ netlist = netFile.list /\ runs \in Range(netlist) /\ runs.id = chosen
      /\ ListOk(netlist) /\ used \in [Places -> SUBSET Controls]
  BY DEF NetsIInv, StartNode, StartsOk, NetTypes, Listed
<1>2. runs \in NetRec /\ runs.dir \in Places /\ runs.ctl \in Controls
  BY <1>1, EntriesOk DEF NetRec
<1>3. /\ turn' = "run" /\ upNext' = FALSE /\ made' = made \cup {runs.dir}
      /\ used' = [used EXCEPT ![runs.dir] = @ \cup {runs.ctl}]
      /\ UNCHANGED <<netlist, chosen, removing, netFile, settings, runs, ended, reqs, netFaults, upset>>
  BY DEF StartNode
<1>4. used[runs.dir] \subseteq {runs.ctl}
  BY <1>1 DEF KeysOk, Matches
<1>5. /\ used' \in [Places -> SUBSET Controls] /\ used'[runs.dir] = {runs.ctl}
      /\ \A p \in Places : p # runs.dir => used'[p] = used[p]
  BY <1>1, <1>2, <1>3, <1>4
<1>6. NetTypes'
  BY <1>1, <1>3, <1>5 DEF NetTypes
<1>7. KeysOk'
  <2>1. Matches(netlist, used')
    <3> SUFFICES ASSUME NEW e \in Range(netlist) PROVE used'[e.dir] \subseteq {e.ctl}
      BY DEF Matches
    <3>1. CASE e.dir = runs.dir
      <4>1. e = runs
        BY <1>1, <3>1, EntriesOk
      <4>2. QED
        BY <1>5, <4>1
    <3>2. CASE e.dir # runs.dir
      <4>1. e.dir \in Places
        BY <1>1, EntriesOk DEF NetRec
      <4>2. QED
        BY <1>1, <1>5, <3>2, <4>1 DEF KeysOk, Matches
    <3>3. QED
      BY <3>1, <3>2
  <2>2. used'[Root] # {} => HasRoot(netlist)
    <3>1. CASE runs.dir = Root
      BY <1>1, <3>1 DEF HasRoot
    <3>2. CASE runs.dir # Root
      BY <1>1, <1>5, <3>2 DEF KeysOk, Places
    <3>3. QED
      BY <3>1, <3>2
  <2>3. FitsFile(used', netFile, settings)
    BY <1>1, <2>2 DEF FitsFile
  <2>4. ASSUME NEW p \in NetIds, p \notin made' PROVE used'[p] = {}
    BY <1>1, <1>3, <1>5, <2>4 DEF KeysOk, Places
  <2>5. ASSUME NEW p \in Places, NEW a \in used'[p], NEW b \in used'[p] PROVE a = b
    <3>1. CASE p = runs.dir
      BY <1>5, <2>5, <3>1
    <3>2. CASE p # runs.dir
      BY <1>1, <1>5, <2>5, <3>2 DEF KeysOk
    <3>3. QED
      BY <3>1, <3>2
  <2>6. QED
    BY <1>1, <1>3, <2>1, <2>2, <2>3, <2>4, <2>5 DEF KeysOk
<1>8. StartsOk' /\ RunsOk'
  BY <1>1, <1>3 DEF StartsOk, RunsOk
<1>9. QED
  BY <1>6, <1>7, <1>8 DEF NetsIInv

LEMMA DaemonCrashesKeeps == ASSUME NetsIInv, DaemonCrashes PROVE NetsIInv'
<1>1. NetTypes /\ KeysOk
  BY DEF NetsIInv
<1>2. /\ turn' = "off" /\ runs' = NoNet /\ ended' = FALSE /\ netlist' = <<>> /\ chosen' = Nothing
      /\ removing' = Nothing /\ upNext' = FALSE /\ reqs' = [q \in NetReqs |-> NoReq]
      /\ UNCHANGED <<netFile, settings, used, made, netFaults, upset>>
  BY DEF DaemonCrashes, files
<1>3. reqs' \in [NetReqs -> ReqRec] /\ \A q \in NetReqs : reqs'[q] = NoReq
  BY <1>2, NoReqOk
<1>4. Listed(netlist', chosen') /\ Matches(netlist', used)
  BY <1>2, EmptyListed DEF Matches
<1>5. NetTypes'
  BY <1>1, <1>2, <1>3, <1>4 DEF NetTypes
<1>6. KeysOk' /\ StartsOk' /\ RunsOk'
  BY <1>1, <1>2, <1>4 DEF KeysOk, StartsOk, RunsOk
<1>7. QED
  BY <1>5, <1>6 DEF NetsIInv

LEMMA DaemonRestartsKeeps == ASSUME NetsIInv, DaemonRestarts PROVE NetsIInv'
<1>1. NetTypes /\ KeysOk
  BY DEF NetsIInv
<1>2. /\ turn' = "turn" /\ reqs' = [q \in NetReqs |-> NoReq]
      /\ UNCHANGED <<netlist, chosen, removing, upNext, netFile, settings, used, made, runs, conn, ended, netFaults, upset>>
  BY DEF DaemonRestarts, inMemory, files
<1>3. reqs' \in [NetReqs -> ReqRec] /\ \A q \in NetReqs : reqs'[q] = NoReq
  BY <1>2, NoReqOk
<1>4. NetTypes'
  BY <1>1, <1>2, <1>3 DEF NetTypes
<1>5. KeysOk' /\ StartsOk' /\ RunsOk'
  BY <1>1, <1>2 DEF KeysOk, StartsOk, RunsOk
<1>6. QED
  BY <1>4, <1>5 DEF NetsIInv

\* What LoadNetworks reads: the file, or the one network of an older version,
\* whose control plane the settings name and whose key is in the root.
LEMMA LoadedOk ==
  ASSUME NetsIInv, NEW l \in Loaded
  PROVE  /\ Listed(l.list, l.current) /\ Matches(l.list, used) /\ (used[Root] # {} => HasRoot(l.list))
         /\ l.list = netFile.list => l.current = netFile.current
<1>1. NetTypes /\ KeysOk
  BY DEF NetsIInv
<1>2. CASE netFile.there \/ settings = Nothing
  <2>1. l = [list |-> netFile.list, current |-> netFile.current]
    BY <1>2 DEF Loaded
  <2>2. Listed(l.list, l.current) /\ Matches(l.list, used) /\ l.list = netFile.list /\ l.current = netFile.current
    BY <1>1, <2>1 DEF NetTypes, KeysOk
  <2>3. used[Root] # {} => HasRoot(netFile.list)
    BY <1>1, <1>2, NetConstants DEF KeysOk, FitsFile
  <2>4. QED
    BY <2>2, <2>3
<1>3. CASE ~netFile.there /\ settings # Nothing
  <2>1. PICK i \in NetIds : l = [list |-> <<[id |-> i, ctl |-> settings, dir |-> Root]>>, current |-> i]
    BY <1>3 DEF Loaded
  <2> DEFINE n == [id |-> i, ctl |-> settings, dir |-> Root]
  <2>2. n \in NetRec /\ n.dir = Root /\ n.id = i /\ n.ctl = settings /\ l.list = <<n>> /\ l.current = n.id
    BY <1>1, <1>3, <2>1 DEF NetRec, Places, NetTypes
  <2> HIDE DEF n
  <2>3. Listed(l.list, l.current) /\ Range(l.list) = {n} /\ l.list # <<>>
    BY <2>2, OneListed
  <2>4. netFile.list = <<>>
    BY <1>1, <1>3 DEF NetTypes
  <2>5. used[Root] \subseteq {settings}
    BY <1>1, <1>3, <2>4, EmptyListed DEF KeysOk, FitsFile, HasRoot
  <2>6. Matches(l.list, used) /\ HasRoot(l.list)
    BY <2>2, <2>3, <2>5 DEF Matches, HasRoot
  <2>7. QED
    BY <2>3, <2>4, <2>6
<1>4. QED
  BY <1>2, <1>3

LEMMA ReloadKeeps == ASSUME NetsIInv, Reload PROVE NetsIInv'
<1>1. NetTypes /\ KeysOk /\ turn = "turn" /\ \A q \in NetReqs : reqs[q] = NoReq
  BY DEF NetsIInv, Reload, NetTypes
<1>2. PICK l \in Loaded :
         LET go == removing \in Ids(l.list)
             list == IF go THEN RemovedFrom(l.list, removing) ELSE l.list
             current == IF go THEN NextCurrent(l.list, l.current, removing) ELSE l.current
             n == IF current = Nothing THEN NoNet ELSE Get(list, current)
         IN  /\ removing' = Nothing
             /\ IF go THEN Discard(Get(l.list, removing))
                ELSE UNCHANGED <<used, made, settings>>
             /\ IF go \/ l.list # netFile.list THEN SaveNetworks(list, current)
                ELSE UNCHANGED <<netFile, netFaults, upset>>
             /\ IF Saved
                THEN /\ netlist' = list /\ chosen' = current /\ runs' = n
                     /\ turn' = IF n = NoNet THEN "setup" ELSE "start"
                     /\ UNCHANGED upNext
                ELSE /\ netlist' = <<>> /\ chosen' = Nothing /\ upNext' = FALSE
                     /\ turn' = "off" /\ UNCHANGED runs
  BY DEF Reload
<1> DEFINE go == removing \in Ids(l.list)
<1> DEFINE list == IF go THEN RemovedFrom(l.list, removing) ELSE l.list
<1> DEFINE current == IF go THEN NextCurrent(l.list, l.current, removing) ELSE l.current
<1> DEFINE n == IF current = Nothing THEN NoNet ELSE Get(list, current)
<1> DEFINE d == Get(l.list, removing)
<1>3. /\ removing' = Nothing
      /\ IF go THEN Discard(d) ELSE UNCHANGED <<used, made, settings>>
      /\ IF go \/ l.list # netFile.list THEN SaveNetworks(list, current) ELSE UNCHANGED <<netFile, netFaults, upset>>
      /\ IF Saved THEN /\ netlist' = list /\ chosen' = current /\ runs' = n
                       /\ turn' = (IF n = NoNet THEN "setup" ELSE "start") /\ UNCHANGED upNext
                  ELSE /\ netlist' = <<>> /\ chosen' = Nothing /\ upNext' = FALSE
                       /\ turn' = "off" /\ UNCHANGED runs
  BY <1>2
<1>4. UNCHANGED <<conn, ended, reqs>>
  BY DEF Reload
<1>5. /\ Listed(l.list, l.current) /\ Matches(l.list, used) /\ (used[Root] # {} => HasRoot(l.list))
      /\ l.list = netFile.list => l.current = netFile.current
  BY LoadedOk
<1>6. /\ Listed(list, current)
      /\ go => Range(list) = {e \in Range(l.list) : e.id # removing} /\ d \in Range(l.list) /\ d.id = removing /\ d \in NetRec
      /\ ~go => list = l.list
  <2>1. CASE go
    BY <1>5, <2>1, RemovedOk, NextCurrentOk, GetOk DEF Listed
  <2>2. CASE ~go
    BY <1>5, <2>2
  <2>3. QED
    BY <2>1, <2>2
<1>7. /\ current # Nothing => n \in Range(list) /\ n.id = current /\ n \in NetRec /\ n.dir \in {Root, n.id} /\ n # NoNet
      /\ current = Nothing => n = NoNet
  <2>1. CASE current = Nothing
    BY <2>1
  <2>2. CASE current # Nothing
    <3>1. n = Get(list, current) /\ ListOk(list) /\ current \in Ids(list)
      BY <1>6, <2>2 DEF Listed
    <3> HIDE DEF n, list, current
    <3>2. n \in Range(list) /\ n.id = current /\ n \in NetRec
      BY <3>1, GetOk
    <3>3. n.dir \in {Root, n.id}
      BY <3>1, <3>2, EntriesOk
    <3>4. n # NoNet
      BY <2>2, <3>2 DEF NoNet
    <3>5. QED
      BY <2>2, <3>2, <3>3, <3>4
  <2>3. QED
    BY <2>1, <2>2
<1> HIDE DEF n, list, current, d
<1>8. /\ Listed(netFile'.list, netFile'.current) /\ upset' \in BOOLEAN /\ netFaults' \in Nat
      /\ ~netFile'.there => netFile'.list = <<>> /\ netFile'.current = Nothing
      /\ \/ netFile'.list = list /\ Saved
         \/ netFile' = netFile /\ ~Saved
  <2>1. CASE go \/ l.list # netFile.list
    <3>1. SaveNetworks(list, current)
      BY <1>3, <2>1
    <3>2. QED
      BY <1>1, <1>6, <3>1, SaveFacts DEF Saved
  <2>2. CASE ~ (go \/ l.list # netFile.list)
    <3>1. UNCHANGED <<netFile, netFaults, upset>> /\ list = netFile.list
      BY <1>3, <1>6, <2>2
    <3>2. QED
      BY <1>1, <3>1 DEF Saved, NetTypes
  <2>3. QED
    BY <2>1, <2>2
<1>9. /\ used' \in [Places -> SUBSET Controls] /\ settings' \in Controls \cup {Nothing}
      /\ \A p \in Places : used'[p] \subseteq used[p]
      /\ \A p \in NetIds : p \notin made' => used'[p] = {}
      /\ used'[Root] # {} => used'[Root] = used[Root] /\ settings' = settings /\ (go => d.dir # Root)
  <2>1. CASE go
    <3>1. /\ used' \in [Places -> SUBSET Controls] /\ used'[d.dir] = {} /\ settings' \in Controls \cup {Nothing}
          /\ \A p \in Places : p # d.dir => used'[p] = used[p]
          /\ \A p \in Places : used'[p] \subseteq used[p]
          /\ made' = made \ ({d.dir} \ {Root}) /\ d.dir \in Places
          /\ d.dir # Root => settings' = settings
      BY <1>1, <1>3, <1>6, <2>1, DiscardFacts
    <3>2. ASSUME NEW p \in NetIds, p \notin made' PROVE used'[p] = {}
      BY <1>1, <3>1, <3>2 DEF KeysOk, Places
    <3>3. QED
      BY <3>1, <3>2 DEF Places
  <2>2. CASE ~go
    <3>1. UNCHANGED <<used, made, settings>>
      BY <1>3, <2>2
    <3>2. QED
      BY <1>1, <2>2, <3>1 DEF KeysOk, NetTypes
  <2>3. QED
    BY <2>1, <2>2
<1>10. Matches(l.list, used') /\ Matches(netFile.list, used')
  BY <1>1, <1>5, <1>9, MatchesLess DEF KeysOk, Listed, NetTypes
<1>11. Matches(list, used')
  BY <1>6, <1>10 DEF Matches
<1>12. used'[Root] # {} => HasRoot(list)
  <2> SUFFICES ASSUME used'[Root] # {} PROVE HasRoot(list)
    OBVIOUS
  <2>1. PICK e \in Range(l.list) : e.dir = Root
    BY <1>5, <1>9 DEF HasRoot
  <2>2. go => e.id # removing
    BY <1>5, <1>6, <1>9, <2>1, EntriesOk DEF Listed
  <2>3. QED
    BY <1>6, <2>1, <2>2 DEF HasRoot
<1>13. FitsFile(used', netFile', settings')
  BY <1>1, <1>8, <1>9, <1>12 DEF FitsFile, KeysOk
<1>14. \A p \in Places : \A a, b \in used'[p] : a = b
  BY <1>1, <1>9 DEF KeysOk
<1>15. CASE Saved
  <2>1. netlist' = list /\ chosen' = current /\ runs' = n /\ turn' = (IF n = NoNet THEN "setup" ELSE "start") /\ upNext' = upNext
    BY <1>3, <1>15
  <2>2. netFile'.list = list
    BY <1>8, <1>15
  <2>3. turn' \in {"setup", "start"} /\ (turn' = "start" => n # NoNet /\ current # Nothing)
    BY <1>7, <2>1
  <2>4. runs' = NoNet \/ (runs' \in NetRec /\ runs'.dir \in {Root, runs'.id})
    BY <1>7, <2>1
  <2>5. NetTypes'
    BY <1>1, <1>3, <1>4, <1>6, <1>8, <1>9, <2>1, <2>3, <2>4 DEF NetTypes
  <2>6. KeysOk'
    BY <1>9, <1>11, <1>12, <1>13, <1>14, <2>1, <2>2 DEF KeysOk
  <2>7. StartsOk' /\ RunsOk'
    BY <1>7, <2>1, <2>2, <2>3 DEF StartsOk, RunsOk
  <2>8. QED
    BY <2>5, <2>6, <2>7 DEF NetsIInv
<1>16. CASE ~Saved
  <2>1. netlist' = <<>> /\ chosen' = Nothing /\ upNext' = FALSE /\ turn' = "off" /\ runs' = runs
    BY <1>3, <1>16
  <2>2. Listed(netlist', chosen') /\ Matches(netlist', used') /\ Matches(netFile'.list, used')
    BY <1>8, <1>10, <1>11, <2>1, EmptyListed DEF Matches
  <2>3. NetTypes'
    BY <1>1, <1>3, <1>4, <1>8, <1>9, <2>1, <2>2 DEF NetTypes
  <2>4. KeysOk'
    BY <1>9, <1>13, <1>14, <2>1, <2>2 DEF KeysOk
  <2>5. StartsOk' /\ RunsOk'
    BY <2>1 DEF StartsOk, RunsOk
  <2>6. QED
    BY <2>3, <2>4, <2>5 DEF NetsIInv
<1>17. QED
  BY <1>15, <1>16

\* The list numbers its networks once.
LEMMA IdsCount ==
  ASSUME NEW L, ListOk(L)
  PROVE  Cardinality(Ids(L)) = Len(L)
<1> DEFINE f == [i \in 1..Len(L) |-> L[i].id]
<1>1. L \in Seq(NetRec) /\ Len(L) \in Nat /\ DOMAIN L = 1..Len(L)
  BY DEF ListOk
<1>2. f \in [1..Len(L) -> Ids(L)]
  BY <1>1 DEF Ids
<1>3. \A a, b \in 1..Len(L) : f[a] = f[b] => a = b
  BY <1>1 DEF ListOk
<1>4. \A t \in Ids(L) : \E a \in 1..Len(L) : f[a] = t
  BY <1>1 DEF Ids
<1> HIDE DEF f
<1>5. f \in Bijection(1..Len(L), Ids(L))
  BY <1>2, <1>3, <1>4 DEF Bijection, Injection, Surjection, IsInjective
<1>6. ExistsBijection(1..Len(L), Ids(L))
  BY <1>5 DEF ExistsBijection
<1>7. QED
  BY <1>1, <1>6, FS_CountingElements

LEMMA AtMostOne ==
  ASSUME NEW S, \A a, b \in S : a = b
  PROVE  Cardinality(S) <= 1
<1>1. CASE S = {}
  BY <1>1, FS_EmptySet
<1>2. CASE S # {}
  <2>1. PICK x \in S : TRUE
    BY <1>2
  <2>2. S = {x}
    BY <2>1
  <2>3. QED
    BY <2>2, FS_Singleton
<1>3. QED
  BY <1>1, <1>2

\* No device key is ever shown to two control planes, no two networks share a
\* directory, and what runs is what was chosen once every request is answered,
\* for any networks, requests, failed writes and crashes, as long as a server
\* that ends has answered its requests (networks.go: Add, Select, Remove,
\* reload; Network.Discard; runWith).
THEOREM NetsSound == ASSUME ~Late PROVE LocalSpec => []NetsInv
<1>1. LocalInit => NetsIInv
  BY LocalStarts
<1>2. NetsIInv /\ [LocalNext]_netVars => NetsIInv'
  <2> SUFFICES ASSUME NetsIInv, [LocalNext]_netVars PROVE NetsIInv'
    OBVIOUS
  <2>1. CASE LocalNext
    <3>1. ASSUME NEW q \in NetReqs, NEW op \in {"add", "addSelect"}, Begin(q, op, Nothing) PROVE NetsIInv'
      BY <3>1, BeginKeeps
    <3>2. ASSUME NEW q \in NetReqs, NEW id \in NetIds, NEW op \in {"select", "remove", "reset", "renew"}, Begin(q, op, id)
          PROVE  NetsIInv'
      BY <3>2, BeginKeeps
    <3>3. ASSUME NEW q \in NetReqs, NEW c \in Controls, NEW id \in NetIds, AddNetwork(q, c, id) \/ AddHalf(q, c, id)
          PROVE  NetsIInv'
      BY <3>3, AddNetworkKeeps, AddHalfKeeps
    <3>4. ASSUME NEW q \in NetReqs, AddRefused(q) \/ SelectNetwork(q) \/ RemoveCurrent(q) PROVE NetsIInv'
      BY <3>4, AddRefusedKeeps, SelectNetworkKeeps, RemoveCurrentKeeps
    <3>5. ASSUME NEW q \in NetReqs, RemoveOther(q) \/ Refused(q) \/ RenewIdentity(q) PROVE NetsIInv'
      BY <3>5, RemoveOtherKeeps, RefusedKeeps, RenewIdentityKeeps
    <3>6. ASSUME NEW q \in NetReqs, Stop(q) PROVE NetsIInv'
      BY <3>6, StopKeeps
    <3>7. ASSUME NEW q \in NetReqs, Act(q) PROVE NetsIInv'
      BY <3>3, <3>4, <3>5, <3>7 DEF Act
    <3>8. ASSUME Connect \/ LoopStep \/ DaemonCrashes PROVE NetsIInv'
      BY <3>8, ConnectKeeps, TurnEndsKeeps, ReloadKeeps, StartNodeKeeps, DaemonRestartsKeeps, DaemonCrashesKeeps DEF LoopStep
    <3>9. QED
      BY <2>1, <3>1, <3>2, <3>6, <3>7, <3>8 DEF LocalNext
  <2>2. CASE UNCHANGED netVars
    <3>1. UNCHANGED <<netlist, chosen, removing, upNext, netFile, settings, used, made, turn, runs, ended, reqs, netFaults, upset>>
      BY <2>2 DEF netVars
    <3>2. NetTypes' /\ KeysOk' /\ StartsOk' /\ RunsOk'
      BY <3>1 DEF NetsIInv, NetTypes, KeysOk, StartsOk, RunsOk, Ending
    <3>3. QED
      BY <3>2 DEF NetsIInv
  <2>3. QED
    BY <2>1, <2>2
<1>3. NetsIInv => NetsInv
  <2> SUFFICES ASSUME NetsIInv PROVE NetsInv
    OBVIOUS
  <2>1. LocalTypeOK
    <3>1. Cardinality(Ids(netlist)) = Len(netlist)
      BY IdsCount DEF NetsIInv, NetTypes, Listed
    <3>2. QED
      BY <3>1 DEF LocalTypeOK, NetsIInv, NetTypes, Listed
  <2>2. NoInheritedKey
    <3>1. DOMAIN used = Places
      BY DEF NetsIInv, NetTypes
    <3>2. QED
      BY <3>1, AtMostOne DEF NoInheritedKey, NetsIInv, KeysOk
  <2>3. OneNetworkPerPlace
    BY DEF OneNetworkPerPlace, NetsIInv, NetTypes, Listed, ListOk
  <2>4. RunsAsChosen
    <3>1. (\A q \in NetReqs : reqs[q] = NoReq) => \A q \in NetReqs : reqs[q].op = "none"
      BY NoReqOk
    <3>2. QED
      BY <3>1 DEF RunsAsChosen, NetsIInv, RunsOk, Ending
  <2>5. QED
    BY <2>1, <2>2, <2>3, <2>4 DEF NetsInv
<1>4. QED
  BY <1>1, <1>2, <1>3, PTL DEF LocalSpec

-----------------------------------------------------------------------------
\* What a device keeps on its disk, as the instance for TLC composes it.
THEOREM HistorySound ==
  ASSUME ~Late
  PROVE  HistorySpec => []MemoryCoversDisk /\ []InUseIsCurrent /\ []JournalInv /\ []NetsInv
<1>1. HistoryInit => Init /\ JournalInit /\ LocalInit
  BY DEF HistoryInit
<1>2. [HistoryNext]_<<focus, vars, journalVars, netVars>> =>
        [Next]_vars /\ [JournalNext]_journalVars /\ [LocalNext]_netVars
  BY DEF HistoryNext
<1>3. HistorySpec => Spec /\ JournalSpec /\ LocalSpec
  BY <1>1, <1>2, PTL DEF HistorySpec, Spec, JournalSpec, LocalSpec
<1>4. QED
  BY <1>3, MemoryCovers, InUseCurrent, JournalSound, NetsSound, PTL

=============================================================================
