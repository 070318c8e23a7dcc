--------------------------- MODULE BindingHistory ---------------------------
(***************************************************************************)
(* What one node remembers of the signed statements it verified, and how   *)
(* that decides which registry snapshots it uses.                          *)
(*                                                                         *)
(* A binding (node id, grant, time of issue) and a revocation (node id,    *)
(* time of issue) are signed by an administrator's key and never expire.   *)
(* The control plane, which the node does not trust, puts any of them into *)
(* a snapshot.  binding.VerifySnapshot checks them against the pinned keys *)
(* and against the node's history; history.save writes what was new to     *)
(* disk with its proof; only then controlclient.Run stores the snapshot in *)
(* the holder.  A crash loses the memory and keeps the disk.               *)
(*                                                                         *)
(* Abstractions.  A statement is a pair <<node, time>>; its signature      *)
(* verifies iff the pair is in SignedBindings or SignedRevocations (the    *)
(* statements administrators ever signed for this network), so a delivered *)
(* record outside them is a forgery.  A snapshot has one record per node   *)
(* (Snapshot.Validate) and one revocation per node; a revocation dated 0   *)
(* changes nothing and stands for "none".  Fewer than anchors.MaxHistory   *)
(* nodes were ever seen, so Book.set evicts nothing.  Verifying, saving    *)
(* and storing a snapshot is one step: only controlclient.Run's goroutine  *)
(* takes it, and a crash inside it leaves a state that one of the steps    *)
(* below followed by Restart also leaves.                                  *)
(***************************************************************************)
EXTENDS Naturals, FiniteSets

CONSTANTS
  Nodes,              \* node ids
  Me,                 \* the node whose history this is
  NoNode,             \* the self record of a snapshot that has none
  MaxTime,            \* bound on the times statements carry
  SignedBindings,     \* <<node, time>> of every binding signed
  SignedRevocations   \* <<node, time>> of every revocation signed

Times == 0..MaxTime

ASSUME ConstantsAssumption ==
  /\ Me \in Nodes
  /\ NoNode \notin Nodes
  /\ MaxTime \in Nat
  /\ SignedBindings \subseteq Nodes \X Times
  /\ SignedRevocations \subseteq Nodes \X Times

VARIABLES
  book,         \* history.nodes: per node the newest binding and revocation
  newIssued,    \* history.issued: bindings in book that are not recorded yet
  newRevoked,   \* history.revoked: the same for revocations
  disk,         \* bindings_seen.json
  holder        \* records of the snapshot in use, empty when there is none

vars == <<book, newIssued, newRevoked, disk, holder>>

Entry == [issued : Times, revoked : Times]
NoEntry == [issued |-> 0, revoked |-> 0]
Book == [Nodes -> Entry]

\* Record sets: partial functions from nodes to the time of the binding.
Records == UNION {[S -> Times] : S \in SUBSET Nodes}
NoRecords == [n \in {} |-> 0]

Snapshot == [self : Nodes \cup {NoNode}, recs : Records, revs : [Nodes -> Times]]

Newer(a, b) == IF a > b THEN a ELSE b

-----------------------------------------------------------------------------
(***************************************************************************)
(* The book (internal/anchors).                                            *)
(***************************************************************************)

\* Mutant: a revocation does not outlive the binding that follows it.
CheckIssuedOnly(e, t) == ~(t < e.issued)

\* Book.Check: refuse what is not newer than a revocation, or is older than
\* a binding seen before.
Check(e, t) ==
  /\ ~(e.revoked # 0 /\ t <= e.revoked)
  /\ ~(t < e.issued)

\* Book.Saw for every record of recs.
Saw(b, recs) ==
  [n \in Nodes |->
    IF n \in DOMAIN recs THEN [b[n] EXCEPT !.issued = Newer(recs[n], b[n].issued)] ELSE b[n]]

\* Book.Revoke for every revocation of revs.
Revoke(b, revs) ==
  [n \in Nodes |-> [b[n] EXCEPT !.revoked = Newer(revs[n], b[n].revoked)]]

-----------------------------------------------------------------------------
(***************************************************************************)
(* Verification (internal/binding).                                        *)
(***************************************************************************)

\* verifyNode and guarded: the signature of n's record verifies and the
\* guard has nothing newer.
Admissible(b, n, t) == <<n, t>> \in SignedBindings /\ Check(b[n], t)

\* VerifyRevocation: what is left of a snapshot's revocations.
Verified(revs) == [n \in Nodes |-> IF <<n, revs[n]>> \in SignedRevocations THEN revs[n] ELSE 0]

\* The first loop of VerifySnapshot: revocations reach the guard before any
\* binding is judged, whatever becomes of the snapshot.
Revoked(s) == Revoke(book, Verified(s.revs))

\* Only the node's own record can fail the snapshot.
SelfVerifies(s) == s.self # NoNode => Admissible(Revoked(s), s.self, s.recs[s.self])

\* The peers that stay, and the node's own record.
Kept(s) ==
  LET b == Revoked(s)
  IN  [n \in {m \in DOMAIN s.recs : Admissible(b, m, s.recs[m])} |-> s.recs[n]]

\* The guard after VerifySnapshot returned without an error.
Seen(s) == Saw(Revoked(s), Kept(s))

\* history.Revoke and history.Saw: what was news waits for its record.
PendingRevoked(s) ==
  LET b == Revoked(s) IN newRevoked \cup {n \in Nodes : b[n].revoked > book[n].revoked}
PendingIssued(s) ==
  LET b == Seen(s) IN newIssued \cup {n \in Nodes : b[n].issued > book[n].issued}

-----------------------------------------------------------------------------
(***************************************************************************)
(* history.save and anchors.Files.Record.                                  *)
(***************************************************************************)

\* The pending changes whose signed statement is in s itself.
IssuedProof(s) ==
  LET kept == Kept(s)
      seen == Saw(Revoked(s), kept)
  IN  {n \in PendingIssued(s) \cap DOMAIN kept : kept[n] = seen[n].issued}
RevokedProof(s) == LET b == Revoked(s) IN {n \in PendingRevoked(s) : s.revs[n] = b[n].revoked}

\* save goes on only when every pending change has its proof in s.
Proven(s) == IssuedProof(s) = PendingIssued(s) /\ RevokedProof(s) = PendingRevoked(s)

\* Mutant: a new binding replaces the whole entry of its node.
RecordReplaces(s, B, R) ==
  [n \in Nodes |->
    [issued |-> IF n \in B THEN Kept(s)[n] ELSE disk[n].issued,
     revoked |-> IF n \in R THEN s.revs[n] ELSE IF n \in B THEN 0 ELSE disk[n].revoked]]

\* Files.Record of the bindings of B and the revocations of R.
Record(s, B, R) ==
  Revoke(Saw(disk, [n \in B |-> Kept(s)[n]]), [n \in Nodes |-> IF n \in R THEN s.revs[n] ELSE 0])

\* What save has written when a write fails: whole messages of evidence, in
\* the order self, peers, revocations.
Written(s, B, R) ==
  /\ <<B, R>> # <<IssuedProof(s), RevokedProof(s)>>
  /\ R # {} => B = IssuedProof(s)
  /\ B # {} => IssuedProof(s) \cap {s.self} \subseteq B

-----------------------------------------------------------------------------
Init ==
  /\ book = [n \in Nodes |-> NoEntry]
  /\ newIssued = {}
  /\ newRevoked = {}
  /\ disk = [n \in Nodes |-> NoEntry]
  /\ holder = NoRecords

\* verifySnapshot fails on the node's own record: the revocations stay in
\* the book, nothing is saved, and controlclient.Run clears the holder.
RefuseSelf(s) ==
  /\ book' = Revoked(s)
  /\ newRevoked' = PendingRevoked(s)
  /\ holder' = NoRecords
  /\ UNCHANGED <<newIssued, disk>>

\* save finds a pending change without its proof in this snapshot: it drops
\* every pending change and the snapshot is refused.
RefuseUnproven(s) ==
  /\ book' = Seen(s)
  /\ newIssued' = {}
  /\ newRevoked' = {}
  /\ holder' = NoRecords
  /\ UNCHANGED disk

\* A write fails: what is not on disk stays pending, the snapshot is refused.
RecordFails(s, B, R) ==
  /\ Written(s, B, R)
  /\ book' = Seen(s)
  /\ newIssued' = PendingIssued(s) \ B
  /\ newRevoked' = PendingRevoked(s) \ R
  /\ disk' = Record(s, B, R)
  /\ holder' = NoRecords

\* save wrote everything; a snapshot that describes another node as this one
\* is refused after that, any other is stored in the holder.
Accept(s) ==
  /\ book' = Seen(s)
  /\ newIssued' = {}
  /\ newRevoked' = {}
  /\ disk' = Record(s, PendingIssued(s), PendingRevoked(s))
  /\ holder' = IF s.self = Me THEN Kept(s) ELSE NoRecords

\* Mutant: the file is not read at the start.
RestartEmpty ==
  /\ book' = [n \in Nodes |-> NoEntry]
  /\ newIssued' = {}
  /\ newRevoked' = {}
  /\ holder' = NoRecords
  /\ UNCHANGED disk

\* The process ends and starts again: loadHistory reads the file.
Restart ==
  /\ book' = disk
  /\ newIssued' = {}
  /\ newRevoked' = {}
  /\ holder' = NoRecords
  /\ UNCHANGED disk

\* verifySnapshot on what the control plane sent, which is anything that
\* parses: VerifySnapshot, then save.
Deliver(s) ==
  /\ s.self # NoNode => s.self \in DOMAIN s.recs
  /\ IF ~SelfVerifies(s) THEN RefuseSelf(s)
     ELSE IF ~Proven(s) THEN RefuseUnproven(s)
     ELSE \/ Accept(s)
          \/ \E B \in SUBSET IssuedProof(s), R \in SUBSET RevokedProof(s) : RecordFails(s, B, R)

Next ==
  \/ \E s \in Snapshot : Deliver(s)
  \/ Restart

Spec == Init /\ [][Next]_vars

-----------------------------------------------------------------------------
TypeOK ==
  /\ book \in Book
  /\ newIssued \in SUBSET Nodes
  /\ newRevoked \in SUBSET Nodes
  /\ disk \in Book
  /\ holder \in Records

\* The running process never knows less than the file it started from and
\* writes to: history.nodes is at least bindings_seen.json, entry by entry,
\* through failed writes, dropped pending changes and restarts.  If it were
\* not, the node would accept what its own file says to refuse.
MemoryCoversDisk ==
  \A n \in Nodes : book[n].issued >= disk[n].issued /\ book[n].revoked >= disk[n].revoked

\* Every record in use was signed by an administrator, is the newest binding
\* the process ever verified of that node, and no revocation the process
\* ever verified covers it -- not even one that arrived in a snapshot that
\* was refused (VerifySnapshot records revocations first; controlclient.Run
\* clears the holder when verification fails).
InUseIsCurrent ==
  \A n \in DOMAIN holder :
    /\ <<n, holder[n]>> \in SignedBindings
    /\ holder[n] = book[n].issued
    /\ book[n].revoked # 0 => holder[n] > book[n].revoked

\* The file only ever learns: no step, failed write or restart lowers what
\* bindings_seen.json says of a node.
DiskOnlyGrows ==
  [][\A n \in Nodes : disk'[n].issued >= disk[n].issued /\ disk'[n].revoked >= disk[n].revoked]_disk

=============================================================================
