--------------------------- MODULE Control_proofs ---------------------------
(***************************************************************************)
(* Proofs about what the control plane keeps in its database: the registry *)
(* of nodes (NodeRegistry), and what administrators change beside each     *)
(* other (MCControl): access lists, sessions, passkeys and tokens, and     *)
(* their sign-ins.                                                         *)
(***************************************************************************)
EXTENDS NodeRegistry, MCControl, FiniteSetTheorems, SequenceTheorems, TLAPS

-----------------------------------------------------------------------------
(***************************************************************************)
(* Proofs about NodeRegistry, for any number of rows, keys, pools, prefix  *)
(* lists and any bounds.                                                   *)
(***************************************************************************)

-----------------------------------------------------------------------------
(***************************************************************************)
(* Type correctness, one lemma per group of actions.                       *)
(***************************************************************************)

LEMMA InitType == Init => TypeOK
<1> SUFFICES ASSUME Init PROVE TypeOK
  OBVIOUS
<1> USE RegistryAssumption DEF Init
<1>1. NoRow \in Row
  BY DEF NoRow, Row, Lists, Status
<1>2. nodes \in [Ids -> Row]
  BY <1>1
<1>3. /\ tokens \in [Ids -> Token \cup {None}]
      /\ posts \in SUBSET Post
      /\ revocations \in [Ids -> 0..MaxTime]
      /\ signed \in [Ids -> 0..MaxTime]
  OBVIOUS
<1>4. QED
  BY <1>2, <1>3 DEF TypeOK

\* A row keeps its type when its grant, its status or its signature change.
LEMMA RowType ==
  ASSUME NEW row \in Row
  PROVE  /\ Demoted(row) \in Row
         /\ \A s \in Status : [row EXCEPT !.status = s] \in Row
         /\ \A ip \in Overlays \cup {None} : [row EXCEPT !.ip = ip] \in Row
         /\ \A l \in PrefixLists, ip \in Overlays \cup {None}, a \in Addrs :
              [row EXCEPT !.prefixes = l, !.ip = ip, !.addr = a] \in Row
         /\ \A l \in PrefixLists, ip \in Overlays, a \in Addrs :
              [row EXCEPT !.status = "confirmed", !.prefixes = l, !.ip = ip, !.addr = a, !.binding = None] \in Row
         /\ [row EXCEPT !.status = "revoked", !.ip = None] \in Row
  BY DEF Demoted, Row, Status, Lists

LEMMA NextType == TypeOK /\ [Next]_vars => TypeOK'
<1> SUFFICES ASSUME TypeOK, [Next]_vars PROVE TypeOK'
  OBVIOUS
<1>0. NoRow \in Row /\ [NoRow EXCEPT !.status = "deleted"] \in Row
  BY DEF NoRow, Row, Lists, Status
<1>b. ASSUME Bump PROVE version' \in 0..MaxVersion
  BY <1>b, RegistryAssumption DEF Bump, TypeOK
<1>1. ASSUME NEW id \in Ids, NEW key \in DeviceKeys, CreatePending(id, key) PROVE TypeOK'
  <2>1. [NoRow EXCEPT !.key = key, !.status = "pending"] \in Row
    BY DEF NoRow, Row, Lists, Status
  <2>2. QED
    BY <1>1, <2>1 DEF CreatePending, TypeOK
<1>2. ASSUME NEW id \in Ids, NEW grant \in PrefixLists, NEW ip \in Overlays \cup {None},
             NEW addr \in Addrs, NEW pool \in pools, ConfirmNode(id, grant, ip, addr, pool)
      PROVE  TypeOK'
  <2>1. PICK to \in Overlays :
          nodes' = [nodes EXCEPT ![id] =
            [@ EXCEPT !.status = "confirmed", !.prefixes = grant, !.ip = to, !.addr = addr, !.binding = None]]
    BY <1>2 DEF ConfirmNode
  <2>2. [nodes[id] EXCEPT !.status = "confirmed", !.prefixes = grant, !.ip = to, !.addr = addr, !.binding = None] \in Row
    <3>1. nodes[id] \in Row
      BY DEF TypeOK
    <3>2. QED
      BY <3>1, RowType
  <2>3. nodes' \in [Ids -> Row]
    BY <2>1, <2>2 DEF TypeOK
  <2>4. QED
    BY <1>2, <2>3 DEF ConfirmNode, TypeOK
<1>3. ASSUME NEW id \in Ids, NEW grant \in PrefixLists, NEW ip \in Overlays \cup {None},
             NEW addr \in Addrs, NEW pool \in pools, UpdateNode(id, grant, ip, addr, pool)
      PROVE  TypeOK'
  <2> DEFINE cur == nodes[id]
             to == IF ip = None THEN cur.ip ELSE ip
             row == [cur EXCEPT !.prefixes = grant, !.ip = to, !.addr = addr]
  <2>1. row \in Row
    <3>1. cur \in Row
      BY DEF TypeOK
    <3>2. to \in Overlays \cup {None}
      BY <3>1 DEF Row
    <3>3. QED
      BY <3>1, <3>2, RowType
  <2>2. Demoted(row) \in Row
    BY <2>1, RowType
  <2>3. \E r \in {row, Demoted(row)} : nodes' = [nodes EXCEPT ![id] = r]
    BY <1>3 DEF UpdateNode
  <2>4. nodes' \in [Ids -> Row]
    BY <2>1, <2>2, <2>3 DEF TypeOK
  <2>5. \E t \in {None, tokens[id]} : tokens' = [tokens EXCEPT ![id] = t]
    BY <1>3 DEF UpdateNode
  <2>6. version' \in 0..MaxVersion
    BY <1>3, <1>b DEF UpdateNode, TypeOK
  <2>7. UNCHANGED <<posts, revocations, keys, network, pools, minted, clock, signed>>
    BY <1>3 DEF UpdateNode
  <2>8. QED
    BY <2>4, <2>5, <2>6, <2>7 DEF TypeOK
<1>4. ASSUME NEW id \in Ids, RejectNode(id) PROVE TypeOK'
  BY <1>0, <1>4 DEF RejectNode, TypeOK
<1>5. ASSUME NEW id \in Ids, RevokeNode(id) PROVE TypeOK'
  <2>0. nodes[id] \in Row /\ nodes' = [nodes EXCEPT ![id] = [nodes[id] EXCEPT !.status = "revoked", !.ip = None]]
    BY <1>5 DEF RevokeNode, TypeOK
  <2>1. nodes' \in [Ids -> Row]
    BY <2>0, RowType DEF TypeOK
  <2>2. QED
    BY <1>5, <1>b, <2>1 DEF RevokeNode, TypeOK
<1>6. ASSUME NEW id \in Ids, ExpireSignTokens(id) PROVE TypeOK'
  BY <1>6 DEF ExpireSignTokens, TypeOK
<1>7. ASSUME NEW id \in Ids, NEW now \in {clock, clock + 1}, CreateSignToken(id, now) PROVE TypeOK'
  <2>1. [n |-> minted + 1, issued |-> now] \in Token /\ minted' \in 0..MaxTokens /\ clock' \in 1..(MaxTime + 1)
    BY <1>7, RegistryAssumption DEF CreateSignToken, TypeOK, Token
  <2>2. QED
    BY <1>7, <2>1 DEF CreateSignToken, TypeOK
<1>8. ASSUME NEW id \in Ids, NEW by \in AdminKeys, PostSignature(id, by) PROVE TypeOK'
  <2> DEFINE p == [id |-> id, token |-> tokens[id], revocation |-> nodes[id].status = "revoked",
                   prefixes |-> Listed(nodes[id].prefixes), ip |-> nodes[id].ip, by |-> by]
  <2>1. tokens[id] \in Token /\ nodes[id] \in Row
    BY <1>8 DEF PostSignature, TypeOK
  <2>2. p \in Post
    BY <2>1 DEF Post, Row
  <2>3. tokens[id].issued \in 0..MaxTime
    BY <2>1 DEF Token
  <2>4. posts' \in SUBSET Post /\ signed' \in [Ids -> 0..MaxTime]
    BY <1>8, <2>2, <2>3 DEF PostSignature, TypeOK
  <2>5. QED
    BY <1>8, <2>4 DEF PostSignature, TypeOK
<1>9. ASSUME NEW p \in posts, ApproveSigned(p) PROVE TypeOK'
  <2>1. p \in Post /\ p.id \in Ids
    BY DEF TypeOK, Post
  <2>2. nodes[p.id] \in Row
    BY <2>1 DEF TypeOK
  <2> DEFINE b == [prefixes |-> p.prefixes, ip |-> p.ip, by |-> p.by]
  <2>3. b \in Binding
    BY <2>1 DEF Post, Binding
  <2>4. [nodes[p.id] EXCEPT !.status = "approved", !.binding = b] \in Row
    BY <2>2, <2>3 DEF Row, Status
  <2>5. nodes' = [nodes EXCEPT ![p.id] = [nodes[p.id] EXCEPT !.status = "approved", !.binding = b]]
    BY <1>9 DEF ApproveSigned, TypeOK
  <2>6. nodes' \in [Ids -> Row]
    BY <2>4, <2>5 DEF TypeOK
  <2>7. QED
    BY <1>9, <1>b, <2>6 DEF ApproveSigned, TypeOK
<1>10. ASSUME NEW p \in posts, StoreRevocation(p) PROVE TypeOK'
  <2>1. p.id \in Ids /\ p.token.issued \in 0..MaxTime
    BY DEF TypeOK, Post, Token
  <2>2. QED
    BY <1>10, <1>b, <2>1 DEF StoreRevocation, TypeOK
<1>11. ASSUME NEW next \in SUBSET AdminKeys, ApplySignerSet(next) PROVE TypeOK'
  <2>1. nodes' \in [Ids -> Row]
    BY <1>11, RowType DEF ApplySignerSet, TypeOK
  <2>2. QED
    BY <1>11, <1>b, <2>1 DEF ApplySignerSet, TypeOK
<1>12. ASSUME NEW pool \in Pools, RenumberNetwork(pool) PROVE TypeOK'
  <2>1. ASSUME NEW i \in Ids PROVE nodes'[i] \in Row
    <3> DEFINE row == [nodes[i] EXCEPT !.ip = <<pool, nodes[i].ip[2]>>]
    <3>1. nodes'[i] \in {nodes[i], row, Demoted(row)}
      BY <1>12 DEF RenumberNetwork
    <3>2. nodes[i] \in Row
      BY DEF TypeOK
    <3>3. CASE nodes'[i] = nodes[i]
      BY <3>2, <3>3
    <3>4. CASE nodes'[i] # nodes[i]
      <4>1. nodes[i].ip # None
        BY <1>12, <3>4 DEF RenumberNetwork
      <4>2. <<pool, nodes[i].ip[2]>> \in Overlays
        BY <3>2, <4>1 DEF Row, Overlays
      <4>3. row \in Row /\ Demoted(row) \in Row
        BY <3>2, <4>2, RowType
      <4>4. QED
        BY <3>1, <3>4, <4>3
    <3>5. QED
      BY <3>3, <3>4
  <2>2. nodes' \in [Ids -> Row]
    <3>1. nodes' = [i \in Ids |-> nodes'[i]]
      BY <1>12 DEF RenumberNetwork
    <3>2. QED
      BY <2>1, <3>1
  <2>3. QED
    BY <1>12, <1>b, <2>2 DEF RenumberNetwork, TypeOK
<1>13. CASE UNCHANGED vars
  BY <1>13 DEF vars, TypeOK
<1>14. QED
  BY <1>1, <1>2, <1>3, <1>4, <1>5, <1>6, <1>7, <1>8, <1>9, <1>10, <1>11, <1>12, <1>13 DEF Next

\* Every reachable state has its type: rows, tokens and requests in flight
\* stay what the tables' columns allow.
THEOREM TypeCorrect == Spec => []TypeOK
  BY InitType, NextType, PTL DEF Spec

-----------------------------------------------------------------------------
(***************************************************************************)
(* Revocations cover.  The strengthening: an unused token is the newest of *)
(* its node and at least as new as everything signed for it; a request in  *)
(* flight whose token is still unused saw the status the row still has, or *)
(* the row was revoked since.                                              *)
(***************************************************************************)

TokensKnown ==
  \A i \in Ids : tokens[i] # None =>
    /\ nodes[i].status \in {"confirmed", "approved", "revoked"}
    /\ tokens[i].n <= minted
    /\ tokens[i].issued <= clock
    /\ signed[i] <= tokens[i].issued

PostsKnown ==
  \A p \in posts :
    /\ p.token.n <= minted
    /\ tokens[p.id] = p.token =>
         nodes[p.id].status \in (IF p.revocation THEN {"revoked"} ELSE {"confirmed", "revoked"})

SignedBefore == \A i \in Ids : signed[i] <= clock

Ledger == TokensKnown /\ PostsKnown /\ SignedBefore /\ RevocationCovers

LEMMA InitLedger == Init => Ledger
  BY RegistryAssumption DEF Init, Ledger, TokensKnown, PostsKnown, SignedBefore, RevocationCovers

LEMMA NextLedger == TypeOK /\ Ledger /\ [Next]_vars => Ledger'
<1> SUFFICES ASSUME TypeOK, Ledger, [Next]_vars PROVE Ledger'
  OBVIOUS
<1>0. TypeOK'
  BY NextType
<1>t. /\ \A i \in Ids : nodes[i] \in Row /\ nodes'[i] \in Row
      /\ \A p \in posts : p \in Post /\ p.id \in Ids /\ p.token \in Token
      /\ \A i \in Ids : tokens[i] # None => tokens[i] \in Token
      /\ \A i \in Ids : signed[i] \in 0..MaxTime /\ revocations[i] \in 0..MaxTime
      /\ clock \in Nat /\ minted \in Nat /\ None \notin Token
      /\ \A t \in Token : t.n \in Nat /\ t.issued \in 1..MaxTime
  BY <1>0, RegistryAssumption DEF TypeOK, Post, Token
<1> USE DEF Ledger, TokensKnown, PostsKnown, SignedBefore, RevocationCovers
<1>1. ASSUME NEW id \in Ids, NEW key \in DeviceKeys, CreatePending(id, key) PROVE Ledger'
  <2>1. \A i \in Ids \ {id} : nodes'[i] = nodes[i]
    BY <1>1 DEF CreatePending, TypeOK
  <2>2. nodes[id].status = "none" /\ tokens[id] = None /\ revocations[id] = 0
    BY <1>1 DEF CreatePending
  <2>3. QED
    BY <1>1, <1>t, <2>1, <2>2 DEF CreatePending
<1>2. ASSUME NEW id \in Ids, NEW grant \in PrefixLists, NEW ip \in Overlays \cup {None},
             NEW addr \in Addrs, NEW pool \in pools, ConfirmNode(id, grant, ip, addr, pool)
      PROVE  Ledger'
  <2>1. \A i \in Ids \ {id} : nodes'[i] = nodes[i] /\ tokens'[i] = tokens[i]
    BY <1>2 DEF ConfirmNode, TypeOK
  <2>2. nodes[id].status \in {"pending", "confirmed"} /\ tokens'[id] = None
    BY <1>2 DEF ConfirmNode, TypeOK
  <2>3. UNCHANGED <<posts, revocations, minted, clock, signed>>
    BY <1>2 DEF ConfirmNode
  <2>4. QED
    BY <1>t, <2>1, <2>2, <2>3
<1>3. ASSUME NEW id \in Ids, NEW grant \in PrefixLists, NEW ip \in Overlays \cup {None},
             NEW addr \in Addrs, NEW pool \in pools, UpdateNode(id, grant, ip, addr, pool)
      PROVE  Ledger'
  <2>1. \A i \in Ids \ {id} : nodes'[i] = nodes[i] /\ tokens'[i] = tokens[i]
    BY <1>3 DEF UpdateNode, TypeOK
  <2> DEFINE cur == nodes[id]
             to == IF ip = None THEN cur.ip ELSE ip
             row == [cur EXCEPT !.prefixes = grant, !.ip = to, !.addr = addr]
  <2>2. nodes'[id] \in {row, Demoted(row)}
    BY <1>3 DEF UpdateNode, TypeOK
  <2>3. row.status = cur.status /\ Demoted(row).status = "confirmed"
    BY <1>t DEF Row, Demoted
  <2>4. cur.status # "approved" => nodes'[id] = row
    BY <1>3 DEF UpdateNode, TypeOK
  <2>5. tokens'[id] \in {None, tokens[id]} /\ cur.status # "revoked"
    BY <1>3 DEF UpdateNode, TypeOK
  <2>6. UNCHANGED <<posts, revocations, minted, clock, signed>>
    BY <1>3 DEF UpdateNode
  <2>7. cur.status # "approved" => nodes'[id].status = cur.status
    BY <2>3, <2>4
  <2>8. cur.status = "approved" => nodes'[id].status \in {"approved", "confirmed"}
    BY <2>2, <2>3
  <2> HIDE DEF row, to
  <2>9. QED
    BY <1>t, <2>1, <2>5, <2>6, <2>7, <2>8
<1>4. ASSUME NEW id \in Ids, RejectNode(id) PROVE Ledger'
  <2>1. /\ \A i \in Ids \ {id} : nodes'[i] = nodes[i] /\ tokens'[i] = tokens[i]
        /\ tokens'[id] = None /\ nodes[id].status # "revoked"
    BY <1>4 DEF RejectNode, TypeOK
  <2>2. UNCHANGED <<posts, revocations, minted, clock, signed>>
    BY <1>4 DEF RejectNode
  <2>3. QED
    BY <1>t, <2>1, <2>2
<1>5. ASSUME NEW id \in Ids, RevokeNode(id) PROVE Ledger'
  <2>1. /\ \A i \in Ids \ {id} : nodes'[i] = nodes[i]
        /\ nodes'[id].status = "revoked" /\ nodes[id].status \in {"approved", "confirmed"}
    BY <1>5, <1>t DEF RevokeNode, TypeOK, Row
  <2>2. UNCHANGED <<tokens, posts, revocations, minted, clock, signed>>
    BY <1>5 DEF RevokeNode
  <2>3. QED
    BY <1>t, <2>1, <2>2
<1>6. ASSUME NEW id \in Ids, ExpireSignTokens(id) PROVE Ledger'
  <2>1. \A i \in Ids : tokens'[i] \in {tokens[i], None}
    BY <1>6 DEF ExpireSignTokens, TypeOK
  <2>2. UNCHANGED <<nodes, posts, revocations, minted, clock, signed>>
    BY <1>6 DEF ExpireSignTokens
  <2>3. QED
    BY <1>t, <2>1, <2>2
<1>7. ASSUME NEW id \in Ids, NEW now \in {clock, clock + 1}, CreateSignToken(id, now) PROVE Ledger'
  <2>1. \A i \in Ids \ {id} : tokens'[i] = tokens[i]
    BY <1>7 DEF CreateSignToken, TypeOK
  <2>2. tokens'[id].n = minted + 1 /\ tokens'[id].issued = now
    BY <1>7 DEF CreateSignToken, TypeOK
  <2>3. /\ minted' = minted + 1 /\ clock' = now /\ now >= clock
        /\ nodes[id].status \in {"confirmed", "approved", "revoked"}
    BY <1>7, <1>t DEF CreateSignToken
  <2>4. UNCHANGED <<nodes, posts, revocations, signed>>
    BY <1>7 DEF CreateSignToken
  <2>5. TokensKnown' /\ SignedBefore' /\ RevocationCovers'
    BY <1>t, <2>1, <2>2, <2>3, <2>4
  <2>6. \A p \in posts : p.id = id => tokens'[p.id] # p.token
    BY <1>t, <2>2
  <2>7. PostsKnown'
    BY <1>t, <2>1, <2>3, <2>4, <2>6
  <2>8. QED
    BY <2>5, <2>7
<1>8. ASSUME NEW id \in Ids, NEW by \in AdminKeys, PostSignature(id, by) PROVE Ledger'
  <2> DEFINE p == [id |-> id, token |-> tokens[id], revocation |-> nodes[id].status = "revoked",
                   prefixes |-> Listed(nodes[id].prefixes), ip |-> nodes[id].ip, by |-> by]
  <2>1. posts' = posts \cup {p} /\ tokens[id] # None /\ nodes[id].status \in {"confirmed", "revoked"}
    BY <1>8 DEF PostSignature
  <2>2. \A i \in Ids \ {id} : signed'[i] = signed[i]
    BY <1>8 DEF PostSignature, TypeOK
  <2>3. /\ nodes[id].status = "revoked" => signed'[id] = signed[id]
        /\ nodes[id].status = "confirmed" => signed'[id] = tokens[id].issued
    BY <1>8 DEF PostSignature, TypeOK
  <2>4. UNCHANGED <<nodes, tokens, revocations, minted, clock>>
    BY <1>8 DEF PostSignature
  <2>5. TokensKnown' /\ SignedBefore' /\ RevocationCovers'
    BY <1>t, <2>1, <2>2, <2>3, <2>4
  <2>6. /\ p.token.n <= minted
        /\ nodes[p.id].status \in (IF p.revocation THEN {"revoked"} ELSE {"confirmed", "revoked"})
    BY <1>t, <2>1
  <2> HIDE DEF p
  <2>7. PostsKnown'
    BY <2>1, <2>4, <2>6
  <2>8. QED
    BY <2>5, <2>7
<1>9. ASSUME NEW p \in posts, ApproveSigned(p) PROVE Ledger'
  <2>1. /\ \A i \in Ids \ {p.id} : nodes'[i] = nodes[i] /\ tokens'[i] = tokens[i]
        /\ tokens'[p.id] = None /\ nodes[p.id].status = "confirmed" /\ posts' \subseteq posts
    BY <1>9, <1>t DEF ApproveSigned, TypeOK
  <2>2. UNCHANGED <<revocations, minted, clock, signed>>
    BY <1>9 DEF ApproveSigned
  <2>3. QED
    BY <1>t, <2>1, <2>2
<1>10. ASSUME NEW p \in posts, StoreRevocation(p) PROVE Ledger'
  <2>1. /\ \A i \in Ids \ {p.id} : revocations'[i] = revocations[i] /\ tokens'[i] = tokens[i]
        /\ tokens'[p.id] = None /\ revocations'[p.id] = p.token.issued
        /\ tokens[p.id] = p.token /\ nodes[p.id].status = "revoked" /\ posts' \subseteq posts
    BY <1>10, <1>t DEF StoreRevocation, TypeOK
  <2>2. UNCHANGED <<nodes, minted, clock, signed>>
    BY <1>10 DEF StoreRevocation
  <2>3. QED
    BY <1>t, <2>1, <2>2
<1>11. ASSUME NEW next \in SUBSET AdminKeys, ApplySignerSet(next) PROVE Ledger'
  <2>1. \A i \in Ids : \/ nodes'[i] = nodes[i]
                       \/ nodes[i].status = "approved" /\ nodes'[i].status = "confirmed"
    BY <1>11, <1>t DEF ApplySignerSet, Demoted, Row
  <2>2. UNCHANGED <<tokens, posts, revocations, minted, clock, signed>>
    BY <1>11 DEF ApplySignerSet
  <2>3. QED
    BY <1>t, <2>1, <2>2
<1>12. ASSUME NEW pool \in Pools, RenumberNetwork(pool) PROVE Ledger'
  <2>1. \A i \in Ids : \/ nodes'[i].status = nodes[i].status
                       \/ nodes[i].status = "approved" /\ nodes'[i].status = "confirmed"
    BY <1>12, <1>t DEF RenumberNetwork, Demoted, Row
  <2>2. UNCHANGED <<tokens, posts, revocations, minted, clock, signed>>
    BY <1>12 DEF RenumberNetwork
  <2>3. QED
    BY <1>t, <2>1, <2>2
<1>13. CASE UNCHANGED vars
  BY <1>13 DEF vars
<1>14. QED
  BY <1>1, <1>2, <1>3, <1>4, <1>5, <1>6, <1>7, <1>8, <1>9, <1>10, <1>11, <1>12, <1>13 DEF Next

\* However handlers interleave, a stored revocation belongs to a revoked row
\* and is dated no earlier than any binding ever signed for that row.
THEOREM RevocationsCover == Spec => []RevocationCovers
<1>1. TypeOK /\ Ledger => RevocationCovers
  BY DEF Ledger
<1>2. QED
  BY <1>1, InitType, NextType, InitLedger, NextLedger, PTL DEF Spec

-----------------------------------------------------------------------------
(***************************************************************************)
(* Records match what was signed -- where equalPrefixes is exact and the   *)
(* pool never changes.  The two runs that violate RecordMatches show that  *)
(* neither hypothesis can be dropped.  The strengthening: a request in     *)
(* flight whose token is unused carries the grant its confirmed row has.   *)
(***************************************************************************)

OnePool == \A a, b \in Pools : a = b
ExactComparison == \A a, b \in Lists : equalPrefixes(a, b) => Listed(a) = Listed(b)

PostsCurrent ==
  \A p \in posts :
    (~p.revocation /\ tokens[p.id] = p.token /\ nodes[p.id].status = "confirmed") =>
      p.prefixes = Listed(nodes[p.id].prefixes) /\ p.ip = nodes[p.id].ip

Signed == PostsCurrent /\ RecordMatches

LEMMA InitSigned == Init => Signed
  BY DEF Init, NoRow, Signed, PostsCurrent, RecordMatches

LEMMA NextSigned ==
  ASSUME OnePool, ExactComparison
  PROVE  TypeOK /\ Ledger /\ Signed /\ [Next]_vars => Signed'
<1> SUFFICES ASSUME TypeOK, Ledger, Signed, [Next]_vars PROVE Signed'
  OBVIOUS
<1>0. TypeOK'
  BY NextType
<1>t. /\ \A i \in Ids : nodes[i] \in Row /\ nodes'[i] \in Row
      /\ \A p \in posts : p \in Post /\ p.id \in Ids /\ p.token \in Token
      /\ \A t \in Token : t.n \in Nat
      /\ minted \in Nat /\ None \notin Token
  BY <1>0, RegistryAssumption DEF TypeOK, Post, Token
<1>k. /\ \A p \in posts : p.token.n <= minted
      /\ \A p \in posts : tokens[p.id] = p.token => nodes[p.id].status \in {"confirmed", "revoked"}
      /\ \A i \in Ids : tokens[i] # None => nodes[i].status \in {"confirmed", "approved", "revoked"}
  BY DEF Ledger, PostsKnown, TokensKnown
<1> USE DEF Signed, PostsCurrent, RecordMatches
<1>1. ASSUME NEW id \in Ids, NEW key \in DeviceKeys, CreatePending(id, key) PROVE Signed'
  <2>1. /\ \A i \in Ids \ {id} : nodes'[i] = nodes[i]
        /\ nodes'[id].status = "pending"
        /\ UNCHANGED <<tokens, posts>>
    BY <1>1 DEF CreatePending, TypeOK, NoRow
  <2>2. QED
    BY <1>t, <2>1
<1>2. ASSUME NEW id \in Ids, NEW grant \in PrefixLists, NEW ip \in Overlays \cup {None},
             NEW addr \in Addrs, NEW pool \in pools, ConfirmNode(id, grant, ip, addr, pool)
      PROVE  Signed'
  <2>1. \A i \in Ids \ {id} : nodes'[i] = nodes[i] /\ tokens'[i] = tokens[i]
    BY <1>2 DEF ConfirmNode, TypeOK
  <2>2. PICK to \in Overlays :
          nodes' = [nodes EXCEPT ![id] =
            [@ EXCEPT !.status = "confirmed", !.prefixes = grant, !.ip = to, !.addr = addr, !.binding = None]]
    BY <1>2 DEF ConfirmNode
  <2>3. nodes'[id].status = "confirmed"
    BY <1>t, <2>2 DEF TypeOK, Row
  <2>4. tokens'[id] = None /\ posts' = posts
    BY <1>2 DEF ConfirmNode, TypeOK
  <2>5. QED
    BY <1>t, <2>1, <2>3, <2>4
<1>3. ASSUME NEW id \in Ids, NEW grant \in PrefixLists, NEW ip \in Overlays \cup {None},
             NEW addr \in Addrs, NEW pool \in pools, UpdateNode(id, grant, ip, addr, pool)
      PROVE  Signed'
  <2>1. \A i \in Ids \ {id} : nodes'[i] = nodes[i] /\ tokens'[i] = tokens[i]
    BY <1>3 DEF UpdateNode, TypeOK
  <2> DEFINE cur == nodes[id]
             to == IF ip = None THEN cur.ip ELSE ip
             row == [cur EXCEPT !.prefixes = grant, !.ip = to, !.addr = addr]
             changed == SignedChanged(cur, grant, to)
  <2>2. /\ row.status = cur.status /\ row.prefixes = grant /\ row.ip = to /\ row.binding = cur.binding
        /\ Demoted(row).status = "confirmed"
    BY <1>t DEF Row, Demoted
  <2>3. /\ cur.status \in {"pending", "confirmed", "approved"}
        /\ nodes'[id] = IF cur.status = "approved" /\ changed THEN Demoted(row) ELSE row
        /\ tokens'[id] = IF changed /\ cur.status # "pending" THEN None ELSE tokens[id]
        /\ posts' = posts
    BY <1>3 DEF UpdateNode, TypeOK
  <2>4. ~changed => Listed(grant) = Listed(cur.prefixes) /\ to = cur.ip
    <3>1. grant \in Lists /\ cur.prefixes \in Lists
      BY <1>t DEF Lists, Row
    <3>2. QED
      BY <3>1, ExactComparison DEF SignedChanged, ExactComparison
  <2> HIDE DEF changed, row, to
  <2>5. CASE changed
    <3>1. nodes'[id].status # "approved"
      BY <2>2, <2>3, <2>5
    <3>2. \A p \in posts : p.id = id => tokens'[p.id] # p.token \/ nodes'[p.id].status # "confirmed"
      BY <1>t, <2>2, <2>3, <2>5
    <3>3. QED
      BY <1>t, <2>1, <2>3, <3>1, <3>2
  <2>6. CASE ~changed
    <3>1. nodes'[id] = row /\ tokens'[id] = tokens[id]
      BY <2>3, <2>6
    <3>2. QED
      BY <1>t, <2>1, <2>2, <2>3, <2>4, <2>6, <3>1
  <2>7. QED
    BY <2>5, <2>6
<1>4. ASSUME NEW id \in Ids, RejectNode(id) PROVE Signed'
  <2>1. /\ \A i \in Ids \ {id} : nodes'[i] = nodes[i] /\ tokens'[i] = tokens[i]
        /\ tokens'[id] = None /\ nodes'[id].status = "deleted" /\ posts' = posts
    BY <1>4 DEF RejectNode, TypeOK, NoRow
  <2>2. QED
    BY <1>t, <2>1
<1>5. ASSUME NEW id \in Ids, RevokeNode(id) PROVE Signed'
  <2>1. /\ \A i \in Ids \ {id} : nodes'[i] = nodes[i]
        /\ nodes'[id].status = "revoked"
        /\ UNCHANGED <<tokens, posts>>
    BY <1>5, <1>t DEF RevokeNode, TypeOK, Row
  <2>2. QED
    BY <1>t, <2>1
<1>6. ASSUME NEW id \in Ids, ExpireSignTokens(id) PROVE Signed'
  <2>1. (\A i \in Ids : tokens'[i] \in {tokens[i], None}) /\ UNCHANGED <<nodes, posts>>
    BY <1>6 DEF ExpireSignTokens, TypeOK
  <2>2. QED
    BY <1>t, <2>1
<1>7. ASSUME NEW id \in Ids, NEW now \in {clock, clock + 1}, CreateSignToken(id, now) PROVE Signed'
  <2>1. /\ \A i \in Ids \ {id} : tokens'[i] = tokens[i]
        /\ tokens'[id].n = minted + 1
        /\ UNCHANGED <<nodes, posts>>
    BY <1>7 DEF CreateSignToken, TypeOK
  <2>2. \A p \in posts : p.id = id => tokens'[p.id] # p.token
    BY <1>t, <1>k, <2>1
  <2>3. QED
    BY <1>t, <2>1, <2>2
<1>8. ASSUME NEW id \in Ids, NEW by \in AdminKeys, PostSignature(id, by) PROVE Signed'
  BY <1>8, <1>t DEF PostSignature
<1>9. ASSUME NEW p \in posts, ApproveSigned(p) PROVE Signed'
  <2> DEFINE b == [prefixes |-> p.prefixes, ip |-> p.ip, by |-> p.by]
  <2>1. /\ \A i \in Ids \ {p.id} : nodes'[i] = nodes[i] /\ tokens'[i] = tokens[i]
        /\ tokens'[p.id] = None /\ posts' \subseteq posts
        /\ nodes'[p.id] = [nodes[p.id] EXCEPT !.status = "approved", !.binding = b]
    BY <1>9, <1>t DEF ApproveSigned, TypeOK
  <2>2. /\ nodes'[p.id].status = "approved" /\ nodes'[p.id].binding = b
        /\ nodes'[p.id].prefixes = nodes[p.id].prefixes /\ nodes'[p.id].ip = nodes[p.id].ip
    BY <1>t, <2>1 DEF Row
  <2>3. p.prefixes = Listed(nodes[p.id].prefixes) /\ p.ip = nodes[p.id].ip
    BY <1>9 DEF ApproveSigned
  <2>4. b.prefixes = p.prefixes /\ b.ip = p.ip
    OBVIOUS
  <2> HIDE DEF b
  <2>5. RecordMatches'
    <3>1. nodes'[p.id].binding.prefixes = Listed(nodes'[p.id].prefixes)
      BY <2>2, <2>3, <2>4
    <3>2. nodes'[p.id].binding.ip = nodes'[p.id].ip
      BY <2>2, <2>3, <2>4
    <3>3. QED
      BY <1>t, <2>1, <3>1, <3>2
  <2>6. PostsCurrent'
    BY <1>t, <2>1, <2>2
  <2>7. QED
    BY <2>5, <2>6
<1>10. ASSUME NEW p \in posts, StoreRevocation(p) PROVE Signed'
  <2>1. /\ \A i \in Ids : tokens'[i] \in {tokens[i], None}
        /\ posts' \subseteq posts /\ nodes' = nodes
    BY <1>10, <1>t DEF StoreRevocation, TypeOK
  <2>2. QED
    BY <1>t, <2>1
<1>11. ASSUME NEW next \in SUBSET AdminKeys, ApplySignerSet(next) PROVE Signed'
  <2>1. /\ \A i \in Ids : \/ nodes'[i] = nodes[i]
                          \/ nodes[i].status = "approved" /\ nodes'[i].status = "confirmed"
        /\ UNCHANGED <<tokens, posts>>
    BY <1>11, <1>t DEF ApplySignerSet, Demoted, Row
  <2>2. QED
    BY <1>t, <1>k, <2>1
<1>12. ASSUME NEW pool \in Pools, RenumberNetwork(pool) PROVE Signed'
  <2>1. \A i \in Ids : nodes[i].ip # None => InPool(nodes[i].ip, pool)
    BY <1>t, OnePool DEF OnePool, InPool, Row, Overlays
  <2>2. \A i \in Ids : nodes'[i] = nodes[i]
    BY <1>12, <2>1 DEF RenumberNetwork
  <2>3. UNCHANGED <<tokens, posts>>
    BY <1>12 DEF RenumberNetwork
  <2>4. QED
    BY <1>t, <2>2, <2>3
<1>13. CASE UNCHANGED vars
  BY <1>13 DEF vars
<1>14. QED
  BY <1>1, <1>2, <1>3, <1>4, <1>5, <1>6, <1>7, <1>8, <1>9, <1>10, <1>11, <1>12, <1>13 DEF Next

\* With one pool and an exact comparison of prefix lists, every approved row
\* is the row its administrator signed, whatever confirms, updates, tokens,
\* signatures and key list changes race each other.
THEOREM RecordsMatch ==
  ASSUME OnePool, ExactComparison
  PROVE  Spec => []RecordMatches
<1>1. Init => TypeOK /\ Ledger /\ Signed
  BY InitType, InitLedger, InitSigned
<1>2. TypeOK /\ Ledger /\ Signed /\ [Next]_vars => (TypeOK /\ Ledger /\ Signed)'
  BY NextType, NextLedger, NextSigned
<1>3. TypeOK /\ Ledger /\ Signed => RecordMatches
  BY DEF Signed
<1>4. QED
  BY <1>1, <1>2, <1>3, PTL DEF Spec

-----------------------------------------------------------------------------
(***************************************************************************)
(* What no step does.  A row of a key is made only by CreatePending, which *)
(* looks for other rows of it; every other step leaves the key of a row    *)
(* alone, and a revoked row revoked.  A step that leaves the version alone *)
(* leaves approved rows, revocations, keys and the pool alone.             *)
(***************************************************************************)
RowKept(i) ==
  /\ nodes'[i].status \in Present => nodes[i].status \in Present /\ nodes'[i].key = nodes[i].key
  /\ nodes[i].status = "revoked" => nodes'[i].status = "revoked"

ApprovedKept(i) ==
  /\ nodes'[i].status = "approved" <=> nodes[i].status = "approved"
  /\ nodes[i].status = "approved" => nodes'[i] = nodes[i]

Unheard == (\A i \in Ids : ApprovedKept(i)) /\ UNCHANGED <<revocations, keys, network>>

OneRowPerKey ==
  \A i, j \in Ids : nodes[i].status \in Present /\ nodes[j].status \in Present /\ i # j
                      => nodes[i].key # nodes[j].key

\* Demoted leaves the key of a row alone.
LEMMA RowChanges ==
  ASSUME NEW row \in Row
  PROVE  Demoted(row).key = row.key /\ Demoted(row).status = "confirmed"
  BY DEF Demoted, Row

LEMMA RowStep ==
  TypeOK /\ [Next]_vars =>
    /\ \/ \E id \in Ids, key \in DeviceKeys : CreatePending(id, key)
       \/ \A i \in Ids : RowKept(i)
    /\ version' > version \/ Unheard
<1> SUFFICES ASSUME TypeOK, [Next]_vars
             PROVE  /\ \/ \E id \in Ids, key \in DeviceKeys : CreatePending(id, key)
                       \/ \A i \in Ids : RowKept(i)
                    /\ version' > version \/ Unheard
  OBVIOUS
<1>t. \A i \in Ids : nodes[i] \in Row
  BY DEF TypeOK
<1>b. ASSUME Bump PROVE version' > version
  BY <1>b, RegistryAssumption DEF Bump, TypeOK
<1> USE DEF RowKept, ApprovedKept, Unheard, Present
<1>1. ASSUME NEW id \in Ids, NEW key \in DeviceKeys, CreatePending(id, key) PROVE Unheard
  <2>1. /\ \A i \in Ids \ {id} : nodes'[i] = nodes[i]
        /\ nodes[id].status = "none" /\ nodes'[id].status = "pending"
    BY <1>1 DEF CreatePending, TypeOK, NoRow
  <2>2. QED
    BY <1>1, <2>1 DEF CreatePending
<1>2. ASSUME NEW id \in Ids, NEW grant \in PrefixLists, NEW ip \in Overlays \cup {None},
             NEW addr \in Addrs, NEW pool \in pools, ConfirmNode(id, grant, ip, addr, pool)
      PROVE  (\A i \in Ids : RowKept(i)) /\ Unheard
  <2>1. \A i \in Ids \ {id} : nodes'[i] = nodes[i]
    BY <1>2 DEF ConfirmNode, TypeOK
  <2>2. nodes[id].status \in {"pending", "confirmed"} /\ UNCHANGED <<revocations, keys, network>>
    BY <1>2 DEF ConfirmNode
  <2>3. nodes'[id].status = "confirmed" /\ nodes'[id].key = nodes[id].key
    BY <1>2, <1>t DEF ConfirmNode, TypeOK, Row
  <2>4. QED
    BY <2>1, <2>2, <2>3
<1>3. ASSUME NEW id \in Ids, NEW grant \in PrefixLists, NEW ip \in Overlays \cup {None},
             NEW addr \in Addrs, NEW pool \in pools, UpdateNode(id, grant, ip, addr, pool)
      PROVE  (\A i \in Ids : RowKept(i)) /\ (version' > version \/ Unheard)
  <2> DEFINE to == IF ip = None THEN nodes[id].ip ELSE ip
             row == [nodes[id] EXCEPT !.prefixes = grant, !.ip = to, !.addr = addr]
  <2>1. /\ \A i \in Ids \ {id} : nodes'[i] = nodes[i]
        /\ nodes[id].status \in {"pending", "confirmed", "approved"}
        /\ UNCHANGED <<revocations, keys, network>>
    BY <1>3 DEF UpdateNode, TypeOK
  <2>2. /\ nodes'[id] \in {row, Demoted(row)}
        /\ nodes[id].status # "approved" => nodes'[id] = row
        /\ nodes[id].status = "approved" => Bump
    BY <1>3 DEF UpdateNode, TypeOK
  <2>3. /\ row.key = nodes[id].key /\ row.status = nodes[id].status
        /\ Demoted(row).key = nodes[id].key /\ Demoted(row).status = "confirmed"
    BY <1>t DEF Demoted, Row
  <2> HIDE DEF row, to
  <2>4. nodes'[id].key = nodes[id].key /\ nodes'[id].status \in {nodes[id].status, "confirmed"}
    BY <2>2, <2>3
  <2>5. nodes[id].status # "approved" => nodes'[id].status = nodes[id].status
    BY <2>2, <2>3
  <2>6. \A i \in Ids : RowKept(i)
    BY <2>1, <2>4
  <2>7. version' > version \/ Unheard
    BY <1>b, <2>1, <2>2, <2>5
  <2>8. QED
    BY <2>6, <2>7
<1>4. ASSUME NEW id \in Ids, RejectNode(id) PROVE (\A i \in Ids : RowKept(i)) /\ Unheard
  <2>1. /\ \A i \in Ids \ {id} : nodes'[i] = nodes[i]
        /\ nodes'[id].status = "deleted" /\ nodes[id].status \in {"pending", "confirmed"}
    BY <1>4 DEF RejectNode, TypeOK, NoRow
  <2>2. QED
    BY <1>4, <2>1 DEF RejectNode
<1>5. ASSUME NEW id \in Ids, RevokeNode(id) PROVE (\A i \in Ids : RowKept(i)) /\ version' > version
  <2>1. /\ \A i \in Ids \ {id} : nodes'[i] = nodes[i]
        /\ nodes'[id].status = "revoked" /\ nodes'[id].key = nodes[id].key
        /\ nodes[id].status \in {"approved", "confirmed"}
    BY <1>5, <1>t DEF RevokeNode, TypeOK, Row
  <2>2. QED
    BY <1>5, <1>b, <2>1 DEF RevokeNode
<1>6. ASSUME NEW id \in Ids, ExpireSignTokens(id) PROVE (\A i \in Ids : RowKept(i)) /\ Unheard
  BY <1>6 DEF ExpireSignTokens
<1>7. ASSUME NEW id \in Ids, NEW now \in {clock, clock + 1}, CreateSignToken(id, now)
      PROVE  (\A i \in Ids : RowKept(i)) /\ Unheard
  BY <1>7 DEF CreateSignToken
<1>8. ASSUME NEW id \in Ids, NEW by \in AdminKeys, PostSignature(id, by)
      PROVE  (\A i \in Ids : RowKept(i)) /\ Unheard
  BY <1>8 DEF PostSignature
<1>9. ASSUME NEW p \in posts, ApproveSigned(p) PROVE (\A i \in Ids : RowKept(i)) /\ version' > version
  <2>1. p.id \in Ids
    BY DEF TypeOK, Post
  <2>2. /\ \A i \in Ids \ {p.id} : nodes'[i] = nodes[i]
        /\ nodes'[p.id].key = nodes[p.id].key
        /\ nodes[p.id].status = "confirmed"
    BY <1>9, <1>t, <2>1 DEF ApproveSigned, TypeOK, Row
  <2>3. QED
    BY <1>9, <1>b, <2>1, <2>2 DEF ApproveSigned
<1>10. ASSUME NEW p \in posts, StoreRevocation(p) PROVE (\A i \in Ids : RowKept(i)) /\ version' > version
  BY <1>10, <1>b DEF StoreRevocation
<1>11. ASSUME NEW next \in SUBSET AdminKeys, ApplySignerSet(next)
       PROVE  (\A i \in Ids : RowKept(i)) /\ version' > version
  <2>1. \A i \in Ids : \/ nodes'[i] = nodes[i]
                       \/ nodes[i].status = "approved" /\ nodes'[i] = Demoted(nodes[i])
    BY <1>11 DEF ApplySignerSet, TypeOK
  <2>2. QED
    BY <1>11, <1>b, <1>t, <2>1, RowChanges DEF ApplySignerSet
<1>12. ASSUME NEW pool \in Pools, RenumberNetwork(pool)
       PROVE  (\A i \in Ids : RowKept(i)) /\ version' > version
  <2>1. version' > version
    BY <1>12, <1>b DEF RenumberNetwork
  <2>2. \A i \in Ids : \/ nodes'[i] = nodes[i]
                       \/ /\ nodes[i].status \in {"confirmed", "approved"}
                          /\ \E ip : \/ nodes'[i] = [nodes[i] EXCEPT !.ip = ip]
                                     \/ nodes'[i] = Demoted([nodes[i] EXCEPT !.ip = ip])
    BY <1>12 DEF RenumberNetwork, TypeOK
  <2>3. ASSUME NEW i \in Ids, NEW ip, nodes'[i] \in {[nodes[i] EXCEPT !.ip = ip], Demoted([nodes[i] EXCEPT !.ip = ip])}
        PROVE  nodes'[i].key = nodes[i].key
    BY <1>t, <2>3 DEF Demoted, Row
  <2>4. ASSUME NEW i \in Ids PROVE RowKept(i)
    <3>1. CASE nodes'[i] = nodes[i]
      BY <3>1 DEF RowKept
    <3>2. CASE nodes'[i] # nodes[i]
      <4>1. PICK ip : nodes'[i] \in {[nodes[i] EXCEPT !.ip = ip], Demoted([nodes[i] EXCEPT !.ip = ip])}
        BY <2>2, <3>2
      <4>2. nodes[i].status \in {"confirmed", "approved"} /\ nodes'[i].key = nodes[i].key
        BY <2>2, <2>3, <3>2, <4>1
      <4>3. QED
        BY <3>2, <4>2 DEF RowKept
    <3>3. QED
      BY <3>1, <3>2
  <2>5. QED
    BY <2>1, <2>4
<1>13. CASE UNCHANGED vars
  BY <1>13 DEF vars
<1>14. QED
  BY <1>1, <1>2, <1>3, <1>4, <1>5, <1>6, <1>7, <1>8, <1>9, <1>10, <1>11, <1>12, <1>13 DEF Next

LEMMA NextOneRow == TypeOK /\ OneRowPerKey /\ [Next]_vars => OneRowPerKey'
<1> SUFFICES ASSUME TypeOK, OneRowPerKey, [Next]_vars PROVE OneRowPerKey'
  OBVIOUS
<1>1. ASSUME NEW id \in Ids, NEW key \in DeviceKeys, CreatePending(id, key) PROVE OneRowPerKey'
  <2>1. /\ \A i \in Ids \ {id} : nodes'[i] = nodes[i] /\ (nodes[i].status \in Present => nodes[i].key # key)
        /\ nodes'[id].key = key
    BY <1>1 DEF CreatePending, TypeOK, NoRow
  <2>2. QED
    BY <2>1 DEF OneRowPerKey
<1>2. ASSUME \A i \in Ids : RowKept(i) PROVE OneRowPerKey'
  BY <1>2 DEF OneRowPerKey, RowKept
<1>3. QED
  BY <1>1, <1>2, RowStep

\* No step brings a revoked key back, in its own row or in another one
\* (CreatePending, RevokeNode), and none changes what snapshots carry without
\* raising the version (DB.tx).
THEOREM StepsKept == Spec => RegistrySteps
<1>1. Init => TypeOK /\ OneRowPerKey
  BY InitType DEF Init, OneRowPerKey, NoRow, Present
<1>2. TypeOK /\ OneRowPerKey /\ [Next]_vars => (TypeOK /\ OneRowPerKey)'
  BY NextType, NextOneRow
<1>3. ASSUME TypeOK, OneRowPerKey, [Next]_vars
      PROVE  [\A i \in Ids : nodes[i].status = "revoked" =>
                /\ nodes'[i].status = "revoked"
                /\ nodes'[i].key = nodes[i].key
                /\ \A j \in Ids \ {i} : nodes'[j].status \in Present => nodes'[j].key # nodes[i].key]_vars
  <2> SUFFICES ASSUME NEW i \in Ids, nodes[i].status = "revoked"
               PROVE  /\ nodes'[i].status = "revoked"
                      /\ nodes'[i].key = nodes[i].key
                      /\ \A j \in Ids \ {i} : nodes'[j].status \in Present => nodes'[j].key # nodes[i].key
    OBVIOUS
  <2>1. OneRowPerKey' /\ "revoked" \in Present
    BY <1>3, NextOneRow DEF Present
  <2>2. nodes'[i].status = "revoked" /\ nodes'[i].key = nodes[i].key
    <3>1. ASSUME NEW id \in Ids, NEW key \in DeviceKeys, CreatePending(id, key) PROVE nodes'[i] = nodes[i]
      BY <1>3, <3>1 DEF CreatePending, TypeOK
    <3>2. ASSUME RowKept(i) PROVE nodes'[i].status = "revoked" /\ nodes'[i].key = nodes[i].key
      BY <2>1, <3>2 DEF RowKept
    <3>3. QED
      BY <1>3, <3>1, <3>2, RowStep
  <2>3. QED
    BY <2>1, <2>2 DEF OneRowPerKey
<1>4. ASSUME TypeOK, [Next]_vars PROVE [Carried' # Carried => version' > version]_vars
  <2>1. ASSUME Unheard PROVE Carried' = Carried
    <3>1. {j \in Ids : nodes'[j].status = "approved"} = {j \in Ids : nodes[j].status = "approved"}
      BY <2>1 DEF Unheard, ApprovedKept
    <3>2. \A j \in Ids : nodes[j].status = "approved" => nodes'[j] = nodes[j]
      BY <2>1 DEF Unheard, ApprovedKept
    <3>3. [i \in {j \in Ids : nodes'[j].status = "approved"} |-> nodes'[i]]
            = [i \in {j \in Ids : nodes[j].status = "approved"} |-> nodes[i]]
      BY <3>1, <3>2
    <3>4. QED
      BY <2>1, <3>3 DEF Carried, Unheard
  <2>2. QED
    BY <1>4, <2>1, RowStep
<1>5. Spec => RevokedForever
  BY <1>1, <1>2, <1>3, PTL DEF Spec, RevokedForever
<1>6. Spec => CarriedChangeBumps
  BY <1>1, <1>2, <1>4, PTL DEF Spec, CarriedChangeBumps
<1>7. QED
  BY <1>5, <1>6 DEF RegistrySteps


-----------------------------------------------------------------------------
(***************************************************************************)
(* AccessLists.  What an edit read and a fetch brought is used later: what *)
(* is known of it when it was read has to be carried along.                *)
(***************************************************************************)
EditRows == [at : {"create", "update"}, row : Rows]
EditPolicies == [at : {"policy"}, name : Names]
Gets == [at : {"get"}, url : Urls, etag : Texts, kind : Kinds, secret : Urls \cup {NoList}]
Brought == [at : {"compare", "mark", "store"}, url : Urls, entries : [text : Texts, kind : Kinds]]

\* The secret of a row is with its address.
SecretFine(r) == r.secret \in {r.url, NoList}

ListFine ==
  list # NoList =>
    /\ list \in Rows
    /\ SecretFine(list)
    /\ list.url = NoList => list.etag = Typed
    /\ list.by = "source" => list.entries.text[1] = list.url

EditFine(e) ==
  edit[e] # NoList =>
    /\ edit[e] \in EditRows \cup EditPolicies
    /\ edit[e].at \in {"create", "update"} => SecretFine(edit[e].row) /\ edit[e].row.by = "admin"
    /\ edit[e].at = "create" => edit[e].row.etag = Typed

FetchFine(f) ==
  fetch[f] # NoList =>
    /\ fetch[f] \in Gets \cup Brought
    /\ fetch[f].at = "get" => SecretFine(fetch[f])
    /\ fetch[f].at # "get" => fetch[f].entries.text[1] = fetch[f].url

ListIInv ==
  /\ ListFine
  /\ policy \in Names \cup {NoList} /\ listVersion \in 0 .. MaxListVersion
  /\ file \in [Urls -> Nat] /\ DOMAIN edit = Editors /\ DOMAIN fetch = Fetchers
  /\ \A e \in Editors : EditFine(e)
  /\ \A f \in Fetchers : FetchFine(f)

\* A record of an edit or of a fetch is what its place says.
LEMMA ByPlace ==
  /\ \A x \in EditRows \cup EditPolicies :
       (x.at \in {"create", "update"} => x \in EditRows) /\ (x.at = "policy" => x \in EditPolicies)
  /\ \A x \in Gets \cup Brought :
       (x.at = "get" => x \in Gets) /\ (x.at \in {"compare", "mark", "store"} => x \in Brought)
  /\ NoList \notin EditRows \cup EditPolicies \cup Gets \cup Brought \cup Rows
  BY NoListAssumption DEF EditRows, EditPolicies, Gets, Brought

\* One edit's step.
LEMMA OneEdit ==
  ASSUME ListIInv, NEW e \in Editors, NEW x, edit' = [edit EXCEPT ![e] = x], EditFine(e)'
  PROVE  DOMAIN edit' = Editors /\ \A d \in Editors : EditFine(d)'
<1>1. DOMAIN edit' = Editors /\ \A d \in Editors : d # e => edit'[d] = edit[d]
  BY DEF ListIInv
<1>2. QED
  BY <1>1 DEF ListIInv, EditFine

\* One fetch's step.
LEMMA OneFetch ==
  ASSUME ListIInv, NEW f \in Fetchers, NEW x, fetch' = [fetch EXCEPT ![f] = x], FetchFine(f)'
  PROVE  DOMAIN fetch' = Fetchers /\ \A d \in Fetchers : FetchFine(d)'
<1>1. DOMAIN fetch' = Fetchers /\ \A d \in Fetchers : d # f => fetch'[d] = fetch[d]
  BY DEF ListIInv
<1>2. QED
  BY <1>1 DEF ListIInv, FetchFine

\* The version goes up by one, within its bound.
LEMMA BumpsBy == ASSUME ListIInv, Bumps PROVE listVersion' \in 0 .. MaxListVersion /\ listVersion' > listVersion
  BY ListAssumption DEF ListIInv, Bumps

\* What a request asks for makes a row.
LEMMA RowOfBody ==
  ASSUME ListIInv, NEW b \in Bodies
  PROVE  ListRow(b) \in Rows /\ SecretFine(ListRow(b)) /\ ListRow(b).by = "admin" /\ ListRow(b).etag = Typed
<1>1. Typed \in Texts
  BY DEF Typed, Texts
<1>2. Entries(b) \in [text : Texts, kind : Kinds]
  BY <1>1 DEF Entries, Bodies, ListIInv, ListFine, Rows
<1>3. Secret(b) \in {b.url, NoList} /\ b.url \in Urls \cup {NoList} /\ b.name \in Names /\ b.kind \in Kinds
  BY DEF Secret, Bodies, ListIInv, ListFine, SecretFine
<1>4. QED
  BY <1>1, <1>2, <1>3 DEF ListRow, Rows, SecretFine

\* The steps of edits.
LEMMA EditSteps ==
  ASSUME ListIInv, NEW e \in Editors,
         \/ \E b \in Bodies : ReadList(e, b)
         \/ ImportList(e) \/ CreateList(e) \/ UpdateList(e) \/ ReadPolicy(e) \/ StorePolicy(e)
  PROVE  ListIInv'
<1>0. Typed \in Texts
  BY DEF Typed, Texts
<1>e. EditFine(e) /\ ListFine
  BY DEF ListIInv
<1>1. ASSUME NEW x, edit' = [edit EXCEPT ![e] = x], EditFine(e)', UNCHANGED <<file, fetch>>, ListFine',
             policy' \in Names \cup {NoList}, listVersion' \in 0 .. MaxListVersion
      PROVE  ListIInv'
  BY <1>1, OneEdit DEF ListIInv, FetchFine
<1>2. ASSUME edit' = [edit EXCEPT ![e] = NoList] PROVE EditFine(e)'
  BY <1>2 DEF EditFine, ListIInv
<1>3. ASSUME NEW b \in Bodies, ReadList(e, b) PROVE ListIInv'
  <2> DEFINE x == [at |-> IF list = NoList THEN "create" ELSE "update", row |-> ListRow(b)]
  <2>1. edit' = [edit EXCEPT ![e] = x] /\ UNCHANGED <<list, policy, file, listVersion, fetch>>
    BY <1>3 DEF ReadList
  <2>2. x \in EditRows /\ x.row = ListRow(b)
    BY RowOfBody DEF EditRows
  <2>3. EditFine(e)'
    BY <2>1, <2>2, RowOfBody DEF EditFine, ListIInv
  <2>4. ListFine'
    BY <1>e, <2>1 DEF ListFine
  <2>5. QED
    BY <1>1, <2>1, <2>3, <2>4 DEF ListIInv
<1>4. CASE ImportList(e)
  <2> DEFINE r == [list EXCEPT !.entries = [text |-> Typed, kind |-> list.kind], !.by = "admin"]
             x == [at |-> "update", row |-> r]
  <2>1. list # NoList /\ edit' = [edit EXCEPT ![e] = x] /\ UNCHANGED <<list, policy, file, listVersion, fetch>>
    BY <1>4 DEF ImportList
  <2>2. r \in Rows /\ r.secret = list.secret /\ r.url = list.url /\ r.by = "admin"
    BY <1>0, <1>e, <2>1 DEF ListFine, Rows
  <2>3. x \in EditRows /\ x.row = r /\ x.at = "update"
    BY <2>2 DEF EditRows
  <2>4. EditFine(e)'
    <3>1. edit'[e] = x
      BY <2>1 DEF ListIInv
    <3>2. QED
      BY <1>e, <2>1, <2>2, <2>3, <3>1 DEF EditFine, ListFine, SecretFine
  <2>5. ListFine'
    BY <1>e, <2>1 DEF ListFine
  <2>6. QED
    BY <1>1, <2>1, <2>4, <2>5 DEF ListIInv
<1>5. CASE CreateList(e)
  <2>1. /\ edit[e] # NoList /\ edit[e].at = "create" /\ edit' = [edit EXCEPT ![e] = NoList]
        /\ UNCHANGED <<policy, file, fetch>>
        /\ IF list = NoList THEN Bumps /\ list' = edit[e].row ELSE UNCHANGED <<list, listVersion>>
    BY <1>5 DEF CreateList, EditDone
  <2>2. edit[e].row \in Rows /\ SecretFine(edit[e].row) /\ edit[e].row.by = "admin" /\ edit[e].row.etag = Typed
    BY <1>e, <2>1, ByPlace DEF EditFine, EditRows
  <2>3. ListFine' /\ listVersion' \in 0 .. MaxListVersion
    BY <1>e, <2>1, <2>2, BumpsBy DEF ListFine, ListIInv
  <2>4. QED
    BY <1>1, <1>2, <2>1, <2>3 DEF ListIInv
<1>6. CASE UpdateList(e)
  <2> DEFINE row == edit[e].row
             r == [row EXCEPT !.etag = IF Reset(row) THEN Typed ELSE list.etag]
  <2>1. /\ edit[e] # NoList /\ edit[e].at = "update" /\ edit' = [edit EXCEPT ![e] = NoList]
        /\ UNCHANGED <<policy, file, fetch>>
        /\ (list # NoList /\ Bumps /\ list' = r) \/ UNCHANGED <<list, listVersion>>
    BY <1>6 DEF UpdateList, EditDone
  <2>2. row \in Rows /\ SecretFine(row) /\ row.by = "admin"
    BY <1>e, <2>1, ByPlace DEF EditFine, EditRows
  <2>3. CASE list # NoList /\ Bumps /\ list' = r
    <3>1. r \in Rows /\ r.secret = row.secret /\ r.url = row.url /\ r.by = "admin"
      BY <1>0, <1>e, <2>2, <2>3 DEF ListFine, Rows
    <3>2. r.url = NoList => r.etag = Typed
      BY <1>0, <1>e, <2>2, <2>3 DEF ListFine, Rows, Reset
    <3>3. ListFine'
      BY <2>2, <2>3, <3>1, <3>2 DEF ListFine, SecretFine
    <3>4. QED
      BY <1>1, <1>2, <2>1, <2>3, <3>3, BumpsBy DEF ListIInv
  <2>4. CASE UNCHANGED <<list, listVersion>>
    <3>1. ListFine'
      BY <1>e, <2>4 DEF ListFine
    <3>2. QED
      BY <1>1, <1>2, <2>1, <2>4, <3>1 DEF ListIInv
  <2>5. QED
    BY <2>1, <2>3, <2>4
<1>7. CASE ReadPolicy(e)
  <2> DEFINE x == [at |-> "policy", name |-> list.name]
  <2>1. list # NoList /\ edit' = [edit EXCEPT ![e] = x] /\ UNCHANGED <<list, policy, file, listVersion, fetch>>
    BY <1>7 DEF ReadPolicy
  <2>2. x \in EditPolicies /\ x.at = "policy"
    BY <1>e, <2>1 DEF EditPolicies, ListFine, Rows
  <2>3. EditFine(e)'
    <3>1. edit'[e] = x
      BY <2>1 DEF ListIInv
    <3>2. QED
      BY <2>2, <3>1 DEF EditFine
  <2>4. ListFine'
    BY <1>e, <2>1 DEF ListFine
  <2>5. QED
    BY <1>1, <2>1, <2>3, <2>4 DEF ListIInv
<1>8. CASE StorePolicy(e)
  <2>1. /\ edit[e] # NoList /\ edit[e].at = "policy" /\ edit' = [edit EXCEPT ![e] = NoList]
        /\ UNCHANGED <<list, file, fetch>> /\ Bumps /\ policy' = edit[e].name
    BY <1>8 DEF StorePolicy, EditDone
  <2>2. policy' \in Names \cup {NoList}
    BY <1>e, <2>1, ByPlace DEF EditFine, EditPolicies
  <2>3. ListFine'
    BY <1>e, <2>1 DEF ListFine
  <2>4. QED
    BY <1>1, <1>2, <2>1, <2>2, <2>3, BumpsBy
<1>9. QED
  BY <1>3, <1>4, <1>5, <1>6, <1>7, <1>8

\* The steps of fetches.
LEMMA FetchSteps ==
  ASSUME ListIInv, NEW f \in Fetchers,
         \/ FetchBegins(f) \/ Get(f) \/ GetNothing(f) \/ CompareFetch(f) \/ MarkFetch(f) \/ StoreFetch(f)
  PROVE  ListIInv'
<1>e. FetchFine(f) /\ ListFine
  BY DEF ListIInv
<1>1. ASSUME NEW x, fetch' = [fetch EXCEPT ![f] = x], FetchFine(f)', UNCHANGED <<policy, file, edit>>, ListFine',
             listVersion' \in 0 .. MaxListVersion
      PROVE  ListIInv'
  BY <1>1, OneFetch DEF ListIInv, EditFine
<1>2. ASSUME fetch' = [fetch EXCEPT ![f] = NoList] PROVE FetchFine(f)'
  BY <1>2 DEF FetchFine, ListIInv
<1>3. CASE FetchBegins(f)
  <2> DEFINE x == [at |-> "get", url |-> list.url, etag |-> list.etag, kind |-> list.kind, secret |-> list.secret]
  <2>1. /\ list # NoList /\ list.url # NoList /\ fetch' = [fetch EXCEPT ![f] = x]
        /\ UNCHANGED <<list, policy, file, listVersion, edit>>
    BY <1>3 DEF FetchBegins
  <2>2. x \in Gets /\ SecretFine(x) /\ x.at = "get"
    BY <1>e, <2>1 DEF Gets, ListFine, Rows, SecretFine
  <2>3. fetch'[f] = x
    BY <2>1 DEF ListIInv
  <2>4. FetchFine(f)'
    BY <2>2, <2>3 DEF FetchFine
  <2>5. ListFine'
    BY <1>e, <2>1 DEF ListFine
  <2>6. QED
    BY <1>1, <2>1, <2>4, <2>5 DEF ListIInv
<1>4. CASE Get(f)
  <2> DEFINE u == fetch[f].url
             text == <<u, file[u]>>
             x == [at |-> "compare", url |-> u, entries |-> [text |-> text, kind |-> fetch[f].kind]]
  <2>1. /\ fetch[f] # NoList /\ fetch[f].at = "get" /\ fetch' = [fetch EXCEPT ![f] = x]
        /\ UNCHANGED <<list, policy, file, listVersion, edit>>
    BY <1>4 DEF Get
  <2>2. fetch[f] \in Gets
    BY <1>e, <2>1, ByPlace DEF FetchFine
  <2>3. u \in Urls /\ text \in Texts /\ fetch[f].kind \in Kinds
    BY <2>2 DEF Gets, Texts, ListIInv
  <2>4. x \in Brought /\ x.at = "compare" /\ x.entries.text[1] = x.url
    BY <2>3 DEF Brought
  <2>5. fetch'[f] = x
    BY <2>1 DEF ListIInv
  <2>6. FetchFine(f)'
    BY <2>4, <2>5 DEF FetchFine
  <2>7. ListFine'
    BY <1>e, <2>1 DEF ListFine
  <2>8. QED
    BY <1>1, <2>1, <2>6, <2>7 DEF ListIInv
<1>5. CASE GetNothing(f)
  <2>1. fetch' = [fetch EXCEPT ![f] = NoList] /\ UNCHANGED <<list, policy, file, listVersion, edit>>
    BY <1>5 DEF GetNothing, FetchDone
  <2>2. ListFine'
    BY <1>e, <2>1 DEF ListFine
  <2>3. QED
    BY <1>1, <1>2, <2>1, <2>2 DEF ListIInv
<1>6. CASE CompareFetch(f)
  <2>1. /\ fetch[f] # NoList /\ fetch[f].at = "compare" /\ UNCHANGED <<list, policy, file, listVersion, edit>>
        /\ \/ fetch' = [fetch EXCEPT ![f] = NoList]
           \/ \E a \in {"mark", "store"} : fetch' = [fetch EXCEPT ![f].at = a]
    BY <1>6 DEF CompareFetch, FetchDone
  <2>2. ListFine'
    BY <1>e, <2>1 DEF ListFine
  <2>3. CASE fetch' = [fetch EXCEPT ![f] = NoList]
    BY <1>1, <1>2, <2>1, <2>2, <2>3 DEF ListIInv
  <2>4. ASSUME NEW a \in {"mark", "store"}, fetch' = [fetch EXCEPT ![f].at = a] PROVE ListIInv'
    <3> DEFINE x == [fetch[f] EXCEPT !.at = a]
    <3>1. fetch' = [fetch EXCEPT ![f] = x]
      BY <2>4
    <3>2. fetch[f] \in Brought /\ fetch[f].entries.text[1] = fetch[f].url
      BY <1>e, <2>1, ByPlace DEF FetchFine
    <3>3. x \in Brought /\ x.at = a /\ x.entries = fetch[f].entries /\ x.url = fetch[f].url
      BY <3>2 DEF Brought
    <3>4. fetch'[f] = x
      BY <3>1 DEF ListIInv
    <3>5. FetchFine(f)'
      BY <3>2, <3>3, <3>4 DEF FetchFine
    <3>6. QED
      BY <1>1, <2>1, <2>2, <3>1, <3>5 DEF ListIInv
  <2>5. QED
    BY <2>1, <2>3, <2>4
<1>7. CASE MarkFetch(f)
  <2> DEFINE r == [list EXCEPT !.etag = fetch[f].entries.text]
  <2>1. /\ fetch[f] # NoList /\ fetch[f].at = "mark" /\ fetch' = [fetch EXCEPT ![f] = NoList]
        /\ UNCHANGED <<policy, file, listVersion, edit>>
        /\ (list # NoList /\ list.url = fetch[f].url /\ list' = r) \/ list' = list
    BY <1>7 DEF MarkFetch, FetchDone, StillOurs
  <2>2. fetch[f] \in Brought
    BY <1>e, <2>1, ByPlace DEF FetchFine
  <2>3. ListFine'
    <3>1. CASE list # NoList /\ list.url = fetch[f].url /\ list' = r
      <4>1. r \in Rows /\ r.url = list.url /\ r.secret = list.secret /\ r.by = list.by /\ r.entries = list.entries
        BY <1>e, <2>2, <3>1 DEF ListFine, Rows, Brought
      <4>2. r.url # NoList
        BY <2>2, <3>1, <4>1, ListAssumption DEF Brought
      <4>3. QED
        BY <1>e, <3>1, <4>1, <4>2 DEF ListFine, SecretFine
    <3>2. CASE list' = list
      BY <1>e, <3>2 DEF ListFine
    <3>3. QED
      BY <2>1, <3>1, <3>2
  <2>4. QED
    BY <1>1, <1>2, <2>1, <2>3 DEF ListIInv
<1>8. CASE StoreFetch(f)
  <2> DEFINE r == [list EXCEPT !.entries = fetch[f].entries, !.etag = fetch[f].entries.text, !.by = "source"]
  <2>1. /\ fetch[f] # NoList /\ fetch[f].at = "store" /\ fetch' = [fetch EXCEPT ![f] = NoList]
        /\ UNCHANGED <<policy, file, edit>>
        /\ \/ list # NoList /\ list.url = fetch[f].url /\ Bumps /\ list' = r
           \/ UNCHANGED <<list, listVersion>>
    BY <1>8 DEF StoreFetch, FetchDone, StillOurs, Fetched
  <2>2. fetch[f] \in Brought /\ fetch[f].entries.text[1] = fetch[f].url
    BY <1>e, <2>1, ByPlace DEF FetchFine
  <2>3. CASE list # NoList /\ list.url = fetch[f].url /\ Bumps /\ list' = r
    <3>1. r \in Rows /\ r.url = list.url /\ r.secret = list.secret /\ r.entries = fetch[f].entries
      BY <1>e, <2>2, <2>3 DEF ListFine, Rows, Brought
    <3>2. r.url # NoList
      BY <2>2, <2>3, <3>1, ListAssumption DEF Brought
    <3>3. ListFine'
      BY <1>e, <2>2, <2>3, <3>1, <3>2 DEF ListFine, SecretFine
    <3>4. QED
      BY <1>1, <1>2, <2>1, <2>3, <3>3, BumpsBy
  <2>4. CASE UNCHANGED <<list, listVersion>>
    <3>1. ListFine'
      BY <1>e, <2>4 DEF ListFine
    <3>2. QED
      BY <1>1, <1>2, <2>1, <2>4, <3>1 DEF ListIInv
  <2>5. QED
    BY <2>1, <2>3, <2>4
<1>9. QED
  BY <1>3, <1>4, <1>5, <1>6, <1>7, <1>8

LEMMA ListIInvInit == ListInit => ListIInv
  BY ListAssumption DEF ListInit, ListIInv, ListFine, EditFine, FetchFine

LEMMA ListIInvStep == ListIInv /\ [ListNext]_listVars => ListIInv'
<1> SUFFICES ASSUME ListIInv, [ListNext]_listVars PROVE ListIInv'
  OBVIOUS
<1>1. CASE UNCHANGED listVars
  BY <1>1 DEF listVars, ListIInv, ListFine, EditFine, FetchFine
<1>2. ASSUME NEW e \in Editors, NEW b \in Bodies, ReadList(e, b) PROVE ListIInv'
  BY <1>2, EditSteps
<1>3. ASSUME NEW e \in Editors,
             ImportList(e) \/ CreateList(e) \/ UpdateList(e) \/ ReadPolicy(e) \/ StorePolicy(e)
      PROVE  ListIInv'
  BY <1>3, EditSteps
<1>4. CASE DeleteList
  BY <1>4, BumpsBy DEF DeleteList, ListIInv, ListFine, EditFine, FetchFine
<1>5. CASE DeletePolicy
  <2>1. UNCHANGED <<list, file, edit, fetch>> /\ Bumps /\ policy' = NoList
    BY <1>5 DEF DeletePolicy
  <2>2. QED
    BY <2>1, BumpsBy DEF ListIInv, ListFine, EditFine, FetchFine
<1>6. ASSUME NEW u \in Urls, FileChanges(u) PROVE ListIInv'
  <2>1. file' = [file EXCEPT ![u] = file[u] + 1] /\ UNCHANGED <<list, policy, listVersion, edit, fetch>>
    BY <1>6 DEF FileChanges
  <2>2. file' \in [Urls -> Nat]
    BY <2>1 DEF ListIInv
  <2>3. QED
    BY <2>1, <2>2 DEF ListIInv, ListFine, EditFine, FetchFine
<1>7. ASSUME NEW f \in Fetchers,
             \/ FetchBegins(f) \/ Get(f) \/ GetNothing(f) \/ CompareFetch(f) \/ MarkFetch(f) \/ StoreFetch(f)
      PROVE  ListIInv'
  BY <1>7, FetchSteps
<1>8. QED
  BY <1>1, <1>2, <1>3, <1>4, <1>5, <1>6, <1>7 DEF ListNext

LEMMA ListIInvGives == ListIInv => ListsInv
  BY ListAssumption DEF ListIInv, ListFine, FetchFine, ListsInv, ListTypeOK, FetchedFromSource, SecretStays, Rows, SecretFine

\* The entries of a fetched list are those of the source it names now, and a
\* stored credential goes to no other address than the one it was given for,
\* for any number of edits and fetches beside each other (SaveListFetch,
\* readList, sameSource).
THEOREM ListsSound == ListSpec => []ListsInv
<1>1. QED
  BY ListIInvInit, ListIInvStep, ListIInvGives, PTL DEF ListSpec

\* What a step of the lists may do to a list a policy names, and to what nodes
\* are given.
LEMMA ListStepFine ==
  ASSUME ListIInv, [ListNext]_listVars
  PROVE  /\ Used => list' # NoList /\ list'.name = list.name /\ list'.kind = list.kind
         /\ (CarriedList(list) # CarriedList(list') \/ policy # policy') => listVersion' > listVersion
<1>u. Used \in BOOLEAN /\ (Used => list # NoList)
  BY DEF Used
<1>1. CASE UNCHANGED <<list, policy>>
  BY <1>1 DEF Used
<1>2. ASSUME NEW e \in Editors, CreateList(e)
      PROVE  (Used => list' = list) /\ (UNCHANGED <<list, policy>> \/ listVersion' > listVersion)
  BY <1>2, BumpsBy DEF CreateList, Used
<1>3. ASSUME NEW e \in Editors, UpdateList(e)
      PROVE  /\ Used => list' # NoList /\ list'.name = list.name /\ list'.kind = list.kind
             /\ UNCHANGED <<list, policy>> \/ listVersion' > listVersion
  <2> DEFINE row == edit[e].row
             r == [row EXCEPT !.etag = IF Reset(row) THEN Typed ELSE list.etag]
  <2>1. /\ edit[e] # NoList /\ edit[e].at = "update" /\ UNCHANGED policy
        /\ IF list # NoList /\ (Used => row.name = list.name /\ row.kind = list.kind)
           THEN Bumps /\ list' = r ELSE UNCHANGED <<list, listVersion>>
    BY <1>3 DEF UpdateList
  <2>2. row \in Rows
    BY <2>1, ByPlace DEF ListIInv, EditFine, EditRows
  <2>3. CASE list # NoList /\ (Used => row.name = list.name /\ row.kind = list.kind)
    <3>1. r \in Rows /\ r.name = row.name /\ r.kind = row.kind
      <4>1. Typed \in Texts
        BY DEF Typed, Texts
      <4>2. QED
        BY <2>2, <2>3, <4>1 DEF Rows, ListIInv, ListFine
    <3>2. r # NoList
      BY <3>1, NoListAssumption
    <3>3. QED
      BY <2>1, <2>3, <3>1, <3>2, BumpsBy
  <2>4. CASE ~(list # NoList /\ (Used => row.name = list.name /\ row.kind = list.kind))
    BY <1>u, <2>1, <2>4
  <2>5. QED
    BY <2>3, <2>4
<1>4. ASSUME NEW e \in Editors, StorePolicy(e) PROVE list' = list /\ listVersion' > listVersion
  BY <1>4, BumpsBy DEF StorePolicy
<1>5. CASE DeleteList
  BY <1>5, BumpsBy DEF DeleteList
<1>6. CASE DeletePolicy
  BY <1>6, <1>u, BumpsBy DEF DeletePolicy
<1>7. ASSUME NEW f \in Fetchers, MarkFetch(f)
      PROVE  /\ UNCHANGED policy /\ CarriedList(list') = CarriedList(list)
             /\ list # NoList => list' # NoList /\ list'.name = list.name /\ list'.kind = list.kind
  <2> DEFINE r == [list EXCEPT !.etag = fetch[f].entries.text]
  <2>1. /\ fetch[f] # NoList /\ fetch[f].at = "mark" /\ UNCHANGED policy
        /\ (list # NoList /\ list' = r) \/ list' = list
    BY <1>7 DEF MarkFetch, StillOurs
  <2>2. fetch[f] \in Brought
    BY <2>1, ByPlace DEF ListIInv, FetchFine
  <2>3. CASE list # NoList /\ list' = r
    <3>1. r \in Rows /\ r.name = list.name /\ r.kind = list.kind /\ r.entries = list.entries
      BY <2>2, <2>3 DEF Rows, Brought, ListIInv, ListFine
    <3>2. QED
      BY <2>1, <2>3, <3>1, NoListAssumption DEF CarriedList
  <2>4. QED
    BY <2>1, <2>3
<1>8. ASSUME NEW f \in Fetchers, StoreFetch(f)
      PROVE  /\ UNCHANGED <<list, policy>> \/ listVersion' > listVersion
             /\ list # NoList => list' # NoList /\ list'.name = list.name /\ list'.kind = list.kind
  <2> DEFINE r == [list EXCEPT !.entries = fetch[f].entries, !.etag = fetch[f].entries.text, !.by = "source"]
  <2>1. /\ fetch[f] # NoList /\ fetch[f].at = "store" /\ UNCHANGED policy
        /\ (list # NoList /\ Bumps /\ list' = r) \/ list' = list
    BY <1>8 DEF StoreFetch, StillOurs, Fetched
  <2>2. fetch[f] \in Brought
    BY <2>1, ByPlace DEF ListIInv, FetchFine
  <2>3. CASE list # NoList /\ Bumps /\ list' = r
    <3>1. r \in Rows /\ r.name = list.name /\ r.kind = list.kind
      BY <2>2, <2>3 DEF Rows, Brought, ListIInv, ListFine
    <3>2. QED
      BY <2>3, <3>1, NoListAssumption, BumpsBy
  <2>4. QED
    BY <2>1, <2>3
<1>9. ASSUME NEW e \in Editors, NEW b \in Bodies, ReadList(e, b) PROVE UNCHANGED <<list, policy>>
  BY <1>9 DEF ReadList
<1>10. ASSUME NEW e \in Editors, ImportList(e) \/ ReadPolicy(e) PROVE UNCHANGED <<list, policy>>
  BY <1>10 DEF ImportList, ReadPolicy
<1>11. ASSUME NEW u \in Urls, FileChanges(u) PROVE UNCHANGED <<list, policy>>
  BY <1>11 DEF FileChanges
<1>12. ASSUME NEW f \in Fetchers, FetchBegins(f) \/ Get(f) \/ GetNothing(f) \/ CompareFetch(f)
       PROVE  UNCHANGED <<list, policy>>
  BY <1>12 DEF FetchBegins, Get, GetNothing, CompareFetch
<1>13. CASE UNCHANGED listVars
  BY <1>13, <1>1 DEF listVars
<1>14. CASE ListNext
  BY <1>u, <1>1, <1>2, <1>3, <1>4, <1>5, <1>6, <1>7, <1>8, <1>9, <1>10, <1>11, <1>12, <1>14 DEF ListNext
<1>15. QED
  BY <1>13, <1>14

\* A list that a stored policy names keeps its name and its kind and is not
\* deleted, and what nodes are given changes only with the snapshot version
\* (UpdateList, DeleteList, SaveListFetch).
THEOREM ListsKept == ListSpec => NamedStays /\ ListChangeBumps
<1>1. QED
  BY ListIInvInit, ListIInvStep, ListStepFine, PTL DEF ListSpec, NamedStays, ListChangeBumps

-----------------------------------------------------------------------------
(***************************************************************************)
(* AdminLogin: sign-ins.  A request that has counted and not yet inserted  *)
(* stands for a pending flow it may still add.                             *)
(***************************************************************************)
Places == ({"none", "count", "create"} \X {0}) \cup ({"exchange", "session", "finish"} \X (1 .. Flows))

Creating == {t \in Tabs : tab[t][1] = "create"}

LoginTypes ==
  /\ tab \in [Tabs -> Places]
  /\ flow \in [1 .. Flows -> {"none", "pending", "expired", "failed", "done"}]
  /\ redeemed \subseteq 1 .. Flows
  /\ logins \in [1 .. Flows -> Nat]

\* The requests that have counted and the flows that are pending together.
RoomTaken == Cardinality(Pending) + Cardinality(Creating) <= MaxPending + Cardinality(Tabs) - 1

\* A code that has not been redeemed has given no session, and one that has is
\* with one request at most until there is a session.
CodeIsOnce(f) ==
  /\ logins[f] \in {0, 1}
  /\ f \notin redeemed => logins[f] = 0
  /\ \A t \in Tabs : tab[t] = <<"session", f>> =>
       f \in redeemed /\ logins[f] = 0 /\ \A u \in Tabs : tab[u] = <<"session", f>> => u = t

LoginIInvA == LoginTypes /\ RoomTaken /\ \A f \in 1 .. Flows : CodeIsOnce(f)

\* What a place of a request says.
LEMMA PlaceOf ==
  ASSUME LoginTypes, NEW t \in Tabs
  PROVE  /\ tab[t][1] \in {"none", "count", "create"} => tab[t] = <<tab[t][1], 0>>
         /\ tab[t][1] \in {"exchange", "session", "finish"} =>
              tab[t] = <<tab[t][1], tab[t][2]>> /\ tab[t][2] \in 1 .. Flows
         /\ tab[t][1] \in {"none", "count", "create", "exchange", "session", "finish"}
         /\ tab[t][2] \in {0} \cup 1 .. Flows /\ tab[t] = <<tab[t][1], tab[t][2]>>
  BY DEF LoginTypes, Places

LEMMA FiniteParts ==
  ASSUME LoginTypes
  PROVE  IsFiniteSet(Pending) /\ IsFiniteSet(Creating) /\ Cardinality(Creating) <= Cardinality(Tabs)
         /\ Cardinality(Pending) \in Nat /\ Cardinality(Creating) \in Nat /\ Cardinality(Tabs) \in Nat
<1>1. IsFiniteSet(1 .. Flows) /\ IsFiniteSet(Tabs)
  BY LoginAssumption, FS_Interval
<1>2. Pending \subseteq 1 .. Flows /\ Creating \subseteq Tabs
  BY DEF Pending, Creating, LoginTypes
<1>3. QED
  BY <1>1, <1>2, FS_Subset, FS_CardinalityType

\* A request that goes on from a place that is not "create" to another that
\* is not takes no room.
LEMMA SameRoom ==
  ASSUME LoginTypes, RoomTaken, NEW t \in Tabs, NEW x \in Places, tab[t][1] # "create", x[1] # "create",
         tab' = [tab EXCEPT ![t] = x], Pending' \subseteq Pending
  PROVE  RoomTaken'
<1>1. \A u \in Tabs : tab'[u] = IF u = t THEN x ELSE tab[u]
  BY DEF LoginTypes
<1>2. Creating' = Creating
  BY <1>1 DEF Creating
<1>3. Cardinality(Pending') <= Cardinality(Pending) /\ Cardinality(Pending') \in Nat
  BY FiniteParts, FS_Subset, FS_CardinalityType
<1>4. QED
  BY <1>2, <1>3, FiniteParts, LoginAssumption DEF RoomTaken

\* A flow that ends is pending no more, and none becomes pending.
LEMMA FinishedFine ==
  ASSUME LoginTypes, NEW f \in 1 .. Flows, NEW s \in {"failed", "done"}, flow' = Finished(f, s)
  PROVE  /\ flow' \in [1 .. Flows -> {"none", "pending", "expired", "failed", "done"}]
         /\ Pending' \subseteq Pending
         /\ \A g \in 1 .. Flows : flow[g] \notin {"none", "pending"} => flow'[g] = flow[g]
<1>1. CASE flow[f] = "pending"
  <2>1. \A g \in 1 .. Flows : flow'[g] = IF g = f THEN s ELSE flow[g]
    BY <1>1 DEF Finished, LoginTypes
  <2>2. flow' \in [1 .. Flows -> {"none", "pending", "expired", "failed", "done"}]
    BY <1>1 DEF Finished, LoginTypes
  <2>3. QED
    BY <1>1, <2>1, <2>2 DEF Pending, LoginTypes
<1>2. CASE flow[f] # "pending"
  BY <1>2 DEF Finished, LoginTypes, Pending
<1>3. QED
  BY <1>1, <1>2

\* A request that goes on to a place that is not "session" changes nothing of
\* who has a code.
LEMMA SameCodes ==
  ASSUME LoginTypes, \A f \in 1 .. Flows : CodeIsOnce(f), NEW t \in Tabs, NEW x, x[1] # "session",
         tab' = [tab EXCEPT ![t] = x], UNCHANGED logins, redeemed \subseteq redeemed'
  PROVE  \A f \in 1 .. Flows : CodeIsOnce(f)'
<1>1. \A u \in Tabs : tab'[u] = IF u = t THEN x ELSE tab[u]
  BY DEF LoginTypes
<1>2. ASSUME NEW u \in Tabs, NEW f \in 1 .. Flows, tab'[u] = <<"session", f>> PROVE u # t /\ tab[u] = <<"session", f>>
  BY <1>1, <1>2
<1>3. QED
  BY <1>2 DEF CodeIsOnce

LEMMA LoginSteps == LoginIInvA /\ [AdminLoginNext]_adminLoginVars => LoginIInvA'
<1> SUFFICES ASSUME LoginIInvA, [AdminLoginNext]_adminLoginVars PROVE LoginIInvA'
  OBVIOUS
<1>t. LoginTypes /\ RoomTaken /\ \A f \in 1 .. Flows : CodeIsOnce(f)
  BY DEF LoginIInvA
<1>p. \A a \in {"none", "count", "create"} : <<a, 0>> \in Places
  BY DEF Places
<1>q. \A a \in {"exchange", "session", "finish"}, f \in 1 .. Flows : <<a, f>> \in Places
  BY DEF Places
<1>r. ASSUME NEW t \in Tabs, NEW x \in Places, tab' = [tab EXCEPT ![t] = x] PROVE tab' \in [Tabs -> Places]
  BY <1>r, <1>t DEF LoginTypes
<1>1. CASE UNCHANGED adminLoginVars
  BY <1>1, <1>t DEF adminLoginVars, LoginIInvA, LoginTypes, RoomTaken, CodeIsOnce, Pending, Creating
<1>2. ASSUME NEW t \in Tabs, NEW f \in 1 .. Flows, CreateAdminLoginFlow(t, f) PROVE LoginIInvA'
  <2> DEFINE x == <<"none", 0>>
  <2>1. /\ tab[t][1] = "create" /\ flow[f] = "none" /\ flow' = [flow EXCEPT ![f] = "pending"]
        /\ tab' = [tab EXCEPT ![t] = x] /\ UNCHANGED <<redeemed, logins>>
    BY <1>2 DEF CreateAdminLoginFlow
  <2>2. LoginTypes'
    BY <1>p, <1>r, <1>t, <2>1 DEF LoginTypes
  <2>3. RoomTaken'
    <3>1. Pending' = Pending \cup {f} /\ f \notin Pending
      BY <1>t, <2>1 DEF Pending, LoginTypes
    <3>2. \A u \in Tabs : tab'[u] = IF u = t THEN x ELSE tab[u]
      BY <1>t, <2>1 DEF LoginTypes
    <3>3. Creating' = Creating \ {t} /\ t \in Creating
      BY <2>1, <3>2 DEF Creating
    <3>4. Cardinality(Pending') = Cardinality(Pending) + 1
      BY <1>t, <3>1, FiniteParts, FS_AddElement
    <3>5. Cardinality(Creating') = Cardinality(Creating) - 1
      BY <1>t, <3>3, FiniteParts, FS_RemoveElement
    <3>6. QED
      BY <1>t, <3>4, <3>5, FiniteParts DEF RoomTaken
  <2>4. \A g \in 1 .. Flows : CodeIsOnce(g)'
    BY <1>t, <2>1, SameCodes
  <2>5. QED
    BY <2>2, <2>3, <2>4 DEF LoginIInvA
<1>3. ASSUME NEW t \in Tabs, NEW f \in 1 .. Flows, Callback(t, f) PROVE LoginIInvA'
  <2> DEFINE x == <<"exchange", f>>
  <2>1. tab[t][1] = "none" /\ tab' = [tab EXCEPT ![t] = x] /\ UNCHANGED <<flow, redeemed, logins>>
    BY <1>3 DEF Callback
  <2>2. x \in Places /\ Pending' = Pending
    BY <1>q, <2>1 DEF Pending
  <2>3. LoginTypes'
    BY <1>r, <1>t, <2>1, <2>2 DEF LoginTypes
  <2>4. RoomTaken' /\ \A g \in 1 .. Flows : CodeIsOnce(g)'
    BY <1>t, <2>1, <2>2, SameRoom, SameCodes
  <2>5. QED
    BY <2>3, <2>4 DEF LoginIInvA
<1>4. ASSUME NEW t \in Tabs, LoginAsks(t) PROVE LoginIInvA'
  <2> DEFINE x == <<"count", 0>>
  <2>1. tab[t][1] = "none" /\ tab' = [tab EXCEPT ![t] = x] /\ UNCHANGED <<flow, redeemed, logins>>
    BY <1>4 DEF LoginAsks
  <2>2. x \in Places /\ Pending' = Pending
    BY <1>p, <2>1 DEF Pending
  <2>3. LoginTypes'
    BY <1>r, <1>t, <2>1, <2>2 DEF LoginTypes
  <2>4. RoomTaken' /\ \A g \in 1 .. Flows : CodeIsOnce(g)'
    BY <1>t, <2>1, <2>2, SameRoom, SameCodes
  <2>5. QED
    BY <2>3, <2>4 DEF LoginIInvA
<1>5. ASSUME NEW t \in Tabs, CountPending(t) PROVE LoginIInvA'
  <2> DEFINE x == IF Cardinality(Pending) >= MaxPending THEN <<"none", 0>> ELSE <<"create", 0>>
  <2>1. tab[t][1] = "count" /\ tab' = [tab EXCEPT ![t] = x] /\ UNCHANGED <<flow, redeemed, logins>>
    BY <1>5 DEF CountPending
  <2>2. x \in Places /\ x[1] # "session" /\ Pending' = Pending
    BY <1>p, <2>1 DEF Pending
  <2>3. LoginTypes'
    BY <1>r, <1>t, <2>1, <2>2 DEF LoginTypes
  <2>4. \A g \in 1 .. Flows : CodeIsOnce(g)'
    BY <1>t, <2>1, <2>2, SameCodes
  <2>5. CASE Cardinality(Pending) >= MaxPending
    <3>1. x[1] # "create"
      BY <2>5
    <3>2. RoomTaken'
      BY <1>t, <2>1, <2>2, <3>1, SameRoom
    <3>3. QED
      BY <2>3, <2>4, <3>2 DEF LoginIInvA
  <2>6. CASE ~(Cardinality(Pending) >= MaxPending)
    <3>1. Cardinality(Creating') <= Cardinality(Tabs) /\ Cardinality(Creating') \in Nat
      <4>1. Creating' \subseteq Tabs
        BY DEF Creating
      <4>2. QED
        BY <4>1, FS_Subset, FS_CardinalityType, LoginAssumption
    <3>2. Cardinality(Pending') <= MaxPending - 1
      BY <1>t, <2>2, <2>6, FiniteParts, LoginAssumption
    <3>3. RoomTaken'
      BY <1>t, <2>2, <3>1, <3>2, FiniteParts, LoginAssumption DEF RoomTaken
    <3>4. QED
      BY <2>3, <2>4, <3>3 DEF LoginIInvA
  <2>7. QED
    BY <2>5, <2>6
<1>6. ASSUME NEW t \in Tabs, LoginFails(t) PROVE LoginIInvA'
  <2> DEFINE x == <<"none", 0>>
             f == tab[t][2]
  <2>1. /\ tab[t][1] = "exchange" /\ flow' = Finished(f, "failed") /\ tab' = [tab EXCEPT ![t] = x]
        /\ redeemed' \in {redeemed, redeemed \cup {f}} /\ UNCHANGED logins
    BY <1>6 DEF LoginFails
  <2>2. f \in 1 .. Flows
    BY <1>t, <2>1, PlaceOf
  <2> HIDE DEF f
  <2>3. LoginTypes' /\ Pending' \subseteq Pending
    BY <1>p, <1>r, <1>t, <2>1, <2>2, FinishedFine DEF LoginTypes
  <2>4. redeemed \subseteq redeemed' /\ x \in Places
    BY <1>p, <2>1
  <2>5. RoomTaken' /\ \A g \in 1 .. Flows : CodeIsOnce(g)'
    BY <1>t, <2>1, <2>3, <2>4, SameRoom, SameCodes
  <2>6. QED
    BY <2>3, <2>5 DEF LoginIInvA
<1>7. ASSUME NEW t \in Tabs, Exchange(t) PROVE LoginIInvA'
  <2> DEFINE f == tab[t][2]
             x == <<"session", f>>
  <2>1. /\ tab[t][1] = "exchange" /\ f \notin redeemed /\ redeemed' = redeemed \cup {f}
        /\ tab' = [tab EXCEPT ![t] = x] /\ UNCHANGED <<flow, logins>>
    BY <1>7 DEF Exchange
  <2>2. f \in 1 .. Flows
    BY <1>t, <2>1, PlaceOf
  <2>3. x \in Places /\ Pending' = Pending /\ x[1] # "create"
    BY <1>q, <2>1, <2>2 DEF Pending
  <2>4. LoginTypes'
    BY <1>r, <1>t, <2>1, <2>2, <2>3 DEF LoginTypes
  <2>5. RoomTaken'
    BY <1>t, <2>1, <2>3, SameRoom
  <2>6. ASSUME NEW g \in 1 .. Flows PROVE CodeIsOnce(g)'
    <3>1. \A u \in Tabs : tab'[u] = IF u = t THEN x ELSE tab[u]
      BY <1>t, <2>1 DEF LoginTypes
    <3>2. CASE g = f
      <4>1. logins[f] = 0 /\ \A u \in Tabs : tab[u] # <<"session", f>>
        BY <1>t, <2>1, <2>2 DEF CodeIsOnce
      <4>2. QED
        BY <2>1, <3>1, <3>2, <4>1 DEF CodeIsOnce
    <3>3. CASE g # f
      <4>1. x # <<"session", g>>
        BY <3>3
      <4>2. \A u \in Tabs : tab'[u] = <<"session", g>> => tab[u] = <<"session", g>>
        BY <3>1, <4>1
      <4>3. QED
        BY <1>t, <2>1, <3>3, <4>2 DEF CodeIsOnce
    <3>4. QED
      BY <3>2, <3>3
  <2>7. QED
    BY <2>4, <2>5, <2>6 DEF LoginIInvA
<1>8. ASSUME NEW t \in Tabs, LoginSession(t) PROVE LoginIInvA'
  <2> DEFINE f == tab[t][2]
             x == <<"finish", f>>
             y == <<"none", 0>>
  <2>1. /\ tab[t][1] = "session" /\ UNCHANGED <<flow, redeemed>>
        /\ \/ logins' = [logins EXCEPT ![f] = logins[f] + 1] /\ tab' = [tab EXCEPT ![t] = x]
           \/ logins' = logins /\ tab' = [tab EXCEPT ![t] = y]
    BY <1>8 DEF LoginSession
  <2>2. f \in 1 .. Flows /\ tab[t] = <<"session", f>>
    BY <1>t, <2>1, PlaceOf
  <2>3. Pending' = Pending /\ x \in Places /\ y \in Places
    BY <1>p, <1>q, <2>1, <2>2 DEF Pending
  <2>4. CASE logins' = logins /\ tab' = [tab EXCEPT ![t] = y]
    <3>1. LoginTypes'
      BY <1>r, <1>t, <2>1, <2>3, <2>4 DEF LoginTypes
    <3>2. RoomTaken' /\ \A g \in 1 .. Flows : CodeIsOnce(g)'
      BY <1>t, <2>1, <2>3, <2>4, SameRoom, SameCodes
    <3>3. QED
      BY <3>1, <3>2 DEF LoginIInvA
  <2>5. CASE logins' = [logins EXCEPT ![f] = logins[f] + 1] /\ tab' = [tab EXCEPT ![t] = x]
    <3>1. logins[f] = 0 /\ f \in redeemed /\ \A u \in Tabs : tab[u] = <<"session", f>> => u = t
      BY <1>t, <2>2 DEF CodeIsOnce
    <3>2. LoginTypes'
      BY <1>r, <1>t, <2>1, <2>2, <2>3, <2>5 DEF LoginTypes
    <3>3. RoomTaken'
      BY <1>t, <2>1, <2>3, <2>5, SameRoom
    <3>4. \A u \in Tabs : tab'[u] = IF u = t THEN x ELSE tab[u]
      BY <1>t, <2>5 DEF LoginTypes
    <3>5. \A u \in Tabs, g \in 1 .. Flows : tab'[u] = <<"session", g>> => tab[u] = <<"session", g>> /\ u # t
      BY <3>4
    <3>6. ASSUME NEW g \in 1 .. Flows PROVE CodeIsOnce(g)'
      <4>1. CASE g = f
        <5>1. logins'[g] = 1 /\ g \in redeemed'
          BY <1>t, <2>1, <2>2, <2>5, <3>1, <4>1 DEF LoginTypes
        <5>2. \A u \in Tabs : tab'[u] # <<"session", g>>
          BY <3>1, <3>5, <4>1
        <5>3. QED
          BY <5>1, <5>2 DEF CodeIsOnce
      <4>2. CASE g # f
        <5>1. logins'[g] = logins[g] /\ redeemed' = redeemed
          BY <1>t, <2>1, <2>2, <2>5, <4>2 DEF LoginTypes
        <5>2. QED
          BY <1>t, <3>5, <5>1 DEF CodeIsOnce
      <4>3. QED
        BY <4>1, <4>2
    <3>7. QED
      BY <3>2, <3>3, <3>6 DEF LoginIInvA
  <2>6. QED
    BY <2>1, <2>4, <2>5
<1>9. ASSUME NEW t \in Tabs, LoginFinishes(t) PROVE LoginIInvA'
  <2> DEFINE x == <<"none", 0>>
             f == tab[t][2]
  <2>1. /\ tab[t][1] = "finish" /\ flow' = Finished(f, "done") /\ tab' = [tab EXCEPT ![t] = x]
        /\ UNCHANGED <<redeemed, logins>>
    BY <1>9 DEF LoginFinishes
  <2>2. f \in 1 .. Flows
    BY <1>t, <2>1, PlaceOf
  <2> HIDE DEF f
  <2>3. LoginTypes' /\ Pending' \subseteq Pending
    BY <1>p, <1>r, <1>t, <2>1, <2>2, FinishedFine DEF LoginTypes
  <2>4. x \in Places
    BY <1>p
  <2>5. RoomTaken' /\ \A g \in 1 .. Flows : CodeIsOnce(g)'
    BY <1>t, <2>1, <2>3, <2>4, SameRoom, SameCodes
  <2>6. QED
    BY <2>3, <2>5 DEF LoginIInvA
<1>10. ASSUME NEW f \in 1 .. Flows, FlowExpires(f) PROVE LoginIInvA'
  <2>1. flow[f] = "pending" /\ flow' = [flow EXCEPT ![f] = "expired"] /\ UNCHANGED <<tab, redeemed, logins>>
    BY <1>10 DEF FlowExpires
  <2>2. LoginTypes' /\ Pending' \subseteq Pending /\ Creating' = Creating
    BY <1>t, <2>1 DEF LoginTypes, Pending, Creating
  <2>3. Cardinality(Pending') <= Cardinality(Pending) /\ Cardinality(Pending') \in Nat
    BY <1>t, <2>2, FiniteParts, FS_Subset, FS_CardinalityType
  <2>4. RoomTaken'
    BY <1>t, <2>2, <2>3, FiniteParts, LoginAssumption DEF RoomTaken
  <2>5. QED
    BY <1>t, <2>1, <2>2, <2>4 DEF LoginIInvA, CodeIsOnce
<1>11. QED
  BY <1>1, <1>2, <1>3, <1>4, <1>5, <1>6, <1>7, <1>8, <1>9, <1>10 DEF AdminLoginNext

LEMMA LoginStarts == AdminLoginInit => LoginIInvA
<1> SUFFICES ASSUME AdminLoginInit PROVE LoginIInvA
  OBVIOUS
<1>1. LoginTypes
  BY DEF AdminLoginInit, LoginTypes, Places
<1>2. Pending = {} /\ Creating = {}
  BY DEF AdminLoginInit, Pending, Creating
<1>3. RoomTaken
  BY <1>1, <1>2, FS_EmptySet, FiniteParts, LoginAssumption DEF RoomTaken
<1>4. \A f \in 1 .. Flows : CodeIsOnce(f)
  BY DEF AdminLoginInit, CodeIsOnce
<1>5. QED
  BY <1>1, <1>3, <1>4 DEF LoginIInvA

LEMMA LoginGives == LoginIInvA => AdminLoginInv
<1> SUFFICES ASSUME LoginIInvA PROVE AdminLoginInv
  OBVIOUS
<1>1. AdminLoginTypeOK
  <2>1. ASSUME NEW t \in Tabs PROVE tab[t][1] \in {"exchange", "session", "finish"} <=> tab[t][2] \in 1 .. Flows
    <3>1. 0 \notin 1 .. Flows
      BY LoginAssumption
    <3>2. QED
      BY <3>1 DEF LoginIInvA, LoginTypes, Places
  <2>2. QED
    BY <2>1 DEF AdminLoginTypeOK, LoginIInvA, LoginTypes
<1>2. PendingBounded
  BY FiniteParts, LoginAssumption DEF LoginIInvA, RoomTaken, PendingBounded
<1>3. OneLogin
  BY DEF LoginIInvA, OneLogin, CodeIsOnce, LoginTypes
<1>4. QED
  BY <1>1, <1>2, <1>3 DEF AdminLoginInv

\* A login signs somebody in at most once although two callbacks may both find
\* it pending, and pending logins exceed their limit by no more than the
\* requests beside each other, for any number of them (adminCallback,
\* adminLoginStart).
THEOREM AdminLoginSound == AdminLoginSpec => []AdminLoginInv
<1>1. QED
  BY LoginStarts, LoginSteps, LoginGives, PTL DEF AdminLoginSpec

LEMMA EndedStays ==
  ASSUME LoginIInvA, [AdminLoginNext]_adminLoginVars, NEW f \in DOMAIN flow, flow[f] \notin {"none", "pending"}
  PROVE  flow'[f] = flow[f] /\ ~\E t \in Tabs : tab[t][2] # f /\ tab'[t] = <<"exchange", f>>
<1>t. LoginTypes /\ f \in 1 .. Flows
  BY DEF LoginIInvA, LoginTypes
<1>1. ASSUME NEW t \in Tabs, NEW x, x # <<"exchange", f>>, tab' = [tab EXCEPT ![t] = x]
      PROVE  ~\E u \in Tabs : tab[u][2] # f /\ tab'[u] = <<"exchange", f>>
  <2>1. \A u \in Tabs : tab'[u] = IF u = t THEN x ELSE tab[u]
    BY <1>1, <1>t DEF LoginTypes
  <2>2. QED
    BY <1>1, <2>1
<1>2. ASSUME UNCHANGED tab PROVE ~\E u \in Tabs : tab[u][2] # f /\ tab'[u] = <<"exchange", f>>
  BY <1>2
<1>3. CASE UNCHANGED adminLoginVars
  BY <1>2, <1>3 DEF adminLoginVars
<1>4. ASSUME NEW t \in Tabs, NEW g \in 1 .. Flows, CreateAdminLoginFlow(t, g)
      PROVE  flow'[f] = flow[f] /\ ~\E u \in Tabs : tab[u][2] # f /\ tab'[u] = <<"exchange", f>>
  <2>1. flow' = [flow EXCEPT ![g] = "pending"] /\ g # f /\ tab' = [tab EXCEPT ![t] = <<"none", 0>>]
    BY <1>4 DEF CreateAdminLoginFlow
  <2>2. flow'[f] = flow[f]
    BY <1>t, <2>1 DEF LoginTypes
  <2>3. QED
    BY <1>1, <2>1, <2>2
<1>5. ASSUME NEW t \in Tabs, NEW g \in 1 .. Flows, Callback(t, g)
      PROVE  flow'[f] = flow[f] /\ ~\E u \in Tabs : tab[u][2] # f /\ tab'[u] = <<"exchange", f>>
  <2>1. g # f /\ tab' = [tab EXCEPT ![t] = <<"exchange", g>>] /\ UNCHANGED flow
    BY <1>5 DEF Callback
  <2>2. <<"exchange", g>> # <<"exchange", f>>
    BY <2>1
  <2>3. QED
    BY <1>1, <2>1, <2>2
<1>6. ASSUME NEW t \in Tabs, LoginAsks(t) \/ CountPending(t) \/ Exchange(t) \/ LoginSession(t)
      PROVE  flow'[f] = flow[f] /\ ~\E u \in Tabs : tab[u][2] # f /\ tab'[u] = <<"exchange", f>>
  <2>1. /\ UNCHANGED flow
        /\ \E x : x # <<"exchange", f>> /\ tab' = [tab EXCEPT ![t] = x]
    <3>1. CASE LoginAsks(t)
      BY <3>1 DEF LoginAsks
    <3>2. CASE CountPending(t)
      <4> DEFINE x == IF Cardinality(Pending) >= MaxPending THEN <<"none", 0>> ELSE <<"create", 0>>
      <4>1. UNCHANGED flow /\ tab' = [tab EXCEPT ![t] = x]
        BY <3>2 DEF CountPending
      <4>2. x # <<"exchange", f>>
        OBVIOUS
      <4>3. QED
        BY <4>1, <4>2
    <3>3. CASE Exchange(t)
      BY <3>3 DEF Exchange
    <3>4. CASE LoginSession(t)
      BY <3>4 DEF LoginSession
    <3>5. QED
      BY <1>6, <3>1, <3>2, <3>3, <3>4
  <2>2. QED
    BY <1>1, <2>1
<1>7. ASSUME NEW t \in Tabs, LoginFails(t) \/ LoginFinishes(t)
      PROVE  flow'[f] = flow[f] /\ ~\E u \in Tabs : tab[u][2] # f /\ tab'[u] = <<"exchange", f>>
  <2> DEFINE g == tab[t][2]
  <2>1. /\ tab[t][1] \in {"exchange", "finish"} /\ tab' = [tab EXCEPT ![t] = <<"none", 0>>]
        /\ flow' = Finished(g, "failed") \/ flow' = Finished(g, "done")
    BY <1>7 DEF LoginFails, LoginFinishes
  <2>2. g \in 1 .. Flows
    BY <1>t, <2>1, PlaceOf
  <2>3. flow'[f] = flow[f]
    BY <1>t, <2>1, <2>2, FinishedFine
  <2>4. QED
    BY <1>1, <2>1, <2>3
<1>8. ASSUME NEW g \in 1 .. Flows, FlowExpires(g)
      PROVE  flow'[f] = flow[f] /\ ~\E u \in Tabs : tab[u][2] # f /\ tab'[u] = <<"exchange", f>>
  <2>1. g # f /\ flow' = [flow EXCEPT ![g] = "expired"] /\ UNCHANGED tab
    BY <1>8 DEF FlowExpires
  <2>2. flow'[f] = flow[f]
    BY <1>t, <2>1 DEF LoginTypes
  <2>3. QED
    BY <1>2, <2>1, <2>2
<1>9. QED
  BY <1>3, <1>4, <1>5, <1>6, <1>7, <1>8 DEF AdminLoginNext

\* A login that has ended stays ended, and no callback that begins later goes
\* on with it (AdminLoginFlowByState, FinishAdminLoginFlow).
THEOREM EndedGivesNone == AdminLoginSpec => EndedFlowGivesNone
<1>1. ASSUME LoginIInvA, [AdminLoginNext]_adminLoginVars
      PROVE  [\A f \in DOMAIN flow : (flow[f] \notin {"none", "pending"}) =>
                /\ flow'[f] = flow[f]
                /\ ~\E t \in Tabs : tab[t][2] # f /\ tab'[t] = <<"exchange", f>>]_adminLoginVars
  BY <1>1, EndedStays
<1>2. QED
  BY <1>1, LoginStarts, LoginSteps, PTL DEF AdminLoginSpec, EndedFlowGivesNone

-----------------------------------------------------------------------------
(***************************************************************************)
(* The rate limiter.  level is what a client's bucket would hold if none   *)
(* were dropped: a bucket that is there is that one, and one that is not   *)
(* would be full.                                                          *)
(***************************************************************************)
Buckets == [tokens : 0 .. Burst, idle : 0 .. Period + 1]

LimitIInv ==
  /\ level \in [Clients -> Buckets]
  /\ bucket \in [Clients -> Buckets \cup {NoBucket}]
  /\ \A c \in Clients : bucket[c] # NoBucket => bucket[c] = level[c]
  /\ \A c \in Clients : bucket[c] = NoBucket => Refilled(level[c]) = Burst
  /\ IsFiniteSet(Held(bucket)) /\ Cardinality(Held(bucket)) <= MaxBuckets

\* The quotient of a product is no less than the factor.
LEMMA QuotientBounds ==
  ASSUME NEW x \in Nat, NEW y \in Nat, x <= y
  PROVE  /\ x \div Period \in Nat /\ x \div Period <= y \div Period
         /\ Burst * Period <= y => Burst <= y \div Period
         /\ 0 \div Period = 0
<1>1. Period \in Nat /\ Period > 0 /\ Burst \in Nat
  BY LimitAssumption
<1>2. \A z \in Nat : z \div Period \in Nat /\ Period * (z \div Period) <= z /\ z < Period * (z \div Period) + Period
  BY <1>1, Z3
<1>3. \A a, b \in Nat : (Period * a < Period * b + Period) => a <= b
  BY <1>1, Z3
<1>4. Period * (x \div Period) < Period * (y \div Period) + Period
  BY <1>1, <1>2
<1>5. Burst * Period <= y => Period * Burst < Period * (y \div Period) + Period
  BY <1>1, <1>2
<1>6. 0 \div Period = 0
  BY <1>1
<1>7. QED
  BY <1>1, <1>2, <1>3, <1>4, <1>5, <1>6

\* What a bucket holds is within the burst, and grows while it is idle.
LEMMA RefilledFine ==
  /\ \A b \in Buckets : Refilled(b) \in 0 .. Burst /\ Spent(b) \in Buckets
  /\ Full \in Buckets /\ Refilled(Full) = Burst
  /\ \A b \in Buckets : b.idle > Period => Refilled(b) = Burst
  /\ \A b, d \in Buckets : b.tokens = d.tokens /\ b.idle <= d.idle /\ Refilled(b) = Burst => Refilled(d) = Burst
<1>0. Burst \in Nat /\ Period \in Nat /\ Burst > 0 /\ Period > 0
  BY LimitAssumption
<1>1. ASSUME NEW b \in Buckets PROVE b.tokens \in 0 .. Burst /\ b.idle \in 0 .. Period + 1 /\ b.idle * Burst \in Nat
  BY <1>0 DEF Buckets
<1>2. ASSUME NEW b \in Buckets PROVE Refilled(b) \in 0 .. Burst /\ Spent(b) \in Buckets
  <2>1. (b.idle * Burst) \div Period \in Nat
    BY <1>1, QuotientBounds
  <2>2. Refilled(b) \in 0 .. Burst
    BY <1>0, <1>1, <2>1 DEF Refilled, Least
  <2>3. QED
    BY <1>0, <2>2 DEF Spent, Buckets
<1>3. Full \in Buckets /\ Refilled(Full) = Burst
  <2>1. Full \in Buckets /\ Full.tokens = Burst /\ Full.idle = 0
    BY <1>0 DEF Full, Buckets
  <2>2. (0 * Burst) \div Period = 0
    BY <1>0, QuotientBounds
  <2>3. QED
    BY <1>0, <2>1, <2>2 DEF Refilled, Least
<1>4. ASSUME NEW b \in Buckets, b.idle > Period PROVE Refilled(b) = Burst
  <2>1. b.idle = Period + 1
    BY <1>0, <1>1, <1>4
  <2>2. Burst * Period <= b.idle * Burst
    BY <1>0, <2>1, Z3
  <2>3. Burst <= (b.idle * Burst) \div Period /\ (b.idle * Burst) \div Period \in Nat
    BY <1>1, <2>2, QuotientBounds
  <2>4. QED
    BY <1>0, <1>1, <2>3 DEF Refilled, Least
<1>5. ASSUME NEW b \in Buckets, NEW d \in Buckets, b.tokens = d.tokens, b.idle <= d.idle, Refilled(b) = Burst
      PROVE  Refilled(d) = Burst
  <2>1. b.idle * Burst <= d.idle * Burst
    BY <1>0, <1>1, <1>5, Z3
  <2>2. (b.idle * Burst) \div Period <= (d.idle * Burst) \div Period
        /\ (b.idle * Burst) \div Period \in Nat /\ (d.idle * Burst) \div Period \in Nat
    BY <1>1, <2>1, QuotientBounds
  <2>3. QED
    BY <1>0, <1>1, <1>5, <2>2 DEF Refilled, Least
<1>6. QED
  BY <1>2, <1>3, <1>4, <1>5

\* Dropping a bucket that has been idle leaves everything as it should be.
LEMMA SweptFine ==
  ASSUME LimitIInv, NEW bs \in {bucket, Swept}
  PROVE  /\ bs \in [Clients -> Buckets \cup {NoBucket}]
         /\ \A c \in Clients : bs[c] # NoBucket => bs[c] = level[c]
         /\ \A c \in Clients : bs[c] = NoBucket => Refilled(level[c]) = Burst
         /\ IsFiniteSet(Held(bs)) /\ Cardinality(Held(bs)) <= MaxBuckets
<1>1. CASE bs = bucket
  BY <1>1 DEF LimitIInv
<1>2. CASE bs = [c \in Clients |-> IF bucket[c] # NoBucket /\ bucket[c].idle > Period THEN NoBucket ELSE bucket[c]]
  <2>1. bs \in [Clients -> Buckets \cup {NoBucket}]
    BY <1>2 DEF LimitIInv
  <2>2. \A c \in Clients : bs[c] # NoBucket => bs[c] = level[c]
    BY <1>2 DEF LimitIInv
  <2>3. ASSUME NEW c \in Clients, bs[c] = NoBucket PROVE Refilled(level[c]) = Burst
    BY <1>2, <2>3, RefilledFine DEF LimitIInv
  <2>4. Held(bs) \subseteq Held(bucket)
    BY <1>2 DEF Held
  <2>5. IsFiniteSet(Held(bs)) /\ Cardinality(Held(bs)) <= Cardinality(Held(bucket))
    BY <2>4, FS_Subset DEF LimitIInv
  <2>6. Cardinality(Held(bs)) \in Nat /\ Cardinality(Held(bucket)) \in Nat
    BY <2>5, FS_CardinalityType DEF LimitIInv
  <2>7. QED
    BY <2>1, <2>2, <2>3, <2>5, <2>6, LimitAssumption DEF LimitIInv
<1>3. QED
  BY <1>1, <1>2 DEF Swept

LEMMA LimitSteps == LimitIInv /\ [LimitNext]_limitVars => LimitIInv'
<1> SUFFICES ASSUME LimitIInv, [LimitNext]_limitVars PROVE LimitIInv'
  OBVIOUS
<1>0. Burst \in Nat /\ Period \in Nat /\ NoBucket \notin Buckets
  BY LimitAssumption DEF Buckets
<1>1. CASE UNCHANGED limitVars
  BY <1>1 DEF limitVars, LimitIInv, Held
<1>2. CASE Tick
  <2> DEFINE Older(b) == [b EXCEPT !.idle = Least(b.idle + 1, Period + 1)]
  <2>1. /\ bucket' = [c \in Clients |-> IF bucket[c] = NoBucket THEN NoBucket ELSE Older(bucket[c])]
        /\ level' = [c \in Clients |-> Older(level[c])]
    BY <1>2 DEF Tick
  <2>2. ASSUME NEW b \in Buckets PROVE Older(b) \in Buckets /\ (Refilled(b) = Burst => Refilled(Older(b)) = Burst)
    <3>1. b.idle \in 0 .. Period + 1 /\ Least(b.idle + 1, Period + 1) \in 0 .. Period + 1
          /\ b.idle <= Least(b.idle + 1, Period + 1)
      BY <1>0 DEF Buckets, Least
    <3>2. Older(b) \in Buckets /\ Older(b).tokens = b.tokens /\ Older(b).idle = Least(b.idle + 1, Period + 1)
      BY <3>1 DEF Buckets
    <3>3. QED
      BY <3>1, <3>2, RefilledFine
  <2> HIDE DEF Older
  <2>3. level' \in [Clients -> Buckets] /\ bucket' \in [Clients -> Buckets \cup {NoBucket}]
    BY <1>0, <2>1, <2>2 DEF LimitIInv
  <2>4. \A c \in Clients : bucket'[c] # NoBucket => bucket'[c] = level'[c]
    BY <2>1 DEF LimitIInv
  <2>5. \A c \in Clients : bucket'[c] = NoBucket <=> bucket[c] = NoBucket
    BY <1>0, <2>1, <2>2 DEF LimitIInv
  <2>6. \A c \in Clients : bucket'[c] = NoBucket => Refilled(level'[c]) = Burst
    BY <2>1, <2>2, <2>5 DEF LimitIInv
  <2>7. Held(bucket)' = Held(bucket)
    BY <2>5 DEF Held
  <2>8. QED
    BY <2>3, <2>4, <2>6, <2>7 DEF LimitIInv, Refilled
<1>3. ASSUME NEW c \in Clients, NEW bs \in {bucket, Swept}, AllowN(c, bs) PROVE LimitIInv'
  <2>1. /\ bs \in [Clients -> Buckets \cup {NoBucket}]
        /\ \A d \in Clients : bs[d] # NoBucket => bs[d] = level[d]
        /\ \A d \in Clients : bs[d] = NoBucket => Refilled(level[d]) = Burst
        /\ IsFiniteSet(Held(bs)) /\ Cardinality(Held(bs)) <= MaxBuckets
    BY SweptFine
  <2>2. IF NoRoom(bs, c) THEN bucket' = bs /\ UNCHANGED level
        ELSE /\ bucket' = [bs EXCEPT ![c] = Spent(BucketOf(bs, c))]
             /\ level' = [level EXCEPT ![c] = Spent(level[c])]
    BY <1>3 DEF AllowN
  <2>3. CASE NoRoom(bs, c)
    BY <2>1, <2>2, <2>3 DEF LimitIInv
  <2>4. CASE ~NoRoom(bs, c)
    <3> DEFINE n == Spent(level[c])
    <3>1. Spent(BucketOf(bs, c)) = n /\ n \in Buckets
      <4>1. level[c] \in Buckets
        BY DEF LimitIInv
      <4>2. Refilled(BucketOf(bs, c)) = Refilled(level[c])
        BY <2>1, RefilledFine DEF BucketOf
      <4>3. QED
        BY <4>1, <4>2, RefilledFine DEF Spent
    <3> HIDE DEF n
    <3>2. bucket' = [bs EXCEPT ![c] = n] /\ level' = [level EXCEPT ![c] = n]
      BY <2>2, <2>4, <3>1 DEF n
    <3>3. \A d \in Clients : /\ bucket'[d] = IF d = c THEN n ELSE bs[d]
                             /\ level'[d] = IF d = c THEN n ELSE level[d]
      BY <2>1, <3>2 DEF LimitIInv
    <3>4. level' \in [Clients -> Buckets] /\ bucket' \in [Clients -> Buckets \cup {NoBucket}]
      BY <2>1, <3>1, <3>2 DEF LimitIInv
    <3>5. \A d \in Clients : bucket'[d] # NoBucket => bucket'[d] = level'[d]
      BY <2>1, <3>3
    <3>6. \A d \in Clients : bucket'[d] = NoBucket => Refilled(level'[d]) = Burst
      BY <1>0, <2>1, <3>1, <3>3
    <3>7. Held(bucket)' = Held(bs) \cup {c}
      BY <1>0, <3>1, <3>3 DEF Held
    <3>8. IsFiniteSet(Held(bucket)') /\ Cardinality(Held(bucket)') <= MaxBuckets
      <4>1. CASE bs[c] = NoBucket
        <5>1. c \notin Held(bs) /\ Cardinality(Held(bs)) \in Nat
          BY <2>1, <4>1, FS_CardinalityType DEF Held
        <5>2. Cardinality(Held(bs)) < MaxBuckets
          BY <2>1, <2>4, <4>1, <5>1, LimitAssumption DEF NoRoom
        <5>3. IsFiniteSet(Held(bs) \cup {c}) /\ Cardinality(Held(bs) \cup {c}) = Cardinality(Held(bs)) + 1
          BY <2>1, <5>1, FS_AddElement
        <5>4. Cardinality(Held(bs) \cup {c}) <= MaxBuckets
          BY <5>1, <5>2, <5>3, LimitAssumption
        <5>5. QED
          BY <3>7, <5>3, <5>4
      <4>2. CASE bs[c] # NoBucket
        <5>1. Held(bs) \cup {c} = Held(bs)
          BY <4>2 DEF Held
        <5>2. QED
          BY <2>1, <3>7, <5>1
      <4>3. QED
        BY <4>1, <4>2
    <3>9. QED
      BY <3>4, <3>5, <3>6, <3>8 DEF LimitIInv, Refilled
  <2>5. QED
    BY <2>3, <2>4
<1>4. QED
  BY <1>1, <1>2, <1>3 DEF LimitNext

LEMMA LimitStarts == LimitInit => LimitIInv
<1> SUFFICES ASSUME LimitInit PROVE LimitIInv
  OBVIOUS
<1>1. Held(bucket) = {}
  BY DEF LimitInit, Held
<1>2. IsFiniteSet(Held(bucket)) /\ Cardinality(Held(bucket)) <= MaxBuckets
  BY <1>1, FS_EmptySet, LimitAssumption
<1>3. Full \in Buckets /\ Refilled(Full) = Burst
  BY RefilledFine
<1>4. \A c \in Clients : bucket[c] = NoBucket /\ level[c] = Full
  BY DEF LimitInit
<1>5. level \in [Clients -> Buckets] /\ bucket \in [Clients -> Buckets \cup {NoBucket}]
  BY <1>3 DEF LimitInit
<1>6. QED
  BY <1>2, <1>3, <1>4, <1>5 DEF LimitIInv

LEMMA LimitGives == LimitIInv => LimitInv
<1>1. NoBucket \notin Buckets
  BY LimitAssumption DEF Buckets
<1>2. QED
  BY <1>1 DEF LimitIInv, LimitInv, LimitTypeOK, DroppedWasFull, Buckets

\* The limiter keeps no more buckets than its limit and forgets only clients
\* that have their whole burst again: dropping buckets gives nobody more than
\* the limit, for every burst, period and number of clients (allowN).
THEOREM LimitSound == LimitSpec => []LimitInv
<1>1. QED
  BY LimitStarts, LimitSteps, LimitGives, PTL DEF LimitSpec

-----------------------------------------------------------------------------
(***************************************************************************)
(* AdminAuth.  A request uses later what it found out before: that its     *)
(* session is there, that its subject has had a passkey in force, that the *)
(* passkey it approves is another's.  Rows are never removed and keep who  *)
(* they are of, so all of it stays true.                                   *)
(***************************************************************************)
Modes == {"first", "self", "pending", "login"}
Ceremonies == [kind : {"register", "login"}, mode : Modes]
SessionRows == [subject : Subjects, full : BOOLEAN, ended : BOOLEAN, ceremony : Ceremonies \cup {Nobody}, from : Nat]
PasskeyRows == [subject : Subjects, mode : Modes, status : {"pending", "active", "revoked"}, by : Subjects \cup {Nobody}]

\* Tokens whose chain begins at the bootstrap token have the mark.
Tokens == {t \in [bootstrap : BOOLEAN, root : BOOLEAN] : t.root => t.bootstrap}

Identities == [via : {"session"}, session : Nat] \cup [via : {"token"}, token : Tokens] \cup {[via |-> "bootstrap"]}

RequestPlaces ==
  {"setCeremony", "clearCeremony", "addPasskey", "assertion", "approved", "raise", "revokeTokens", "createToken"}
Requests == [at : RequestPlaces, by : Identities, ceremony : Ceremonies \cup {Nobody}, passkey : Nat]

\* A subject has had a passkey in force.
HadPasskey(s) == \E p \in DOMAIN passkeys : passkeys[p].subject = s /\ passkeys[p].by # Nobody

AdminTypes ==
  /\ asessions \in Seq(SessionRows) /\ Len(asessions) <= MaxSessions
  /\ passkeys \in Seq(PasskeyRows) /\ Len(passkeys) <= MaxPasskeys
  /\ apiTokens \subseteq Tokens /\ DOMAIN request = Workers

\* A full session comes from one that is over, and of somebody with a passkey.
SessionFine(i) ==
  /\ asessions[i].from \in 0 .. i - 1
  /\ asessions[i].from # 0 => asessions[asessions[i].from].ended
  /\ asessions[i].full => HadPasskey(asessions[i].subject)

PasskeyFine(p) ==
  /\ passkeys[p].status = "pending" => passkeys[p].by = Nobody
  /\ passkeys[p].status = "active" => passkeys[p].by # Nobody
  /\ (passkeys[p].mode = "pending" /\ passkeys[p].by # Nobody) => passkeys[p].by # passkeys[p].subject

RequestFine(w) ==
  request[w] # Nobody =>
    /\ request[w] \in Requests
    /\ request[w].at # "createToken" => BySession(request[w].by) /\ MySession(w) \in DOMAIN asessions
    /\ request[w].at \notin {"createToken", "approved"} => request[w].ceremony \in Ceremonies
    /\ request[w].at \in {"raise", "revokeTokens"} => HadPasskey(Me(w))
    /\ request[w].at = "approved" =>
         request[w].passkey \in DOMAIN passkeys /\ passkeys[request[w].passkey].subject # Me(w)

AdminIInv ==
  /\ AdminTypes /\ OneFullSession
  /\ \A i \in DOMAIN asessions : SessionFine(i)
  /\ \A p \in DOMAIN passkeys : PasskeyFine(p)
  /\ \A w \in Workers : RequestFine(w)

\* What every step keeps of sessions and of passkeys.
SessionsKept ==
  \A i \in DOMAIN asessions :
    /\ i \in DOMAIN asessions'
    /\ asessions'[i].subject = asessions[i].subject /\ asessions'[i].from = asessions[i].from
    /\ asessions[i].ended => asessions'[i].ended
    /\ asessions'[i].full => asessions[i].full

PasskeysKept ==
  \A p \in DOMAIN passkeys :
    /\ p \in DOMAIN passkeys'
    /\ passkeys'[p].subject = passkeys[p].subject
    /\ passkeys[p].by # Nobody => passkeys'[p].by = passkeys[p].by
    /\ passkeys[p].status = "revoked" => passkeys'[p].status = "revoked"

\* What a request knows stays true.
LEMMA KeptRequest ==
  ASSUME AdminIInv, SessionsKept, PasskeysKept, NEW w \in Workers, request'[w] = request[w]
  PROVE  RequestFine(w)'
<1>1. RequestFine(w)
  BY DEF AdminIInv
<1>2. CASE request[w] = Nobody
  BY <1>2 DEF RequestFine
<1>3. CASE request[w] # Nobody /\ request[w].at = "createToken"
  BY <1>1, <1>3 DEF RequestFine
<1>4. CASE request[w] # Nobody /\ request[w].at # "createToken"
  <2>1. MySession(w) \in DOMAIN asessions /\ MySession(w)' = MySession(w) /\ BySession(request[w].by)
    BY <1>1, <1>4 DEF RequestFine, MySession
  <2>2. MySession(w) \in DOMAIN asessions' /\ Me(w)' = Me(w)
    BY <2>1 DEF SessionsKept, Me
  <2>3. request[w].at \in {"raise", "revokeTokens"} => HadPasskey(Me(w))'
    <3>1. HadPasskey(Me(w)) => \E p \in DOMAIN passkeys' : passkeys'[p].subject = Me(w) /\ passkeys'[p].by # Nobody
      BY DEF PasskeysKept, HadPasskey
    <3>2. QED
      BY <1>1, <1>4, <2>2, <3>1 DEF RequestFine, HadPasskey
  <2>4. request[w].at = "approved" =>
          request[w].passkey \in DOMAIN passkeys' /\ passkeys'[request[w].passkey].subject # Me(w)'
    BY <1>1, <1>4, <2>2 DEF RequestFine, PasskeysKept
  <2>5. QED
    BY <1>1, <1>4, <2>1, <2>2, <2>3, <2>4 DEF RequestFine, BySession
<1>5. QED
  BY <1>2, <1>3, <1>4

\* A step that leaves everything but one request alone.
LEMMA OneRequest ==
  ASSUME AdminIInv, SessionsKept, PasskeysKept, NEW w \in Workers, NEW x, request' = [request EXCEPT ![w] = x],
         RequestFine(w)'
  PROVE  DOMAIN request' = Workers /\ \A v \in Workers : RequestFine(v)'
<1>1. DOMAIN request' = Workers /\ \A v \in Workers : v # w => request'[v] = request[v]
  BY DEF AdminIInv, AdminTypes
<1>2. QED
  BY <1>1, KeptRequest

\* Rows that are as before, or better, are as fine.
LEMMA KeptSessions ==
  ASSUME AdminIInv, UNCHANGED asessions, PasskeysKept
  PROVE  SessionsKept /\ OneFullSession' /\ \A i \in DOMAIN asessions' : SessionFine(i)'
<1>1. SessionsKept /\ OneFullSession'
  BY DEF SessionsKept, AdminIInv, OneFullSession
<1>2. ASSUME NEW i \in DOMAIN asessions PROVE SessionFine(i)'
  <2>1. SessionFine(i)
    BY DEF AdminIInv
  <2>2. HadPasskey(asessions[i].subject) => HadPasskey(asessions[i].subject)'
    BY DEF PasskeysKept, HadPasskey
  <2>3. QED
    BY <2>1, <2>2 DEF SessionFine, HadPasskey
<1>3. QED
  BY <1>1, <1>2

LEMMA KeptPasskeys ==
  ASSUME AdminIInv, UNCHANGED passkeys
  PROVE  PasskeysKept /\ (\A p \in DOMAIN passkeys' : PasskeyFine(p)') /\ (\A s : HadPasskey(s) => HadPasskey(s)')
  BY DEF AdminIInv, PasskeysKept, PasskeyFine, HadPasskey

\* A row of a session that changes, with no more rights, and of the same
\* subject.
LEMMA SessionChanges ==
  ASSUME AdminIInv, UNCHANGED passkeys, NEW i \in DOMAIN asessions, NEW r \in SessionRows,
         r.subject = asessions[i].subject, r.from = asessions[i].from, r.full = asessions[i].full,
         asessions[i].ended => r.ended, asessions' = [asessions EXCEPT ![i] = r]
  PROVE  /\ asessions' \in Seq(SessionRows) /\ Len(asessions') <= MaxSessions
         /\ SessionsKept /\ OneFullSession' /\ \A j \in DOMAIN asessions' : SessionFine(j)'
<1>1. asessions' \in Seq(SessionRows) /\ Len(asessions') = Len(asessions)
      /\ \A j \in DOMAIN asessions : asessions'[j] = IF j = i THEN r ELSE asessions[j]
  <2>1. asessions \in Seq(SessionRows)
    BY DEF AdminIInv, AdminTypes
  <2>2. QED
    BY <2>1, ExceptSeq
<1>2. DOMAIN asessions' = DOMAIN asessions
  BY DEF AdminIInv, AdminTypes
<1>3. \A j \in DOMAIN asessions : /\ asessions'[j].subject = asessions[j].subject
                                  /\ asessions'[j].from = asessions[j].from
                                  /\ asessions'[j].full = asessions[j].full
                                  /\ asessions[j].ended => asessions'[j].ended
  BY <1>1
<1>4. SessionsKept /\ OneFullSession'
  BY <1>2, <1>3 DEF SessionsKept, AdminIInv, OneFullSession
<1>5. ASSUME NEW j \in DOMAIN asessions PROVE SessionFine(j)'
  <2>1. SessionFine(j)
    BY DEF AdminIInv
  <2>2. asessions[j].from # 0 => asessions[j].from \in DOMAIN asessions
    <3>1. asessions \in Seq(SessionRows) /\ j \in 1 .. Len(asessions)
      BY DEF AdminIInv, AdminTypes
    <3>2. QED
      BY <2>1, <3>1 DEF SessionFine
  <2>3. HadPasskey(asessions[j].subject) => HadPasskey(asessions[j].subject)'
    BY KeptPasskeys
  <2>4. QED
    BY <1>3, <2>1, <2>2, <2>3 DEF SessionFine, HadPasskey
<1>6. QED
  BY <1>1, <1>2, <1>4, <1>5 DEF AdminIInv, AdminTypes

\* A new session, beside rows that keep what they are; a full one comes from
\* one that was not over before and is now.
LEMMA SessionAdded ==
  ASSUME AdminIInv, UNCHANGED passkeys, NEW s \in Seq(SessionRows), Len(s) = Len(asessions), NEW r \in SessionRows,
         \A j \in DOMAIN asessions : /\ s[j].subject = asessions[j].subject /\ s[j].from = asessions[j].from
                                     /\ s[j].full = asessions[j].full /\ (asessions[j].ended => s[j].ended),
         \/ r.from = 0
         \/ r.from \in DOMAIN asessions /\ s[r.from].ended /\ ~asessions[r.from].ended,
         r.full => HadPasskey(r.subject), Len(asessions) < MaxSessions, asessions' = Append(s, r)
  PROVE  /\ asessions' \in Seq(SessionRows) /\ Len(asessions') <= MaxSessions
         /\ SessionsKept /\ OneFullSession' /\ \A j \in DOMAIN asessions' : SessionFine(j)'
<1> DEFINE n == Len(asessions)
<1>0. asessions \in Seq(SessionRows) /\ n \in Nat /\ DOMAIN asessions = 1 .. n /\ MaxSessions \in Nat
  BY AdminAssumption DEF AdminIInv, AdminTypes
<1>1. /\ asessions' \in Seq(SessionRows) /\ Len(asessions') = n + 1 /\ asessions'[n + 1] = r
      /\ \A j \in 1 .. n : asessions'[j] = s[j]
  BY AppendProperties
<1>2. DOMAIN asessions' = 1 .. (n + 1)
  BY <1>1
<1> HIDE DEF n
<1>3. \A j \in 1 .. n : /\ asessions'[j].subject = asessions[j].subject /\ asessions'[j].from = asessions[j].from
                        /\ asessions'[j].full = asessions[j].full /\ (asessions[j].ended => asessions'[j].ended)
  BY <1>0, <1>1
<1>4. SessionsKept
  BY <1>0, <1>2, <1>3 DEF SessionsKept
<1>5. \A j \in 1 .. n : SessionFine(j) /\ (asessions[j].from # 0 => asessions[j].from \in 1 .. n)
  <2>1. \A j \in 1 .. n : SessionFine(j)
    BY <1>0 DEF AdminIInv
  <2>2. \A j \in 1 .. n : asessions[j].from \in 0 .. j - 1
    BY <2>1 DEF SessionFine
  <2>3. QED
    BY <1>0, <2>1, <2>2
<1>6. OneFullSession'
  <2>1. SUFFICES ASSUME NEW i \in 1 .. n + 1, NEW j \in 1 .. n + 1, asessions'[i].from # 0,
                        asessions'[i].from = asessions'[j].from
                 PROVE  i = j
    BY <1>2 DEF OneFullSession
  <2>2. CASE i \in 1 .. n /\ j \in 1 .. n
    BY <1>0, <1>3, <2>1, <2>2 DEF AdminIInv, OneFullSession
  <2>3. ASSUME NEW k \in 1 .. n, r.from # 0, asessions[k].from = r.from PROVE FALSE
    BY <1>0, <1>5, <2>3 DEF SessionFine
  <2>4. CASE i = n + 1 /\ j \in 1 .. n
    BY <1>1, <1>3, <2>1, <2>3, <2>4
  <2>5. CASE i \in 1 .. n /\ j = n + 1
    BY <1>1, <1>3, <2>1, <2>3, <2>5
  <2>6. QED
    BY <1>0, <2>2, <2>4, <2>5
<1>7. \A t : HadPasskey(t) => HadPasskey(t)'
  BY KeptPasskeys
<1>8. ASSUME NEW j \in 1 .. n + 1 PROVE SessionFine(j)'
  <2>1. CASE j \in 1 .. n
    <3>1. SessionFine(j) /\ (asessions[j].from # 0 => asessions[j].from \in 1 .. n)
      BY <1>5, <2>1
    <3>2. HadPasskey(asessions[j].subject) =>
            \E p \in DOMAIN passkeys' : passkeys'[p].subject = asessions[j].subject /\ passkeys'[p].by # Nobody
      BY DEF HadPasskey
    <3>3. asessions[j].from # 0 => asessions'[asessions[j].from].ended
      BY <1>3, <3>1 DEF SessionFine
    <3>4. /\ asessions[j].from \in 0 .. j - 1
          /\ asessions[j].full => HadPasskey(asessions[j].subject)
      BY <3>1 DEF SessionFine
    <3>5. /\ asessions'[j].from = asessions[j].from /\ asessions'[j].full = asessions[j].full
          /\ asessions'[j].subject = asessions[j].subject
      BY <1>3, <2>1
    <3>6. asessions'[j].from # 0 => asessions'[asessions'[j].from].ended
      BY <3>3, <3>5
    <3>7. asessions'[j].full => HadPasskey(asessions[j].subject)'
      BY <3>2, <3>4, <3>5 DEF HadPasskey
    <3>8. QED
      BY <3>4, <3>5, <3>6, <3>7 DEF SessionFine, HadPasskey
  <2>2. CASE j = n + 1
    <3>1. asessions'[j].from \in 0 .. j - 1
      BY <1>0, <1>1, <2>2
    <3>2. asessions'[j].from # 0 => asessions'[asessions'[j].from].ended
      BY <1>0, <1>1, <2>2
    <3>3. asessions'[j].full => HadPasskey(r.subject)'
      BY <1>1, <1>7, <2>2
    <3>4. QED
      BY <1>1, <2>2, <3>1, <3>2, <3>3 DEF SessionFine, HadPasskey
  <2>3. QED
    BY <1>0, <2>1, <2>2
<1>9. QED
  BY <1>0, <1>1, <1>2, <1>4, <1>6, <1>8 DEF n

\* A row of a passkey that changes.
LEMMA PasskeyChanges ==
  ASSUME AdminIInv, NEW p \in DOMAIN passkeys, NEW r \in PasskeyRows,
         r.subject = passkeys[p].subject, r.mode = passkeys[p].mode,
         passkeys[p].by # Nobody => r.by = passkeys[p].by,
         passkeys[p].status = "revoked" => r.status = "revoked",
         r.status = "pending" => r.by = Nobody, r.status = "active" => r.by # Nobody,
         (r.mode = "pending" /\ r.by # Nobody) => r.by # r.subject,
         passkeys' = [passkeys EXCEPT ![p] = r]
  PROVE  /\ passkeys' \in Seq(PasskeyRows) /\ Len(passkeys') <= MaxPasskeys
         /\ PasskeysKept /\ \A q \in DOMAIN passkeys' : PasskeyFine(q)'
<1>1. passkeys \in Seq(PasskeyRows)
  BY DEF AdminIInv, AdminTypes
<1>2. /\ passkeys' \in Seq(PasskeyRows) /\ Len(passkeys') = Len(passkeys) /\ DOMAIN passkeys' = DOMAIN passkeys
      /\ \A q \in DOMAIN passkeys : passkeys'[q] = IF q = p THEN r ELSE passkeys[q]
  BY <1>1, ExceptSeq
<1>3. QED
  BY <1>2 DEF AdminIInv, AdminTypes, PasskeysKept, PasskeyFine

\* A passkey more.
LEMMA PasskeyAdded ==
  ASSUME AdminIInv, NEW r \in PasskeyRows, Len(passkeys) < MaxPasskeys,
         r.status = "pending" => r.by = Nobody, r.status = "active" => r.by # Nobody,
         (r.mode = "pending" /\ r.by # Nobody) => r.by # r.subject,
         passkeys' = Append(passkeys, r)
  PROVE  /\ passkeys' \in Seq(PasskeyRows) /\ Len(passkeys') <= MaxPasskeys
         /\ PasskeysKept /\ (\A q \in DOMAIN passkeys' : PasskeyFine(q)')
         /\ \E q \in DOMAIN passkeys' : passkeys'[q] = r
<1> DEFINE n == Len(passkeys)
<1>1. passkeys \in Seq(PasskeyRows) /\ n \in Nat /\ DOMAIN passkeys = 1 .. n /\ MaxPasskeys \in Nat
  BY AdminAssumption DEF AdminIInv, AdminTypes
<1>2. /\ passkeys' \in Seq(PasskeyRows) /\ Len(passkeys') = n + 1 /\ passkeys'[n + 1] = r
      /\ \A q \in 1 .. n : passkeys'[q] = passkeys[q]
  BY <1>1, AppendProperties
<1>3. DOMAIN passkeys' = 1 .. n + 1
  BY <1>1, <1>2
<1> HIDE DEF n
<1>4. \A q \in 1 .. n + 1 : q \in 1 .. n \/ q = n + 1
  BY <1>1
<1>5. PasskeysKept
  BY <1>1, <1>2, <1>3 DEF PasskeysKept
<1>6. \A q \in DOMAIN passkeys' : PasskeyFine(q)'
  BY <1>1, <1>2, <1>3, <1>4 DEF AdminIInv, PasskeyFine
<1>7. n + 1 \in DOMAIN passkeys'
  BY <1>1, <1>3
<1>8. QED
  BY <1>1, <1>2, <1>5, <1>6, <1>7 DEF n

\* A request that goes on.
LEMMA GoesOn ==
  ASSUME AdminIInv, SessionsKept, PasskeysKept, NEW w \in Workers,
         NEW a \in {"addPasskey", "assertion", "raise", "revokeTokens"}, request[w] # Nobody,
         request[w].at \notin {"createToken", "approved"}, Goes(w, a),
         a \in {"raise", "revokeTokens"} =>
           \E p \in DOMAIN passkeys' : passkeys'[p].subject = Me(w) /\ passkeys'[p].by # Nobody
  PROVE  DOMAIN request' = Workers /\ \A v \in Workers : RequestFine(v)'
<1> DEFINE x == [request[w] EXCEPT !.at = a]
<1>1. request' = [request EXCEPT ![w] = x]
  BY DEF Goes
<1>2. /\ request[w] \in Requests /\ BySession(request[w].by) /\ MySession(w) \in DOMAIN asessions
      /\ request[w].ceremony \in Ceremonies
  BY DEF AdminIInv, RequestFine
<1>3. x \in Requests /\ x.at = a /\ x.by = request[w].by /\ x.ceremony = request[w].ceremony
  BY <1>2 DEF Requests, RequestPlaces
<1>4. request'[w] = x
  BY <1>1 DEF AdminIInv, AdminTypes
<1> HIDE DEF x
<1>5. MySession(w)' = MySession(w)
  BY <1>3, <1>4 DEF MySession
<1>6. MySession(w) \in DOMAIN asessions' /\ Me(w)' = Me(w)
  BY <1>2, <1>5 DEF Me, SessionsKept
<1>7. RequestFine(w)'
  BY <1>2, <1>3, <1>4, <1>5, <1>6 DEF RequestFine, HadPasskey, BySession
<1>8. QED
  BY <1>1, <1>7, OneRequest

\* A request that is answered.
LEMMA AnswerFine ==
  ASSUME AdminIInv, SessionsKept, PasskeysKept, NEW w \in Workers, Answer(w)
  PROVE  DOMAIN request' = Workers /\ \A v \in Workers : RequestFine(v)'
<1>1. request' = [request EXCEPT ![w] = Nobody]
  BY DEF Answer
<1>2. RequestFine(w)'
  BY <1>1 DEF RequestFine, AdminIInv, AdminTypes
<1>3. QED
  BY <1>1, <1>2, OneRequest

\* Nothing but a request changes.
LEMMA OnlyRequests ==
  ASSUME AdminIInv, UNCHANGED <<asessions, passkeys, apiTokens>>, DOMAIN request' = Workers,
         \A v \in Workers : RequestFine(v)'
  PROVE  AdminIInv'
<1>1. PasskeysKept /\ \A p \in DOMAIN passkeys' : PasskeyFine(p)'
  BY KeptPasskeys
<1>2. SessionsKept /\ OneFullSession' /\ \A i \in DOMAIN asessions' : SessionFine(i)'
  BY <1>1, KeptSessions
<1>3. AdminTypes'
  BY DEF AdminIInv, AdminTypes
<1>4. QED
  BY <1>1, <1>2, <1>3 DEF AdminIInv

\* The conclusion of most steps, from their parts.
LEMMA AdminParts ==
  ASSUME AdminIInv, SessionsKept, PasskeysKept,
         asessions' \in Seq(SessionRows), Len(asessions') <= MaxSessions,
         passkeys' \in Seq(PasskeyRows), Len(passkeys') <= MaxPasskeys, apiTokens' \subseteq Tokens,
         OneFullSession', \A i \in DOMAIN asessions' : SessionFine(i)', \A p \in DOMAIN passkeys' : PasskeyFine(p)',
         DOMAIN request' = Workers, \A v \in Workers : RequestFine(v)'
  PROVE  AdminIInv'
  BY DEF AdminIInv, AdminTypes

\* What every step keeps.
StepKept == SessionsKept /\ PasskeysKept

\* The steps of sessions.
LEMMA SessionSteps ==
  ASSUME AdminIInv,
         \/ \E s \in Subjects : CreateAdminSession(s)
         \/ \E i \in DOMAIN asessions : Logout(i)
         \/ \E w \in Workers : RaiseSession(w) \/ SetAdminCeremony(w) \/ ClearCeremony(w)
  PROVE  AdminIInv' /\ StepKept
<1>0. AdminTypes /\ (\A w \in Workers : RequestFine(w)) /\ asessions \in Seq(SessionRows)
  BY DEF AdminIInv, AdminTypes
<1>s. \A i \in DOMAIN asessions : asessions[i] \in SessionRows
  BY <1>0
<1>k. ASSUME UNCHANGED passkeys
      PROVE  /\ PasskeysKept /\ (\A p \in DOMAIN passkeys' : PasskeyFine(p)')
             /\ passkeys' \in Seq(PasskeyRows) /\ Len(passkeys') <= MaxPasskeys
  BY <1>0, <1>k, KeptPasskeys DEF AdminTypes
<1>r. ASSUME SessionsKept, PasskeysKept, UNCHANGED request
      PROVE  DOMAIN request' = Workers /\ \A v \in Workers : RequestFine(v)'
  BY <1>0, <1>r, KeptRequest DEF AdminTypes
<1>1. ASSUME NEW s \in Subjects, CreateAdminSession(s) PROVE AdminIInv' /\ StepKept
  <2> DEFINE r == [subject |-> s, full |-> FALSE, ended |-> FALSE, ceremony |-> Nobody, from |-> 0]
  <2>1. /\ Len(asessions) < MaxSessions /\ asessions' = Append(asessions, r)
        /\ UNCHANGED <<passkeys, apiTokens, request>>
    BY <1>1 DEF CreateAdminSession
  <2>2. r \in SessionRows /\ r.from = 0 /\ ~r.full
    BY DEF SessionRows
  <2>3. /\ asessions' \in Seq(SessionRows) /\ Len(asessions') <= MaxSessions
        /\ SessionsKept /\ OneFullSession' /\ \A j \in DOMAIN asessions' : SessionFine(j)'
    BY <1>0, <2>1, <2>2, SessionAdded
  <2>4. QED
    BY <1>0, <1>k, <1>r, <2>1, <2>3, AdminParts DEF AdminTypes, StepKept
<1>2. ASSUME NEW i \in DOMAIN asessions, Logout(i) PROVE AdminIInv' /\ StepKept
  <2> DEFINE r == [asessions[i] EXCEPT !.ended = TRUE, !.ceremony = Nobody]
  <2>1. asessions' = [asessions EXCEPT ![i] = r] /\ UNCHANGED <<passkeys, apiTokens, request>>
    BY <1>2 DEF Logout
  <2>2. /\ r \in SessionRows /\ r.ended /\ r.subject = asessions[i].subject /\ r.from = asessions[i].from
        /\ r.full = asessions[i].full
    BY <1>s DEF SessionRows
  <2> HIDE DEF r
  <2>3. /\ asessions' \in Seq(SessionRows) /\ Len(asessions') <= MaxSessions
        /\ SessionsKept /\ OneFullSession' /\ \A j \in DOMAIN asessions' : SessionFine(j)'
    BY <2>1, <2>2, SessionChanges
  <2>4. QED
    BY <1>0, <1>k, <1>r, <2>1, <2>3, AdminParts DEF AdminTypes, StepKept
<1>3. ASSUME NEW w \in Workers, RaiseSession(w) PROVE AdminIInv' /\ StepKept
  <2> DEFINE i == MySession(w)
             e == [asessions[i] EXCEPT !.ended = TRUE, !.ceremony = Nobody]
             s == [asessions EXCEPT ![i] = e]
             r == [asessions[i] EXCEPT !.full = TRUE, !.ceremony = Nobody, !.from = i]
  <2>1. /\ request[w] # Nobody /\ request[w].at = "raise" /\ Answer(w) /\ UNCHANGED <<passkeys, apiTokens>>
        /\ \/ ValidSession(i) /\ Len(asessions) < MaxSessions /\ asessions' = RaiseAdminSession(i)
           \/ UNCHANGED asessions
    BY <1>3 DEF RaiseSession, RequestAt
  <2>2. i \in DOMAIN asessions /\ HadPasskey(asessions[i].subject)
    BY <1>0, <2>1 DEF RequestFine, Me
  <2>3. CASE UNCHANGED asessions
    <3>1. SessionsKept /\ OneFullSession' /\ \A j \in DOMAIN asessions' : SessionFine(j)'
      BY <1>k, <2>1, <2>3, KeptSessions
    <3>2. DOMAIN request' = Workers /\ \A v \in Workers : RequestFine(v)'
      BY <1>k, <2>1, <3>1, AnswerFine
    <3>3. QED
      BY <1>0, <1>k, <2>1, <2>3, <3>1, <3>2, AdminParts DEF AdminTypes, StepKept
  <2>4. CASE ValidSession(i) /\ Len(asessions) < MaxSessions /\ asessions' = RaiseAdminSession(i)
    <3>1. asessions' = Append(s, r) /\ ~asessions[i].ended
      BY <2>4 DEF RaiseAdminSession, ValidSession
    <3>2. i \in Nat /\ i # 0 /\ i \in 1 .. Len(asessions)
      BY <1>0, <2>2
    <3>3. /\ e \in SessionRows /\ e.ended /\ e.subject = asessions[i].subject /\ e.from = asessions[i].from
          /\ e.full = asessions[i].full
      BY <1>s, <2>2 DEF SessionRows
    <3>4. r \in SessionRows /\ r.subject = asessions[i].subject /\ r.from = i
      BY <1>s, <2>2, <3>2 DEF SessionRows
    <3> HIDE DEF e, r
    <3>5. /\ s \in Seq(SessionRows) /\ Len(s) = Len(asessions)
          /\ \A j \in DOMAIN asessions : s[j] = IF j = i THEN e ELSE asessions[j]
      BY <1>0, <3>2, <3>3, ExceptSeq
    <3>6. \A j \in DOMAIN asessions : /\ s[j].subject = asessions[j].subject /\ s[j].from = asessions[j].from
                                      /\ s[j].full = asessions[j].full /\ (asessions[j].ended => s[j].ended)
      BY <3>3, <3>5
    <3>7. s[r.from].ended /\ ~asessions[r.from].ended /\ r.from \in DOMAIN asessions
      BY <2>2, <3>1, <3>3, <3>4, <3>5
    <3>8. r.full => HadPasskey(r.subject)
      BY <2>2, <3>4
    <3> HIDE DEF s, i
    <3>9. /\ asessions' \in Seq(SessionRows) /\ Len(asessions') <= MaxSessions
          /\ SessionsKept /\ OneFullSession' /\ \A j \in DOMAIN asessions' : SessionFine(j)'
      BY <2>1, <2>4, <3>1, <3>4, <3>5, <3>6, <3>7, <3>8, SessionAdded
    <3>10. DOMAIN request' = Workers /\ \A v \in Workers : RequestFine(v)'
      BY <1>k, <2>1, <3>9, AnswerFine
    <3>11. QED
      BY <1>0, <1>k, <2>1, <3>9, <3>10, AdminParts DEF AdminTypes, StepKept
  <2>5. QED
    BY <2>1, <2>3, <2>4
<1>4. ASSUME NEW w \in Workers, SetAdminCeremony(w) PROVE AdminIInv' /\ StepKept
  <2> DEFINE i == MySession(w)
             r == [asessions[i] EXCEPT !.ceremony = request[w].ceremony]
  <2>1. /\ request[w] # Nobody /\ request[w].at = "setCeremony" /\ Answer(w) /\ UNCHANGED <<passkeys, apiTokens>>
        /\ UNCHANGED asessions \/ asessions' = [asessions EXCEPT ![i] = r]
    BY <1>4 DEF SetAdminCeremony, RequestAt
  <2>2. i \in DOMAIN asessions /\ request[w].ceremony \in Ceremonies \cup {Nobody}
    BY <1>0, <2>1 DEF RequestFine, Requests
  <2>3. /\ r \in SessionRows /\ r.subject = asessions[i].subject /\ r.from = asessions[i].from
        /\ r.full = asessions[i].full /\ r.ended = asessions[i].ended
    BY <1>s, <2>2 DEF SessionRows
  <2> HIDE DEF r, i
  <2>4. /\ asessions' \in Seq(SessionRows) /\ Len(asessions') <= MaxSessions
        /\ SessionsKept /\ OneFullSession' /\ \A j \in DOMAIN asessions' : SessionFine(j)'
    <3>1. CASE UNCHANGED asessions
      BY <1>0, <1>k, <2>1, <3>1, KeptSessions DEF AdminTypes
    <3>2. CASE asessions' = [asessions EXCEPT ![i] = r]
      BY <2>1, <2>2, <2>3, <3>2, SessionChanges
    <3>3. QED
      BY <2>1, <3>1, <3>2
  <2>5. DOMAIN request' = Workers /\ \A v \in Workers : RequestFine(v)'
    BY <1>k, <2>1, <2>4, AnswerFine
  <2>6. QED
    BY <1>0, <1>k, <2>1, <2>4, <2>5, AdminParts DEF AdminTypes, StepKept
<1>5. ASSUME NEW w \in Workers, ClearCeremony(w) PROVE AdminIInv' /\ StepKept
  <2> DEFINE i == MySession(w)
             r == [asessions[i] EXCEPT !.ceremony = Nobody]
             a == IF request[w].ceremony.kind = "register" THEN "addPasskey" ELSE "assertion"
  <2>1. /\ request[w] # Nobody /\ request[w].at = "clearCeremony" /\ Goes(w, a) /\ UNCHANGED <<passkeys, apiTokens>>
        /\ asessions' = [asessions EXCEPT ![i] = r]
    BY <1>5 DEF ClearCeremony, RequestAt
  <2>2. i \in DOMAIN asessions
    BY <1>0, <2>1 DEF RequestFine
  <2>3. /\ r \in SessionRows /\ r.subject = asessions[i].subject /\ r.from = asessions[i].from
        /\ r.full = asessions[i].full /\ r.ended = asessions[i].ended
    BY <1>s, <2>2 DEF SessionRows
  <2>4. a \in {"addPasskey", "assertion"}
    OBVIOUS
  <2> HIDE DEF r, i, a
  <2>5. /\ asessions' \in Seq(SessionRows) /\ Len(asessions') <= MaxSessions
        /\ SessionsKept /\ OneFullSession' /\ \A j \in DOMAIN asessions' : SessionFine(j)'
    BY <2>1, <2>2, <2>3, SessionChanges
  <2>6. DOMAIN request' = Workers /\ \A v \in Workers : RequestFine(v)'
    BY <1>k, <2>1, <2>4, <2>5, GoesOn
  <2>7. QED
    BY <1>0, <1>k, <2>1, <2>5, <2>6, AdminParts DEF AdminTypes, StepKept
<1>6. QED
  BY <1>1, <1>2, <1>3, <1>4, <1>5

\* The steps of requests that begin.
LEMMA BeginSteps ==
  ASSUME AdminIInv, NEW w \in Workers,
         \/ \E a \in Admins : AdmitCreate(w, a)
         \/ \E i \in DOMAIN asessions : RegisterBegin(w, i) \/ LoginBegin(w, i) \/ LoadCeremony(w, i)
         \/ \E i \in DOMAIN asessions, p \in DOMAIN passkeys : ApprovePasskey(w, i, p)
  PROVE  AdminIInv' /\ StepKept
<1>0. AdminTypes /\ asessions \in Seq(SessionRows) /\ passkeys \in Seq(PasskeyRows)
  BY DEF AdminIInv, AdminTypes
<1>1. ASSUME NEW x, request' = [request EXCEPT ![w] = x], UNCHANGED <<asessions, passkeys, apiTokens>>, RequestFine(w)'
      PROVE  AdminIInv' /\ StepKept
  <2>1. PasskeysKept /\ SessionsKept
    BY <1>1, KeptPasskeys, KeptSessions
  <2>2. DOMAIN request' = Workers /\ \A v \in Workers : RequestFine(v)'
    BY <1>1, <2>1, OneRequest
  <2>3. QED
    BY <1>1, <2>1, <2>2, OnlyRequests DEF StepKept
<1>i. \A i \in DOMAIN asessions : Browser(i) \in Identities /\ Browser(i).via = "session" /\ Browser(i).session = i
  BY <1>0 DEF Browser, Identities
<1>2. ASSUME NEW i \in DOMAIN asessions, NEW at \in {"setCeremony", "clearCeremony"}, NEW c \in Ceremonies,
             Begins(w, at, Browser(i), c), UNCHANGED <<asessions, passkeys, apiTokens>>
      PROVE  AdminIInv' /\ StepKept
  <2> DEFINE x == [at |-> at, by |-> Browser(i), ceremony |-> c, passkey |-> 0]
  <2>1. request' = [request EXCEPT ![w] = x]
    BY <1>2 DEF Begins
  <2>2. x \in Requests /\ x.at = at /\ x.by = Browser(i) /\ x.ceremony = c
    BY <1>i DEF Requests, RequestPlaces
  <2>3. request'[w] = x
    BY <1>0, <2>1 DEF AdminTypes
  <2> HIDE DEF x
  <2>4. RequestFine(w)'
    BY <1>2, <1>i, <2>2, <2>3 DEF RequestFine, BySession, MySession
  <2>5. QED
    BY <1>1, <1>2, <2>1, <2>4
<1>3. ASSUME NEW a \in Admins, AdmitCreate(w, a) PROVE AdminIInv' /\ StepKept
  <2> DEFINE x == [at |-> "createToken", by |-> a, ceremony |-> Nobody, passkey |-> 0]
  <2>1. request' = [request EXCEPT ![w] = x] /\ UNCHANGED <<asessions, passkeys, apiTokens>>
    BY <1>3 DEF AdmitCreate, Begins
  <2>2. a \in Identities
    <3>1. CASE a \in [via : {"session"}, session : {i \in DOMAIN asessions : ValidSession(i)}]
      BY <1>0, <3>1 DEF Identities
    <3>2. CASE a \in [via : {"token"}, token : {t \in apiTokens : UsableToken(t)}]
      BY <1>0, <3>2 DEF Identities, AdminTypes
    <3>3. CASE a = [via |-> "bootstrap"]
      BY <3>3 DEF Identities
    <3>4. QED
      BY <3>1, <3>2, <3>3 DEF Admins
  <2>3. x \in Requests /\ x.at = "createToken"
    BY <2>2 DEF Requests, RequestPlaces
  <2>4. request'[w] = x
    BY <1>0, <2>1 DEF AdminTypes
  <2> HIDE DEF x
  <2>5. RequestFine(w)'
    BY <2>3, <2>4 DEF RequestFine
  <2>6. QED
    BY <1>1, <2>1, <2>5
<1>4. ASSUME NEW i \in DOMAIN asessions, RegisterBegin(w, i) PROVE AdminIInv' /\ StepKept
  <2> DEFINE m == RegisterMode(asessions[i].subject, asessions[i].full)
             c == [kind |-> "register", mode |-> m]
  <2>1. Begins(w, "setCeremony", Browser(i), c) /\ UNCHANGED <<asessions, passkeys, apiTokens>>
    BY <1>4 DEF RegisterBegin
  <2>2. c \in Ceremonies
    BY DEF Ceremonies, Modes, RegisterMode
  <2>3. QED
    BY <1>2, <2>1, <2>2
<1>5. ASSUME NEW i \in DOMAIN asessions, LoginBegin(w, i) PROVE AdminIInv' /\ StepKept
  <2> DEFINE c == [kind |-> "login", mode |-> "login"]
  <2>1. Begins(w, "setCeremony", Browser(i), c) /\ UNCHANGED <<asessions, passkeys, apiTokens>>
    BY <1>5 DEF LoginBegin
  <2>2. c \in Ceremonies
    BY DEF Ceremonies, Modes
  <2>3. QED
    BY <1>2, <2>1, <2>2
<1>6. ASSUME NEW i \in DOMAIN asessions, LoadCeremony(w, i) PROVE AdminIInv' /\ StepKept
  <2> DEFINE c == asessions[i].ceremony
  <2>1. c # Nobody /\ Begins(w, "clearCeremony", Browser(i), c) /\ UNCHANGED <<asessions, passkeys, apiTokens>>
    BY <1>6 DEF LoadCeremony
  <2>2. c \in Ceremonies
    <3>1. asessions[i] \in SessionRows
      BY <1>0
    <3>2. QED
      BY <2>1, <3>1 DEF SessionRows
  <2>3. QED
    BY <1>2, <2>1, <2>2
<1>7. ASSUME NEW i \in DOMAIN asessions, NEW p \in DOMAIN passkeys, ApprovePasskey(w, i, p) PROVE AdminIInv' /\ StepKept
  <2> DEFINE x == [at |-> "approved", by |-> Browser(i), ceremony |-> Nobody, passkey |-> p]
  <2>1. /\ passkeys[p].subject # asessions[i].subject /\ request' = [request EXCEPT ![w] = x]
        /\ UNCHANGED <<asessions, passkeys, apiTokens>>
    BY <1>7 DEF ApprovePasskey
  <2>2. x \in Requests /\ x.at = "approved" /\ x.by = Browser(i) /\ x.passkey = p
    <3>1. p \in Nat
      BY <1>0
    <3>2. QED
      BY <1>i, <3>1 DEF Requests, RequestPlaces
  <2>3. request'[w] = x
    BY <1>0, <2>1 DEF AdminTypes
  <2> HIDE DEF x
  <2>4. RequestFine(w)'
    BY <1>i, <2>1, <2>2, <2>3 DEF RequestFine, BySession, MySession, Me
  <2>5. QED
    BY <1>1, <2>1, <2>4
<1>8. QED
  BY <1>3, <1>4, <1>5, <1>6, <1>7

\* The steps of passkeys.
LEMMA PasskeySteps ==
  ASSUME AdminIInv,
         \/ \E w \in Workers : AddPasskey(w) \/ Assertion(w) \/ PasskeyApproved(w)
         \/ \E p \in DOMAIN passkeys : RevokePasskey(p)
         \/ RevokeAllPasskeys
  PROVE  AdminIInv' /\ StepKept
<1>0. AdminTypes /\ (\A w \in Workers : RequestFine(w)) /\ (\A p \in DOMAIN passkeys : PasskeyFine(p))
      /\ asessions \in Seq(SessionRows) /\ passkeys \in Seq(PasskeyRows)
  BY DEF AdminIInv, AdminTypes
<1>p. \A p \in DOMAIN passkeys : passkeys[p] \in PasskeyRows
  BY <1>0
<1>n. Nobody \notin Subjects
  BY AdminAssumption
<1>s. ASSUME UNCHANGED asessions, PasskeysKept
      PROVE  /\ SessionsKept /\ OneFullSession' /\ (\A i \in DOMAIN asessions' : SessionFine(i)')
             /\ asessions' \in Seq(SessionRows) /\ Len(asessions') <= MaxSessions
  BY <1>0, <1>s, KeptSessions DEF AdminTypes
<1>r. ASSUME SessionsKept, PasskeysKept, UNCHANGED request
      PROVE  DOMAIN request' = Workers /\ \A v \in Workers : RequestFine(v)'
  BY <1>0, <1>r, KeptRequest DEF AdminTypes
<1>m. ASSUME NEW w \in Workers, request[w] # Nobody, request[w].at # "createToken" PROVE Me(w) \in Subjects
  <2>1. MySession(w) \in DOMAIN asessions
    BY <1>0, <1>m DEF RequestFine
  <2>2. asessions[MySession(w)] \in SessionRows
    BY <1>0, <2>1
  <2>3. QED
    BY <2>2 DEF Me, SessionRows
<1>1. ASSUME NEW w \in Workers, Answer(w), UNCHANGED <<asessions, passkeys, apiTokens>> PROVE AdminIInv' /\ StepKept
  <2>1. PasskeysKept /\ SessionsKept
    BY <1>1, KeptPasskeys, KeptSessions
  <2>2. QED
    BY <1>1, <2>1, AnswerFine, OnlyRequests DEF StepKept
<1>2. ASSUME NEW w \in Workers, AddPasskey(w) PROVE AdminIInv' /\ StepKept
  <2> DEFINE mode == request[w].ceremony.mode
             r == NewPasskey(Me(w), mode)
             a == IF mode = "first" THEN "revokeTokens" ELSE "raise"
  <2>1. /\ request[w] # Nobody /\ request[w].at = "addPasskey" /\ UNCHANGED <<asessions, apiTokens>>
        /\ \/ Answer(w) /\ UNCHANGED passkeys
           \/ /\ Len(passkeys) < MaxPasskeys /\ passkeys' = Append(passkeys, r)
              /\ IF mode = "pending" THEN Answer(w) ELSE Goes(w, a)
    BY <1>2 DEF AddPasskey, RequestAt
  <2>2. CASE Answer(w) /\ UNCHANGED passkeys
    BY <1>1, <2>1, <2>2
  <2>3. CASE /\ Len(passkeys) < MaxPasskeys /\ passkeys' = Append(passkeys, r)
             /\ IF mode = "pending" THEN Answer(w) ELSE Goes(w, a)
    <3>1. Me(w) \in Subjects
      BY <1>m, <2>1
    <3>2. mode \in Modes
      BY <1>0, <2>1 DEF RequestFine, Ceremonies
    <3>3. /\ r \in PasskeyRows /\ r.subject = Me(w) /\ r.mode = mode
          /\ r.by = (IF mode = "pending" THEN Nobody ELSE Me(w))
          /\ r.status = (IF mode = "pending" THEN "pending" ELSE "active")
      BY <3>1, <3>2 DEF NewPasskey, PasskeyRows
    <3> HIDE DEF r
    <3>4. /\ passkeys' \in Seq(PasskeyRows) /\ Len(passkeys') <= MaxPasskeys
          /\ PasskeysKept /\ (\A q \in DOMAIN passkeys' : PasskeyFine(q)')
          /\ \E q \in DOMAIN passkeys' : passkeys'[q] = r
      BY <1>n, <2>3, <3>1, <3>3, PasskeyAdded
    <3>5. /\ SessionsKept /\ OneFullSession' /\ (\A i \in DOMAIN asessions' : SessionFine(i)')
          /\ asessions' \in Seq(SessionRows) /\ Len(asessions') <= MaxSessions
      BY <1>s, <2>1, <3>4
    <3>6. DOMAIN request' = Workers /\ \A v \in Workers : RequestFine(v)'
      <4>1. CASE mode = "pending"
        BY <2>3, <3>4, <3>5, <4>1, AnswerFine
      <4>2. CASE mode # "pending"
        <5>1. a \in {"raise", "revokeTokens"} /\ Goes(w, a)
          BY <2>3, <4>2
        <5>2. \E p \in DOMAIN passkeys' : passkeys'[p].subject = Me(w) /\ passkeys'[p].by # Nobody
          BY <1>n, <3>1, <3>3, <3>4, <4>2
        <5> HIDE DEF a
        <5>3. QED
          BY <2>1, <3>4, <3>5, <5>1, <5>2, GoesOn
      <4>3. QED
        BY <4>1, <4>2
    <3>7. QED
      BY <1>0, <2>1, <3>4, <3>5, <3>6, AdminParts DEF AdminTypes, StepKept
  <2>4. QED
    BY <2>1, <2>2, <2>3
<1>3. ASSUME NEW w \in Workers, Assertion(w) PROVE AdminIInv' /\ StepKept
  <2>1. /\ request[w] # Nobody /\ request[w].at = "assertion" /\ UNCHANGED <<asessions, passkeys, apiTokens>>
        /\ Answer(w) \/ (OwnActive(Me(w)) # {} /\ Goes(w, "raise"))
    BY <1>3 DEF Assertion, RequestAt
  <2>2. CASE OwnActive(Me(w)) # {} /\ Goes(w, "raise")
    <3>1. PasskeysKept /\ SessionsKept
      BY <2>1, KeptPasskeys, KeptSessions
    <3>2. \E p \in DOMAIN passkeys : passkeys[p].subject = Me(w) /\ passkeys[p].status = "active"
      BY <2>2 DEF OwnActive, OwnPasskeys, ActivePasskeys
    <3>3. \E p \in DOMAIN passkeys' : passkeys'[p].subject = Me(w) /\ passkeys'[p].by # Nobody
      BY <1>0, <2>1, <3>2 DEF PasskeyFine
    <3>4. DOMAIN request' = Workers /\ \A v \in Workers : RequestFine(v)'
      BY <2>1, <2>2, <3>1, <3>3, GoesOn
    <3>5. QED
      BY <2>1, <3>1, <3>4, OnlyRequests DEF StepKept
  <2>3. QED
    BY <1>1, <2>1, <2>2
<1>4. ASSUME NEW w \in Workers, PasskeyApproved(w) PROVE AdminIInv' /\ StepKept
  <2> DEFINE p == request[w].passkey
             r == [passkeys[p] EXCEPT !.status = "active", !.by = Me(w)]
  <2>1. /\ request[w] # Nobody /\ request[w].at = "approved" /\ Answer(w) /\ UNCHANGED <<asessions, apiTokens>>
        /\ \/ passkeys[p].status = "pending" /\ passkeys' = [passkeys EXCEPT ![p] = r]
           \/ UNCHANGED passkeys
    BY <1>4 DEF PasskeyApproved, RequestAt
  <2>2. p \in DOMAIN passkeys /\ passkeys[p].subject # Me(w)
    BY <1>0, <2>1 DEF RequestFine
  <2>3. CASE UNCHANGED passkeys
    BY <1>1, <2>1, <2>3
  <2>4. CASE passkeys[p].status = "pending" /\ passkeys' = [passkeys EXCEPT ![p] = r]
    <3>1. Me(w) \in Subjects
      BY <1>m, <2>1
    <3>2. /\ r \in PasskeyRows /\ r.subject = passkeys[p].subject /\ r.mode = passkeys[p].mode
          /\ r.by = Me(w) /\ r.status = "active"
      BY <1>p, <2>2, <3>1 DEF PasskeyRows
    <3>3. passkeys[p].by = Nobody
      BY <1>0, <2>2, <2>4 DEF PasskeyFine
    <3> HIDE DEF r, p
    <3>4. /\ passkeys' \in Seq(PasskeyRows) /\ Len(passkeys') <= MaxPasskeys
          /\ PasskeysKept /\ \A q \in DOMAIN passkeys' : PasskeyFine(q)'
      BY <1>n, <2>2, <2>4, <3>1, <3>2, <3>3, PasskeyChanges
    <3>5. /\ SessionsKept /\ OneFullSession' /\ (\A i \in DOMAIN asessions' : SessionFine(i)')
          /\ asessions' \in Seq(SessionRows) /\ Len(asessions') <= MaxSessions
      BY <1>s, <2>1, <3>4
    <3>6. DOMAIN request' = Workers /\ \A v \in Workers : RequestFine(v)'
      BY <2>1, <3>4, <3>5, AnswerFine
    <3>7. QED
      BY <1>0, <2>1, <3>4, <3>5, <3>6, AdminParts DEF AdminTypes, StepKept
  <2>5. QED
    BY <2>1, <2>3, <2>4
<1>5. ASSUME NEW p \in DOMAIN passkeys, RevokePasskey(p) PROVE AdminIInv' /\ StepKept
  <2> DEFINE r == [passkeys[p] EXCEPT !.status = "revoked"]
  <2>1. passkeys' = [passkeys EXCEPT ![p] = r] /\ UNCHANGED <<asessions, apiTokens, request>>
    BY <1>5 DEF RevokePasskey
  <2>2. /\ r \in PasskeyRows /\ r.subject = passkeys[p].subject /\ r.mode = passkeys[p].mode
        /\ r.by = passkeys[p].by /\ r.status = "revoked"
    BY <1>p DEF PasskeyRows
  <2> HIDE DEF r
  <2>3. /\ passkeys' \in Seq(PasskeyRows) /\ Len(passkeys') <= MaxPasskeys
        /\ PasskeysKept /\ \A q \in DOMAIN passkeys' : PasskeyFine(q)'
    <3>1. (r.mode = "pending" /\ r.by # Nobody) => r.by # r.subject
      BY <1>0, <2>2 DEF PasskeyFine
    <3>2. QED
      BY <2>1, <2>2, <3>1, PasskeyChanges
  <2>4. /\ SessionsKept /\ OneFullSession' /\ (\A i \in DOMAIN asessions' : SessionFine(i)')
        /\ asessions' \in Seq(SessionRows) /\ Len(asessions') <= MaxSessions
    BY <1>s, <2>1, <2>3
  <2>5. QED
    BY <1>0, <1>r, <2>1, <2>3, <2>4, AdminParts DEF AdminTypes, StepKept
<1>6. CASE RevokeAllPasskeys
  <2>1. /\ passkeys' = [p \in DOMAIN passkeys |-> [passkeys[p] EXCEPT !.status = "revoked"]]
        /\ UNCHANGED <<asessions, apiTokens, request>>
    BY <1>6 DEF RevokeAllPasskeys
  <2>2. ASSUME NEW p \in DOMAIN passkeys
        PROVE  /\ passkeys'[p] \in PasskeyRows /\ passkeys'[p].subject = passkeys[p].subject
               /\ passkeys'[p].mode = passkeys[p].mode
               /\ passkeys'[p].by = passkeys[p].by /\ passkeys'[p].status = "revoked"
    <3> DEFINE r == [passkeys[p] EXCEPT !.status = "revoked"]
    <3>1. passkeys'[p] = r
      BY <2>1
    <3>2. /\ r \in PasskeyRows /\ r.subject = passkeys[p].subject /\ r.mode = passkeys[p].mode
          /\ r.by = passkeys[p].by /\ r.status = "revoked"
      BY <1>p DEF PasskeyRows
    <3>3. QED
      BY <3>1, <3>2
  <2>3. DOMAIN passkeys' = DOMAIN passkeys /\ DOMAIN passkeys = 1 .. Len(passkeys) /\ Len(passkeys) \in Nat
    BY <1>0, <2>1
  <2>4. passkeys' \in Seq(PasskeyRows) /\ Len(passkeys') = Len(passkeys)
    <3>1. passkeys' = [p \in 1 .. Len(passkeys) |-> passkeys'[p]]
      BY <2>1, <2>3
    <3>2. passkeys' \in [1 .. Len(passkeys) -> PasskeyRows]
      BY <2>2, <2>3, <3>1
    <3>3. passkeys' \in Seq(PasskeyRows)
      BY <2>3, <3>2, SeqDef
    <3>4. QED
      BY <2>3, <3>3, LenProperties
  <2>5. PasskeysKept /\ \A p \in DOMAIN passkeys' : PasskeyFine(p)'
    BY <1>0, <2>2, <2>3 DEF PasskeysKept, PasskeyFine
  <2>6. /\ SessionsKept /\ OneFullSession' /\ (\A i \in DOMAIN asessions' : SessionFine(i)')
        /\ asessions' \in Seq(SessionRows) /\ Len(asessions') <= MaxSessions
    BY <1>s, <2>1, <2>5
  <2>7. QED
    BY <1>0, <1>r, <2>1, <2>4, <2>5, <2>6, AdminParts DEF AdminTypes, StepKept
<1>7. QED
  BY <1>2, <1>3, <1>4, <1>5, <1>6

\* The steps of tokens.
LEMMA TokenSteps ==
  ASSUME AdminIInv,
         \/ \E w \in Workers : CreateToken(w) \/ RevokeBootstrapTokens(w)
         \/ \E t \in apiTokens : RevokeToken(t)
  PROVE  AdminIInv' /\ StepKept
<1>0. AdminTypes /\ (\A w \in Workers : RequestFine(w))
  BY DEF AdminIInv
<1>1. ASSUME UNCHANGED <<asessions, passkeys>>, apiTokens' \subseteq Tokens, DOMAIN request' = Workers,
             \A v \in Workers : RequestFine(v)'
      PROVE  AdminIInv' /\ StepKept
  <2>1. PasskeysKept /\ \A p \in DOMAIN passkeys' : PasskeyFine(p)'
    BY <1>1, KeptPasskeys
  <2>2. SessionsKept /\ OneFullSession' /\ \A i \in DOMAIN asessions' : SessionFine(i)'
    BY <1>1, <2>1, KeptSessions
  <2>3. QED
    BY <1>0, <1>1, <2>1, <2>2, AdminParts DEF AdminTypes, StepKept
<1>k. ASSUME UNCHANGED <<asessions, passkeys>> PROVE SessionsKept /\ PasskeysKept
  BY <1>k, KeptPasskeys, KeptSessions
<1>2. ASSUME NEW w \in Workers, CreateToken(w) PROVE AdminIInv' /\ StepKept
  <2> DEFINE a == request[w].by
             b == a.via = "bootstrap" \/ (a.via = "token" /\ a.token.bootstrap)
             t == [bootstrap |-> b, root |-> Rooted(a)]
  <2>1. /\ request[w] # Nobody /\ Answer(w) /\ UNCHANGED <<asessions, passkeys>> /\ apiTokens' = apiTokens \cup {t}
    BY <1>2 DEF CreateToken, RequestAt, CreateAPIToken
  <2>2. a \in Identities
    BY <1>0, <2>1 DEF RequestFine, Requests
  <2>3. Rooted(a) => b
    BY <2>2 DEF Rooted, Identities, Tokens
  <2>4. Rooted(a) \in BOOLEAN /\ b \in BOOLEAN
    BY DEF Rooted
  <2>5. t \in Tokens
    BY <2>3, <2>4 DEF Tokens
  <2>6. DOMAIN request' = Workers /\ \A v \in Workers : RequestFine(v)'
    BY <1>k, <2>1, AnswerFine
  <2>7. QED
    BY <1>0, <1>1, <2>1, <2>5, <2>6 DEF AdminTypes
<1>3. ASSUME NEW w \in Workers, RevokeBootstrapTokens(w) PROVE AdminIInv' /\ StepKept
  <2>1. /\ request[w] # Nobody /\ request[w].at = "revokeTokens" /\ Goes(w, "raise") /\ UNCHANGED <<asessions, passkeys>>
        /\ apiTokens' \subseteq apiTokens
    BY <1>3 DEF RevokeBootstrapTokens, RequestAt
  <2>2. \E p \in DOMAIN passkeys' : passkeys'[p].subject = Me(w) /\ passkeys'[p].by # Nobody
    BY <1>0, <2>1 DEF RequestFine, HadPasskey
  <2>3. DOMAIN request' = Workers /\ \A v \in Workers : RequestFine(v)'
    BY <1>k, <2>1, <2>2, GoesOn
  <2>4. QED
    BY <1>0, <1>1, <2>1, <2>3 DEF AdminTypes
<1>4. ASSUME NEW t \in apiTokens, RevokeToken(t) PROVE AdminIInv' /\ StepKept
  <2>1. apiTokens' \subseteq apiTokens /\ UNCHANGED <<asessions, passkeys, request>>
    BY <1>4 DEF RevokeToken
  <2>2. DOMAIN request' = Workers /\ \A v \in Workers : RequestFine(v)'
    BY <1>0, <1>k, <2>1, KeptRequest DEF AdminTypes
  <2>3. QED
    BY <1>0, <1>1, <2>1, <2>2 DEF AdminTypes
<1>5. QED
  BY <1>2, <1>3, <1>4

LEMMA AdminSteps == ASSUME AdminIInv, [AdminNext]_adminVars PROVE AdminIInv' /\ StepKept
<1>1. CASE UNCHANGED adminVars
  <2>1. UNCHANGED <<asessions, passkeys, apiTokens>> /\ UNCHANGED request
    BY <1>1 DEF adminVars
  <2>2. PasskeysKept /\ SessionsKept
    BY <2>1, KeptPasskeys, KeptSessions
  <2>3. DOMAIN request' = Workers /\ \A v \in Workers : RequestFine(v)'
    BY <2>1, <2>2, KeptRequest DEF AdminIInv, AdminTypes
  <2>4. QED
    BY <2>1, <2>2, <2>3, OnlyRequests DEF StepKept
<1>2. CASE AdminNext
  <2>1. ASSUME NEW w \in Workers,
               \/ \E a \in Admins : AdmitCreate(w, a)
               \/ \E i \in DOMAIN asessions : RegisterBegin(w, i) \/ LoginBegin(w, i) \/ LoadCeremony(w, i)
               \/ \E i \in DOMAIN asessions, p \in DOMAIN passkeys : ApprovePasskey(w, i, p)
        PROVE  AdminIInv' /\ StepKept
    BY <2>1, BeginSteps
  <2>2. ASSUME \/ \E s \in Subjects : CreateAdminSession(s)
               \/ \E i \in DOMAIN asessions : Logout(i)
               \/ \E w \in Workers : RaiseSession(w) \/ SetAdminCeremony(w) \/ ClearCeremony(w)
        PROVE  AdminIInv' /\ StepKept
    BY <2>2, SessionSteps
  <2>3. ASSUME \/ \E w \in Workers : AddPasskey(w) \/ Assertion(w) \/ PasskeyApproved(w)
               \/ \E p \in DOMAIN passkeys : RevokePasskey(p)
               \/ RevokeAllPasskeys
        PROVE  AdminIInv' /\ StepKept
    BY <2>3, PasskeySteps
  <2>4. ASSUME \/ \E w \in Workers : CreateToken(w) \/ RevokeBootstrapTokens(w)
               \/ \E t \in apiTokens : RevokeToken(t)
        PROVE  AdminIInv' /\ StepKept
    BY <2>4, TokenSteps
  <2>5. QED
    BY <1>2, <2>1, <2>2, <2>3, <2>4 DEF AdminNext
<1>3. QED
  BY <1>1, <1>2

LEMMA AdminStarts == AdminInit => AdminIInv
<1> SUFFICES ASSUME AdminInit PROVE AdminIInv
  OBVIOUS
<1>1. /\ asessions = <<>> /\ passkeys = <<>> /\ apiTokens = {} /\ DOMAIN request = Workers
      /\ \A w \in Workers : request[w] = Nobody
  BY DEF AdminInit
<1>2. AdminTypes
  BY <1>1, EmptySeq, AdminAssumption DEF AdminTypes
<1>3. QED
  BY <1>1, <1>2 DEF AdminIInv, OneFullSession, RequestFine

LEMMA AdminGives == AdminIInv => AdminInv
<1> SUFFICES ASSUME AdminIInv PROVE AdminInv
  OBVIOUS
<1>0. AdminTypes /\ (\A i \in DOMAIN asessions : SessionFine(i)) /\ (\A p \in DOMAIN passkeys : PasskeyFine(p))
  BY DEF AdminIInv
<1>1. AdminTypeOK
  <2>1. \A i \in DOMAIN asessions : asessions[i] \in SessionRows
    BY <1>0 DEF AdminTypes
  <2>2. \A p \in DOMAIN passkeys : passkeys[p] \in PasskeyRows
    BY <1>0 DEF AdminTypes
  <2>3. \A i \in DOMAIN asessions : asessions[i].subject \in Subjects /\ asessions[i].from \in 0 .. i - 1
    BY <1>0, <2>1 DEF SessionFine, SessionRows
  <2>4. \A p \in DOMAIN passkeys :
          /\ passkeys[p].status \in {"pending", "active", "revoked"}
          /\ passkeys[p].status = "pending" <=> passkeys[p].by = Nobody /\ passkeys[p].status # "revoked"
    BY <1>0, <2>2 DEF PasskeyFine, PasskeyRows
  <2>5. QED
    BY <1>0, <2>3, <2>4 DEF AdminTypeOK, AdminTypes
<1>2. FullHadPasskey
  BY <1>0 DEF SessionFine, HadPasskey, FullHadPasskey, OwnPasskeys
<1>3. BootstrapChainDies
  BY <1>0 DEF AdminTypes, Tokens, BootstrapChainDies, UsableToken
<1>4. ApprovedByAnother
  BY <1>0 DEF PasskeyFine, ApprovedByAnother
<1>5. QED
  BY <1>1, <1>2, <1>3, <1>4 DEF AdminInv, AdminIInv

\* One sign-in gives one full session, whoever has one has had a passkey in
\* force, what the bootstrap token minted is of no use while a passkey is
\* active, and a passkey that had to be approved was approved by somebody else,
\* for any number of people, browsers and requests beside each other
\* (raiseSession, LookupAPIToken, adminApprovePasskey).
THEOREM AdminSound == AdminSpec => []AdminInv
<1>1. AdminIInv /\ [AdminNext]_adminVars => AdminIInv'
  BY AdminSteps
<1>2. QED
  BY <1>1, AdminStarts, AdminGives, PTL DEF AdminSpec

\* No session that exists gains full rights and no revoked passkey comes back
\* (RaiseAdminSession, db.ApprovePasskey).
THEOREM AdminKept == AdminSpec => NoSessionGainsRights /\ RevokedStays
<1>1. AdminIInv /\ [AdminNext]_adminVars => AdminIInv'
  BY AdminSteps
<1>2. ASSUME AdminIInv, [AdminNext]_adminVars
      PROVE  /\ [\A i \in DOMAIN asessions : asessions'[i].full => asessions[i].full]_adminVars
             /\ [\A p \in DOMAIN passkeys : passkeys[p].status = "revoked" => passkeys'[p].status = "revoked"]_adminVars
  BY <1>2, AdminSteps DEF StepKept, SessionsKept, PasskeysKept
<1>3. QED
  BY <1>1, <1>2, AdminStarts, PTL DEF AdminSpec, NoSessionGainsRights, RevokedStays

-----------------------------------------------------------------------------
(***************************************************************************)
(* The composition.  A behaviour has one focus; what it is about goes its  *)
(* way and the others stand still.                                         *)
(***************************************************************************)

\* A step of the composition is a step, or none, of every component.
LEMMA ControlStepSplit ==
  [ControlNext]_<<focus, listVars, adminVars, adminLoginVars, limitVars>> =>
    [ListNext]_listVars /\ [AdminNext]_adminVars /\ [AdminLoginNext]_adminLoginVars /\ [LimitNext]_limitVars
  BY DEF ControlNext, RacesNext, ApprovalsNext

LEMMA ControlSplit == ControlSpec => ListSpec /\ AdminSpec /\ AdminLoginSpec /\ LimitSpec
<1>1. ControlInit => ListInit /\ AdminInit /\ AdminLoginInit /\ LimitInit
  BY DEF ControlInit
<1>2. QED
  BY <1>1, ControlStepSplit, PTL DEF ControlSpec, ListSpec, AdminSpec, AdminLoginSpec, LimitSpec

\* Access lists, administrators, their sign-ins and the rate limit before them
\* keep their invariants beside each other (MCControl).
THEOREM ControlSound == ControlSpec => [](ListsInv /\ AdminInv /\ SignInInv)
<1>1. AdminLoginInv /\ LimitInv => SignInInv
  BY DEF SignInInv
<1>2. QED
  BY <1>1, ControlSplit, ListsSound, AdminSound, AdminLoginSound, LimitSound, PTL

\* No step takes a list from under a policy that names it, changes what nodes
\* are given without raising the snapshot version, raises a session that
\* exists, brings a revoked passkey back, or lets a login that has ended sign
\* somebody in (UpdateList, SaveListFetch, RaiseAdminSession, ApprovePasskey,
\* AdminLoginFlowByState).
THEOREM ControlKept == ControlSpec => ControlSteps
<1>1. QED
  BY ControlSplit, ListsKept, AdminKept, EndedGivesNone, PTL DEF ControlSteps

=============================================================================
