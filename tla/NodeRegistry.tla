---------------------------- MODULE NodeRegistry ----------------------------
(***************************************************************************)
(* The control plane's node table: enrollment, the administrator's grant,  *)
(* the signing step, revocation, changes of the admin key list and of the  *)
(* overlay pool.  What is approved here is what snapshots carry.           *)
(*                                                                         *)
(* An action is one SQLite transaction, and the database has one writer.   *)
(* HTTP handlers run concurrently and are not transactions: they read,     *)
(* decide, and then run the transaction, with anything in between.  Two    *)
(* kinds of handler carry such a decision across other transactions:       *)
(*   - signPostSignature verifies a signature over the statement it read   *)
(*     and then calls ApproveSigned or StoreRevocation.  `posts' holds the *)
(*     verified requests that have not reached their transaction.          *)
(*   - adminConfirmNode, adminPatchNode and adminRevocationToken read the  *)
(*     pool and the status and then call ConfirmNode, UpdateNode and       *)
(*     CreateSignToken.  A request can be arbitrarily slow, so the pool it *)
(*     uses is any pool the network ever had, and the status it saw is any *)
(*     the row ever had.                                                   *)
(*                                                                         *)
(* Abstractions.  The grant is its list of prefixes (the one signed field  *)
(* compared by a loop of its own, equalPrefixes) and the overlay address;  *)
(* name and public address, unsigned, are `addr'.  Pools have the same     *)
(* size, so an address is a pool and a host number.  The chain behind the  *)
(* admin key list is SignerChain's subject; here it is the set of keys.    *)
(* User sessions, which RevokeNode ends, are LoginSessions' subject.  The  *)
(* clock does not go back.                                                 *)
(***************************************************************************)
EXTENDS Naturals, Sequences

CONSTANTS
  Ids,          \* row ids NewID returns, each at most once
  DeviceKeys,   \* SPKI hashes
  AdminKeys,    \* fingerprints of admin signing keys
  Prefixes,     \* networks a router announces
  PrefixLists,  \* the prefix lists an administrator grants
  Pools,        \* overlay pools
  MaxHost,      \* host numbers of a pool are 1..MaxHost
  Addrs,        \* public addresses
  None,         \* no key, address, token or binding
  MaxTime,      \* bound on the clock
  MaxTokens,    \* bound on sign tokens minted
  MaxVersion    \* bound on the snapshot version

Hosts == 1..MaxHost
Overlays == Pools \X Hosts
Token == [n : 1..MaxTokens, issued : 1..MaxTime]

ASSUME RegistryAssumption ==
  /\ PrefixLists \subseteq Seq(Prefixes)
  /\ MaxHost \in Nat \ {0}
  /\ MaxTime \in Nat
  /\ MaxTokens \in Nat
  /\ MaxVersion \in Nat
  /\ Pools # {}
  /\ None \notin Overlays \cup AdminKeys \cup DeviceKeys \cup Token

VARIABLES
  nodes,        \* table nodes
  tokens,       \* table sign_tokens: the unused token of each node
  posts,        \* signatures verified, transaction still to come
  revocations,  \* table revocations: time of issue, 0 for none
  keys,         \* keys of the head of the admin key list
  network,      \* settings: the pool
  pools,        \* pools the network ever had
  version,      \* snapshot_version
  minted,       \* tokens minted so far
  clock,        \* seconds
  signed        \* per id, time of the newest binding a key ever signed

vars == <<nodes, tokens, posts, revocations, keys, network, pools, version, minted, clock, signed>>

Status == {"none", "pending", "confirmed", "approved", "revoked", "deleted"}
Present == {"pending", "confirmed", "approved", "revoked"}

-----------------------------------------------------------------------------
(***************************************************************************)
(* Helpers.                                                                *)
(***************************************************************************)

\* Binding.Normalize: what of a prefix list is signed.
Listed(l) == {l[i] : i \in DOMAIN l}

\* equalPrefixes: same length, and every prefix of a is one of b's.
equalPrefixes(a, b) ==
  /\ Len(a) = Len(b)
  /\ \A i \in DOMAIN a : \E j \in DOMAIN b : a[i] = b[j]

InPool(ip, pool) == ip # None /\ ip[1] = pool

Taken(ip, ids) == \E i \in ids : nodes[i].ip = ip

\* nextFreeOverlay: the lowest unused host of the pool.
IsNextFree(ip, pool) ==
  /\ InPool(ip, pool)
  /\ ~Taken(ip, Ids)
  /\ \A h \in Hosts : h < ip[2] => Taken(<<pool, h>>, Ids)

NoRow == [key |-> None, status |-> "none", prefixes |-> <<>>, ip |-> None, addr |-> None, binding |-> None]

\* A row back at "confirmed", without its signature.
Demoted(row) == [row EXCEPT !.status = "confirmed", !.binding = None]

\* Mutant: the overlay address is forgotten.
SignedChangedPrefixes(cur, list, to) == ~equalPrefixes(list, cur.prefixes)

\* UpdateNode: a signed field differs.  An address is compared exactly.
SignedChanged(cur, list, to) == ~equalPrefixes(list, cur.prefixes) \/ to # cur.ip

Bump == version < MaxVersion /\ version' = version + 1

-----------------------------------------------------------------------------
Init ==
  /\ nodes = [i \in Ids |-> NoRow]
  /\ tokens = [i \in Ids |-> None]
  /\ posts = {}
  /\ revocations = [i \in Ids |-> 0]
  /\ keys = {}
  /\ network \in Pools
  /\ pools = {network}
  /\ version = 0
  /\ minted = 0
  /\ clock = 1
  /\ signed = [i \in Ids |-> 0]

\* A key that is known, with any status, is a conflict.
CreatePending(id, key) ==
  /\ nodes[id].status = "none"
  /\ \A i \in Ids : nodes[i].status \in Present => nodes[i].key # key
  /\ nodes' = [nodes EXCEPT ![id] = [NoRow EXCEPT !.key = key, !.status = "pending"]]
  /\ UNCHANGED <<tokens, posts, revocations, keys, network, pools, version, minted, clock, signed>>

\* adminConfirmNode's checks, then ConfirmNode: ip = None asks for the
\* address the node has, or the next free one.
ConfirmNode(id, list, ip, addr, pool) ==
  /\ keys # {}
  /\ nodes[id].status \in {"pending", "confirmed"}
  /\ ip # None => InPool(ip, pool)
  /\ LET want == IF ip # None THEN ip ELSE nodes[id].ip
     IN  \E to \in Overlays :
           /\ IF InPool(want, pool) THEN to = want ELSE IsNextFree(to, pool)
           /\ ~Taken(to, Ids \ {id})
           /\ nodes' = [nodes EXCEPT ![id] =
                [@ EXCEPT !.status = "confirmed", !.prefixes = list, !.ip = to, !.addr = addr, !.binding = None]]
  /\ tokens' = [tokens EXCEPT ![id] = None]
  /\ UNCHANGED <<posts, revocations, keys, network, pools, version, minted, clock, signed>>

\* UpdateNode: ip = None keeps the address.  Only the grant of a confirmed or
\* approved node is validated; a change to a signed field takes an approval
\* and the unused token back.
UpdateNode(id, list, ip, addr, pool) ==
  /\ nodes[id].status \in {"pending", "confirmed", "approved"}
  /\ LET cur == nodes[id]
         to == IF ip = None THEN cur.ip ELSE ip
         signedChanged == SignedChanged(cur, list, to)
         row == [cur EXCEPT !.prefixes = list, !.ip = to, !.addr = addr]
     IN  /\ cur.status # "pending" => InPool(to, pool)
         /\ to # None => ~Taken(to, Ids \ {id})
         /\ nodes' = [nodes EXCEPT ![id] =
              IF cur.status = "approved" /\ signedChanged THEN Demoted(row) ELSE row]
         /\ tokens' = [tokens EXCEPT ![id] = IF signedChanged /\ cur.status # "pending" THEN None ELSE @]
         /\ IF cur.status = "approved" THEN Bump ELSE UNCHANGED version
  /\ UNCHANGED <<posts, revocations, keys, network, pools, minted, clock, signed>>

\* Mutant: any row is deleted.
RejectAny(id) ==
  /\ nodes[id].status \in Present
  /\ nodes' = [nodes EXCEPT ![id] = [NoRow EXCEPT !.status = "deleted"]]
  /\ tokens' = [tokens EXCEPT ![id] = None]
  /\ UNCHANGED <<posts, revocations, keys, network, pools, version, minted, clock, signed>>

\* RejectNode deletes a pending or confirmed row and, by the foreign key, its
\* tokens; ExpirePending does so with a pending row.
RejectNode(id) ==
  /\ nodes[id].status \in {"pending", "confirmed"}
  /\ nodes' = [nodes EXCEPT ![id] = [NoRow EXCEPT !.status = "deleted"]]
  /\ tokens' = [tokens EXCEPT ![id] = None]
  /\ UNCHANGED <<posts, revocations, keys, network, pools, version, minted, clock, signed>>

\* Mutant: nobody is told.
RevokeSilently(id) ==
  /\ nodes[id].status \in {"approved", "confirmed"}
  /\ nodes' = [nodes EXCEPT ![id].status = "revoked", ![id].ip = None]
  /\ UNCHANGED <<tokens, posts, revocations, keys, network, pools, version, minted, clock, signed>>

\* RevokeNode frees the address and leaves an unused token alone.
RevokeNode(id) ==
  /\ nodes[id].status \in {"approved", "confirmed"}
  /\ nodes' = [nodes EXCEPT ![id].status = "revoked", ![id].ip = None]
  /\ Bump
  /\ UNCHANGED <<tokens, posts, revocations, keys, network, pools, minted, clock, signed>>

\* withSignToken saw the row confirmed or revoked at some earlier time.  The
\* new token replaces the unused one; its time becomes `issued'.
CreateSignToken(id, now) ==
  /\ nodes[id].status \in {"confirmed", "approved", "revoked"}
  /\ minted < MaxTokens
  /\ now <= MaxTime
  /\ minted' = minted + 1
  /\ clock' = now
  /\ tokens' = [tokens EXCEPT ![id] = [n |-> minted + 1, issued |-> now]]
  /\ UNCHANGED <<nodes, posts, revocations, keys, network, pools, version, signed>>

ExpireSignTokens(id) ==
  /\ tokens[id] # None
  /\ tokens' = [tokens EXCEPT ![id] = None]
  /\ UNCHANGED <<nodes, posts, revocations, keys, network, pools, version, minted, clock, signed>>

\* signPostSignature up to its transaction: the token is unused, the
\* statement is built from the row as it is, and the signature over it is by
\* a key of the list.
PostSignature(id, by) ==
  /\ tokens[id] # None
  /\ by \in keys
  /\ nodes[id].status \in {"confirmed", "revoked"}
  /\ posts' = posts \cup
       {[id |-> id, token |-> tokens[id], revocation |-> nodes[id].status = "revoked",
         prefixes |-> Listed(nodes[id].prefixes), ip |-> nodes[id].ip, by |-> by]}
  /\ signed' = IF nodes[id].status = "confirmed" THEN [signed EXCEPT ![id] = tokens[id].issued] ELSE signed
  /\ UNCHANGED <<nodes, tokens, revocations, keys, network, pools, version, minted, clock>>

\* The token must still be unused and the node still be confirmed.
ApproveSigned(p) ==
  /\ ~p.revocation
  /\ tokens[p.id] = p.token
  /\ nodes[p.id].status = "confirmed"
  /\ tokens' = [tokens EXCEPT ![p.id] = None]
  /\ nodes' = [nodes EXCEPT ![p.id].status = "approved",
                            ![p.id].binding = [prefixes |-> p.prefixes, ip |-> p.ip, by |-> p.by]]
  /\ posts' = posts \ {p}
  /\ Bump
  /\ UNCHANGED <<revocations, keys, network, pools, minted, clock, signed>>

\* A newer revocation replaces the older one.
StoreRevocation(p) ==
  /\ p.revocation
  /\ tokens[p.id] = p.token
  /\ nodes[p.id].status = "revoked"
  /\ tokens' = [tokens EXCEPT ![p.id] = None]
  /\ revocations' = [revocations EXCEPT ![p.id] = p.token.issued]
  /\ posts' = posts \ {p}
  /\ Bump
  /\ UNCHANGED <<nodes, keys, network, pools, minted, clock, signed>>

\* ApplySignerSet: the next list, and what the last one alone had approved
\* goes back to confirmed.
ApplySignerSet(next) ==
  /\ next # {}
  /\ next # keys
  /\ keys' = next
  /\ nodes' = [i \in Ids |->
       IF nodes[i].status = "approved" /\ nodes[i].binding.by \notin next THEN Demoted(nodes[i]) ELSE nodes[i]]
  /\ Bump
  /\ UNCHANGED <<tokens, posts, revocations, network, pools, minted, clock, signed>>

\* RenumberNetwork: who is outside the new pool moves to the same host in it,
\* or nothing changes when that address is somebody's who stays.
RenumberNetwork(pool) ==
  LET moved == {i \in Ids : /\ nodes[i].status \in {"confirmed", "approved"}
                            /\ nodes[i].ip # None
                            /\ ~InPool(nodes[i].ip, pool)}
      To(i) == <<pool, nodes[i].ip[2]>>
  IN  /\ \A i \in moved : ~Taken(To(i), Ids \ moved)
      /\ \A i, j \in moved : To(i) = To(j) => i = j
      /\ network' = pool
      /\ pools' = pools \cup {pool}
      /\ nodes' = [i \in Ids |->
           IF i \notin moved THEN nodes[i]
           ELSE LET row == [nodes[i] EXCEPT !.ip = To(i)]
                IN  IF row.status = "approved" THEN Demoted(row) ELSE row]
      /\ Bump
      /\ UNCHANGED <<tokens, posts, revocations, keys, minted, clock, signed>>

Next ==
  \/ \E id \in Ids, key \in DeviceKeys : CreatePending(id, key)
  \/ \E id \in Ids, list \in PrefixLists, ip \in Overlays \cup {None}, addr \in Addrs, pool \in pools :
       ConfirmNode(id, list, ip, addr, pool) \/ UpdateNode(id, list, ip, addr, pool)
  \/ \E id \in Ids : RejectNode(id) \/ RevokeNode(id) \/ ExpireSignTokens(id)
  \/ \E id \in Ids, now \in {clock, clock + 1} : CreateSignToken(id, now)
  \/ \E id \in Ids, by \in AdminKeys : PostSignature(id, by)
  \/ \E p \in posts : ApproveSigned(p) \/ StoreRevocation(p)
  \/ \E next \in SUBSET AdminKeys : ApplySignerSet(next)
  \/ \E pool \in Pools : RenumberNetwork(pool)

Spec == Init /\ [][Next]_vars

-----------------------------------------------------------------------------
Lists == PrefixLists \cup {<<>>}
Binding == [prefixes : {Listed(l) : l \in Lists}, ip : Overlays \cup {None}, by : AdminKeys]
Row == [key : DeviceKeys \cup {None}, status : Status, prefixes : Lists, ip : Overlays \cup {None},
        addr : Addrs \cup {None}, binding : Binding \cup {None}]
Post == [id : Ids, token : Token, revocation : BOOLEAN, prefixes : {Listed(l) : l \in Lists},
         ip : Overlays \cup {None}, by : AdminKeys]

TypeOK ==
  /\ nodes \in [Ids -> Row]
  /\ tokens \in [Ids -> Token \cup {None}]
  /\ posts \in SUBSET Post
  /\ revocations \in [Ids -> 0..MaxTime]
  /\ keys \in SUBSET AdminKeys
  /\ network \in Pools
  /\ pools \in SUBSET Pools
  /\ version \in 0..MaxVersion
  /\ minted \in 0..MaxTokens
  /\ clock \in 1..(MaxTime + 1)
  /\ signed \in [Ids -> 0..MaxTime]

\* Every record a snapshot carries is the one that was signed: an approved
\* row's prefixes and address are those of its stored binding, so that
\* Binding.Matches holds on every peer (ApproveSigned: "The caller has
\* verified the signature against the current grant").
RecordMatches ==
  \A i \in Ids : nodes[i].status = "approved" =>
    /\ nodes[i].binding.prefixes = Listed(nodes[i].prefixes)
    /\ nodes[i].binding.ip = nodes[i].ip

\* A stored revocation is of a revoked node and covers every binding a key
\* ever signed for it, stored or not: binding.Guard refuses what was issued
\* at or before the revocation, so anything newer would survive it.
RevocationCovers ==
  \A i \in Ids : revocations[i] # 0 => nodes[i].status = "revoked" /\ signed[i] <= revocations[i]

\* A revoked row keeps its key and stays revoked, and no other row is ever
\* created for that key ("the key can never be re-approved", RevokeNode).
RevokedForever ==
  [][\A i \in Ids : nodes[i].status = "revoked" =>
       /\ nodes'[i].status = "revoked"
       /\ nodes'[i].key = nodes[i].key
       /\ \A j \in Ids \ {i} : nodes'[j].status \in Present => nodes'[j].key # nodes[i].key]_vars

\* What snapshots carry: approved records, revocations, the key list and the
\* pool (snapshot.Service.load).
Carried ==
  <<[i \in {j \in Ids : nodes[j].status = "approved"} |-> nodes[i]], revocations, keys, network>>

\* Whatever changes what snapshots carry raises the version: nodes ask for
\* "newer than the version I have", so a change under the same version would
\* never reach them.
CarriedChangeBumps == [][Carried' # Carried => version' > version]_vars

\* What no step of the registry does: bring a revoked key back (CreateNode,
\* RevokeNode), or change what snapshots carry under an unchanged version.
RegistrySteps == RevokedForever /\ CarriedChangeBumps

\* "every approved node whose binding was signed by a key that is no longer
\* in the list goes back to confirmed" (ApplySignerSet): nobody is approved
\* by a key that is not listed.
ApprovedByListedKey == \A i \in Ids : nodes[i].status = "approved" => nodes[i].binding.by \in keys

=============================================================================
