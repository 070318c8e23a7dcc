----------------------------- MODULE SignerChain -----------------------------
(***************************************************************************)
(* The signed list of admin keys: how it is changed at the control plane   *)
(* (proposeSigners, signPostSigners, ApplySignerSet) and how nodes follow  *)
(* it (binding.VerifyChain through anchors.Files.Follow).                  *)
(*                                                                         *)
(* A set names its predecessor by hash.  Hashes do not collide, so a set   *)
(* is the sequence of entries [version, keys] from its genesis to itself:  *)
(* its version and keys are those of the last entry, Prev is the rest.     *)
(* The version is a field of its own, because whoever signs can write any  *)
(* number into it.                                                         *)
(*                                                                         *)
(* Signatures cannot be forged: `published' holds every link anybody       *)
(* signed.  Honest administrators sign proposals; the holder of a rogue    *)
(* key signs anything of valid form.  An honest control plane serves the   *)
(* chain it stores, or stored earlier; a hostile one serves any sequence   *)
(* of published links.                                                     *)
(*                                                                         *)
(* propose and post are HTTP handlers: they read the chain, decide, and    *)
(* then run their transaction.  `posts' holds verified signatures whose    *)
(* transaction is still to come.                                           *)
(*                                                                         *)
(* Abstractions.  Follow has the new list on disk before it returns, so    *)
(* memory and disk are one variable and a failed write is no step.  The    *)
(* directory of key names, and the nodes a removal demotes (NodeRegistry), *)
(* are not here.                                                           *)
(***************************************************************************)
EXTENDS Naturals, Sequences, FiniteSets, SequencesExt

CONSTANTS
  SignerNodes,
  AdminKeys,           \* admin keys
  Rogue,          \* keys whose holder signs anything
  Provisioned,    \* nodes configured with signers_genesis
  NoChange,
  MaxListVersion,     \* bound on version fields
  MaxChain,       \* binding.MaxChain
  MaxProposals,   \* bound on proposals
  MaxRogue        \* bound on what rogue keys sign

KeyLists == SUBSET AdminKeys \ {{}}
Entry == [version : 1..MaxListVersion, keys : KeyLists]

\* SignerSet.Validate: only the genesis set has version 1 and no predecessor.
Validate(set) == set # <<>> /\ (Last(set).version = 1 <=> Len(set) = 1)

ASSUME ChainAssumption ==
  /\ Rogue \subseteq AdminKeys
  /\ Provisioned \subseteq SignerNodes
  /\ {MaxListVersion, MaxChain} \subseteq Nat \ {0}
  /\ {MaxProposals, MaxRogue} \subseteq Nat

VARIABLES
  hostile,      \* whether the control plane serves anything it likes
  chain,        \* table signer_sets: links, oldest first
  change,       \* table signer_changes: the open proposal
  proposals,    \* proposals so far; a token is its number
  posts,        \* verified signatures on their way to ApplySignerSet
  published,    \* links that exist
  trust         \* per node, the pinned set; <<>> when nothing is pinned

signerVars == <<hostile, chain, change, proposals, posts, published, trust>>

-----------------------------------------------------------------------------
(***************************************************************************)
(* VerifyChain.                                                            *)
(***************************************************************************)

Version(set) == IF set = <<>> THEN 0 ELSE Last(set).version
KeysOf(set) == Last(set).keys

\* Mutant: the signer must be in the new list.
verifyLinkSelf(run, link) == link.by \in KeysOf(link.set)

\* verifyLink: who may sign the link after `run'.
verifyLink(run, link) == link.by \in IF run = <<>> THEN KeysOf(link.set) ELSE KeysOf(run)

\* One round of VerifyChain's loop.
Follows(run, link) ==
  /\ Version(link.set) = Version(run) + 1
  /\ Front(link.set) = run
  /\ verifyLink(run, link)

\* How many links belong to the past of `cur': 0 when nothing is pinned.
Starts(cur, links) ==
  IF cur = <<>> THEN {0}
  ELSE {i \in DOMAIN links : /\ links[i].set = cur
                             /\ \A j \in 1..(i - 1) : Version(links[j].set) # Version(cur)}

\* The links after the pinned set verify one after the other.
Accepts(cur, links, start) ==
  \A i \in (start + 1)..Len(links) :
    Follows(IF i = start + 1 THEN cur ELSE links[i - 1].set, links[i])

\* All or nothing; `genesis' is <<>> when the operator provisioned none.
VerifyChain(cur, links, genesis) ==
  IF /\ links # <<>>
     /\ Len(links) <= MaxChain
     /\ cur = <<>> /\ genesis # <<>> => links[1].set = genesis
     /\ \E start \in Starts(cur, links) : Accepts(cur, links, start)
  THEN Last(links).set
  ELSE cur

\* The trust the control plane derives from what it stores (signerState).
HeadSet == VerifyChain(<<>>, chain, <<>>)

-----------------------------------------------------------------------------
SignerInit ==
  /\ hostile \in BOOLEAN
  /\ chain = <<>>
  /\ change = NoChange
  /\ proposals = 0
  /\ posts = {}
  /\ published = {}
  /\ trust = [n \in SignerNodes |-> <<>>]

\* proposeSigners saw the first `l' links; CreateSignerChange drops the open
\* proposal.
ProposeSigners(l, keys) ==
  /\ proposals < MaxProposals
  /\ LET base == IF l = 0 THEN <<>> ELSE chain[l].set
     IN  /\ base # <<>> => keys # KeysOf(base)
         /\ Version(base) < MaxListVersion
         /\ change' = [token |-> proposals + 1, set |-> Append(base, [version |-> Version(base) + 1, keys |-> keys])]
  /\ proposals' = proposals + 1
  /\ UNCHANGED <<hostile, chain, posts, published, trust>>

\* The token runs out.
ExpireSignerChange ==
  /\ change # NoChange
  /\ change' = NoChange
  /\ UNCHANGED <<hostile, chain, proposals, posts, published, trust>>

\* An administrator signs the open proposal.
Sign(k) ==
  /\ change # NoChange
  /\ [set |-> change.set, by |-> k] \notin published
  /\ published' = published \cup {[set |-> change.set, by |-> k]}
  /\ UNCHANGED <<hostile, chain, change, proposals, posts, trust>>

\* Somebody with a rogue key continues any list, or starts one.
RogueSign(k, base, e) ==
  /\ Cardinality({l \in published : l.by \in Rogue}) < MaxRogue
  /\ Len(base) < MaxChain
  /\ Validate(Append(base, e))
  /\ [set |-> Append(base, e), by |-> k] \notin published
  /\ published' = published \cup {[set |-> Append(base, e), by |-> k]}
  /\ UNCHANGED <<hostile, chain, change, proposals, posts, trust>>

\* signPostSigners up to its transaction: the stored chain and the proposal
\* must verify from the genesis set and end one version after the head.
SignPostSigners(link) ==
  /\ change # NoChange
  /\ link.set = change.set
  /\ VerifyChain(<<>>, Append(chain, link), <<>>) = link.set
  /\ Version(link.set) = Version(HeadSet) + 1
  /\ posts' = posts \cup {[token |-> change.token, link |-> link]}
  /\ UNCHANGED <<hostile, chain, change, proposals, published, trust>>

\* The token is still open, and the version is exactly the next one.
ApplySignerSet(p) ==
  /\ change # NoChange
  /\ change.token = p.token
  /\ Version(p.link.set) = Len(chain) + 1
  /\ chain' = Append(chain, p.link)
  /\ change' = NoChange
  /\ posts' = posts \ {p}
  /\ UNCHANGED <<hostile, proposals, published, trust>>

\* The genesis set an operator reads in the admin UI.
GenesisOf(n) == IF n \in Provisioned /\ chain # <<>> THEN chain[1].set ELSE <<>>

\* A node is configured with the genesis before it talks to anybody.
Ready(n) == n \in Provisioned => chain # <<>>

\* What a control plane serves.
Servable ==
  IF hostile THEN UNION {[1..l -> published] : l \in 1..MaxChain}
  ELSE {SubSeq(chain, 1, l) : l \in 1..Len(chain)}

\* Mutant: a list of a higher version is as good.
FollowNewest(n, links) ==
  /\ Ready(n)
  /\ links # <<>>
  /\ Version(Last(links).set) > Version(trust[n])
  /\ trust' = [trust EXCEPT ![n] = VerifyChain(<<>>, links, GenesisOf(n))]
  /\ UNCHANGED <<hostile, chain, change, proposals, posts, published>>

\* followSigners.
Follow(n, links) ==
  /\ Ready(n)
  /\ trust' = [trust EXCEPT ![n] = VerifyChain(@, links, GenesisOf(n))]
  /\ UNCHANGED <<hostile, chain, change, proposals, posts, published>>

SignerNext ==
  \/ \E l \in 0..Len(chain), keys \in KeyLists : ProposeSigners(l, keys)
  \/ ExpireSignerChange
  \/ \E k \in AdminKeys : Sign(k)
  \/ \E k \in Rogue, base \in {<<>>} \cup {p.set : p \in published}, e \in Entry : RogueSign(k, base, e)
  \/ \E link \in published : SignPostSigners(link)
  \/ \E p \in posts : ApplySignerSet(p)
  \/ \E n \in SignerNodes, links \in Servable : Follow(n, links)

SignerSpec == SignerInit /\ [][SignerNext]_signerVars

-----------------------------------------------------------------------------
Set == {s \in Seq(Entry) : s # <<>>}
Link == [set : Set, by : AdminKeys]

SignerTypeOK ==
  /\ hostile \in BOOLEAN
  /\ chain \in Seq(Link)
  /\ proposals \in 0..MaxProposals
  /\ change = NoChange \/ (change.token \in 1..proposals /\ change.set \in Set)
  /\ \A p \in posts : p.token \in 1..proposals /\ p.link \in Link
  /\ published \subseteq Link
  /\ trust \in [SignerNodes -> Seq(Entry)]

\* "two admins cannot both extend the same head" (ApplySignerSet): whatever
\* proposals and signatures race, the stored chain verifies from its genesis
\* to its last link, within MaxChain.  signerState refuses to sign or
\* distribute anything once it does not.
ChainVerifies == chain # <<>> => HeadSet = Last(chain).set /\ Len(chain) <= MaxChain

\* Every list a node pinned was reached along signatures: each set of its
\* history after the first was signed by a key of the set before it, the
\* first by one of its own -- and is the provisioned one if there is one.
\* So a key that left the list, or was never in it, moves nobody.
SignedAlong ==
  \A n \in SignerNodes : trust[n] # <<>> =>
    /\ \A i \in 1..Len(trust[n]) :
         \E link \in published :
           /\ link.set = SubSeq(trust[n], 1, i)
           /\ link.by \in trust[n][IF i = 1 THEN 1 ELSE i - 1].keys
    /\ n \in Provisioned => trust[n][1] = chain[1].set[1]

\* A pinned list is only ever continued: no rollback, no fork, whatever is
\* served in whatever order.
OnlyExtends == [][\A n \in SignerNodes : IsPrefix(trust[n], trust'[n])]_signerVars

\* Under an honest control plane nobody is on a list the control plane does
\* not have, however old the chain was that reached the node.
OnStoredChain == ~hostile => \A n \in SignerNodes : trust[n] # <<>> => \E i \in DOMAIN chain : trust[n] = chain[i].set

\* Where every node of an honest control plane ends up: on the list's head.
AtHead == ~hostile => \A n \in SignerNodes : trust[n] = HeadSet

\* Every list a node relies on was signed link by link from the one it began
\* with (verifyLink), the chain the control plane stores verifies
\* (ApplySignerSet) although several administrators extend its head, and
\* under an honest control plane a node is on a list that is stored (Follow).
SignersInv == SignerTypeOK /\ SignedAlong /\ ChainVerifies /\ OnStoredChain

=============================================================================
