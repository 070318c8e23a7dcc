---------------------------- MODULE AccessPolicy ----------------------------
(***************************************************************************)
(* The decision on one flow (internal/acl): how a snapshot becomes the     *)
(* entities that Cedar decides over, and what is asked of Cedar.           *)
(*                                                                         *)
(* Cedar itself is external: x "in" y is reachability along the parents,   *)
(* and a flow is allowed when some permit matches and no forbid does.  A   *)
(* statement is its effect, what it asks of the principal and of the       *)
(* destination, and whether it asks for a server name.                     *)
(*                                                                         *)
(* A name is the sequence of its labels from the right; a pattern          *)
(* "*.example.com" stands for the names strictly below.                    *)
(***************************************************************************)
EXTENDS Naturals, Sequences, SequencesExt, FiniteSets

CONSTANTS
    Nodes,      \* node ids of the snapshot, the node itself first
    Stranger,   \* an id that is in no snapshot
    Subjects, Groups, Tags,
    Addrs,      \* destination addresses
    PublicAddrs,\* those of them that are public (IsGlobalUnicast, publicV4)
    Announcements, \* what the nodes may announce: prefixes, by length and addresses
    OverlayIP,  \* the overlay address of each node
    Pool,       \* the prefix of the pool
    HostNames,      \* host names
    Resolvable, \* those of them a node has seen resolve
    Statements, \* policy statements
    ListNames,  \* what the lists hold, by kind: "dynamic" and "sni"
    Anyone      \* no condition, no session, no name

\* A prefix, by its length and its addresses.
Prefix == [bits : 0 .. 128, has : SUBSET Addrs]

\* A destination is named as a host, a network, a node, a tag or a list; two
\* nodes never have one overlay address (the index nodes_overlay_ip).
ASSUME PolicyConstants ==
    /\ IsFiniteSet(Nodes) /\ Stranger \notin Nodes
    /\ PublicAddrs \subseteq Addrs /\ Pool \in Prefix
    /\ Announcements \subseteq [Nodes -> SUBSET Prefix]
    /\ \A m, n \in Nodes : OverlayIP[m] = OverlayIP[n] /\ OverlayIP[m] \in Addrs => m = n
    /\ ListNames \in [{"dynamic", "sni"} -> SUBSET [star : BOOLEAN, name : HostNames]]
    /\ Anyone \notin Nodes \cup Subjects \cup {<<"list", "dynamic">>, <<"list", "sni">>}
    /\ \A st \in Statements : st.to = Anyone \/ st.to[1] \in {"host", "net", "node", "tag", "list"}

VARIABLES
    announced, \* the prefixes of each node
    tagged,    \* the tags of each node
    session,   \* its user session, or Anyone
    policies,  \* the statements of the snapshot
    asked,      \* the request
    decision   \* what was decided

policyVars == <<announced, tagged, session, policies, asked, decision>>

NodeOrder == SetToSeq(Nodes)

----------------------------------------------------------------------------
\* Lists.

\* list.hasName: an exact entry, or one below a "*." entry.
HasName(kind, name) ==
    \E e \in ListNames[kind] :
        \/ ~e.star /\ e.name = name
        \/ e.star /\ IsStrictPrefix(e.name, name)

\* e.internal: what the overlay reaches, default routes aside.
Internal == Pool.has \cup UNION {UNION {p.has : p \in {q \in announced[n] : q.bits > 0}} : n \in Nodes}

\* Engine.sniFallback: the server name alone counts for public addresses
\* that no node announces.
SniFallback(dst) == dst \in PublicAddrs /\ dst \notin Internal

\* list.has: the lists the destination of r is in.
InLists(r) ==
    LET dynamic == \/ r.dns # Anyone /\ HasName("dynamic", r.dns)
                   \/ r.sni # Anyone /\ SniFallback(r.dst) /\ HasName("dynamic", r.sni)
                   \/ \E n \in r.resolved : HasName("dynamic", n)
    IN  {<<"list", k>> : k \in {x \in {"dynamic", "sni"} :
            IF x = "dynamic" THEN dynamic ELSE r.sni # Anyone /\ HasName("sni", r.sni)}}

----------------------------------------------------------------------------
\* Entities: the parents of each.

\* Owner: the node with that overlay address, else the first announcer of
\* the longest prefix that holds it.
Owner(dst) ==
    LET by == {n \in Nodes : OverlayIP[n] = dst}
        bits(n) == {p.bits : p \in {q \in announced[n] : dst \in q.has}}
        all == UNION {bits(n) : n \in Nodes}
        best == CHOOSE b \in all : \A c \in all : c <= b
    IN  IF by # {} THEN CHOOSE n \in by : TRUE
        ELSE IF all = {} THEN Anyone
        ELSE NodeOrder[CHOOSE i \in DOMAIN NodeOrder :
               best \in bits(NodeOrder[i])
               /\ \A j \in 1..(i - 1) : best \notin bits(NodeOrder[j])]

\* nodeEntity: tags, and the user when there is a session.
NodeParents(n, se) ==
    {<<"tag", t>> : t \in tagged[n]}
    \cup (IF se = Anyone \/ se.subject = Anyone THEN {} ELSE {<<"user", se.subject>>})

\* userEntity: the groups of one session.
UserParents(se) == {<<"group", g>> : g \in se.groups}

LastSession(subject) ==
    LET of == {i \in DOMAIN NodeOrder : /\ session[NodeOrder[i]] # Anyone
                                        /\ session[NodeOrder[i]].subject = subject}
    IN  IF of = {} THEN Anyone
        ELSE session[NodeOrder[CHOOSE i \in of : \A j \in of : j <= i]]

\* buildEntities: the entities of the snapshot.  A subject with several
\* sessions has one entity, that of the last.
Base(uid) ==
    CASE uid[1] = "node" -> NodeParents(uid[2], Anyone)
      [] uid[1] = "user" -> LET se == LastSession(uid[2])
                            IN  IF se = Anyone THEN {} ELSE UserParents(se)
      [] uid[1] = "net" -> {<<"node", n>> : n \in {m \in Nodes : uid[2] \in announced[m]}}
      [] OTHER -> {}

\* e.networks: the pool, which nobody owns, and what nodes announce.
NetworksOf(dst) == {p \in {Pool} \cup UNION {announced[n] : n \in Nodes} : dst \in p.has}

\* evaluate: the networks, the owner and the lists the destination is in.
HostParents(r) ==
    {<<"net", p>> : p \in NetworksOf(r.dst)}
    \cup (IF Owner(r.dst) = Anyone THEN {} ELSE {<<"node", Owner(r.dst)>>})
    \cup InLists(r)

\* layered.Get: the principal, its user and the host of this request come
\* before the snapshot's entities.
LayeredNoUser(r, se, uid) ==
    CASE uid = <<"host", r.dst>> -> HostParents(r)
      [] uid = <<"node", r.principal>> -> NodeParents(r.principal, se)
      [] OTHER -> Base(uid)

Layered(r, se, uid) ==
    CASE uid = <<"host", r.dst>> -> HostParents(r)
      [] uid = <<"node", r.principal>> -> NodeParents(r.principal, se)
      [] se # Anyone /\ uid = <<"user", se.subject>> -> UserParents(se)
      [] OTHER -> Base(uid)

\* Cedar's "in", external: host, network, node, user, group is the longest
\* chain of parents there is.
Above(r, se, uid) ==
    LET up(S) == S \cup UNION {Layered(r, se, x) : x \in S}
    IN  up(up(up(up({uid}))))

----------------------------------------------------------------------------
\* Policies.

\* Cedar's authorizer, external.
Applies(st, r, se) ==
    /\ st.who = Anyone \/ st.who \in Above(r, se, <<"node", r.principal>>)
    /\ st.to = Anyone \/ st.to \in Above(r, se, <<"host", r.dst>>)
    /\ st.sni = Anyone \/ st.sni = r.sni
    /\ st.signedIn => se # Anyone

\* evaluate: an unknown principal is denied without a look at the policies.
Allowed(r, assume) ==
    LET se == IF session[r.principal] # Anyone THEN session[r.principal]
              ELSE IF assume THEN [subject |-> Anyone, groups |-> {}] ELSE Anyone
    IN  /\ r.principal \in Nodes
        /\ \E st \in policies : st.effect = "permit" /\ Applies(st, r, se)
        /\ \A st \in policies : st.effect = "forbid" => ~Applies(st, r, se)

\* New: a permit reads the server name, or names a list of server names.
PermitsBySNI == \E st \in policies : st.effect = "permit"
                    /\ (st.sni # Anyone \/ st.to = <<"list", "sni">>)
PermitsDynamic == \E st \in policies : st.effect = "permit" /\ st.to = <<"list", "dynamic">>

\* Evaluate: worth waiting for the ClientHello.
WaitsForName(r) ==
    r.dns = Anyone /\ r.sni = Anyone /\ (PermitsBySNI \/ (PermitsDynamic /\ SniFallback(r.dst)))

NoDecision == [allow |-> FALSE, permitBySNI |-> FALSE, signIn |-> FALSE, made |-> FALSE]

\* Evaluate.
Evaluate(r) ==
    LET allow == r.principal \in Nodes /\ Allowed(r, FALSE)
        known == r.principal \in Nodes
    IN  [allow |-> allow,
         permitBySNI |-> ~allow /\ WaitsForName(r),
         signIn |-> known /\ ~allow /\ session[r.principal] = Anyone /\ Allowed(r, TRUE),
         made |-> TRUE]

----------------------------------------------------------------------------
PolicySessions == [subject : Subjects, groups : SUBSET Groups] \cup {Anyone}
\* A TLS connection may show a server name, a DNS query its question.
Requests == {r \in [principal : Nodes \cup {Stranger}, dst : Addrs, sni : HostNames \cup {Anyone},
                    dns : Resolvable \cup {Anyone}, resolved : {{}} \cup {{n} : n \in Resolvable}] :
                r.dns = Anyone \/ r.sni = Anyone}

\* acl.New on a snapshot.
PolicyInit ==
    /\ announced \in Announcements
    /\ tagged \in [Nodes -> SUBSET Tags]
    /\ session \in [Nodes -> PolicySessions]
    /\ policies \in {P \in SUBSET Statements : P # {} /\ Cardinality(P) <= 2}
    /\ asked = Anyone
    /\ decision = NoDecision

\* A flow is decided.
Ask ==
    /\ ~decision.made
    /\ \E r \in Requests : asked' = r /\ decision' = Evaluate(r)
    /\ UNCHANGED <<announced, tagged, session, policies>>

PolicyNext == Ask
PolicySpec == PolicyInit /\ [][PolicyNext]_policyVars

----------------------------------------------------------------------------
\* The decision by what the policies mean, without entities.

\* The nodes a destination is behind: those that announce a network it is
\* in, and the one whose address it is.
HoldersOf(dst) ==
    {n \in Nodes : OverlayIP[n] = dst \/ \E p \in announced[n] : dst \in p.has}

\* A principal is its node, and has the node's tags, the user of its own
\* session and the groups of that session.
MeansPrincipal(x, n) ==
    LET se == session[n] IN
    \/ x \in {Anyone, <<"node", n>>}
    \/ \E t \in tagged[n] : x = <<"tag", t>>
    \/ se # Anyone /\ (x = <<"user", se.subject>> \/ \E g \in se.groups : x = <<"group", g>>)

\* A destination is its address, the networks it is in, the nodes it is
\* behind with their tags, and the lists it is in.
MeansResource(x, r) ==
    \/ x \in {Anyone, <<"host", r.dst>>}
    \/ \E p \in NetworksOf(r.dst) : x = <<"net", p>>
    \/ \E n \in HoldersOf(r.dst) : x = <<"node", n>> \/ \E t \in tagged[n] : x = <<"tag", t>>
    \/ x \in InLists(r)

Means(st, r) ==
    /\ MeansPrincipal(st.who, r.principal) /\ MeansResource(st.to, r)
    /\ st.sni \in {Anyone, r.sni}
    /\ st.signedIn => session[r.principal] # Anyone

\* The decision is what the policies say of this device and this address: a
\* group counts when the principal's own session has it, not that of
\* another device of the same user (evaluate, "answered for one device by
\* another device's session"); a stranger is always denied.
DecisionIsMeant ==
    decision.made =>
        (decision.allow <=>
            /\ asked.principal \in Nodes
            /\ \E st \in policies : st.effect = "permit" /\ Means(st, asked)
            /\ \A st \in policies : st.effect = "forbid" => ~Means(st, asked))

\* Inside the overlay and in private ranges a server name alone opens
\* nothing: whatever name the client writes, a flow that only a dynamic
\* list permits is allowed only when the node saw the name resolve.
NameAloneOpensNothing ==
    decision.made /\ decision.allow
    /\ (asked.dst \notin PublicAddrs \/ asked.dst \in Internal) /\ asked.resolved = {}
    /\ asked.dns = Anyone
      => \E st \in policies : st.effect = "permit" /\ st.to # <<"list", "dynamic">>

\* A TLS connection that its server name would permit is not refused before
\* the name is there (no forbid asks for a name).
NameIsAwaited ==
    decision.made /\ ~decision.allow /\ asked.sni = Anyone /\ asked.dns = Anyone
    /\ asked.principal \in Nodes
    /\ (\A st \in policies : st.effect = "forbid" => st.sni = Anyone)
      => ((\E n \in HostNames : Allowed([asked EXCEPT !.sni = n], FALSE)) => decision.permitBySNI)

\* Evaluate answers what the policies mean by the lists, tags, groups and
\* announcements of the snapshot, a name in a handshake opens no internal
\* address (sniFallback), and a flow that a name could permit waits for it.
PolicyInv == DecisionIsMeant /\ NameAloneOpensNothing /\ NameIsAwaited

-----------------------------------------------------------------------------
(***************************************************************************)
(* The address form of a list entry (internal/registry/listentry.go): a    *)
(* range of addresses with a range of ports, the text it is stored as, and *)
(* the entry that is read from the text.  An address has Bits bits; a text *)
(* is its form and the numbers in it, not its characters.  Entries share   *)
(* no state with decisions and have a next-state relation of their own.    *)
(***************************************************************************)
CONSTANTS Bits, MaxPort

ASSUME EntryAssumption == Bits \in Nat /\ MaxPort \in Nat \ {0}

\* 2 to the power n.
Pow2[n \in 0 .. Bits] == IF n = 0 THEN 1 ELSE 2 * Pow2[n - 1]

Addresses == 0 .. Pow2[Bits] - 1

VARIABLES entry,     \* an AddrEntry, or NoEntry
          entryText  \* its text, or NoText

entryVars == <<entry, entryText>>

\* lastOf: every bit after the prefix is set.
LastOf(a, len) == a + Pow2[Bits - len] - 1

\* The prefix's address, host bits zero.
Masked(a, len) == a - (a % Pow2[Bits - len])

\* prefixOf: the lengths that name the range.
PrefixLen(lo, hi) ==
    {len \in 0 .. Bits : Masked(lo, len) = lo /\ LastOf(lo, len) = hi}

Shortest(lens) == CHOOSE l \in lens : \A m \in lens : l <= m

\* String.
Text(e) ==
    [form |-> IF e.lo = e.hi THEN "address" ELSE IF PrefixLen(e.lo, e.hi) # {} THEN "prefix" ELSE "range",
     a |-> e.lo,
     b |-> IF e.lo = e.hi THEN 0 ELSE IF PrefixLen(e.lo, e.hi) # {} THEN Shortest(PrefixLen(e.lo, e.hi)) ELSE e.hi,
     ports |-> IF e.port = 0 THEN <<>> ELSE IF e.port = e.portTo THEN <<e.port>> ELSE <<e.port, e.portTo>>]

NoEntry == [lo |-> 1, hi |-> 0]

\* parseRange: a range that runs backwards is none.
ParseRange(t) ==
    CASE t.form = "address" -> <<t.a, t.a>>
      [] t.form = "prefix"  -> <<Masked(t.a, t.b), LastOf(Masked(t.a, t.b), t.b)>>
      [] t.form = "range"   -> <<t.a, t.b>>

\* parsePorts; no port is any port.
ParsePorts(ports) ==
    IF ports = <<>> THEN <<0, 0>> ELSE <<ports[1], ports[Len(ports)]>>

\* ParseAddrEntry.
ParseAddrEntry(t) ==
    LET r == ParseRange(t)
        p == ParsePorts(t.ports)
    IN IF r[1] > r[2] \/ p[1] > p[2]
         THEN NoEntry
         ELSE [lo |-> r[1], hi |-> r[2], port |-> p[1], portTo |-> p[2]]

\* AddrEntry.Matches.
InEntry(e, a, port) ==
    e.lo <= a /\ a <= e.hi /\ (e.port # 0 => e.port <= port /\ port <= e.portTo)
-----------------------------------------------------------------------------
NoText == [form |-> "none"]

\* Every text an administrator may write: a prefix with host bits set and a
\* range that runs backwards included.
Typed ==
    UNION {{[form |-> f, a |-> a, b |-> b, ports |-> p] :
              a \in Addresses, b \in IF f = "prefix" THEN 0 .. Bits ELSE Addresses,
              p \in {<<>>} \cup {<<x>> : x \in 1 .. MaxPort} \cup ((1 .. MaxPort) \X (1 .. MaxPort))} :
            f \in {"address", "prefix", "range"}}

EntryInit == entryText \in Typed /\ entry = NoEntry

\* CleanListEntries reads what was written; a node reads it out of its
\* snapshot.
LoadEntry ==
    /\ entryText # NoText /\ ParseAddrEntry(entryText) # NoEntry
    /\ entry' = ParseAddrEntry(entryText)
    /\ entryText' = NoText

\* CleanListEntries stores the text of what it read.
StoreEntry ==
    /\ entryText = NoText
    /\ entryText' = Text(entry)
    /\ UNCHANGED entry

EntryNext == LoadEntry \/ StoreEntry

EntrySpec == EntryInit /\ [][EntryNext]_entryVars
-----------------------------------------------------------------------------
(* Properties.                                                             *)

\* What is stored of an entry is read as that entry again, at the control
\* plane and at every node, however it was written (String, ParseAddrEntry):
\* no restart and no copy of a list widens or narrows it.
RoundTrip == entryText # NoText /\ entry # NoEntry => ParseAddrEntry(entryText) = entry

\* A stored entry is a prefix exactly when its addresses are those that
\* share leading bits, all of them and no other (prefixOf, lastOf).
PrefixIsExact ==
    entryText # NoText /\ entry # NoEntry /\ entry.lo # entry.hi =>
        ((entryText.form = "prefix") <=>
           (\E len \in 0 .. Bits :
              {a \in Addresses : InEntry(entry, a, entry.port)} =
              {a \in Addresses : a \div Pow2[Bits - len] = entry.lo \div Pow2[Bits - len]}))

=============================================================================
