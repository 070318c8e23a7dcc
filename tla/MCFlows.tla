------------------------------- MODULE MCFlows -------------------------------
(***************************************************************************)
(* Instances for TLC of what decides about packets and names: the flow     *)
(* table, access policies, the entries of lists, learned addresses and     *)
(* the front multiplexer.  No two of these share state: focus says which   *)
(* one a behaviour is about, and the others stand still.                   *)
(***************************************************************************)
EXTENDS FlowTable, AccessPolicy, DnsMap, FrontMux, TLC

CONSTANTS p1, p2, f1, f2, d1, x1, x2, s1,
          n1, n2, n3, aPool, aNet, aPub, u1, g1, t1, any,
          k1, k2, k3

VARIABLE focus

\* Flows: two peers; one opens a TLS flow and a DNS flow, the other a TLS flow.
\* The policies: open but for one name, one name only, and with a session.
MCPrincipalOf == [f \in {f1, f2, d1} |-> IF f = f2 THEN p2 ELSE p1]
Pol(a, nm, fb, sg) == [any |-> a, named |-> nm, forbidden |-> fb, signedin |-> sg]
NeedsSession == Pol({f1, d1}, {}, {}, {f1})
MCSnapshots ==
  LET Nobody == [p \in {p1, p2} |-> NoSession]
      Policies == {Pol({f1, d1}, {}, {<<f1, x1>>, <<d1, x1>>}, {}),
                   Pol({}, {<<f1, x2>>, <<d1, x2>>}, {}, {}), NeedsSession}
  IN {[policy |-> pol, peers |-> {p1, p2}, session |-> Nobody] : pol \in Policies}
     \cup {[policy |-> NeedsSession, peers |-> {p1, p2}, session |-> [Nobody EXCEPT ![p1] = s1]],
           [policy |-> NeedsSession, peers |-> {p2}, session |-> Nobody]}

\* Policies: a node that announces, a device, one tag and one group; an
\* address of the pool, one of an announced network and a public one.
MCHostNames == {<<1>>, <<1, 1>>, <<2>>}
MCAll == [bits |-> 0, has |-> {aPool, aNet, aPub}]
MCWide == [bits |-> 8, has |-> {aNet}]
MCNarrow == [bits |-> 16, has |-> {aNet}]
MCPool == [bits |-> 10, has |-> {aPool}]
MCAnnouncements ==
  {(n1 :> {}) @@ (n2 :> {})} \cup {(n1 :> {a}) @@ (n2 :> {MCNarrow}) : a \in {MCAll, MCWide}}
MCResolvable == {<<1, 1>>}
MCOverlayIP == (n1 :> aPool) @@ (n2 :> any)
MCStatement(effect, who, to, sni, in) ==
  [effect |-> effect, who |-> who, to |-> to, sni |-> sni, signedIn |-> in]
MCStatements ==
  {MCStatement("permit", <<"group", g1>>, any, any, FALSE),
   MCStatement("permit", any, <<"tag", t1>>, any, TRUE),
   MCStatement("permit", any, <<"list", "dynamic">>, any, FALSE),
   MCStatement("permit", <<"tag", t1>>, <<"list", "sni">>, any, FALSE),
   MCStatement("permit", any, any, <<2>>, FALSE),
   MCStatement("permit", <<"node", n2>>, <<"net", MCNarrow>>, any, FALSE),
   MCStatement("forbid", any, <<"tag", t1>>, any, FALSE),
   MCStatement("forbid", <<"group", g1>>, any, <<1, 1>>, FALSE)}
MCListNames == [k \in {"dynamic", "sni"} |->
  IF k = "dynamic" THEN {[star |-> TRUE, name |-> <<1>>]} ELSE {[star |-> FALSE, name |-> <<2>>]}]

\* A policy nobody asks about and an entry nobody stores.
PolicyStands ==
  /\ announced = [n \in Nodes |-> {}] /\ tagged = [n \in Nodes |-> {}]
  /\ session = [n \in Nodes |-> Anyone] /\ policies = {MCStatement("permit", any, any, any, FALSE)}
  /\ asked = Anyone /\ decision = NoDecision
EntryStands == entryText = NoText /\ entry = NoEntry

FlowsInit ==
  /\ focus \in {"flows", "policy", "entries", "names", "front"}
  /\ IF focus = "flows" THEN FlowInit ELSE FlowInit /\ snap = CHOOSE s \in Snapshots : TRUE
  /\ IF focus = "policy" THEN PolicyInit ELSE PolicyStands
  /\ IF focus = "entries" THEN EntryInit ELSE EntryStands
  /\ DnsInit /\ FrontInit

FlowsNext ==
  /\ UNCHANGED focus
  /\ \/ focus = "flows" /\ FlowNext /\ UNCHANGED <<policyVars, entryVars, dnsVars, frontVars>>
     \/ focus = "policy" /\ PolicyNext /\ UNCHANGED <<flowVars, entryVars, dnsVars, frontVars>>
     \/ focus = "entries" /\ EntryNext /\ UNCHANGED <<flowVars, policyVars, dnsVars, frontVars>>
     \/ focus = "names" /\ DnsNext /\ UNCHANGED <<flowVars, policyVars, entryVars, frontVars>>
     \/ focus = "front" /\ FrontNext /\ UNCHANGED <<flowVars, policyVars, entryVars, dnsVars>>

FlowsSpec ==
  FlowsInit /\ [][FlowsNext]_<<focus, flowVars, policyVars, entryVars, dnsVars, frontVars>>

\* What a list entry names is kept by its text, as a prefix exactly when it is
\* one (String, ParseAddrEntry), and learned addresses stay within their
\* accounts (Map.Add).
NamesInv == RoundTrip /\ PrefixIsExact /\ DnsInv

=============================================================================
