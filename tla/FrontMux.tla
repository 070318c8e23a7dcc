------------------------------ MODULE FrontMux ------------------------------
(***************************************************************************)
(* The UDP side of the front multiplexer (internal/mux): one port for      *)
(* several QUIC servers, told apart by the server name of the ClientHello. *)
(*                                                                         *)
(* A handshake is known by the client's address and the connection id the  *)
(* client chose.  Its ClientHello comes in several Initial datagrams, out  *)
(* of order, twice or not at all; they are held until the name is known,   *)
(* within a budget all handshakes share, and then sent on in the order     *)
(* they came.  Everything later carries a connection id of the server and  *)
(* needs no state here.                                                    *)
(*                                                                         *)
(* A datagram is one part of the ClientHello; the name can be read once    *)
(* the parts up to it are there.  The size of a part is 1, as a datagram   *)
(* that waits and as the stretch of the reassembly buffer it fills.        *)
(***************************************************************************)
EXTENDS Naturals, Sequences, FiniteSets, FiniteSetsExt

CONSTANTS
    Handshakes,  \* client address and connection id
    Routed,      \* those of them whose server name has a route
    Parts,       \* datagrams of one ClientHello
    NameEnds,    \* the part in which its server name ends
    MaxFlows,    \* entries of the table
    MaxHeld,     \* datagrams one entry holds
    MaxBuffered, \* what all entries without a name may hold
    MaxArrivals  \* bound: datagrams of one handshake that arrive

ASSUME FrontBounds ==
    /\ IsFiniteSet(Handshakes) /\ Routed \subseteq Handshakes
    /\ NameEnds \in 1..Parts
    /\ {Parts, MaxFlows, MaxHeld, MaxBuffered, MaxArrivals} \subseteq Nat \ {0}

VARIABLES
    initial,  \* Front.initial: the entry of each handshake, or NoFlow
    buffered, \* Front.buffered
    got,      \* history: parts the server got since the entry was made
    came      \* history: parts that came since the entry was made

frontVars == <<initial, buffered, got, came>>

NoFlow == [there |-> FALSE, resolved |-> FALSE, crypto |-> {}, held |-> <<>>]

Tabled == {k \in Handshakes : initial[k].there}

\* cryptoBuf.add: data and have reach to the end of the last part.
Extent(crypto) == Max(crypto \cup {0})

\* flow.size: the reassembly buffer and the datagrams that wait.
Size(fl) == 2 * Extent(fl.crypto) + Len(fl.held)

FrontInit ==
    /\ initial = [k \in Handshakes |-> NoFlow]
    /\ buffered = 0
    /\ got = [k \in Handshakes |-> <<>>]
    /\ came = [k \in Handshakes |-> <<>>]

----------------------------------------------------------------------------
\* The tables that are left when the entries in gone are forgotten: what
\* they hold goes back to the budget.
ForgetFlows(gone, table) ==
    [k \in Handshakes |-> IF k \in gone THEN NoFlow ELSE table[k]]

\* A datagram of a handshake that has its server: straight on.
RouteKnown(k, p) ==
    /\ initial[k].there /\ initial[k].resolved
    /\ Len(came[k]) < MaxArrivals
    /\ came' = [came EXCEPT ![k] = Append(@, p)]
    /\ got' = [got EXCEPT ![k] = Append(@, p)]
    /\ UNCHANGED <<initial, buffered>>

\* The entry a first datagram goes to: its own, or a new one, for which an
\* unresolved entry makes room when the table is full.
Rooms(k) ==
    IF initial[k].there \/ Cardinality(Tabled) < MaxFlows THEN {{}}
    ELSE {{e} : e \in {e \in Tabled : ~initial[e].resolved}}

\* openInitial and cryptoFrames: the part a datagram carries, out of order
\* and again.
CryptoFrames(crypto, p) == crypto \cup {p}

\* cryptoBuf.prefix: what is there without a gap.
CryptoPrefix(crypto) == CHOOSE n \in 0..Parts : 1..n \subseteq crypto /\ n + 1 \notin crypto

\* clientHelloSNI: the name is there once the prefix holds it.
HasServerName(crypto) == CryptoPrefix(crypto) >= NameEnds

\* The frames of this datagram are more than the budget has: forgotten.
OverBudget(total) == total > MaxBuffered

\* What goes to the server when the name is known: the datagrams that waited
\* for it, in their order, and then this one.
Released(fl, p) == fl.held \o <<p>>

\* routeUDP for an Initial that opens with the client's connection id.
RouteInitial(k, p) ==
    /\ ~initial[k].resolved
    /\ Len(came[k]) < MaxArrivals
    /\ \E out \in Rooms(k) :
         LET freed == buffered - SumFunction([e \in out |-> Size(initial[e])])
             old == IF initial[k].there THEN initial[k]
                    ELSE [NoFlow EXCEPT !.there = TRUE]
             fl == [old EXCEPT !.crypto = CryptoFrames(@, p)]
             total == freed + Size(fl) - Size(old)
             table == ForgetFlows(out, initial)
             done == [fl EXCEPT !.resolved = TRUE, !.crypto = {}, !.held = <<>>]
             kept == [fl EXCEPT !.held = Append(@, p)]
             cleared(h) == [j \in Handshakes |->
                               IF j \in out \cup {k} THEN <<>> ELSE h[j]]
             noted(h, s) == [j \in Handshakes |->
                               IF j \in out THEN <<>>
                               ELSE IF j = k THEN h[j] \o s ELSE h[j]]
         IN  \* the name is known and has a route
             \/ /\ ~OverBudget(total) /\ HasServerName(fl.crypto) /\ k \in Routed
                /\ initial' = [table EXCEPT ![k] = done]
                /\ buffered' = total - Size(fl)
                /\ got' = noted(got, Released(fl, p))
                /\ came' = noted(came, <<p>>)
             \* not yet: held, while there is room for it
             \/ /\ ~OverBudget(total) /\ ~HasServerName(fl.crypto)
                /\ Len(fl.held) < MaxHeld /\ ~OverBudget(total + 1)
                /\ initial' = [table EXCEPT ![k] = kept]
                /\ buffered' = total + 1
                /\ got' = noted(got, <<>>)
                /\ came' = noted(came, <<p>>)
             \* no room, or a name without a route: forgotten
             \/ /\ \/ OverBudget(total)
                   \/ HasServerName(fl.crypto) /\ k \notin Routed
                   \/ ~HasServerName(fl.crypto) /\ Len(fl.held) >= MaxHeld
                   \/ ~HasServerName(fl.crypto) /\ OverBudget(total + 1)
                /\ initial' = ForgetFlows({k}, table)
                /\ buffered' = total - Size(fl)
                /\ got' = cleared(got)
                /\ came' = cleared(came)

SweepKeepsBudget(k) ==
    /\ initial[k].there
    /\ initial' = ForgetFlows({k}, initial)
    /\ got' = [got EXCEPT ![k] = <<>>]
    /\ came' = [came EXCEPT ![k] = <<>>]
    /\ UNCHANGED buffered

\* The sweep of Run: an entry nothing came for goes, resolved or not.
SweepFront(k) ==
    /\ initial[k].there
    /\ initial' = ForgetFlows({k}, initial)
    /\ buffered' = buffered - Size(initial[k])
    /\ got' = [got EXCEPT ![k] = <<>>]
    /\ came' = [came EXCEPT ![k] = <<>>]

FrontNext ==
    \E k \in Handshakes : \/ \E p \in 1..Parts : \/ RouteKnown(k, p)
                                                 \/ RouteInitial(k, p)
                          \/ SweepFront(k)

FrontSpec == FrontInit /\ [][FrontNext]_frontVars

----------------------------------------------------------------------------
FrontTypeOK ==
    /\ initial \in [Handshakes -> [there : BOOLEAN, resolved : BOOLEAN,
                                   crypto : SUBSET (1..Parts),
                                   held : Seq(1..Parts)]]
    /\ Cardinality(Tabled) <= MaxFlows
    /\ buffered \in 0..MaxBuffered

\* The budget is what the unresolved entries hold, exactly: neither a
\* handshake that ends, nor one that is evicted, swept or answered, leaves
\* an amount behind that would in the end refuse every client.
BudgetIsExact ==
    buffered = SumFunction([k \in Handshakes |-> Size(initial[k])])

\* A server gets the datagrams of a handshake in the order they came, none
\* missing and none twice, from the first on.
ServerGetsAllInOrder ==
    \A k \in Tabled : IF initial[k].resolved THEN got[k] = came[k]
                      ELSE got[k] = <<>> /\ initial[k].held = came[k]

\* The bytes held for handshakes are those counted (maxBuffered), and a server
\* gets every datagram of its client, in order and once (routeUDP), through
\* evictions and sweeps.
FrontInv == FrontTypeOK /\ BudgetIsExact /\ ServerGetsAllInOrder

=============================================================================
