----------------------------- MODULE AdminLogin -----------------------------
(***************************************************************************)
(* The way of a browser to an admin session (internal/control/api          *)
(* adminauth.go adminLoginStart and adminCallback): the limit on pending   *)
(* flows, the flow at the identity provider, and the session at its end    *)
(* (AdminAuth takes it from there; the rate limiter is in front of it).    *)
(*                                                                         *)
(* Anybody may ask.  A request is several statements on the database.  The *)
(* identity provider redeems a code once.                                  *)
(***************************************************************************)
EXTENDS Naturals, FiniteSets

CONSTANTS Tabs,              \* requests beside each other
          MaxPending, Flows  \* maxPendingAdminLogins, a bound

ASSUME LoginAssumption ==
    {MaxPending, Flows} \subseteq Nat /\ MaxPending > 0 /\ IsFiniteSet(Tabs)

VARIABLES tab,       \* requests
          flow,      \* admin_login_flows, by number
          redeemed,  \* flows whose code the identity provider has taken back
          logins     \* sessions created, by flow

adminLoginVars == <<tab, flow, redeemed, logins>>

AdminLoginInit ==
    /\ tab = [t \in Tabs |-> <<"none", 0>>]
    /\ flow = [f \in 1 .. Flows |-> "none"] /\ redeemed = {} /\ logins = [f \in 1 .. Flows |-> 0]
-----------------------------------------------------------------------------
\* adminLoginStart.
LoginAsks(t) ==
    /\ tab[t][1] = "none"
    /\ tab' = [tab EXCEPT ![t] = <<"count", 0>>]
    /\ UNCHANGED <<flow, redeemed, logins>>

\* CountPendingAdminLoginFlows.
Pending == {f \in DOMAIN flow : flow[f] = "pending"}

\* adminLoginStart: the flows that are pending; and the identity provider is
\* looked up.
CountPending(t) ==
    /\ tab[t][1] = "count"
    /\ tab' = [tab EXCEPT ![t] = IF Cardinality(Pending) >= MaxPending THEN <<"none", 0>> ELSE <<"create", 0>>]
    /\ UNCHANGED <<flow, redeemed, logins>>

\* CreateAdminLoginFlow, and the redirect.
CreateAdminLoginFlow(t, f) ==
    /\ tab[t][1] = "create" /\ flow[f] = "none" /\ \A g \in 1 .. f - 1 : flow[g] # "none"
    /\ flow' = [flow EXCEPT ![f] = "pending"]
    /\ tab' = [tab EXCEPT ![t] = <<"none", 0>>]
    /\ UNCHANGED <<redeemed, logins>>

\* ExpireAdminSessions; or the flow's ten minutes are over, which is the same
\* to whoever looks for it.
FlowExpires(f) ==
    /\ flow[f] = "pending"
    /\ flow' = [flow EXCEPT ![f] = "expired"]
    /\ UNCHANGED <<tab, redeemed, logins>>

\* oidcCallback, AdminLoginFlowByState: a flow that is pending.
Callback(t, f) ==
    /\ tab[t][1] = "none" /\ flow[f] = "pending"
    /\ tab' = [tab EXCEPT ![t] = <<"exchange", f>>]
    /\ UNCHANGED <<flow, redeemed, logins>>

\* FinishAdminLoginFlow.
Finished(f, status) == IF flow[f] = "pending" THEN [flow EXCEPT ![f] = status] ELSE flow

\* adminCallback, failFlow: another browser, a refusal, a code that is not
\* (or no longer) good, or somebody who is not in the group.
LoginFails(t) ==
    LET f == tab[t][2] IN
    /\ tab[t][1] = "exchange"
    /\ flow' = Finished(f, "failed")
    /\ tab' = [tab EXCEPT ![t] = <<"none", 0>>]
    /\ \/ redeemed' = redeemed
       \/ redeemed' = redeemed \cup {f}
    /\ UNCHANGED <<logins>>

\* Mutant: what the identity provider says of the code is not waited for.
ExchangeUnasked(t) ==
    LET f == tab[t][2] IN
    /\ tab[t][1] = "exchange"
    /\ redeemed' = redeemed \cup {f}
    /\ tab' = [tab EXCEPT ![t] = <<"session", f>>]
    /\ UNCHANGED <<flow, logins>>

\* adminCallback: Exchange, then the session of a member of the group.
Exchange(t) ==
    LET f == tab[t][2] IN
    /\ tab[t][1] = "exchange" /\ f \notin redeemed
    /\ redeemed' = redeemed \cup {f}
    /\ tab' = [tab EXCEPT ![t] = <<"session", f>>]
    /\ UNCHANGED <<flow, logins>>

\* CreateAdminSession fails, or there is one.
LoginSession(t) ==
    LET f == tab[t][2] IN
    /\ tab[t][1] = "session"
    /\ \/ logins' = [logins EXCEPT ![f] = @ + 1] /\ tab' = [tab EXCEPT ![t] = <<"finish", f>>]
       \/ logins' = logins /\ tab' = [tab EXCEPT ![t] = <<"none", 0>>]
    /\ UNCHANGED <<flow, redeemed>>

LoginFinishes(t) ==
    /\ tab[t][1] = "finish"
    /\ flow' = Finished(tab[t][2], "done")
    /\ tab' = [tab EXCEPT ![t] = <<"none", 0>>]
    /\ UNCHANGED <<redeemed, logins>>

AdminLoginNext ==
    \/ \E t \in Tabs, f \in 1 .. Flows : CreateAdminLoginFlow(t, f) \/ Callback(t, f)
    \/ \E t \in Tabs : LoginAsks(t) \/ CountPending(t) \/ LoginFails(t) \/ Exchange(t) \/ LoginSession(t) \/ LoginFinishes(t)
    \/ \E f \in 1 .. Flows : FlowExpires(f)

AdminLoginSpec == AdminLoginInit /\ [][AdminLoginNext]_adminLoginVars
-----------------------------------------------------------------------------
(* Properties.                                                             *)

\* The variables have their types.
AdminLoginTypeOK ==
    /\ flow \in [1 .. Flows -> {"none", "pending", "expired", "failed", "done"}]
    /\ \A t \in Tabs : tab[t][1] \in {"exchange", "session", "finish"} <=> tab[t][2] \in 1 .. Flows

\* The count and the insert are two statements: the limit on pending flows is
\* exceeded by no more than the requests that run beside each other
\* (adminLoginStart).
PendingBounded == Cardinality(Pending) <= MaxPending + Cardinality(Tabs) - 1

\* One login gives one session.  The flow does not see to it: two callbacks
\* may both find it pending, and the code, which is good once, decides
\* (adminCallback).
OneLogin == \A f \in DOMAIN logins : logins[f] <= 1

\* A flow that ended stays ended, and with it no session comes of a callback
\* that begins later (AdminLoginFlowByState, FinishAdminLoginFlow).
EndedFlowGivesNone ==
    [][\A f \in DOMAIN flow : (flow[f] \notin {"none", "pending"}) =>
          /\ flow'[f] = flow[f]
          /\ ~\E t \in Tabs : tab[t][2] # f /\ tab'[t] = <<"exchange", f>>]_adminLoginVars

\* A login signs in at most once, and pending logins stay within their bound
\* (adminCallback, adminLoginStart).
AdminLoginInv == AdminLoginTypeOK /\ PendingBounded /\ OneLogin

-----------------------------------------------------------------------------
(***************************************************************************)
(* The limit per client in front of enrollment, logins and signature       *)
(* requests (internal/control/api/ratelimit.go): a token bucket for every  *)
(* client network, dropped when it has been idle, and no more of them than *)
(* MaxBuckets.  It shares no state with sign-ins and has a next-state      *)
(* relation of its own.                                                    *)
(*                                                                         *)
(* Time goes by in ticks, Period of them to the limiter's period; a bucket *)
(* knows how long ago it was used.  allowN is one section of the lock.     *)
(***************************************************************************)
CONSTANTS Clients,
          Burst, Period,
          MaxBuckets, SweepAt,   \* buckets at most, buckets that make it sweep
          NoBucket

ASSUME LimitAssumption ==
    /\ {Burst, Period, MaxBuckets, SweepAt} \subseteq Nat /\ Period > 0 /\ Burst > 0
    /\ NoBucket \notin [tokens : 0 .. Burst, idle : 0 .. Period + 1]

VARIABLES bucket,  \* rateLimiter.buckets
          level    \* what a client's bucket would hold if none were ever dropped

limitVars == <<bucket, level>>

Full == [tokens |-> Burst, idle |-> 0]

LimitInit ==
    bucket = [c \in Clients |-> NoBucket] /\ level = [c \in Clients |-> Full]
-----------------------------------------------------------------------------
Least(a, b) == IF a < b THEN a ELSE b

\* What a bucket holds now: it fills in a period.
Refilled(b) == Least(Burst, b.tokens + (b.idle * Burst) \div Period)

Held(bs) == {c \in Clients : bs[c] # NoBucket}

\* With many buckets, the ones idle for longer than a period go.
Swept ==
    IF Cardinality(Held(bucket)) <= SweepAt THEN bucket
    ELSE [c \in Clients |-> IF bucket[c] # NoBucket /\ bucket[c].idle > Period THEN NoBucket ELSE bucket[c]]

\* A bucket after somebody asked for one token.
Spent(b) == [tokens |-> IF Refilled(b) > 0 THEN Refilled(b) - 1 ELSE 0, idle |-> 0]

\* No bucket for a client that has none, beyond the limit.
NoRoom(bs, c) == bs[c] = NoBucket /\ Cardinality(Held(bs)) >= MaxBuckets

BucketOf(bs, c) == IF bs[c] = NoBucket THEN Full ELSE bs[c]

\* allowN for one token.  It sweeps once a second at most.
AllowN(c, bs) ==
    /\ bs \in {bucket, Swept}
    /\ IF NoRoom(bs, c) THEN bucket' = bs /\ UNCHANGED level
       ELSE /\ bucket' = [bs EXCEPT ![c] = Spent(BucketOf(bs, c))]
            /\ level' = [level EXCEPT ![c] = Spent(level[c])]

\* Time; more than a period is all the same to a bucket.
Tick ==
    /\ bucket' = [c \in Clients |-> IF bucket[c] = NoBucket THEN NoBucket
                                    ELSE [bucket[c] EXCEPT !.idle = Least(@ + 1, Period + 1)]]
    /\ level' = [c \in Clients |-> [level[c] EXCEPT !.idle = Least(@ + 1, Period + 1)]]

LimitNext == Tick \/ \E c \in Clients : \E bs \in {bucket, Swept} : AllowN(c, bs)

LimitSpec == LimitInit /\ [][LimitNext]_limitVars
-----------------------------------------------------------------------------
(* Properties.                                                             *)

\* The variables have their types; the limiter's memory has its limit
\* (maxBuckets).
LimitTypeOK ==
    /\ \A c \in Clients : bucket[c] # NoBucket => bucket[c] \in [tokens : 0 .. Burst, idle : 0 .. Period + 1]
    /\ Cardinality(Held(bucket)) <= MaxBuckets

\* Dropping idle buckets gives nobody more than the limit: a client without a
\* bucket would have a full one (allowN).
DroppedWasFull ==
    \A c \in Clients : Refilled(level[c]) = IF bucket[c] = NoBucket THEN Burst ELSE Refilled(bucket[c])

\* The limiter forgets only clients that have their burst again (allowN).
LimitInv == LimitTypeOK /\ DroppedWasFull

=============================================================================
