----------------------------- MODULE AdminAuth ------------------------------
(***************************************************************************)
(* Administrators at the control plane (internal/control/api/adminauth.go, *)
(* internal/control/db/adminauth.go): browser sessions and their level,    *)
(* passkeys and their approval, API tokens, and the bootstrap token, which *)
(* works while no passkey is active.                                       *)
(*                                                                         *)
(* Requests run beside each other.  AdminAuth establishes who asks at the  *)
(* beginning of a request; every step after that is one statement on the   *)
(* database.  A session begins with a login at the identity provider       *)
(* (AdminLogin).  A secret is whether its holder has it: the bootstrap     *)
(* token is in the hands of whoever reads the state directory.             *)
(***************************************************************************)
EXTENDS Naturals, Sequences

CONSTANTS Subjects, Workers,
          MaxSessions, MaxPasskeys,  \* bounds
          Nobody                     \* no request, no ceremony

ASSUME AdminAssumption ==
    {MaxSessions, MaxPasskeys} \subseteq Nat /\ Nobody \notin Subjects

VARIABLES asessions,  \* admin_sessions
          passkeys,   \* admin_passkeys
          apiTokens,     \* api_tokens that are not revoked, by what is told of them: the
                      \* mark, and whether their chain begins at the bootstrap token
          request     \* what each worker is at

adminVars == <<asessions, passkeys, apiTokens, request>>

AdminInit ==
    /\ asessions = <<>> /\ passkeys = <<>> /\ apiTokens = {}
    /\ request = [w \in Workers |-> Nobody]
-----------------------------------------------------------------------------
(* Who asks.                                                               *)

\* CountActivePasskeys.
ActivePasskeys == {p \in DOMAIN passkeys : passkeys[p].status = "active"}

\* ListPasskeys of a subject.
OwnPasskeys(s) == {p \in DOMAIN passkeys : passkeys[p].subject = s}

\* adminUserFor with activeOnly; hasActivePasskey.
OwnActive(s) == OwnPasskeys(s) \cap ActivePasskeys

\* AdminSessionByID: neither revoked nor over.
ValidSession(i) == i \in DOMAIN asessions /\ ~asessions[i].ended

\* LookupAPIToken.
UsableToken(t) == t.bootstrap => ActivePasskeys = {}

\* The identities resolveAdmin gives out now.
Admins ==
    [via : {"session"}, session : {i \in DOMAIN asessions : ValidSession(i)}]
    \cup [via : {"token"}, token : {t \in apiTokens : UsableToken(t)}]
    \cup (IF ActivePasskeys = {} THEN {[via |-> "bootstrap"]} ELSE {})

BySession(a) == a.via = "session"

IsFull(a) == BySession(a) => asessions[a.session].full

Goes(w, at) == request' = [request EXCEPT ![w].at = at]

Begins(w, at, a, c) ==
    request[w] = Nobody /\ request' = [request EXCEPT ![w] = [at |-> at, by |-> a, ceremony |-> c, passkey |-> 0]]

Answer(w) == request' = [request EXCEPT ![w] = Nobody]

\* A request of a browser session.  AdminAuth and the first statement of the
\* request are one step, here and below, when that statement looks at the
\* session again, writes what only a valid session is asked for, or takes
\* something away.
Browser(i) == [via |-> "session", session |-> i]

RequestAt(w, at) == request[w] # Nobody /\ request[w].at = at

MySession(w) == request[w].by.session

Me(w) == asessions[MySession(w)].subject
-----------------------------------------------------------------------------
(* Sessions.                                                               *)

\* CreateAdminSession, at the end of a login at the identity provider.
CreateAdminSession(s) ==
    /\ Len(asessions) < MaxSessions
    /\ asessions' = Append(asessions, [subject |-> s, full |-> FALSE, ended |-> FALSE, ceremony |-> Nobody, from |-> 0])
    /\ UNCHANGED <<passkeys, apiTokens, request>>

\* adminLogout, RevokeAdminSession; or the session's lifetime ends.
Logout(i) ==
    /\ ValidSession(i)
    /\ asessions' = [asessions EXCEPT ![i].ended = TRUE, ![i].ceremony = Nobody]
    /\ UNCHANGED <<passkeys, apiTokens, request>>

\* Mutant: the session's own row becomes full.
RaiseInPlace(w) ==
    LET i == MySession(w) IN
    /\ RequestAt(w, "raise")
    /\ asessions' = IF ValidSession(i) THEN [asessions EXCEPT ![i].full = TRUE] ELSE asessions
    /\ Answer(w)
    /\ UNCHANGED <<passkeys, apiTokens>>

\* RaiseAdminSession: a full session under a new id; the one the browser had
\* is over.
RaiseAdminSession(i) ==
    Append([asessions EXCEPT ![i].ended = TRUE, ![i].ceremony = Nobody],
           [asessions[i] EXCEPT !.full = TRUE, !.ceremony = Nobody, !.from = i])

\* raiseSession: one transaction, on a session that is valid still.
RaiseSession(w) ==
    LET i == MySession(w) IN
    /\ RequestAt(w, "raise")
    /\ IF ValidSession(i) THEN Len(asessions) < MaxSessions /\ asessions' = RaiseAdminSession(i)
       ELSE UNCHANGED asessions
    /\ Answer(w)
    /\ UNCHANGED <<passkeys, apiTokens>>
-----------------------------------------------------------------------------
(* Passkeys.                                                               *)

\* passkeyRegisterBegin: how the new passkey will come into force.  The two
\* reads are one step: reading the subject's passkeys later than the count
\* can only make the answer "pending".
RegisterMode(s, full) ==
    IF ActivePasskeys = {} THEN "first"
    ELSE IF full /\ OwnActive(s) # {} THEN "self" ELSE "pending"

RegisterBegin(w, i) ==
    LET mode == RegisterMode(asessions[i].subject, asessions[i].full) IN
    /\ ValidSession(i)  \* and, for the first, the bootstrap token
    /\ Begins(w, "setCeremony", Browser(i), [kind |-> "register", mode |-> mode])
    /\ UNCHANGED <<asessions, passkeys, apiTokens>>

\* passkeyLoginBegin: with an active passkey of the subject.
LoginBegin(w, i) ==
    /\ ValidSession(i)
    /\ OwnActive(asessions[i].subject) # {}
    /\ Begins(w, "setCeremony", Browser(i), [kind |-> "login", mode |-> "login"])
    /\ UNCHANGED <<asessions, passkeys, apiTokens>>

\* SetAdminCeremony.  Nothing is ever asked of a session that has ended.
SetAdminCeremony(w) ==
    /\ RequestAt(w, "setCeremony")
    /\ asessions' = IF asessions[MySession(w)].ended THEN asessions
                    ELSE [asessions EXCEPT ![MySession(w)].ceremony = request[w].ceremony]
    /\ Answer(w)
    /\ UNCHANGED <<passkeys, apiTokens>>

\* loadCeremony: what begin left in the session, read ...
LoadCeremony(w, i) ==
    /\ ValidSession(i) /\ asessions[i].ceremony # Nobody
    /\ Begins(w, "clearCeremony", Browser(i), asessions[i].ceremony)
    /\ UNCHANGED <<asessions, passkeys, apiTokens>>

\* ... and taken out.
ClearCeremony(w) ==
    /\ RequestAt(w, "clearCeremony")
    /\ asessions' = [asessions EXCEPT ![MySession(w)].ceremony = Nobody]
    /\ Goes(w, IF request[w].ceremony.kind = "register" THEN "addPasskey" ELSE "assertion")
    /\ UNCHANGED <<passkeys, apiTokens>>

\* db.AddPasskey: one that needs no approval is its owner's own.
NewPasskey(s, mode) ==
    [subject |-> s, mode |-> mode, status |-> IF mode = "pending" THEN "pending" ELSE "active",
     by |-> IF mode = "pending" THEN Nobody ELSE s]

\* passkeyRegisterFinish, AddPasskey: the browser's answer does not verify or
\* its credential is there already; or there is a new passkey.
AddPasskey(w) ==
    LET mode == request[w].ceremony.mode IN
    /\ RequestAt(w, "addPasskey")
    /\ \/ Answer(w) /\ UNCHANGED passkeys
       \/ /\ Len(passkeys) < MaxPasskeys
          /\ passkeys' = Append(passkeys, NewPasskey(Me(w), mode))
          /\ IF mode = "pending" THEN Answer(w) ELSE Goes(w, IF mode = "first" THEN "revokeTokens" ELSE "raise")
    /\ UNCHANGED <<asessions, apiTokens>>

\* passkeyLoginFinish: the passkeys are read again; the assertion is one of
\* an active passkey, or it is refused (not one of them, a cloned key).
Assertion(w) ==
    /\ RequestAt(w, "assertion")
    /\ \/ Answer(w)
       \/ OwnActive(Me(w)) # {} /\ Goes(w, "raise")
    /\ UNCHANGED <<asessions, passkeys, apiTokens>>

\* Sessions that pass AdminAuth and bySessionOnly.
FullSessions == {i \in DOMAIN asessions : ValidSession(i) /\ asessions[i].full}

\* adminApprovePasskey: another admin's passkey ...
ApprovePasskey(w, i, p) ==
    /\ i \in FullSessions /\ p \in DOMAIN passkeys
    /\ request[w] = Nobody /\ passkeys[p].subject # asessions[i].subject
    /\ request' = [request EXCEPT ![w] = [at |-> "approved", by |-> Browser(i), ceremony |-> Nobody, passkey |-> p]]
    /\ UNCHANGED <<asessions, passkeys, apiTokens>>

\* ... that is pending still (db.ApprovePasskey).
PasskeyApproved(w) ==
    LET p == request[w].passkey IN
    /\ RequestAt(w, "approved")
    /\ passkeys' = IF passkeys[p].status = "pending" THEN [passkeys EXCEPT ![p].status = "active", ![p].by = Me(w)]
                   ELSE passkeys
    /\ Answer(w)
    /\ UNCHANGED <<asessions, apiTokens>>

\* adminRevokePasskey, db.RevokePasskey.
RevokePasskey(p) ==
    /\ FullSessions # {} /\ p \in DOMAIN passkeys
    /\ passkeys' = [passkeys EXCEPT ![p].status = "revoked"]
    /\ UNCHANGED <<asessions, apiTokens, request>>

\* RotateBootstrapToken with revokePasskeys, on the control plane's host.
RevokeAllPasskeys ==
    /\ ActivePasskeys # {}
    /\ passkeys' = [p \in DOMAIN passkeys |-> [passkeys[p] EXCEPT !.status = "revoked"]]
    /\ UNCHANGED <<asessions, apiTokens, request>>
-----------------------------------------------------------------------------
(* API tokens.                                                             *)

\* Whether what an admin mints has its chain begin at the bootstrap token.
Rooted(a) == a.via = "bootstrap" \/ (a.via = "token" /\ a.token.root)

CreateAPIToken(a, bootstrap) == [bootstrap |-> bootstrap, root |-> Rooted(a)]

\* AdminAuth of a request for a token, which any full admin may have.
AdmitCreate(w, a) ==
    /\ IsFull(a)
    /\ Begins(w, "createToken", a, Nobody)
    /\ UNCHANGED <<asessions, passkeys, apiTokens>>

\* Mutant: the mark is not carried on by a token of a token.
CreateUnmarked(w) ==
    LET a == request[w].by IN
    /\ RequestAt(w, "createToken")
    /\ apiTokens' = apiTokens \cup {CreateAPIToken(a, a.via = "bootstrap")}
    /\ Answer(w)
    /\ UNCHANGED <<asessions, passkeys>>

\* adminCreateToken, CreateAPIToken.
CreateToken(w) ==
    LET a == request[w].by IN
    /\ RequestAt(w, "createToken")
    /\ apiTokens' = apiTokens \cup {CreateAPIToken(a, a.via = "bootstrap" \/ (a.via = "token" /\ a.token.bootstrap))}
    /\ Answer(w)
    /\ UNCHANGED <<asessions, passkeys>>

\* adminRevokeToken, RevokeAPIToken; or its lifetime ends.
RevokeToken(t) ==
    /\ apiTokens' = apiTokens \ {t}
    /\ UNCHANGED <<asessions, passkeys, request>>

\* RevokeBootstrapAPITokens, after the first passkey.
RevokeBootstrapTokens(w) ==
    /\ RequestAt(w, "revokeTokens")
    /\ apiTokens' = {t \in apiTokens : ~t.bootstrap}
    /\ Goes(w, "raise")
    /\ UNCHANGED <<asessions, passkeys>>

AdminNext ==
    \/ \E w \in Workers : \E a \in Admins : AdmitCreate(w, a)
    \/ \E s \in Subjects : CreateAdminSession(s)
    \/ \E i \in DOMAIN asessions : Logout(i)
    \/ \E w \in Workers : \E i \in DOMAIN asessions : RegisterBegin(w, i) \/ LoginBegin(w, i) \/ LoadCeremony(w, i)
    \/ \E w \in Workers : \/ RaiseSession(w) \/ SetAdminCeremony(w) \/ ClearCeremony(w) \/ AddPasskey(w) \/ Assertion(w)
                          \/ PasskeyApproved(w) \/ CreateToken(w) \/ RevokeBootstrapTokens(w)
    \/ \E w \in Workers : \E i \in DOMAIN asessions, p \in DOMAIN passkeys : ApprovePasskey(w, i, p)
    \/ \E p \in DOMAIN passkeys : RevokePasskey(p)
    \/ \E t \in apiTokens : RevokeToken(t)
    \/ RevokeAllPasskeys

AdminSpec == AdminInit /\ [][AdminNext]_adminVars
-----------------------------------------------------------------------------
(* Properties.                                                             *)

\* The variables have their types.
AdminTypeOK ==
    /\ \A i \in DOMAIN asessions : asessions[i].subject \in Subjects /\ asessions[i].from \in 0 .. i - 1
    /\ \A p \in DOMAIN passkeys :
          /\ passkeys[p].status \in {"pending", "active", "revoked"}
          /\ passkeys[p].status = "pending" <=> passkeys[p].by = Nobody /\ passkeys[p].status # "revoked"
    /\ Len(asessions) <= MaxSessions /\ Len(passkeys) <= MaxPasskeys

\* One sign-in gives one full session, however its requests interleave: two
\* answers to the same ceremony do not both raise it (RaiseAdminSession).
OneFullSession ==
    \A i, j \in DOMAIN asessions : (asessions[i].from # 0 /\ asessions[i].from = asessions[j].from) => i = j

\* The id a browser had before its passkey is never one with full rights
\* (raiseSession: "does not gain full rights").
NoSessionGainsRights ==
    [][\A i \in DOMAIN asessions : asessions'[i].full => asessions[i].full]_adminVars

\* Whoever has a full session has had a passkey in force (raiseSession).
FullHadPasskey ==
    \A i \in DOMAIN asessions : asessions[i].full =>
        \E p \in OwnPasskeys(asessions[i].subject) : passkeys[p].by # Nobody

\* What the bootstrap token minted, directly or through tokens, is of no use
\* while a passkey is active (adminCreateToken, LookupAPIToken).
BootstrapChainDies ==
    \A t \in apiTokens : (t.root /\ UsableToken(t)) => ActivePasskeys = {}

\* A passkey that had to be approved was approved by somebody else
\* (adminApprovePasskey).
ApprovedByAnother ==
    \A p \in DOMAIN passkeys : (passkeys[p].mode = "pending" /\ passkeys[p].by # Nobody) =>
        passkeys[p].by # passkeys[p].subject

\* A revoked passkey stays revoked (db.ApprovePasskey).
RevokedStays ==
    [][\A p \in DOMAIN passkeys : passkeys[p].status = "revoked" => passkeys'[p].status = "revoked"]_adminVars

\* One sign-in gives one full session and whoever has one has had a passkey in
\* force (raiseSession), what the bootstrap token minted is of no use while a
\* passkey is active (LookupAPIToken), and a passkey that had to be approved
\* was approved by somebody else (adminApprovePasskey), whatever happens
\* between the two requests of a ceremony.
AdminInv ==
    /\ AdminTypeOK
    /\ OneFullSession
    /\ FullHadPasskey
    /\ BootstrapChainDies
    /\ ApprovedByAnother

=============================================================================
