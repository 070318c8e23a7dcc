----------------------------- MODULE MCControl -----------------------------
(***************************************************************************)
(* Instances for TLC of what administrators use: the access lists, who is  *)
(* an administrator, their logins and the rate limit before them.  No two  *)
(* of these share state: focus says which one a behaviour is about, and    *)
(* the others stand still.                                                 *)
(***************************************************************************)
EXTENDS AccessLists, AdminAuth, AdminLogin, TLC

CONSTANTS alice, bob, w1, w2, t1, t2, c1, c2, c3

VARIABLE focus

\* Each component is symmetric in its own values, and only one of them moves:
\* a permutation may exchange values of all of them at once.
Values == {alice, bob, w1, w2, t1, t2, c1, c2}
Swapped(pairs, x) ==
  IF x \in UNION pairs THEN CHOOSE y \in Values : {x, y} \in pairs /\ x # y ELSE x
MCSymmetry ==
  {[x \in Values |-> Swapped(pairs, x)] :
     pairs \in {{}, {{w1, w2}, {t1, t2}, {c1, c2}}, {{alice, bob}},
                {{w1, w2}, {t1, t2}, {c1, c2}, {alice, bob}}}}

ControlInit ==
  /\ focus \in {"lists", "races", "approvals", "logins", "limit"}
  /\ ListInit /\ AdminInit /\ AdminLoginInit /\ LimitInit

\* The requests of administrators: two at a time over one passkey, or one at
\* a time over two.
RacesNext == AdminNext /\ Len(passkeys') <= 1
ApprovalsNext == AdminNext /\ \E w \in Workers : \A v \in Workers \ {w} : request'[v] = Nobody

ControlNext ==
  /\ UNCHANGED focus
  /\ \/ focus = "lists" /\ ListNext /\ UNCHANGED <<adminVars, adminLoginVars, limitVars>>
     \/ focus = "races" /\ RacesNext /\ UNCHANGED <<listVars, adminLoginVars, limitVars>>
     \/ focus = "approvals" /\ ApprovalsNext /\ UNCHANGED <<listVars, adminLoginVars, limitVars>>
     \/ focus = "logins" /\ AdminLoginNext /\ UNCHANGED <<listVars, adminVars, limitVars>>
     \/ focus = "limit" /\ LimitNext /\ UNCHANGED <<listVars, adminVars, adminLoginVars>>

ControlSpec ==
  ControlInit /\ [][ControlNext]_<<focus, listVars, adminVars, adminLoginVars, limitVars>>

\* An administrator gets in at most once per login (adminCallback), within
\* the bound on pending logins (adminLoginStart), and the rate limiter before
\* them (allowN) forgets only clients that have their whole burst again.
SignInInv == AdminLoginInv /\ LimitInv

\* What no step does: take a list from under a policy that names it
\* (UpdateList, DeleteList), change a list or a policy without raising the
\* snapshot version, raise a session that exists (raiseSession), bring a
\* revoked passkey back (ApprovePasskey), or let a login that has ended sign
\* somebody in (AdminLoginFlowByState).
ControlSteps ==
  /\ NamedStays /\ ListChangeBumps
  /\ NoSessionGainsRights /\ RevokedStays
  /\ EndedFlowGivesNone

=============================================================================
