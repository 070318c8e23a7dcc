---------------------------- MODULE HostJournal -----------------------------
(***************************************************************************)
(* The journal of host changes (internal/node/netcfg/journal.go) over the  *)
(* Linux configurator (netcfg_linux.go, dnsredirect_linux.go): what the    *)
(* commands changed on the host, the record of it in memory and in the     *)
(* state file, and Recover, with which the next start or a repair undoes   *)
(* what a process that died left behind.                                   *)
(*                                                                         *)
(* A change is a kind and what it is for: a device, or the host of a       *)
(* bypass route.  A command answers "ok" or "refused", or is "cut" off by  *)
(* its deadline; one that was cut off may have taken effect.  The process  *)
(* dies at any moment.                                                     *)
(***************************************************************************)
EXTENDS Naturals, FiniteSets

CONSTANTS Changes,     \* the changes the node may make: [kind, of]
          MaxChanges,  \* bound: changes on the host or recorded at once
          MaxCalls,    \* calls under way at once, each for another change
          MaxFaults    \* bound: commands cut off or failed, records not written

JournalKinds == {"route", "bypass", "nat", "forward", "dns", "arrival"}

ASSUME JournalAssumption ==
    /\ \A c \in Changes : c.kind \in JournalKinds
    \* a process has one tunnel device, under the name its configuration gives
    /\ \A c, d \in Changes : c.kind = "dns" /\ d.kind = "dns" => c = d
    /\ MaxChanges \in Nat \ {0} /\ MaxCalls \in Nat \ {0} /\ MaxFaults \in Nat

VARIABLES changed,   \* what is changed on the host
          recorded,  \* j.st
          onDisk,    \* the state file
          daemon,    \* "dead", "recovering" or "up"
          calls,     \* calls under way: [c, on, answer], "waits" until the command ran
          todo,      \* entries Recover has not tried yet
          kept,      \* kept: entries whose removal was cut off
          lost,      \* ghost: on the host, with a record that never reached the disk
          faults     \* faults so far

journalVars == <<changed, recorded, onDisk, daemon, calls, todo, kept, lost, faults>>

\* journalState: routes and bypass hosts are lists, the others one device.
Slotted == {"nat", "forward", "dns", "arrival"}

Put(r, c) == (IF c.kind \in Slotted THEN {d \in r : d.kind # c.kind} ELSE r) \cup {c}

Drop(r, c) == IF c.kind \in Slotted THEN {d \in r : d.kind # c.kind} ELSE r \ {c}

\* The nftables tables of NAT and of the arrival rules exist once, whatever
\* the device; routes, forward rules and redirects exist per device.
Shared == {"nat", "arrival"}

Without(h, c) == IF c.kind \in Shared THEN {d \in h : d.kind # c.kind} ELSE h \ {c}

With(h, c) == Without(h, c) \cup {c}

\* A command answered a with one of the hosts hs; f of MaxFaults are used up.
Answer(a, hs, f) == {[answer |-> a, host |-> h, fault |-> f] : h \in hs}

\* AddRoute and DelRoute of the Linux configurator: an error of the removal
\* says that there is no such route.
RouteCommand(h, c, on) ==
    IF on THEN Answer("ok", {With(h, c)}, 0) \cup Answer("refused", {h}, 1) \cup Answer("cut", {h, With(h, c)}, 1)
          ELSE Answer("ok", {h \ {c}}, 0) \cup Answer("cut", {h, h \ {c}}, 1)

\* AddBypass: looks the way up and sets the host route, or finds no way.
BypassCommand(h, c, on) ==
    IF on THEN Answer("ok", {With(h, c)}, 0) \cup Answer("refused", {h}, 1) \cup Answer("cut", {h, With(h, c)}, 1)
          ELSE Answer("ok", {h \ {c}}, 0) \cup Answer("cut", {h, h \ {c}}, 1)

\* SetNAT deletes the table and throws the answer away; without destinations
\* that is all, and it answers that it worked.
NATCommand(h, c, on) ==
    IF on THEN Answer("ok", {With(h, c)}, 0) \cup Answer("refused", {Without(h, c)}, 1)
               \cup Answer("cut", {h, Without(h, c), With(h, c)}, 1)
          ELSE Answer("ok", {Without(h, c)}, 0) \cup Answer("ok", {h}, 1)

\* AllowForward: a chain that cannot be listed counts as none there is, and
\* what the deletions answer is thrown away.
ForwardCommand(h, c, on) ==
    Answer("none", {h}, 1)
    \cup (IF on THEN Answer("ok", {With(h, c)}, 0) \cup Answer("refused", {h \ {c}}, 1)
                     \cup Answer("cut", {h \ {c}, With(h, c)}, 1)
                ELSE Answer("ok", {h \ {c}}, 0) \cup Answer("ok", {h}, 1))

\* SetLinkDNS: the redirect is replaced in one transaction; its removal is
\* followed by resolved's link setting, which may fail when it is gone.
DNSCommand(h, c, on) ==
    IF on THEN Answer("ok", {With(h, c)}, 0) \cup Answer("refused", {h}, 1) \cup Answer("cut", {h, With(h, c)}, 1)
          ELSE Answer("ok", {h \ {c}}, 0) \cup Answer("refused", {h, h \ {c}}, 1) \cup Answer("cut", {h, h \ {c}}, 1)

\* ReplyViaArrival: from a clean state, whose commands' answers are thrown
\* away; off is only that.
ArrivalCommand(h, c, on) ==
    IF on THEN Answer("ok", {With(h, c)}, 0) \cup Answer("refused", {Without(h, c)}, 1)
               \cup Answer("cut", {h, Without(h, c), With(h, c)}, 1)
          ELSE Answer("ok", {Without(h, c)}, 0) \cup Answer("ok", {h}, 1)

\* The command behind a change.
Outcomes(h, c, on) ==
    CASE c.kind = "route"   -> RouteCommand(h, c, on)
      [] c.kind = "bypass"  -> BypassCommand(h, c, on)
      [] c.kind = "nat"     -> NATCommand(h, c, on)
      [] c.kind = "forward" -> ForwardCommand(h, c, on)
      [] c.kind = "dns"     -> DNSCommand(h, c, on)
      [] c.kind = "arrival" -> ArrivalCommand(h, c, on)

Faulty(n) == faults + n <= MaxFaults /\ faults' = faults + n

\* Ghost: what is no longer on the host is not lost any more.
Losing(l, h) == lost' = l \cap h

JournalInit ==
    /\ changed = {} /\ recorded = {} /\ onDisk = {} /\ lost = {}
    /\ daemon = "up" /\ calls = {} /\ todo = {} /\ kept = {} /\ faults = 0

\* A caller asks for a change or for its removal.
Call(c, on) ==
    /\ daemon = "up" /\ Cardinality(calls) < MaxCalls
    /\ \A k \in calls : k.c.kind # c.kind
    /\ Cardinality(changed \cup recorded \cup onDisk \cup {c} \cup {k.c : k \in calls}) <= MaxChanges
    /\ calls' = calls \cup {[c |-> c, on |-> on, answer |-> "waits"]}
    /\ UNCHANGED <<changed, recorded, onDisk, daemon, todo, kept, lost, faults>>

\* The command runs, outside the journal's lock.
Command(k) ==
    /\ k \in calls /\ k.answer = "waits"
    /\ \E o \in Outcomes(changed, k.c, k.on) :
         /\ Faulty(o.fault)
         /\ changed' = o.host
         /\ calls' = (calls \ {k}) \cup {[k EXCEPT !.answer = o.answer]}
    /\ Losing(lost, changed')
    /\ UNCHANGED <<recorded, onDisk, daemon, todo, kept>>

\* save: writes the state, or removes the file when nothing is left; an
\* error is logged.
Save(r) ==
    \/ onDisk' = r /\ UNCHANGED faults
    \/ Faulty(1) /\ UNCHANGED onDisk

\* The command of call k, a change of this kind, has answered.
Answered(k, kind) == k \in calls /\ k.c.kind = kind /\ k.answer # "waits"

\* What is common to the ends of the calls: under the lock the record is
\* changed and saved, or left alone.
Finish(k, changes, r) ==
    /\ calls' = calls \ {k}
    /\ IF changes THEN recorded' = r /\ Save(r) ELSE UNCHANGED <<recorded, onDisk, faults>>
    /\ UNCHANGED <<changed, daemon, todo, kept, lost>>

\* AddRoute is recorded when it worked, and also when its command never
\* answered.
AddRoute(k) ==
    /\ Answered(k, "route") /\ k.on
    /\ Finish(k, k.answer # "refused" /\ k.c \notin recorded, Put(recorded, k.c))

\* Mutant: a removal that was cut off takes the record with it.
DelRouteAlways(k) ==
    /\ Answered(k, "route") /\ ~k.on
    /\ Finish(k, TRUE, Drop(recorded, k.c))

\* DelRoute: one that never answered keeps its record.
DelRoute(k) ==
    /\ Answered(k, "route") /\ ~k.on
    /\ Finish(k, k.answer # "cut", Drop(recorded, k.c))

AddBypass(k) ==
    /\ Answered(k, "bypass") /\ k.on
    /\ Finish(k, k.answer # "refused" /\ k.c \notin recorded, Put(recorded, k.c))

DelBypass(k) ==
    /\ Answered(k, "bypass") /\ ~k.on
    /\ Finish(k, k.answer # "cut", Drop(recorded, k.c))

SetNAT(k) ==
    /\ Answered(k, "nat")
    /\ Finish(k, IF k.on THEN k.answer # "refused" ELSE k.answer = "ok",
                 IF k.on THEN Put(recorded, k.c) ELSE Drop(recorded, k.c))

\* A filter that was not found is not recorded.
AllowForward(k) ==
    /\ Answered(k, "forward")
    /\ Finish(k, IF k.on THEN k.answer \in {"ok", "cut"} ELSE k.answer \in {"ok", "none"},
                 IF k.on THEN Put(recorded, k.c) ELSE Drop(recorded, k.c))

\* A removal that failed keeps its record, whatever the error.
SetLinkDNS(k) ==
    /\ Answered(k, "dns")
    /\ Finish(k, k.on \/ k.answer = "ok",
                 IF ~k.on THEN Drop(recorded, k.c)
                 ELSE IF k.answer = "refused" THEN recorded ELSE Put(recorded, k.c))

ReplyViaArrival(k) ==
    /\ Answered(k, "arrival")
    /\ Finish(k, k.answer # "cut" \/ (k.on /\ k.c \notin recorded),
                 IF ~k.on THEN Drop(recorded, k.c)
                 ELSE IF k.answer = "refused" THEN recorded ELSE Put(recorded, k.c))

\* The process dies.  Its device goes with it, and the routes through it, or
\* outlives it.
Dies ==
    /\ daemon # "dead"
    /\ daemon' = "dead" /\ calls' = {} /\ recorded' = {} /\ todo' = {} /\ kept' = {}
    /\ changed' \in {changed, {c \in changed : c.kind # "route"}}
    /\ Losing(lost \cup {k.c : k \in calls} \cup (recorded \ onDisk), changed')
    /\ UNCHANGED <<onDisk, faults>>

\* Recover reads the file, which stays until everything was tried: at the start of a process, or in a repair without a
\* session (Repair, repairHost), when no call is under way.
RecoverBegins ==
    /\ daemon = "dead" \/ (daemon = "up" /\ calls = {})
    /\ daemon' = "recovering"
    /\ todo' = onDisk /\ kept' = {}
    /\ Losing(lost \cup (recorded \ onDisk), changed)
    /\ UNCHANGED <<changed, recorded, onDisk, calls, faults>>

\* The resolver first, then the arrival rules, routes, bypass routes, the
\* forward rules and NAT.
Rank(c) ==
    CASE c.kind = "dns" -> 1 [] c.kind = "arrival" -> 2 [] c.kind = "route" -> 3
      [] c.kind = "bypass" -> 4 [] c.kind = "forward" -> 5 [] c.kind = "nat" -> 6

\* One entry is undone, with a deadline of its own (opContext, cutOff); the
\* resolver has three tries (giveBackDNS) and stays recorded on any error.
RecoverOne ==
    /\ daemon = "recovering"
    /\ \E c \in todo :
         /\ \A d \in todo : Rank(c) <= Rank(d)
         /\ todo' = todo \ {c}
         /\ \E o \in Outcomes(changed, c, FALSE) :
              /\ Faulty(o.fault)
              /\ changed' = o.host
              /\ kept' = IF o.answer \in {"ok", "none"} THEN kept ELSE kept \cup {c}
    /\ Losing(lost, changed')
    /\ UNCHANGED <<recorded, onDisk, daemon, calls>>

\* Mutant: what was not undone is forgotten.
RecoverForgets ==
    /\ daemon = "recovering" /\ todo = {}
    /\ recorded' = {} /\ Save({}) /\ kept' = {}
    /\ daemon' = "up"
    /\ UNCHANGED <<changed, calls, todo, lost>>

\* What is left over is the record this process goes on with.
RecoverEnds ==
    /\ daemon = "recovering" /\ todo = {}
    /\ recorded' = kept /\ Save(kept) /\ kept' = {}
    /\ daemon' = "up"
    /\ UNCHANGED <<changed, calls, todo, lost>>

JournalNext ==
    \/ \E c \in Changes, on \in BOOLEAN : Call(c, on)
    \/ \E k \in calls :
         \/ Command(k)
         \/ AddRoute(k) \/ DelRoute(k) \/ AddBypass(k) \/ DelBypass(k)
         \/ SetNAT(k) \/ AllowForward(k) \/ SetLinkDNS(k) \/ ReplyViaArrival(k)
    \/ Dies \/ RecoverBegins \/ RecoverOne \/ RecoverEnds

JournalSpec == JournalInit /\ [][JournalNext]_journalVars
-----------------------------------------------------------------------------
(* Properties.                                                             *)

JournalTypeOK ==
    /\ changed \subseteq Changes /\ onDisk \subseteq Changes /\ todo \subseteq onDisk
    /\ daemon \in {"dead", "recovering", "up"}
    /\ \A c, d \in recorded : c.kind = d.kind /\ c.kind \in Slotted => c = d

\* Where the record of a change is looked for.
Known ==
    lost \cup {k.c : k \in calls} \cup (IF daemon = "up" THEN recorded ELSE onDisk)

\* Every route, bypass route and redirect on the host is in the record that a
\* crash leaves behind, whatever was cut off and however often Recover was
\* interrupted; only a call that was under way when the process died, and a
\* record the disk refused, are not (the journal's reason to exist: "a change
\* without a record outlives a crash").
AnsweredIsKnown ==
    \A c \in changed : c.kind \in {"route", "bypass", "dns"} => c \in Known

\* What is on disk is what the process knows, unless the disk refused it: a
\* file that names a change nobody made costs one command, one that misses a
\* change costs the host.
DiskIsBehindByFault == (daemon = "up" /\ onDisk # recorded) => faults > 0

\* What a command of the operating system was answered to is in the journal
\* (Journal.AddRoute and its siblings), and the file is behind the host only
\* by what a fault explains (save).
JournalInv == JournalTypeOK /\ AnsweredIsKnown /\ DiskIsBehindByFault

=============================================================================
