---------------------------- MODULE EmbeddedTun -----------------------------
(***************************************************************************)
(* The configurator of a node inside an app (netcfg/declarative.go): the   *)
(* wanted settings are handed to the platform in one piece, after a short  *)
(* quiet time and again after a refusal, and the device the platform       *)
(* returns is put behind the one the node reads (swapTUN).                 *)
(*                                                                         *)
(* Declarative's lock is held while the platform applies; the device has a *)
(* lock of its own, so the node may close it meanwhile.  The settings are  *)
(* a version number, 0 before the address is known.  The node opens a      *)
(* device only after it closed the one before (NodeLifecycle).             *)
(***************************************************************************)
EXTENDS Naturals

CONSTANTS MaxTuns,     \* bound: devices one after the other
          MaxWants,    \* bound: changes of the settings of a device
          MaxFd,       \* bound: descriptors open at once
          MaxGen,      \* bound: devices replaced while the settings are refreshed
          MaxRefusals  \* bound: applies the platform refuses or that give no device

ASSUME TunAssumption ==
    /\ MaxTuns \in Nat \ {0} /\ MaxWants \in Nat \ {0} /\ MaxFd \in Nat \ {0}
    /\ MaxGen \in Nat /\ MaxRefusals \in Nat

VARIABLES tun,       \* dev: [no, state]; state "none", "open", "closed" or "released"
          wants,     \* settings, routes and excluded: the newest version
          timers,    \* devices whose apply is due: d.timer, and one that fired and waits for the lock
          applying,  \* the version the platform is applying, or 0
          applied,   \* the version the platform has, or 0
          fd,        \* d.fd, or 0
          behind,    \* swapTUN.dev: the descriptor read and written, or 0
          gen,       \* swapTUN.gen
          openFds,   \* descriptors of the core that are open
          closing,   \* descriptors about to be closed
          reader,    \* the node's reader: [at, dev, gen]
          refusals   \* refusals so far

tunVars == <<tun, wants, timers, applying, applied, fd, behind, gen, openFds, closing, reader, refusals>>

IdleReader == [at |-> "idle", dev |-> 0, gen |-> 0]

TunInit ==
    /\ tun = [no |-> 0, state |-> "none"]
    /\ wants = 0 /\ timers = {} /\ applying = 0 /\ applied = 0 /\ fd = 0
    /\ behind = 0 /\ gen = 0 /\ openFds = {} /\ closing = {} /\ reader = IdleReader
    /\ refusals = 0

Opened == tun.state = "open"

\* CreateTUN: the settings of the device before are gone.
CreateTun ==
    /\ tun.state \in {"none", "released"} /\ applying = 0 /\ tun.no < MaxTuns
    /\ tun' = [no |-> tun.no + 1, state |-> "open"]
    /\ wants' = 0 /\ fd' = 0 /\ behind' = 0 /\ gen' = 0 /\ reader' = IdleReader
    /\ UNCHANGED <<timers, applying, applied, openFds, closing, refusals>>

\* scheduleLocked: nothing once the device was closed; a change within the
\* quiet time starts it again.
ScheduleLocked == timers' = IF Opened THEN timers \cup {tun.no} ELSE timers

\* SetAddress, AddRoute, DelRoute, AddBypass, DelBypass, SetDNS.
Want ==
    /\ tun.state # "none" /\ applying = 0 /\ wants < MaxWants
    /\ wants' = wants + 1
    /\ ScheduleLocked
    /\ UNCHANGED <<tun, applying, applied, fd, behind, gen, openFds, closing, reader, refusals>>

\* Refresh: the same settings again.
Refresh ==
    /\ wants > 0 /\ applying = 0 /\ Opened /\ gen < MaxGen
    /\ ScheduleLocked
    /\ UNCHANGED <<tun, wants, applying, applied, fd, behind, gen, openFds, closing, reader, refusals>>

\* apply begins: not for another device, not for one that was closed.
Apply ==
    /\ applying = 0
    /\ \E t \in timers :
         /\ timers' = timers \ {t}
         /\ applying' = IF t = tun.no /\ Opened THEN wants ELSE 0
    /\ UNCHANGED <<tun, wants, applied, fd, behind, gen, openFds, closing, reader, refusals>>

\* Mutant: a refusal is only logged.
RefusedOnce == UNCHANGED timers

\* retryLocked.
RetryLocked == timers' = timers \cup {tun.no}

\* The platform refuses the settings.
Refused ==
    /\ applying # 0 /\ refusals < MaxRefusals
    /\ refusals' = refusals + 1 /\ applying' = 0
    /\ RetryLocked
    /\ UNCHANGED <<tun, wants, applied, fd, behind, gen, openFds, closing, reader>>

\* The platform applies them and keeps its device.
AppliedKept ==
    /\ applying # 0 /\ fd # 0
    /\ applied' = applying /\ applying' = 0
    /\ UNCHANGED <<tun, wants, timers, fd, behind, gen, openFds, closing, reader, refusals>>

\* Mutant: the reader is not told.
SwapSilently(f) ==
    IF Opened
      THEN /\ behind' = f /\ gen' = gen
           /\ closing' = closing \cup ({behind} \ {0})
      ELSE /\ closing' = closing \cup {f}
           /\ UNCHANGED <<behind, gen>>

\* swap: behind a device that was closed meanwhile the new one is closed.
Swap(f) ==
    IF Opened
      THEN /\ behind' = f /\ gen' = gen + 1
           /\ closing' = closing \cup ({behind} \ {0})
      ELSE /\ closing' = closing \cup {f}
           /\ UNCHANGED <<behind, gen>>

\* The platform applies them and returns a new descriptor.
AppliedNew ==
    /\ applying # 0
    /\ \E f \in (1 .. MaxFd) \ openFds :
         /\ openFds' = openFds \cup {f}
         /\ fd' = f
         /\ Swap(f)
    /\ applied' = applying /\ applying' = 0
    /\ UNCHANGED <<tun, wants, timers, reader, refusals>>

\* No device can be made from the descriptor (tunFromFD).
NoDevice ==
    /\ applying # 0 /\ refusals < MaxRefusals
    /\ refusals' = refusals + 1 /\ applied' = applying /\ applying' = 0
    /\ RetryLocked
    /\ UNCHANGED <<tun, wants, fd, behind, gen, openFds, closing, reader>>

\* A descriptor is closed: after its device was replaced (swap), or with the
\* device (Close).
CloseFd ==
    /\ \E f \in closing : closing' = closing \ {f} /\ openFds' = openFds \ {f}
    /\ UNCHANGED <<tun, wants, timers, applying, applied, fd, behind, gen, reader, refusals>>

\* Close of the device the node holds.
CloseTun ==
    /\ Opened
    /\ tun' = [tun EXCEPT !.state = "closed"]
    /\ behind' = 0 /\ closing' = closing \cup ({behind} \ {0})
    /\ UNCHANGED <<wants, timers, applying, applied, fd, gen, openFds, reader, refusals>>

\* release, once the device's own descriptor is closed and no apply runs: a
\* timer that has fired is not stopped any more.
Release ==
    /\ tun.state = "closed" /\ applying = 0 /\ closing = {}
    /\ tun' = [tun EXCEPT !.state = "released"]
    /\ timers' \in {timers, {}} /\ fd' = 0 /\ applied' = 0
    /\ UNCHANGED <<wants, applying, behind, gen, openFds, closing, reader, refusals>>

\* current: waits for the first device.
ReadCurrent ==
    /\ reader.at = "idle"
    /\ \/ Opened /\ behind # 0 /\ reader' = [at |-> "reading", dev |-> behind, gen |-> gen]
       \/ tun.state \in {"closed", "released"} /\ reader' = [reader EXCEPT !.at = "closed"]
    /\ UNCHANGED <<tun, wants, timers, applying, applied, fd, behind, gen, openFds, closing, refusals>>

\* Read: a packet, or the device under it was closed.
ReadDone ==
    /\ reader.at = "reading"
    /\ reader' =
         IF reader.dev \in openFds THEN IdleReader
         ELSE IF ~Opened THEN [reader EXCEPT !.at = "closed"]
         ELSE IF gen # reader.gen THEN IdleReader
         ELSE [reader EXCEPT !.at = "error"]
    /\ UNCHANGED <<tun, wants, timers, applying, applied, fd, behind, gen, openFds, closing, refusals>>

TunNext ==
    \/ CreateTun \/ Want \/ Refresh \/ Apply \/ Refused \/ AppliedKept \/ AppliedNew \/ NoDevice
    \/ CloseFd \/ CloseTun \/ Release \/ ReadCurrent \/ ReadDone

TunSpec == TunInit /\ [][TunNext]_tunVars

-----------------------------------------------------------------------------
(* Properties.                                                             *)

TunTypeOK ==
    /\ tun.no \in 0 .. MaxTuns /\ tun.state \in {"none", "open", "closed", "released"}
    /\ wants \in 0 .. MaxWants /\ applying \in 0 .. MaxWants /\ applied \in 0 .. MaxWants
    /\ fd \in 0 .. MaxFd /\ openFds \subseteq 1 .. MaxFd /\ closing \subseteq openFds
    /\ behind # 0 => behind \in openFds \ closing

\* A read goes on on the new device when the platform replaces the one under
\* it, at whatever moment; the node's reader ends only with the device
\* (swapTUN.Read, swap).
ReaderSurvivesSwap == reader.at # "error"

\* Every descriptor the platform gave is read, or about to be closed: also
\* one that arrives after the node closed its device (swap, Close).
DescriptorIsOwned == openFds \subseteq {behind} \cup closing

\* After Release the platform has no settings of this device and gets none
\* (release, apply): no app shows a tunnel without a node.
ReleaseIsLast == tun.state = "released" => applied = 0 /\ applying = 0 /\ openFds = {}

\* The newest settings reach the platform, also after refusals in a row,
\* while the device is open (scheduleLocked, retryLocked: "an overlay "up"
\* without an interface stayed that way").
SettingsArrive == []<>(Opened /\ wants # 0 => applied = wants /\ behind # 0)

\* A read survives the replacement of its device, every descriptor has an
\* owner, and after Release nothing is left (swapTUN, Declarative).
TunInv == TunTypeOK /\ ReaderSurvivesSwap /\ DescriptorIsOwned /\ ReleaseIsLast

=============================================================================
