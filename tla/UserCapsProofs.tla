--------------------------- MODULE UserCapsProofs ---------------------------
(***************************************************************************)
(* Proofs about UserCaps, for every set of hosts, credentials, labels and  *)
(* cgroups: the system call is made as the caller or not at all, and the   *)
(* switch is refused only for a cause.                                     *)
(***************************************************************************)
EXTENDS UserCaps, TLAPS

----------------------------------------------------------------------------
(* The inductive invariant: what the daemon has read and what the child has *)
(* become by the time the handling of the request has reached each step.   *)

\* The steps of a request from each one on.
Syscall   == {"syscall"}
Caps      == {"user_caps"} \cup Syscall
SetLab    == {"set_label"} \cup Caps
Cwd       == {"enter_cwd"} \cup SetLab
Chroot    == {"enter_chroot"} \cup Cwd
Setns     == {"setns"} \cup Chroot
Cgroups   == {"apply_cgroups"} \cup Setns
Label     == {"get_label"} \cup Cgroups
ReadGroup == {"get_cgroups"} \cup Label
Underway  == {"get_status"} \cup ReadGroup

\* A record with the fields of Daemon.
IsChild(c) ==
    c = [euid |-> c.euid, egid |-> c.egid, fsuid |-> c.fsuid, fsgid |-> c.fsgid,
         inheritable |-> c.inheritable, permitted |-> c.permitted,
         effective |-> c.effective, secure |-> c.secure, umask |-> c.umask,
         devices |-> c.devices, v2 |-> c.v2, ns |-> c.ns, root |-> c.root,
         cwd |-> c.cwd, label |-> c.label, ok |-> c.ok]

\* The child has the credentials it inherited.
AsDaemon(c) ==
    /\ c.euid = 0 /\ c.egid = 0 /\ c.fsuid = 0 /\ c.fsgid = 0
    /\ c.inheritable = {} /\ c.permitted = host.caps /\ c.effective = host.caps
    /\ c.secure = {} /\ c.label = host.label /\ c.ok = TRUE

\* The caller's present values are among those it held.
PresentHeld ==
    pc \in Underway =>
        /\ proc.cred \in held.cred /\ proc.fs \in held.fs /\ proc.cg \in held.cg
        /\ outcome = "none" /\ made = {}

\* What was read is something the caller had.  The default umask is read for
\* a zombie only, which no later step but apply_cgroups gets past.
ReadHeld ==
    /\ pc \in ReadGroup => snap.status \in held.cred
    /\ pc \in Label => snap.cg \in held.cg
    /\ pc \in Cgroups => \E c \in held.cred : snap.label = c.label
    /\ (pc \in ReadGroup /\ Alive) \/ pc \in Chroot =>
           \E f \in held.fs : snap.umask = f.umask

\* What the child has entered so far.
ChildEntered ==
    /\ pc = "apply_cgroups" => child = Daemon
    /\ pc \in Setns => SameGroups(child, snap.cg)
    /\ pc \in Setns \ Caps => AsDaemon(child)
    /\ pc \in Chroot => \E c \in held.cred : child.ns = c.ns
    /\ pc \in Cwd => \E f \in held.fs : child.root = f.root
    /\ pc \in SetLab => \E f \in held.fs : child.cwd = f.cwd

\* The credentials before the switch, except for the label.
Unswitched(c) == c.ok = TRUE /\ c.permitted = host.caps /\ c.effective = host.caps

\* What the child is once it has changed its label, and once apply is over.
ChildSwitched ==
    /\ pc \in Caps =>
           child.label = IF snap.label = NoLabel THEN host.label ELSE snap.label
    /\ pc = "user_caps" => Unswitched(child)
    /\ pc = "syscall" =>
           /\ LetsIdsSwitch(child.label) => SameIds(child, snap.status)
           /\ child.umask = snap.umask

\* The types, with the shape of the child's record and of made.
Shape ==
    /\ host \in Hosts /\ pc \in {"idle"} \cup Underway
    /\ proc \in [cred : host.creds, fs : FsStates, cg : host.groups,
                 life : {"alive", "zombie", "gone"}]
    /\ snap \in [status : host.creds, cg : host.groups,
                 umask : {DefaultUmask} \cup {f.umask : f \in FsStates},
                 label : {host.label} \cup {c.label : c \in host.creds}]
    /\ IsChild(child)
    /\ child.effective \subseteq child.permitted /\ child.permitted \subseteq host.caps
    /\ outcome \in {"none", "error", "short", "made"}
    /\ made = {} \/ made = {child}
    /\ held \in [cred : SUBSET host.creds, fs : SUBSET FsStates,
                 cg : SUBSET host.groups]
    /\ requests \in 0..MaxRequests /\ changes \in 0..MaxChanges

Inv ==
    /\ Shape
    /\ PresentHeld /\ ReadHeld /\ ChildEntered /\ ChildSwitched
    /\ EnteredIsTheCallers
    /\ RefusedForCause

----------------------------------------------------------------------------
(* What the calls of the child do to it.                                   *)

\* c and d differ at most in the ids, the securebits, the effective set and
\* whether a call has failed.
Kept(c, d) ==
    /\ IsChild(d)
    /\ d.umask = c.umask /\ d.devices = c.devices /\ d.v2 = c.v2
    /\ d.ns = c.ns /\ d.root = c.root /\ d.cwd = c.cwd /\ d.label = c.label
    /\ d.permitted = c.permitted /\ d.inheritable = c.inheritable
    /\ d.effective \subseteq c.effective
    /\ d.ok => c.ok

\* No call that changes ids or securebits touches anything else.
LEMMA CallsKeep ==
    ASSUME NEW c, IsChild(c), NEW id, NEW bits
    PROVE  /\ Kept(c, SecureBits(c, bits))
           /\ Kept(c, setegid(c, id)) /\ Kept(c, setfsgid(c, id))
           /\ Kept(c, seteuid(c, id)) /\ Kept(c, setfsuid(c, id))
<1>1. Kept(c, SecureBits(c, bits))
  BY Zenon DEF Kept, IsChild, SecureBits, Try
<1>2. Kept(c, setegid(c, id))
  BY Zenon DEF Kept, IsChild, setegid, Try
<1>3. Kept(c, setfsgid(c, id))
  BY Zenon DEF Kept, IsChild, setfsgid, Try
<1>4. Kept(c, seteuid(c, id))
  BY Zenon DEF Kept, IsChild, seteuid, Try
<1>5. Kept(c, setfsuid(c, id))
  BY Zenon DEF Kept, IsChild, setfsuid, Try
<1> QED
  BY <1>1, <1>2, <1>3, <1>4, <1>5, Zenon

LEMMA KeptTransitive ==
    ASSUME NEW c, NEW d, NEW e, Kept(c, d), Kept(d, e)
    PROVE  Kept(c, e)
BY Zenon DEF Kept

\* The four calls that change ids, in the order of apply_user_caps.
SwitchIds(c, s) ==
    setfsuid(seteuid(setfsgid(setegid(c, s.egid), s.fsgid), s.euid), s.fsuid)

LEMMA SwitchIdsKeeps ==
    ASSUME NEW c, IsChild(c), NEW s
    PROVE  Kept(c, SwitchIds(c, s))
<1> DEFINE c1 == setegid(c, s.egid)
           c2 == setfsgid(c1, s.fsgid)
           c3 == seteuid(c2, s.euid)
           c4 == setfsuid(c3, s.fsuid)
<1>1. Kept(c, c1)
  BY CallsKeep, Zenon
<1> HIDE DEF c1
<1>2. Kept(c1, c2)
  <2>1. IsChild(c1)
    BY <1>1, Zenon DEF Kept
  <2> QED
    BY <2>1, CallsKeep, Zenon
<1> HIDE DEF c2
<1>3. Kept(c2, c3)
  <2>1. IsChild(c2)
    BY <1>2, Zenon DEF Kept
  <2> QED
    BY <2>1, CallsKeep, Zenon
<1> HIDE DEF c3
<1>4. Kept(c3, c4)
  <2>1. IsChild(c3)
    BY <1>3, Zenon DEF Kept
  <2> QED
    BY <2>1, CallsKeep, Zenon
<1>5. Kept(c, c4)
  BY <1>1, <1>2, <1>3, <1>4, KeptTransitive, Zenon
<1> QED
  BY <1>5, Zenon DEF SwitchIds, c1, c2, c3, c4

HasIds(d, s) ==
    d.euid = s.euid /\ d.egid = s.egid /\ d.fsuid = s.fsuid /\ d.fsgid = s.fsgid

\* With the capabilities at hand, and the securebit that keeps them when the
\* child leaves euid 0, all four ids change.
LEMMA IdsSwitch ==
    ASSUME NEW c, IsChild(c), NEW s,
           c.ok = TRUE, "NO_SETUID_FIXUP" \in c.secure,
           Capable(c, "SETUID"), Capable(c, "SETGID")
    PROVE  HasIds(SwitchIds(c, s), s) /\ SwitchIds(c, s).ok = TRUE
<1> DEFINE c1 == [c EXCEPT !.egid = s.egid, !.fsgid = s.egid]
           c2 == [c EXCEPT !.egid = s.egid, !.fsgid = s.fsgid]
           c3 == [c2 EXCEPT !.euid = s.euid, !.fsuid = s.euid]
           c4 == [c2 EXCEPT !.euid = s.euid, !.fsuid = s.fsuid]
<1>1. setegid(c, s.egid) = c1
  BY Zenon DEF setegid, Try
<1>2. setfsgid(c1, s.fsgid) = c2
  BY Zenon DEF setfsgid, Try, IsChild, Capable
<1>3. seteuid(c2, s.euid) = c3
  BY Zenon DEF seteuid, Try, IsChild, Capable
<1>4. setfsuid(c3, s.fsuid) = c4
  BY Zenon DEF setfsuid, Try, IsChild, Capable
<1>5. SwitchIds(c, s) = c4
  BY <1>1, <1>2, <1>3, <1>4, Zenon DEF SwitchIds
<1> QED
  BY <1>5, Zenon DEF IsChild, HasIds

\* apply_user_caps leaves the surroundings alone, gives the child the ids and
\* capabilities of s unless it fails, and fails only when the label refuses a
\* capability or the daemon lacks one of the caller's.
LEMMA UserCapsSwitch ==
    ASSUME host \in Hosts, NEW c, NEW s, IsChild(c), Unswitched(c)
    PROVE  LET d == apply_user_caps(c, s)
           IN  /\ IsChild(d)
               /\ d.effective \subseteq d.permitted /\ d.permitted \subseteq host.caps
               /\ d.devices = c.devices /\ d.v2 = c.v2 /\ d.ns = c.ns
               /\ d.root = c.root /\ d.cwd = c.cwd /\ d.label = c.label
               /\ d.umask = s.umask
               /\ d.ok /\ LetsIdsSwitch(c.label) => SameIds(d, s.status)
               /\ ~d.ok => \/ Denies[c.label] # {}
                           \/ ~(s.status.permitted \subseteq host.caps)
                           \/ ~(s.status.inheritable \subseteq host.caps)
                           \/ ~(s.status.effective \subseteq s.status.permitted)
<1> DEFINE bits == {"KEEP_CAPS", "NO_SETUID_FIXUP"}
           c0 == [c EXCEPT !.umask = s.umask]
           c1 == SecureBits(c0, bits)
           c2 == SwitchIds(c1, s.status)
           d == capset(c2, s.status)
<1>1. apply_user_caps(c, s) = d
  BY Zenon DEF apply_user_caps, SwitchIds
<1>2. /\ IsChild(c0) /\ Unswitched(c0) /\ c0.umask = s.umask
      /\ c0.devices = c.devices /\ c0.v2 = c.v2 /\ c0.ns = c.ns
      /\ c0.root = c.root /\ c0.cwd = c.cwd /\ c0.label = c.label
  BY DEF IsChild, Unswitched
<1> HIDE DEF c0
<1>3. Kept(c0, c1)
  BY <1>2, CallsKeep, Zenon
<1>4. c1.ok => c1.ok = TRUE /\ "NO_SETUID_FIXUP" \in c1.secure
               /\ c1.effective = c0.effective
  BY <1>2, Zenon DEF SecureBits, Try, IsChild, Unswitched
<1>5. ~c1.ok => ~Capable(c0, "SETPCAP")
  BY <1>2, Zenon DEF SecureBits, Try, IsChild, Unswitched
<1> HIDE DEF c1
<1>6. Kept(c1, c2) /\ Kept(c0, c2)
  <2>1. IsChild(c1)
    BY <1>3, Zenon DEF Kept
  <2>2. Kept(c1, c2)
    BY <2>1, SwitchIdsKeeps, Zenon
  <2> QED
    BY <1>3, <2>2, KeptTransitive, Zenon
<1>7. c1.ok /\ LetsIdsSwitch(c.label) => HasIds(c2, s.status) /\ c2.ok = TRUE
  <2> HAVE c1.ok /\ LetsIdsSwitch(c.label)
  <2>1. IsChild(c1) /\ c1.label = c.label
    BY <1>2, <1>3, Zenon DEF Kept
  <2>2. {"SETUID", "SETGID"} \subseteq c1.effective
    BY <1>2, <1>4, CapsAssumption, Zenon DEF Unswitched
  <2>3. Capable(c1, "SETUID") /\ Capable(c1, "SETGID")
    BY <2>1, <2>2, Zenon DEF Capable, LetsIdsSwitch
  <2>4. c1.ok = TRUE /\ "NO_SETUID_FIXUP" \in c1.secure
    BY <1>4, Zenon
  <2> QED
    BY <2>1, <2>3, <2>4, IdsSwitch, Zenon
<1> HIDE DEF c2
<1>8. /\ c2.permitted = host.caps /\ c2.effective \subseteq host.caps
      /\ IsChild(c2)
  BY <1>2, <1>6, Zenon DEF Kept, Unswitched
<1>9. /\ IsChild(d) /\ d.umask = c2.umask /\ d.devices = c2.devices
      /\ d.v2 = c2.v2 /\ d.ns = c2.ns /\ d.root = c2.root /\ d.cwd = c2.cwd
      /\ d.label = c2.label
  BY <1>8, Zenon DEF capset, Try, IsChild
<1>10. d.effective \subseteq d.permitted /\ d.permitted \subseteq host.caps
  BY <1>8, Zenon DEF capset, Try, IsChild
<1>11. d.ok => /\ c2.ok
               /\ d.euid = c2.euid /\ d.egid = c2.egid
               /\ d.fsuid = c2.fsuid /\ d.fsgid = c2.fsgid
               /\ d.inheritable = s.status.inheritable
               /\ d.permitted = s.status.permitted
               /\ d.effective = s.status.effective
  BY <1>8, Zenon DEF capset, Try, IsChild
<1>12. ~d.ok /\ c2.ok = TRUE =>
          \/ ~(s.status.permitted \subseteq host.caps)
          \/ ~(s.status.inheritable \subseteq host.caps)
          \/ ~(s.status.effective \subseteq s.status.permitted)
  BY <1>8, Zenon DEF capset, Try, IsChild
<1> HIDE DEF d
<1>13. d.ok /\ LetsIdsSwitch(c.label) => SameIds(d, s.status)
  BY <1>6, <1>7, <1>11, Zenon DEF SameIds, HasIds, Kept
<1>14. ASSUME ~d.ok, Denies[c.label] = {}
       PROVE  \/ ~(s.status.permitted \subseteq host.caps)
              \/ ~(s.status.inheritable \subseteq host.caps)
              \/ ~(s.status.effective \subseteq s.status.permitted)
  <2>1. Capable(c0, "SETPCAP")
    BY <1>2, <1>14, CapsAssumption, Zenon DEF Capable, Unswitched
  <2>2. c1.ok
    BY <2>1, <1>5, Zenon
  <2>3. c2.ok = TRUE
    BY <2>2, <1>7, <1>14, Zenon DEF LetsIdsSwitch
  <2> QED
    BY <2>3, <1>12, <1>14, Zenon
<1>15. /\ d.devices = c.devices /\ d.v2 = c.v2 /\ d.ns = c.ns
       /\ d.root = c.root /\ d.cwd = c.cwd /\ d.label = c.label
       /\ d.umask = s.umask
  BY <1>2, <1>6, <1>9, Zenon DEF Kept
<1> QED
  BY <1>1, <1>9, <1>10, <1>13, <1>14, <1>15, Zenon

LEMMA DaemonIsDaemon ==
    /\ IsChild(Daemon) /\ AsDaemon(Daemon)
    /\ Daemon.ns = Here /\ Daemon.root = Here
BY Zenon DEF Daemon, IsChild, AsDaemon

\* enter_cgroup changes the one field, and fails only where the hierarchy is
\* not mounted.
LEMMA EntersDevices ==
    ASSUME NEW c, IsChild(c), NEW name
    PROVE  LET d == enter_cgroup(c, "devices/", "devices", name)
           IN  /\ IsChild(d) /\ d.ns = c.ns /\ d.root = c.root
               /\ d.permitted = c.permitted /\ d.effective = c.effective
               /\ d.ok => /\ d.devices = name
                          /\ AsDaemon(c) => AsDaemon(d)
               /\ /\ c.ok = TRUE /\ c.ns = Here /\ c.root = Here
                  /\ "devices/" \in host.mounts
                  => d.ok = TRUE
BY Zenon DEF enter_cgroup, Try, IsChild, AsDaemon

LEMMA EntersV2 ==
    ASSUME NEW c, IsChild(c), NEW name, NEW kind
    PROVE  LET d == enter_cgroup(c, kind, "v2", name)
           IN  /\ IsChild(d)
               /\ d.permitted = c.permitted /\ d.effective = c.effective
               /\ d.ok => /\ c.ok /\ d.v2 = name /\ d.devices = c.devices
                          /\ AsDaemon(c) => AsDaemon(d)
               /\ /\ c.ok = TRUE /\ c.ns = Here /\ c.root = Here
                  /\ kind \in host.mounts
                  => d.ok = TRUE
BY Zenon DEF enter_cgroup, Try, IsChild, AsDaemon

\* When apply_cgroups succeeds, the child is in the cgroups that were read.
\* In the layouts of systemd it guesses the mount points right and succeeds.
LEMMA CgroupsEntered ==
    ASSUME NEW s
    PROVE  LET d == apply_cgroups(Daemon, s)
           IN  /\ IsChild(d) /\ d.permitted = host.caps /\ d.effective = host.caps
               /\ d.ok => AsDaemon(d) /\ SameGroups(d, s.cg)
               /\ SystemdLayout(s.cg) => d.ok
<1> DEFINE base == IF s.cg.v1 THEN "unified/" ELSE ""
           c == IF s.cg.devices = None THEN Daemon
                ELSE enter_cgroup(Daemon, "devices/", "devices", s.cg.devices)
           d == IF s.cg.v2 = None THEN c ELSE enter_cgroup(c, base, "v2", s.cg.v2)
<1>1. /\ IsChild(Daemon) /\ AsDaemon(Daemon) /\ Daemon.ok = TRUE
      /\ Daemon.permitted = host.caps /\ Daemon.effective = host.caps
      /\ Daemon.ns = Here /\ Daemon.root = Here
  BY DaemonIsDaemon, Zenon DEF AsDaemon
<1>2. /\ IsChild(c) /\ c.permitted = host.caps /\ c.effective = host.caps
      /\ c.ns = Here /\ c.root = Here
      /\ c.ok => /\ AsDaemon(c)
                 /\ s.cg.devices # None => c.devices = s.cg.devices
      /\ s.cg.devices = None \/ "devices/" \in host.mounts => c.ok = TRUE
  <2>1. CASE s.cg.devices = None
    BY <1>1, <2>1, Zenon
  <2>2. CASE s.cg.devices # None
    BY <1>1, <2>2, EntersDevices, Zenon
  <2> QED
    BY <2>1, <2>2, Zenon
<1> HIDE DEF c, base
<1>3. /\ IsChild(d) /\ d.permitted = host.caps /\ d.effective = host.caps
      /\ d.ok => AsDaemon(d) /\ SameGroups(d, s.cg)
      /\ c.ok = TRUE /\ (s.cg.v2 = None \/ base \in host.mounts) => d.ok
  <2>1. CASE s.cg.v2 = None
    BY <1>2, <2>1, Zenon DEF SameGroups
  <2>2. CASE s.cg.v2 # None
    <3> DEFINE e == enter_cgroup(c, base, "v2", s.cg.v2)
    <3>1. /\ IsChild(e)
          /\ e.permitted = c.permitted /\ e.effective = c.effective
          /\ e.ok => /\ c.ok /\ e.v2 = s.cg.v2 /\ e.devices = c.devices
                     /\ AsDaemon(c) => AsDaemon(e)
          /\ /\ c.ok = TRUE /\ c.ns = Here /\ c.root = Here
             /\ base \in host.mounts
             => e.ok = TRUE
      BY <1>2, EntersV2, Zenon
    <3>2. d = e
      BY <2>2, Zenon
    <3> HIDE DEF d, e
    <3> QED
      BY <1>2, <2>2, <3>1, <3>2, Zenon DEF SameGroups
  <2> QED
    BY <2>1, <2>2, Zenon
<1>4. SystemdLayout(s.cg) => /\ s.cg.devices = None \/ "devices/" \in host.mounts
                             /\ s.cg.v2 = None \/ base \in host.mounts
  BY Zenon DEF SystemdLayout, base
<1>5. apply_cgroups(Daemon, s) = d
  BY Zenon DEF apply_cgroups, c, base
<1> HIDE DEF d
<1> QED
  BY <1>2, <1>3, <1>4, <1>5, Zenon

----------------------------------------------------------------------------
(* Every step preserves the invariant.                                     *)

LEMMA ShapeIsTyped == Shape => TypeOK
<1> HAVE Shape
<1>1. DOMAIN child = DOMAIN Daemon
  BY Zenon DEF Shape, IsChild, Daemon
<1> QED
  BY <1>1, Zenon DEF Shape, TypeOK, Underway, ReadGroup, Label, Cgroups, Setns,
                    Chroot, Cwd, SetLab, Caps, Syscall

LEMMA InitInv == Init => Inv
<1> HAVE Init
<1>1. IsChild(child) /\ child.effective = host.caps /\ child.permitted = host.caps
  BY DaemonIsDaemon, Zenon DEF Init, AsDaemon
<1>2. Shape
  BY <1>1, BoundAssumption DEF Init, Shape
<1> QED
  BY <1>2, Zenon DEF Init, Inv, PresentHeld, ReadHeld, ChildEntered, ChildSwitched,
              EnteredIsTheCallers, RefusedForCause, Underway, ReadGroup, Label, Cgroups,
              Setns, Chroot, Cwd, SetLab, Caps, Syscall

\* A step of the request that fails, for a cause that is known.
LEMMA FailureKeepsInv ==
    ASSUME Inv, pc \in Underway, pc' = "idle", outcome' = "error",
           UNCHANGED <<made, env>>, Cause,
           snap' = snap, IsChild(child'),
           child'.effective \subseteq child'.permitted,
           child'.permitted \subseteq host.caps
    PROVE  Inv'
<1>1. made = {} /\ made' = {}
  BY Zenon DEF Inv, PresentHeld
<1>2. Shape'
  BY <1>1, Zenon DEF Inv, Shape, env
<1>3. RefusedForCause' /\ EnteredIsTheCallers'
  BY <1>1, Zenon DEF RefusedForCause, Cause, SystemdLayout, Alive, EnteredIsTheCallers, env
<1> QED
  BY <1>2, <1>3, Zenon DEF Inv, PresentHeld, ReadHeld, ChildEntered, ChildSwitched,
                    Underway, ReadGroup, Label, Cgroups, Setns, Chroot, Cwd,
                    SetLab, Caps, Syscall

LEMMA RequestKeepsInv == Inv /\ Request => Inv'
<1> SUFFICES ASSUME Inv, Request PROVE Inv'
  BY Zenon
<1> USE DEF Underway, ReadGroup, Label, Cgroups, Setns, Chroot, Cwd, SetLab, Caps, Syscall
<1>1. Shape'
  BY BoundAssumption DEF Inv, Shape, Request
<1>2. PresentHeld' /\ ReadHeld' /\ ChildEntered' /\ ChildSwitched'
  BY Zenon DEF Request, PresentHeld, ReadHeld, ChildEntered, ChildSwitched
<1>3. EnteredIsTheCallers' /\ RefusedForCause'
  BY Zenon DEF Request, EnteredIsTheCallers, RefusedForCause
<1> QED
  BY <1>1, <1>2, <1>3, Zenon DEF Inv

LEMMA get_statusKeepsInv == Inv /\ get_status => Inv'
<1> SUFFICES ASSUME Inv, get_status PROVE Inv'
  BY Zenon
<1> USE DEF Underway, ReadGroup, Label, Cgroups, Setns, Chroot, Cwd, SetLab, Caps, Syscall
<1>1. CASE ~Exists
  <2>1. Cause /\ child' = child /\ snap' = snap
    BY <1>1, Zenon DEF get_status, Cause, Exists, Alive
  <2> QED
    BY <2>1, <1>1, FailureKeepsInv, Zenon DEF get_status, Step, Inv, Shape
<1>2. CASE Exists
  <2>1. made' = {} /\ outcome' = "none" /\ pc' = "get_cgroups" /\ child' = child
    BY <1>2, Zenon DEF Inv, PresentHeld, get_status, Step
  <2>2. Shape'
    BY <2>1, <1>2, Zenon DEF Inv, Shape, get_status, Step, env
  <2>3. PresentHeld' /\ ReadHeld' /\ ChildEntered' /\ ChildSwitched'
    BY <2>1, <1>2, Zenon DEF Inv, Shape, get_status, Step, env, PresentHeld, ReadHeld,
                      ChildEntered, ChildSwitched, Alive
  <2> QED
    BY <2>1, <2>2, <2>3, Zenon DEF Inv, EnteredIsTheCallers, RefusedForCause
<1> QED
  BY <1>1, <1>2, Zenon

LEMMA get_cgroupsKeepsInv == Inv /\ get_cgroups => Inv'
<1> SUFFICES ASSUME Inv, get_cgroups PROVE Inv'
  BY Zenon
<1> USE DEF Underway, ReadGroup, Label, Cgroups, Setns, Chroot, Cwd, SetLab, Caps, Syscall
<1>1. CASE ~Exists
  <2>1. Cause /\ child' = child /\ snap' = snap
    BY <1>1, Zenon DEF get_cgroups, Cause, Exists, Alive
  <2> QED
    BY <2>1, <1>1, FailureKeepsInv, Zenon DEF get_cgroups, Step, Inv, Shape
<1>2. CASE Exists
  <2>1. made' = {} /\ outcome' = "none" /\ pc' = "get_label" /\ child' = child
    BY <1>2, Zenon DEF Inv, PresentHeld, get_cgroups, Step
  <2>2. Shape'
    BY <2>1, <1>2, Zenon DEF Inv, Shape, get_cgroups, Step, env
  <2>3. PresentHeld' /\ ReadHeld' /\ ChildEntered' /\ ChildSwitched'
    BY <2>1, <1>2, Zenon DEF Inv, Shape, get_cgroups, Step, env, PresentHeld, ReadHeld,
                      ChildEntered, ChildSwitched, Alive
  <2> QED
    BY <2>1, <2>2, <2>3, Zenon DEF Inv, EnteredIsTheCallers, RefusedForCause
<1> QED
  BY <1>1, <1>2, Zenon

LEMMA get_labelKeepsInv == Inv /\ get_label => Inv'
<1> SUFFICES ASSUME Inv, get_label PROVE Inv'
  BY Zenon
<1> USE DEF Underway, ReadGroup, Label, Cgroups, Setns, Chroot, Cwd, SetLab, Caps, Syscall
<1>0. /\ child' = Daemon /\ IsChild(child') /\ host' = host
      /\ child'.effective = host.caps /\ child'.permitted = host.caps
  BY DaemonIsDaemon, Zenon DEF get_label, Step, env, AsDaemon
<1>1. CASE ~Exists
  <2>1. Cause /\ snap' = snap
    BY <1>1, Zenon DEF get_label, Cause, Exists, Alive
  <2> QED
    BY <2>1, <1>0, <1>1, FailureKeepsInv, Zenon DEF get_label, Step
<1>2. CASE Exists
  <2>1. made' = {} /\ outcome' = "none" /\ pc' = "apply_cgroups"
    BY <1>2, Zenon DEF Inv, PresentHeld, get_label, Step
  <2>2. Shape'
    BY <2>1, <1>0, <1>2, Zenon DEF Inv, Shape, get_label, Step, env
  <2>3. PresentHeld' /\ ReadHeld'
    BY <2>1, <1>2, Zenon DEF Inv, Shape, get_label, Step, env, PresentHeld, ReadHeld, Alive
  <2>4. ChildEntered' /\ ChildSwitched'
    BY <2>1, <1>0, Zenon DEF ChildEntered, ChildSwitched, Daemon
  <2> QED
    BY <2>1, <2>2, <2>3, <2>4, Zenon DEF Inv, EnteredIsTheCallers, RefusedForCause
<1> QED
  BY <1>1, <1>2, Zenon

\* A step of apply that succeeds leaves the caller and what was read alone.
LEMMA EnterFrame ==
    ASSUME Inv, NEW from \in Underway, NEW to \in Underway, NEW after, after.ok,
           Enter(from, to, TRUE, after)
    PROVE  /\ pc = from /\ pc' = to /\ child' = after
           /\ host' = host /\ proc' = proc /\ snap' = snap /\ held' = held
           /\ requests' = requests /\ changes' = changes
           /\ made' = {} /\ outcome' = "none"
BY Zenon DEF Inv, PresentHeld, Enter, Step, env

LEMMA ApplyCgroupsKeepsInv == Inv /\ ApplyCgroups => Inv'
<1> SUFFICES ASSUME Inv, ApplyCgroups PROVE Inv'
  BY Zenon
<1> USE DEF Underway, ReadGroup, Label, Cgroups, Setns, Chroot, Cwd, SetLab, Caps, Syscall
<1> DEFINE d == apply_cgroups(child, snap)
<1>1. PICK removed \in BOOLEAN :
          /\ Enter("apply_cgroups", "setns", ~removed, d)
          /\ removed => ~(proc.cg = snap.cg /\ Alive)
  BY Zenon DEF ApplyCgroups
<1>2. pc = "apply_cgroups" /\ child = Daemon
  BY <1>1, Zenon DEF Enter, Step, Inv, ChildEntered
<1>3. /\ IsChild(d) /\ d.permitted = host.caps /\ d.effective = host.caps
      /\ d.ok => AsDaemon(d) /\ SameGroups(d, snap.cg)
      /\ SystemdLayout(snap.cg) => d.ok
  BY <1>2, CgroupsEntered, Zenon
<1> HIDE DEF d
<1>4. CASE removed
  <2>1. Cause
    BY <1>1, <1>2, <1>4, Zenon DEF Inv, PresentHeld, ReadHeld, Cause
  <2> QED
    BY <2>1, <1>1, <1>2, <1>4, FailureKeepsInv, Zenon DEF Enter, Step, Inv, Shape
<1>5. CASE ~removed /\ ~d.ok
  <2>1. Cause
    BY <1>2, <1>3, <1>5, Zenon DEF Inv, ReadHeld, Cause
  <2>2. /\ pc' = "idle" /\ outcome' = "error" /\ UNCHANGED <<made, env>>
        /\ snap' = snap /\ child' = d
    BY <1>1, <1>5, Zenon DEF Enter, Step
  <2> QED
    BY <2>1, <2>2, <1>2, <1>3, FailureKeepsInv, Zenon
<1>6. CASE ~removed /\ d.ok
  <2>1. Enter("apply_cgroups", "setns", TRUE, d) /\ d.ok
    BY <1>1, <1>6, Zenon
  <2>2. /\ pc' = "setns" /\ child' = d
        /\ host' = host /\ proc' = proc /\ snap' = snap /\ held' = held
        /\ requests' = requests /\ changes' = changes
        /\ made' = {} /\ outcome' = "none"
    BY <2>1, EnterFrame, Zenon
  <2>3. Shape'
    BY <2>2, <1>3, Zenon DEF Inv, Shape
  <2>4. PresentHeld' /\ ReadHeld'
    BY <2>2, <1>2, Zenon DEF Inv, PresentHeld, ReadHeld, Alive
  <2>5. ChildEntered' /\ ChildSwitched'
    BY <2>2, <1>3, <1>6, Zenon DEF ChildEntered, ChildSwitched, AsDaemon, SameGroups
  <2> QED
    BY <2>2, <2>3, <2>4, <2>5, Zenon DEF Inv, EnteredIsTheCallers, RefusedForCause
<1> QED
  BY <1>4, <1>5, <1>6, Zenon

\* Entering a directory or a namespace changes nothing else.
InDirectory(c, dir) == [c EXCEPT !.root = dir, !.cwd = dir]

LEMMA DirectoryMoves ==
    ASSUME NEW c, IsChild(c), NEW dir
    PROVE  /\ IsChild(InDirectory(c, dir))
           /\ InDirectory(c, dir).root = dir
           /\ InDirectory(c, dir).ns = c.ns
           /\ InDirectory(c, dir).devices = c.devices
           /\ InDirectory(c, dir).v2 = c.v2
           /\ AsDaemon(c) => AsDaemon(InDirectory(c, dir))
<1> DEFINE e == [c EXCEPT !.root = dir]
           d == [c EXCEPT !.root = dir, !.cwd = dir]
<1>1. IsChild(e)
  BY DEF IsChild
<1>2. d = [e EXCEPT !.cwd = dir]
  BY Zenon DEF IsChild
<1>3. /\ d.root = dir /\ d.ns = c.ns /\ d.devices = c.devices /\ d.v2 = c.v2
      /\ AsDaemon(c) => AsDaemon(d)
  BY Zenon DEF IsChild, AsDaemon
<1> HIDE DEF d, e
<1>4. IsChild(d)
  BY <1>1, <1>2, Zenon DEF IsChild
<1> QED
  BY <1>3, <1>4, Zenon DEF d, InDirectory

LEMMA NamespaceMoves ==
    ASSUME NEW c, IsChild(c), NEW ns
    PROVE  /\ IsChild(setns(c, ns))
           /\ setns(c, ns).ns = ns
           /\ setns(c, ns).devices = c.devices
           /\ setns(c, ns).v2 = c.v2
           /\ AsDaemon(c) => AsDaemon(setns(c, ns))
<1> DEFINE e == [c EXCEPT !.ns = ns]
<1>1. /\ IsChild(e) /\ e.ns = ns /\ e.devices = c.devices /\ e.v2 = c.v2
      /\ AsDaemon(c) => AsDaemon(e)
  BY DEF IsChild, AsDaemon
<1>2. setns(c, ns) = InDirectory(e, ns)
  BY Zenon DEF IsChild, setns, InDirectory
<1> HIDE DEF e
<1> QED
  BY <1>1, <1>2, DirectoryMoves

LEMMA MountNamespaceKeepsInv == Inv /\ MountNamespace => Inv'
<1> SUFFICES ASSUME Inv, MountNamespace PROVE Inv'
  BY Zenon
<1> USE DEF Underway, ReadGroup, Label, Cgroups, Setns, Chroot, Cwd, SetLab, Caps, Syscall
<1> DEFINE d == setns(child, proc.cred.ns)
<1>1. pc = "setns" /\ Enter("setns", "enter_chroot", Alive, d)
  BY Zenon DEF MountNamespace, Enter, Step
<1>2. /\ IsChild(d) /\ AsDaemon(d) /\ SameGroups(d, snap.cg)
      /\ d.ns = proc.cred.ns
  <2>1. IsChild(child) /\ AsDaemon(child) /\ SameGroups(child, snap.cg)
    BY <1>1, Zenon DEF Inv, Shape, ChildEntered
  <2> QED
    BY <2>1, NamespaceMoves, ZenonT(30) DEF SameGroups
<1> HIDE DEF d
<1>3. CASE ~Alive
  <2>1. /\ pc' = "idle" /\ outcome' = "error" /\ UNCHANGED <<made, env>>
        /\ snap' = snap /\ child' = child
    BY <1>1, <1>3, Zenon DEF Enter, Step
  <2> QED
    BY <2>1, <1>1, <1>3, FailureKeepsInv, Zenon DEF Inv, Shape, Cause
<1>4. CASE Alive
  <2>1. Enter("setns", "enter_chroot", TRUE, d) /\ d.ok
    BY <1>1, <1>2, <1>4, Zenon DEF AsDaemon
  <2>2. /\ pc' = "enter_chroot" /\ child' = d
        /\ host' = host /\ proc' = proc /\ snap' = snap /\ held' = held
        /\ requests' = requests /\ changes' = changes
        /\ made' = {} /\ outcome' = "none"
    BY <2>1, EnterFrame, Zenon
  <2>3. Shape'
    BY <2>2, <1>2, Zenon DEF Inv, Shape, AsDaemon
  <2>4. PresentHeld' /\ ReadHeld'
    BY <2>2, <1>1, <1>4, Zenon DEF Inv, PresentHeld, ReadHeld, Alive
  <2>5. ChildEntered' /\ ChildSwitched'
    BY <2>2, <1>1, <1>2, Zenon DEF Inv, PresentHeld, ChildEntered, ChildSwitched,
                            AsDaemon, SameGroups
  <2> QED
    BY <2>2, <2>3, <2>4, <2>5, Zenon DEF Inv, EnteredIsTheCallers, RefusedForCause
<1> QED
  BY <1>3, <1>4, Zenon

LEMMA EnterChrootKeepsInv == Inv /\ EnterChroot => Inv'
<1> SUFFICES ASSUME Inv, EnterChroot PROVE Inv'
  BY Zenon
<1> USE DEF Underway, ReadGroup, Label, Cgroups, Setns, Chroot, Cwd, SetLab, Caps, Syscall
<1> DEFINE d == InDirectory(child, proc.fs.root)
<1>1. pc = "enter_chroot" /\ Enter("enter_chroot", "enter_cwd", Alive, d)
  BY Zenon DEF EnterChroot, Enter, Step, InDirectory
<1>2. /\ IsChild(d) /\ AsDaemon(d) /\ SameGroups(d, snap.cg)
      /\ d.ns = child.ns /\ d.root = proc.fs.root
  <2>1. IsChild(child) /\ AsDaemon(child) /\ SameGroups(child, snap.cg)
    BY <1>1, Zenon DEF Inv, Shape, ChildEntered
  <2> QED
    BY <2>1, DirectoryMoves, SMTT(30) DEF SameGroups
<1> HIDE DEF d
<1>3. CASE ~Alive
  <2>1. /\ pc' = "idle" /\ outcome' = "error" /\ UNCHANGED <<made, env>>
        /\ snap' = snap /\ child' = child
    BY <1>1, <1>3, Zenon DEF Enter, Step
  <2> QED
    BY <2>1, <1>1, <1>3, FailureKeepsInv, Zenon DEF Inv, Shape, Cause
<1>4. CASE Alive
  <2>1. Enter("enter_chroot", "enter_cwd", TRUE, d) /\ d.ok
    BY <1>1, <1>2, <1>4, Zenon DEF AsDaemon
  <2>2. /\ pc' = "enter_cwd" /\ child' = d
        /\ host' = host /\ proc' = proc /\ snap' = snap /\ held' = held
        /\ requests' = requests /\ changes' = changes
        /\ made' = {} /\ outcome' = "none"
    BY <2>1, EnterFrame, Zenon
  <2>3. Shape'
    BY <2>2, <1>2, Zenon DEF Inv, Shape, AsDaemon
  <2>4. PresentHeld' /\ ReadHeld'
    BY <2>2, <1>1, Zenon DEF Inv, PresentHeld, ReadHeld, Alive
  <2>5. ChildEntered' /\ ChildSwitched'
    BY <2>2, <1>1, <1>2, Zenon DEF Inv, PresentHeld, ChildEntered, ChildSwitched,
                            AsDaemon, SameGroups
  <2> QED
    BY <2>2, <2>3, <2>4, <2>5, Zenon DEF Inv, EnteredIsTheCallers, RefusedForCause
<1> QED
  BY <1>3, <1>4, Zenon

LEMMA EnterCwdKeepsInv == Inv /\ EnterCwd => Inv'
<1> SUFFICES ASSUME Inv, EnterCwd PROVE Inv'
  BY Zenon
<1> USE DEF Underway, ReadGroup, Label, Cgroups, Setns, Chroot, Cwd, SetLab, Caps, Syscall
<1> DEFINE d == [child EXCEPT !.cwd = proc.fs.cwd]
<1>1. pc = "enter_cwd" /\ Enter("enter_cwd", "set_label", Alive, d)
  BY Zenon DEF EnterCwd, Enter, Step
<1>2. /\ IsChild(d) /\ AsDaemon(d) /\ SameGroups(d, snap.cg)
      /\ d.ns = child.ns /\ d.root = child.root /\ d.cwd = proc.fs.cwd
  <2>1. IsChild(child) /\ AsDaemon(child) /\ SameGroups(child, snap.cg)
    BY <1>1, Zenon DEF Inv, Shape, ChildEntered
  <2> QED
    BY <2>1 DEF IsChild, AsDaemon, SameGroups
<1> HIDE DEF d
<1>3. CASE ~Alive
  <2>1. /\ pc' = "idle" /\ outcome' = "error" /\ UNCHANGED <<made, env>>
        /\ snap' = snap /\ child' = child
    BY <1>1, <1>3, Zenon DEF Enter, Step
  <2> QED
    BY <2>1, <1>1, <1>3, FailureKeepsInv, Zenon DEF Inv, Shape, Cause
<1>4. CASE Alive
  <2>1. Enter("enter_cwd", "set_label", TRUE, d) /\ d.ok
    BY <1>1, <1>2, <1>4, Zenon DEF AsDaemon
  <2>2. /\ pc' = "set_label" /\ child' = d
        /\ host' = host /\ proc' = proc /\ snap' = snap /\ held' = held
        /\ requests' = requests /\ changes' = changes
        /\ made' = {} /\ outcome' = "none"
    BY <2>1, EnterFrame, Zenon
  <2>3. Shape'
    BY <2>2, <1>2, Zenon DEF Inv, Shape, AsDaemon
  <2>4. PresentHeld' /\ ReadHeld'
    BY <2>2, <1>1, Zenon DEF Inv, PresentHeld, ReadHeld, Alive
  <2>5. ChildEntered' /\ ChildSwitched'
    BY <2>2, <1>1, <1>2, Zenon DEF Inv, PresentHeld, ChildEntered, ChildSwitched,
                            AsDaemon, SameGroups
  <2> QED
    BY <2>2, <2>3, <2>4, <2>5, Zenon DEF Inv, EnteredIsTheCallers, RefusedForCause
<1> QED
  BY <1>3, <1>4, Zenon

\* changeprofile changes the label only.
LEMMA LabelChanges ==
    ASSUME NEW c, IsChild(c), Unswitched(c), c.label = host.label, NEW s
    PROVE  LET d == set_label(c, s)
           IN  /\ IsChild(d) /\ d.permitted = host.caps /\ d.effective = host.caps
               /\ d.devices = c.devices /\ d.v2 = c.v2 /\ d.ns = c.ns
               /\ d.root = c.root /\ d.cwd = c.cwd
               /\ d.ok => /\ Unswitched(d)
                          /\ d.label = IF s.label = NoLabel THEN host.label
                                       ELSE s.label
               /\ ~d.ok => s.label # NoLabel /\ s.label \notin host.enters
BY Zenon DEF set_label, Try, IsChild, Unswitched

LEMMA SetLabelKeepsInv == Inv /\ SetLabel => Inv'
<1> SUFFICES ASSUME Inv, SetLabel PROVE Inv'
  BY Zenon
<1> USE DEF Underway, ReadGroup, Label, Cgroups, Setns, Chroot, Cwd, SetLab, Caps, Syscall
<1> DEFINE d == set_label(child, snap)
<1>1. PICK unloaded \in BOOLEAN :
          /\ Enter("set_label", "user_caps", snap.label = NoLabel \/ ~unloaded, d)
          /\ unloaded => ~(proc.cred.label = snap.label /\ Alive)
  BY Zenon DEF SetLabel
<1>2. pc = "set_label" /\ IsChild(child) /\ AsDaemon(child)
  BY <1>1, Zenon DEF Enter, Step, Inv, Shape, ChildEntered
<1>3. /\ IsChild(d) /\ d.permitted = host.caps /\ d.effective = host.caps
      /\ d.devices = child.devices /\ d.v2 = child.v2 /\ d.ns = child.ns
      /\ d.root = child.root /\ d.cwd = child.cwd
      /\ d.ok => /\ Unswitched(d)
                 /\ d.label = IF snap.label = NoLabel THEN host.label
                              ELSE snap.label
      /\ ~d.ok => snap.label # NoLabel /\ snap.label \notin host.enters
  <2>1. Unswitched(child) /\ child.label = host.label
    BY <1>2, Zenon DEF AsDaemon, Unswitched
  <2> QED
    BY <2>1, <1>2, LabelChanges, Zenon
<1> HIDE DEF d
<1>4. PICK e \in held.cred : snap.label = e.label
  BY <1>2, Zenon DEF Inv, ReadHeld
<1>5. CASE ~(snap.label = NoLabel \/ ~unloaded)
  <2>1. Cause
    BY <1>1, <1>2, <1>4, <1>5, Zenon DEF Inv, PresentHeld, Cause
  <2> QED
    BY <2>1, <1>1, <1>2, <1>5, FailureKeepsInv, Zenon DEF Enter, Step, Inv, Shape
<1>6. CASE (snap.label = NoLabel \/ ~unloaded) /\ ~d.ok
  <2>1. Cause
    BY <1>3, <1>4, <1>6, Zenon DEF Cause
  <2>2. /\ pc' = "idle" /\ outcome' = "error" /\ UNCHANGED <<made, env>>
        /\ snap' = snap /\ child' = d
    BY <1>1, <1>6, Zenon DEF Enter, Step
  <2> QED
    BY <2>1, <2>2, <1>2, <1>3, FailureKeepsInv, Zenon
<1>7. CASE (snap.label = NoLabel \/ ~unloaded) /\ d.ok
  <2>1. Enter("set_label", "user_caps", TRUE, d) /\ d.ok
    BY <1>1, <1>7, Zenon DEF Enter, Step
  <2>2. /\ pc' = "user_caps" /\ child' = d
        /\ host' = host /\ proc' = proc /\ snap' = snap /\ held' = held
        /\ requests' = requests /\ changes' = changes
        /\ made' = {} /\ outcome' = "none"
    BY <2>1, EnterFrame, Zenon
  <2>3. Shape'
    BY <2>2, <1>3, Zenon DEF Inv, Shape
  <2>4. PresentHeld' /\ ReadHeld'
    BY <2>2, <1>2, Zenon DEF Inv, PresentHeld, ReadHeld, Alive
  <2>5. ChildEntered'
    BY <2>2, <1>2, <1>3, Zenon DEF Inv, ChildEntered, SameGroups
  <2>6. ChildSwitched'
    BY <2>2, <1>3, <1>7, Zenon DEF ChildSwitched, Unswitched
  <2> QED
    BY <2>2, <2>3, <2>4, <2>5, <2>6, Zenon DEF Inv, EnteredIsTheCallers, RefusedForCause
<1> QED
  BY <1>5, <1>6, <1>7, Zenon

LEMMA ApplyUserCapsKeepsInv == Inv /\ ApplyUserCaps => Inv'
<1> SUFFICES ASSUME Inv, ApplyUserCaps PROVE Inv'
  BY Zenon
<1> USE DEF Underway, ReadGroup, Label, Cgroups, Setns, Chroot, Cwd, SetLab, Caps, Syscall
<1> DEFINE d == apply_user_caps(child, snap)
<1>1. pc = "user_caps" /\ Enter("user_caps", "syscall", TRUE, d)
  BY Zenon DEF ApplyUserCaps, Enter, Step
<1>2. /\ IsChild(child) /\ Unswitched(child)
      /\ child.label = IF snap.label = NoLabel THEN host.label ELSE snap.label
  BY <1>1, Zenon DEF Inv, Shape, ChildSwitched
<1>3. /\ IsChild(d)
      /\ d.effective \subseteq d.permitted /\ d.permitted \subseteq host.caps
      /\ d.devices = child.devices /\ d.v2 = child.v2 /\ d.ns = child.ns
      /\ d.root = child.root /\ d.cwd = child.cwd /\ d.label = child.label
      /\ d.umask = snap.umask
      /\ d.ok /\ LetsIdsSwitch(child.label) => SameIds(d, snap.status)
      /\ ~d.ok => \/ Denies[child.label] # {}
                  \/ ~(snap.status.permitted \subseteq host.caps)
                  \/ ~(snap.status.inheritable \subseteq host.caps)
                  \/ ~(snap.status.effective \subseteq snap.status.permitted)
  <2>1. host \in Hosts
    BY Zenon DEF Inv, Shape
  <2> QED
    BY <2>1, <1>2, UserCapsSwitch, Zenon
<1> HIDE DEF d
<1>4. CASE ~d.ok
  <2>1. /\ pc' = "idle" /\ outcome' = "error" /\ UNCHANGED <<made, env>>
        /\ snap' = snap /\ child' = d
    BY <1>1, <1>4, Zenon DEF Enter, Step
  <2>2. Cause
    <3>1. snap.status \in held.cred /\ \E e \in held.cred : snap.label = e.label
      BY <1>1, Zenon DEF Inv, ReadHeld
    <3>2. snap.status.effective \subseteq snap.status.permitted
      BY CapsAssumption, Zenon DEF Inv, Shape
    <3>3. Denies[child.label] # {} => child.label = snap.label
      BY <1>2, CapsAssumption, Zenon DEF Inv, Shape
    <3> QED
      BY <1>3, <1>4, <3>1, <3>2, <3>3, Zenon DEF Cause
  <2> QED
    BY <2>1, <2>2, <1>1, <1>3, FailureKeepsInv, Zenon
<1>5. CASE d.ok
  <2>1. Enter("user_caps", "syscall", TRUE, d) /\ d.ok
    BY <1>1, <1>5, Zenon
  <2>2. /\ pc' = "syscall" /\ child' = d
        /\ host' = host /\ proc' = proc /\ snap' = snap /\ held' = held
        /\ requests' = requests /\ changes' = changes
        /\ made' = {} /\ outcome' = "none"
    BY <2>1, EnterFrame, Zenon
  <2>3. Shape'
    BY <2>2, <1>3, Zenon DEF Inv, Shape
  <2>4. PresentHeld' /\ ReadHeld'
    BY <2>2, <1>1, Zenon DEF Inv, PresentHeld, ReadHeld, Alive
  <2>5. ChildEntered'
    BY <2>2, <1>1, <1>2, <1>3, Zenon DEF Inv, ChildEntered, SameGroups
  <2>6. ChildSwitched'
    BY <2>2, <1>2, <1>3, <1>5, Zenon DEF ChildSwitched, LetsIdsSwitch
  <2> QED
    BY <2>2, <2>3, <2>4, <2>5, <2>6, Zenon DEF Inv, EnteredIsTheCallers, RefusedForCause
<1> QED
  BY <1>4, <1>5, Zenon

\* Short of descriptors or memory, the request ends before the system call.
LEMMA RunsShortKeepsInv == Inv /\ RunsShort => Inv'
<1> SUFFICES ASSUME Inv, RunsShort PROVE Inv'
  BY Zenon
<1> USE DEF Underway, ReadGroup, Label, Cgroups, Setns, Chroot, Cwd, SetLab, Caps, Syscall
<1>1. made = {} /\ made' = {} /\ pc' = "idle" /\ outcome' = "short"
  BY Zenon DEF Inv, Shape, PresentHeld, RunsShort
<1>2. Shape'
  BY <1>1, Zenon DEF Inv, Shape, RunsShort, env
<1> QED
  BY <1>1, <1>2, Zenon DEF Inv, PresentHeld, ReadHeld, ChildEntered, ChildSwitched,
                          EnteredIsTheCallers, RefusedForCause

LEMMA PerformKeepsInv == Inv /\ Perform => Inv'
<1> SUFFICES ASSUME Inv, Perform PROVE Inv'
  BY Zenon
<1> USE DEF Underway, ReadGroup, Label, Cgroups, Setns, Chroot, Cwd, SetLab, Caps, Syscall
<1>1. /\ pc = "syscall" /\ pc' = "idle" /\ outcome' = "made" /\ made' = {child}
      /\ host' = host /\ proc' = proc /\ snap' = snap /\ held' = held
      /\ child' = child /\ requests' = requests /\ changes' = changes
  BY Zenon DEF Perform, env
<1>2. Shape'
  BY <1>1, Zenon DEF Inv, Shape
<1>3. EnteredIsTheCallers'
  <2>1. LetsIdsSwitch(child.label) => \E c \in held.cred : SameIds(child, c)
    BY <1>1, Zenon DEF Inv, ChildSwitched, ReadHeld
  <2>2. \E c \in held.cred : child.label \in {c.label, host.label}
                             /\ (child.label # c.label => c.label = NoLabel)
    BY <1>1, Zenon DEF Inv, ChildSwitched, ReadHeld
  <2>3. /\ \E c \in held.cred : child.ns = c.ns
        /\ \E f \in held.fs : child.root = f.root
        /\ \E f \in held.fs : child.cwd = f.cwd
        /\ \E f \in held.fs : child.umask = f.umask
    BY <1>1, Zenon DEF Inv, ChildEntered, ChildSwitched, ReadHeld
  <2>4. \E g \in held.cg : SameGroups(child, g)
    BY <1>1, Zenon DEF Inv, ChildEntered, ReadHeld
  <2> QED
    BY <1>1, <2>1, <2>2, <2>3, <2>4, Zenon DEF EnteredIsTheCallers, LetsIdsSwitch
<1> QED
  BY <1>1, <1>2, <1>3, Zenon DEF Inv, PresentHeld, ReadHeld, ChildEntered,
                          ChildSwitched, RefusedForCause

\* A change around the caller adds to what it held while a request is handled.
LEMMA ChangeKeepsInv ==
    ASSUME Inv, NEW p \in [cred : host.creds, fs : FsStates, cg : host.groups,
                           life : {proc.life}],
           Change(p)
    PROVE  Inv'
<1> USE DEF Underway, ReadGroup, Label, Cgroups, Setns, Chroot, Cwd, SetLab, Caps, Syscall
<1>1. /\ proc' = p /\ Alive /\ Alive' /\ host' = host /\ pc' = pc /\ snap' = snap
      /\ child' = child /\ outcome' = outcome /\ made' = made
      /\ requests' = requests /\ changes' \in 0..MaxChanges
  BY BoundAssumption, SMTT(30) DEF Change, Alive, Inv, Shape
<1>2. CASE pc = "idle"
  <2>1. held' = held
    BY <1>2, Zenon DEF Change
  <2>2. Shape'
    BY <1>1, <2>1, Zenon DEF Inv, Shape, Alive
  <2>3. EnteredIsTheCallers'
    BY <1>1, <2>1, SMTT(30) DEF Inv, EnteredIsTheCallers, LetsIdsSwitch, SameIds,
                      SameGroups
  <2>4. RefusedForCause'
    BY <1>1, <2>1, Zenon DEF Inv, RefusedForCause, Cause, SystemdLayout
  <2> QED
    BY <1>1, <1>2, <2>1, <2>2, <2>3, <2>4, Zenon DEF Inv, PresentHeld, ReadHeld, ChildEntered,
                                        ChildSwitched
<1>3. CASE pc # "idle"
  <2>1. held' = [cred |-> held.cred \cup {p.cred}, fs |-> held.fs \cup {p.fs},
                 cg |-> held.cg \cup {p.cg}]
    BY <1>3, Zenon DEF Change
  <2>2. pc \in Underway /\ made = {} /\ outcome = "none"
    BY <1>3, Zenon DEF Inv, Shape, PresentHeld
  <2>3. Shape'
    BY <1>1, <2>1, Zenon DEF Inv, Shape, Alive
  <2>4. PresentHeld'
    BY <1>1, <2>1, <2>2, Zenon DEF PresentHeld
  <2>5. ReadHeld'
    BY <1>1, <2>1, Zenon DEF Inv, ReadHeld
  <2>6. ChildEntered'
    BY <1>1, <2>1, Zenon DEF Inv, ChildEntered, AsDaemon, SameGroups, Daemon
  <2>7. ChildSwitched'
    BY <1>1, Zenon DEF Inv, ChildSwitched, Unswitched, LetsIdsSwitch, SameIds
  <2> QED
    BY <1>1, <2>2, <2>3, <2>4, <2>5, <2>6, <2>7, Zenon DEF Inv, EnteredIsTheCallers, RefusedForCause
<1> QED
  BY <1>2, <1>3, Zenon

LEMMA DieKeepsInv == Inv /\ Die => Inv'
<1> SUFFICES ASSUME Inv, Die PROVE Inv'
  BY Zenon
<1> USE DEF Underway, ReadGroup, Label, Cgroups, Setns, Chroot, Cwd, SetLab, Caps, Syscall
<1>1. /\ proc' = [proc EXCEPT !.life = IF Alive THEN "zombie" ELSE "gone"]
      /\ host' = host /\ pc' = pc /\ snap' = snap /\ child' = child
      /\ outcome' = outcome /\ made' = made /\ held' = held
      /\ requests' = requests /\ changes' = changes
  BY Zenon DEF Die
<1>2. /\ proc' \in [cred : host.creds, fs : FsStates, cg : host.groups,
                    life : {"zombie", "gone"}]
      /\ proc'.cred = proc.cred /\ proc'.fs = proc.fs /\ proc'.cg = proc.cg
      /\ ~Alive'
  BY <1>1, Zenon DEF Inv, Shape, Alive
<1>3. Shape'
  BY <1>1, <1>2, ZenonT(30) DEF Inv, Shape
<1>4. PresentHeld' /\ ReadHeld'
  BY <1>1, <1>2, Zenon DEF Inv, PresentHeld, ReadHeld
<1>5. ChildEntered' /\ ChildSwitched'
  BY <1>1, Zenon DEF Inv, ChildEntered, ChildSwitched, Unswitched, LetsIdsSwitch, SameIds,
              AsDaemon, SameGroups, Daemon
<1>6. EnteredIsTheCallers'
  BY <1>1 DEF Inv, EnteredIsTheCallers, LetsIdsSwitch, SameIds, SameGroups
<1>7. RefusedForCause'
  BY <1>1, <1>2, Zenon DEF RefusedForCause, Cause
<1> QED
  BY <1>3, <1>4, <1>5, <1>6, <1>7, Zenon DEF Inv

LEMMA StutterKeepsInv == Inv /\ UNCHANGED vars => Inv'
<1> SUFFICES ASSUME Inv, UNCHANGED vars PROVE Inv'
  BY Zenon
<1> USE DEF vars
<1>1. Shape' = Shape
  BY Zenon DEF Shape
<1>2. PresentHeld' = PresentHeld /\ ReadHeld' = ReadHeld
  BY Zenon DEF PresentHeld, ReadHeld, Alive
<1>3. ChildEntered' = ChildEntered /\ ChildSwitched' = ChildSwitched
  BY Zenon DEF ChildEntered, ChildSwitched, Unswitched, AsDaemon, Daemon
<1>4. EnteredIsTheCallers' = EnteredIsTheCallers
  BY ZenonT(30) DEF EnteredIsTheCallers
<1>5. RefusedForCause' = RefusedForCause
  BY Zenon DEF RefusedForCause, Cause, SystemdLayout, Alive
<1> QED
  BY <1>1, <1>2, <1>3, <1>4, <1>5, Zenon DEF Inv

LEMMA NextInv == Inv /\ [Next]_vars => Inv'
<1> SUFFICES ASSUME Inv, [Next]_vars PROVE Inv'
  BY Zenon
<1>1. CASE CallerChanges
  <2>1. PICK c \in host.creds : Change([proc EXCEPT !.cred = c])
    BY <1>1, Zenon DEF CallerChanges
  <2> QED
    BY <2>1, ChangeKeepsInv, Zenon DEF Inv, Shape
<1>2. CASE SiblingChanges
  <2>1. PICK f \in FsStates : Change([proc EXCEPT !.fs = f])
    BY <1>2, Zenon DEF SiblingChanges
  <2> QED
    BY <2>1, ChangeKeepsInv, Zenon DEF Inv, Shape
<1>3. CASE CgroupChanges
  <2>1. PICK g \in host.groups : Change([proc EXCEPT !.cg = g])
    BY <1>3, Zenon DEF CgroupChanges
  <2> QED
    BY <2>1, ChangeKeepsInv, Zenon DEF Inv, Shape
<1> QED
  BY <1>1, <1>2, <1>3, RequestKeepsInv, get_statusKeepsInv, get_cgroupsKeepsInv,
     get_labelKeepsInv, ApplyCgroupsKeepsInv, MountNamespaceKeepsInv,
     EnterChrootKeepsInv, EnterCwdKeepsInv, SetLabelKeepsInv,
     ApplyUserCapsKeepsInv, RunsShortKeepsInv, PerformKeepsInv, DieKeepsInv, StutterKeepsInv, Zenon DEF Next

(* What user_caps() read and apply() entered, between any two steps: the    *)
(* inductive invariant.                                                    *)
THEOREM UserCapsInvariant == Spec => []Inv
BY InitInv, NextInv, PTL DEF Spec

----------------------------------------------------------------------------
(* What follows.                                                           *)

\* Every variable keeps its type; the child never has capabilities that the
\* daemon does not have, nor effective ones outside its permitted set.
THEOREM UserCapsTyped == Spec => []TypeOK
<1>1. Inv => TypeOK
  BY ShapeIsTyped, Zenon DEF Inv
<1> QED
  BY <1>1, UserCapsInvariant, PTL

\* The caller's system call is made with ids, capabilities, label, namespace,
\* root, cwd, umask and cgroups that the caller had during this request, or not
\* at all (UserCaps::new and apply): for every host, every set of credentials
\* and any number of changes in between.
THEOREM EnteredAsTheCaller == Spec => []EnteredIsTheCallers
<1>1. Inv => EnteredIsTheCallers
  BY Zenon DEF Inv
<1> QED
  BY <1>1, UserCapsInvariant, PTL

\* UserCaps::new and apply, when the daemon is not short of descriptors or
\* memory, fail only for a cause: the caller died, or its cgroup or label
\* changed during the request; its cgroups are not mounted in one of the
\* layouts of systemd; its label cannot be entered or refuses a capability; or
\* the daemon lacks one of the caller's capabilities.
THEOREM NeverRefusedWithoutCause == Spec => []RefusedForCause
<1>1. Inv => RefusedForCause
  BY Zenon DEF Inv
<1> QED
  BY <1>1, UserCapsInvariant, PTL

=============================================================================
