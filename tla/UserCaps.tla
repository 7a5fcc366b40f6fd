------------------------------ MODULE UserCaps ------------------------------
(***************************************************************************)
(* The caller's permission-check environment (process/user_caps.rs,        *)
(* process/pid_fd.rs, capability.rs, apparmor.rs, nsfd.rs).                *)
(*                                                                         *)
(* The daemon reads the caller's ids, capabilities, umask, cgroups and     *)
(* AppArmor label out of /proc (UserCaps::new, three files, three steps).  *)
(* The forked child then enters what was read, and the mount namespace,    *)
(* root and working directory, which it looks up only now (apply).  Only   *)
(* after all of it does it make the caller's system call.                  *)
(*                                                                         *)
(* Meanwhile the caller is blocked, but its sibling threads may move the   *)
(* working directory, root and umask they share with it, anyone may move   *)
(* it to another cgroup, a signal may interrupt it (it then runs on and    *)
(* may change its credentials), and it may be killed.                      *)
(***************************************************************************)
EXTENDS Integers

CONSTANTS
    Hosts,         \* configurations of a host, records with the fields
                   \*   mounts: the places below /sys/fs/cgroup at which the
                   \*           devices hierarchy ("devices/") and the v2
                   \*           hierarchy ("unified/" or "") are mounted
                   \*   groups: what /proc/<pid>/cgroup may show: v1 (is there
                   \*           any v1 line), devices and v2
                   \*   caps, label: capabilities and label of the daemon
                   \*   enters: labels that changeprofile lets the daemon enter
                   \*   creds:  credentials a caller may have: records of euid,
                   \*           egid, fsuid, fsgid, inheritable, permitted,
                   \*           effective, label and ns
    FsStates,      \* the root, cwd and umask a caller's threads share
    Denies,        \* Denies[l]: the capabilities label l refuses
    NoLabel,       \* the label where AppArmor is not in use
    None,          \* no such cgroup line
    Here,          \* the daemon's own namespace, root, cwd and cgroups
    MaxRequests,   \* bound on the requests of the caller
    MaxChanges     \* bound on the changes around the caller

\* The daemon runs as root, and no label keeps it from changing its ids and
\* securebits; the kernel keeps a process's effective set within its permitted
\* one.
ASSUME CapsAssumption ==
    \A h \in Hosts :
        /\ {"SETUID", "SETGID", "SETPCAP"} \subseteq h.caps
        /\ Denies[h.label] = {}
        /\ \A c \in h.creds : c.effective \subseteq c.permitted

ASSUME BoundAssumption == MaxRequests \in Nat /\ MaxChanges \in Nat

VARIABLES
    host,          \* the host this is about, a member of Hosts
    pc,            \* where the handling of the request stands
    proc,          \* the caller: cred, fs, cg and life
    snap,          \* the UserCaps value, filled file by file: status
                   \* (ids and capabilities), umask, cg and label
    child,         \* the credentials and surroundings of the forked child
    outcome,       \* of the last request
    made,          \* the child as it made the system call: {} or one record
    held,          \* all the caller's values since the request was sent
    requests, changes

vars == <<host, pc, proc, snap, child, outcome, made, held, requests, changes>>

env == <<host, proc, held, requests, changes>>

DefaultUmask == "022"

----------------------------------------------------------------------------
(* The child's credentials and the kernel's rules for changing them.  The  *)
(* real and saved ids stay 0.  Once a call has failed, `?' skips the rest. *)

\* What the child inherits from the daemon.
Daemon ==
    [euid |-> 0, egid |-> 0, fsuid |-> 0, fsgid |-> 0, inheritable |-> {},
     permitted |-> host.caps, effective |-> host.caps, secure |-> {},
     umask |-> DefaultUmask, devices |-> Here, v2 |-> Here, ns |-> Here,
     root |-> Here, cwd |-> Here, label |-> host.label, ok |-> TRUE]

Capable(c, cap) == cap \in c.effective /\ cap \notin Denies[c.label]

\* One call of the child: `after' if the kernel allows it, an error if not.
Try(c, allowed, after) ==
    IF c.ok /\ allowed THEN after ELSE [c EXCEPT !.ok = FALSE]

\* get_current, then prctl(PR_SET_SECUREBITS).
SecureBits(c, bits) ==
    Try(c, Capable(c, "SETPCAP"), [c EXCEPT !.secure = @ \cup bits])

\* setegid moves the file system id along with the effective one.
setegid(c, id) ==
    Try(c, Capable(c, "SETGID") \/ id \in {0, c.egid},
        [c EXCEPT !.egid = id, !.fsgid = id])

\* setfsgid and setfsuid return the previous id whether or not they changed
\* it: the -1 that c_try! looks for never comes.
setfsgid(c, id) ==
    Try(c, TRUE, IF Capable(c, "SETGID") \/ id \in {0, c.egid, c.fsgid}
                 THEN [c EXCEPT !.fsgid = id] ELSE c)

\* Leaving euid 0 clears the effective set, unless NO_SETUID_FIXUP is set.
seteuid(c, id) ==
    Try(c, Capable(c, "SETUID") \/ id \in {0, c.euid},
        [c EXCEPT !.euid = id, !.fsuid = id,
                  !.effective = IF /\ "NO_SETUID_FIXUP" \notin c.secure
                                   /\ c.euid = 0 /\ id # 0
                                THEN {} ELSE @])

setfsuid(c, id) ==
    Try(c, TRUE, IF Capable(c, "SETUID") \/ id \in {0, c.euid, c.fsuid}
                 THEN [c EXCEPT !.fsuid = id] ELSE c)

\* Capabilities::capset.
capset(c, s) ==
    Try(c, /\ s.inheritable \subseteq c.inheritable \cup c.permitted
           /\ s.permitted \subseteq c.permitted
           /\ s.effective \subseteq s.permitted,
        [c EXCEPT !.inheritable = s.inheritable, !.permitted = s.permitted,
                  !.effective = s.effective])

\* Writing to cgroup.procs below /sys/fs/cgroup/<kind>, as the host sees it.
enter_cgroup(c, kind, field, name) ==
    Try(c, kind \in host.mounts /\ c.ns = Here /\ c.root = Here,
        [c EXCEPT ![field] = name])

----------------------------------------------------------------------------
(* The parts of UserCaps::apply, as functions of the child and of what the *)
(* daemon read.                                                            *)

\* Mutated form: the v2 hierarchy is always taken to be below unified/.
apply_cgroups_unified(c, s) ==
    LET d == IF s.cg.devices = None THEN c
             ELSE enter_cgroup(c, "devices/", "devices", s.cg.devices)
    IN  IF s.cg.v2 = None THEN d ELSE enter_cgroup(d, "unified/", "v2", s.cg.v2)

\* The v2 hierarchy is taken to be below unified/ if there is any v1 line.
apply_cgroups(c, s) ==
    LET base == IF s.cg.v1 THEN "unified/" ELSE ""
        d == IF s.cg.devices = None THEN c
             ELSE enter_cgroup(c, "devices/", "devices", s.cg.devices)
    IN  IF s.cg.v2 = None THEN d ELSE enter_cgroup(d, base, "v2", s.cg.v2)

\* setns drops the child at the root of the mount namespace it enters.
setns(c, ns) == [c EXCEPT !.ns = ns, !.root = ns, !.cwd = ns]

\* The kernel refuses to change to a profile that is not loaded, or that the
\* daemon's own one does not allow.
set_label(c, s) ==
    IF s.label = NoLabel THEN c
    ELSE Try(c, s.label \in host.enters, [c EXCEPT !.label = s.label])

\* Mutated form: the capabilities change before the ids.
apply_user_caps_early(c, s) ==
    LET c1 == SecureBits([c EXCEPT !.umask = s.umask],
                         {"KEEP_CAPS", "NO_SETUID_FIXUP"})
        c2 == setfsgid(setegid(capset(c1, s.status), s.status.egid),
                       s.status.fsgid)
    IN  setfsuid(seteuid(c2, s.status.euid), s.status.fsuid)

apply_user_caps(c, s) ==
    LET c1 == SecureBits([c EXCEPT !.umask = s.umask],
                         {"KEEP_CAPS", "NO_SETUID_FIXUP"})
        c2 == setfsgid(setegid(c1, s.status.egid), s.status.fsgid)
        c3 == setfsuid(seteuid(c2, s.status.euid), s.status.fsuid)
    IN  capset(c3, s.status)

----------------------------------------------------------------------------
Init ==
    /\ host \in Hosts
    /\ pc = "idle"
    /\ proc \in [cred : host.creds, fs : FsStates, cg : host.groups,
                 life : {"alive"}]
    /\ snap = [status |-> proc.cred, umask |-> DefaultUmask,
               cg |-> proc.cg, label |-> host.label]
    /\ child = Daemon
    /\ outcome = "none"
    /\ made = {}
    /\ held = [cred |-> {}, fs |-> {}, cg |-> {}]
    /\ requests = 0
    /\ changes = 0

\* The caller makes a proxied system call and blocks in it.
Request ==
    /\ pc = "idle" /\ proc.life = "alive" /\ requests < MaxRequests
    /\ pc' = "get_status"
    /\ requests' = requests + 1
    /\ outcome' = "none"
    /\ made' = {}
    /\ held' = [cred |-> {proc.cred}, fs |-> {proc.fs}, cg |-> {proc.cg}]
    /\ UNCHANGED <<host, proc, snap, child, changes>>

\* A step that may fail.  An error is the end of the request: the caller
\* gets its errno, and the rest of new or apply does not happen.
Step(from, to, works) ==
    /\ pc = from
    /\ pc' = IF works THEN to ELSE "idle"
    /\ outcome' = IF works THEN outcome ELSE "error"
    /\ UNCHANGED <<made, env>>

\* The child enters `after', the outcome of calls of which one may fail.
Enter(from, to, works, after) ==
    /\ Step(from, to, works /\ after.ok)
    /\ child' = IF works THEN after ELSE child
    /\ UNCHANGED snap

Exists == proc.life # "gone"
Alive  == proc.life = "alive"

----------------------------------------------------------------------------
(* UserCaps::new, in the daemon: any file of a process that is gone fails. *)

\* /proc/<pid>/status.  It has no Umask line once the process is a zombie.
get_status ==
    /\ Step("get_status", "get_cgroups", Exists)
    /\ snap' = IF ~Exists THEN snap
               ELSE [snap EXCEPT !.status = proc.cred,
                                 !.umask = IF Alive THEN proc.fs.umask
                                           ELSE DefaultUmask]
    /\ UNCHANGED child

get_cgroups ==
    /\ Step("get_cgroups", "get_label", Exists)
    /\ snap' = IF Exists THEN [snap EXCEPT !.cg = proc.cg] ELSE snap
    /\ UNCHANGED child

\* Mutated form: the mode that follows the label in attr/current stays on.
get_label_whole ==
    /\ Step("get_label", "apply_cgroups", Exists)
    /\ snap' = IF Exists THEN [snap EXCEPT !.label = "lxc (enforce)"] ELSE snap
    /\ child' = Daemon

\* The last step of new; forking_syscall then forks the child.
get_label ==
    /\ Step("get_label", "apply_cgroups", Exists)
    /\ snap' = IF Exists THEN [snap EXCEPT !.label = proc.cred.label] ELSE snap
    /\ child' = Daemon

----------------------------------------------------------------------------
(* UserCaps::apply, in the child, and the system call.                     *)

\* A cgroup that the caller has left since may have been removed.
ApplyCgroups ==
    \E removed \in IF proc.cg = snap.cg /\ Alive THEN {FALSE} ELSE BOOLEAN :
        Enter("apply_cgroups", "setns", ~removed, apply_cgroups(child, snap))

\* ns/mnt, root and cwd are links a zombie no longer has.
MountNamespace ==
    Enter("setns", "enter_chroot", Alive, setns(child, proc.cred.ns))

EnterChroot ==
    Enter("enter_chroot", "enter_cwd", Alive,
          [child EXCEPT !.root = proc.fs.root, !.cwd = proc.fs.root])

\* Mutated form: an error of fchdir is not noticed.
EnterCwdUnchecked ==
    Enter("enter_cwd", "set_label", TRUE,
          IF Alive THEN [child EXCEPT !.cwd = proc.fs.cwd] ELSE child)

EnterCwd ==
    Enter("enter_cwd", "set_label", Alive,
          [child EXCEPT !.cwd = proc.fs.cwd])

\* A profile that the caller has left since may have been unloaded.
SetLabel ==
    \E unloaded \in IF proc.cred.label = snap.label /\ Alive THEN {FALSE} ELSE BOOLEAN :
        Enter("set_label", "user_caps", snap.label = NoLabel \/ ~unloaded,
              set_label(child, snap))

ApplyUserCaps ==
    Enter("user_caps", "syscall", TRUE, apply_user_caps(child, snap))

\* Every step before the system call opens a file or makes the kernel copy
\* credentials: it may run out of descriptors or memory.
RunsShort ==
    /\ pc \notin {"idle", "syscall"}
    /\ pc' = "idle"
    /\ outcome' = "short"
    /\ UNCHANGED <<snap, child, made, env>>

\* The closure makes the system call (mknodat in do_mknodat, quotactl in
\* do_quotactl) as what the child has become.
Perform ==
    /\ pc = "syscall"
    /\ pc' = "idle"
    /\ outcome' = "made"
    /\ made' = {child}
    /\ UNCHANGED <<snap, child, env>>

----------------------------------------------------------------------------
(* What happens around the caller meanwhile.                               *)

Change(p) ==
    /\ Alive /\ changes < MaxChanges
    /\ changes' = changes + 1
    /\ proc' = p
    /\ held' = IF pc = "idle" THEN held
               ELSE [cred |-> held.cred \cup {p.cred},
                     fs |-> held.fs \cup {p.fs}, cg |-> held.cg \cup {p.cg}]
    /\ UNCHANGED <<host, pc, snap, child, outcome, made, requests>>

\* A signal handler, or the caller itself once its call has returned.
CallerChanges ==
    \E c \in host.creds \ {proc.cred} : Change([proc EXCEPT !.cred = c])

\* A sibling thread calls chdir, chroot or umask.
SiblingChanges ==
    \E f \in FsStates \ {proc.fs} : Change([proc EXCEPT !.fs = f])

\* Somebody moves the caller to another cgroup.
CgroupChanges ==
    \E g \in host.groups \ {proc.cg} : Change([proc EXCEPT !.cg = g])

\* The caller is killed, and later reaped.
Die ==
    /\ Exists
    /\ proc' = [proc EXCEPT !.life = IF Alive THEN "zombie" ELSE "gone"]
    /\ UNCHANGED <<host, pc, snap, child, outcome, made, held, requests, changes>>

Next ==
    \/ Request
    \/ get_status \/ get_cgroups \/ get_label
    \/ ApplyCgroups \/ MountNamespace \/ EnterChroot \/ EnterCwd
    \/ SetLabel \/ ApplyUserCaps \/ RunsShort \/ Perform
    \/ CallerChanges \/ SiblingChanges \/ CgroupChanges \/ Die

Spec == Init /\ [][Next]_vars

----------------------------------------------------------------------------
(* Properties.                                                             *)

TypeOK ==
    /\ host \in Hosts
    /\ pc \in {"idle", "get_status", "get_cgroups", "get_label",
               "apply_cgroups", "setns", "enter_chroot", "enter_cwd",
               "set_label", "user_caps", "syscall"}
    /\ proc \in [cred : host.creds, fs : FsStates, cg : host.groups,
                 life : {"alive", "zombie", "gone"}]
    /\ snap \in [status : host.creds, cg : host.groups,
                 umask : {DefaultUmask} \cup {f.umask : f \in FsStates},
                 label : {host.label} \cup {c.label : c \in host.creds}]
    /\ DOMAIN child = DOMAIN Daemon
    /\ child.effective \subseteq child.permitted
    /\ child.permitted \subseteq host.caps
    /\ outcome \in {"none", "error", "short", "made"}
    /\ made \in {{}, {child}}
    /\ held \in [cred : SUBSET host.creds, fs : SUBSET FsStates,
                 cg : SUBSET host.groups]
    /\ requests \in 0..MaxRequests /\ changes \in 0..MaxChanges

\* The ids and the capability sets of m are those of c.
SameIds(m, c) ==
    \A f \in {"euid", "egid", "fsuid", "fsgid", "inheritable", "permitted",
              "effective"} : m[f] = c[f]

\* The devices and v2 cgroups of m are those of g, where g has one.
SameGroups(m, g) ==
    /\ g.devices # None => m.devices = g.devices
    /\ g.v2 # None => m.v2 = g.v2

\* A label that refuses neither SETUID nor SETGID: otherwise set_label takes
\* away what the switch of the ids needs.
LetsIdsSwitch(l) == Denies[l] \cap {"SETUID", "SETGID"} = {}

\* The system call is made as the caller and in its surroundings, or not at
\* all: every part of what the child is when it makes the call, ids,
\* capabilities, label, mount namespace, root, cwd, umask and cgroups, is one
\* the caller had between sending this request and now.  Nothing of these is
\* left over from the daemon or from an earlier request, however the reads,
\* the caller's changes and its death interleave.  (Supplementary groups and
\* the user namespace are not switched: they stay the daemon's.)  A caller that
\* stays blocked keeps its credentials, so for it they are exactly its own.
EnteredIsTheCallers ==
    \A m \in made :
        /\ LetsIdsSwitch(m.label) => \E c \in held.cred : SameIds(m, c)
        /\ \E c \in held.cred : m.label \in {c.label, host.label}
                                /\ (m.label # c.label => c.label = NoLabel)
        /\ \E c \in held.cred : m.ns = c.ns
        /\ \E f \in held.fs : m.root = f.root
        /\ \E f \in held.fs : m.cwd = f.cwd
        /\ \E f \in held.fs : m.umask = f.umask
        /\ \E g \in held.cg : SameGroups(m, g)

\* The cgroups of a process and the mounts are those of one of the layouts of
\* systemd, legacy, hybrid and unified, and the kernel shows no other lines.
SystemdLayout(g) ==
    \/ host.mounts = {"devices/"} /\ g.v1 /\ g.v2 = None
    \/ host.mounts = {"devices/", "unified/"} /\ g.v1
    \/ host.mounts = {""} /\ ~g.v1 /\ g.devices = None

\* Why the switch may be refused.  The caller died, or it changed its cgroup
\* or label meanwhile and the one that was read has been removed; the cgroups
\* are not mounted as systemd does it (the FIXME of enter_cgroup: where v2 is
\* mounted is only guessed); the caller's label cannot be entered or refuses a
\* capability that the switch needs; the caller has capabilities the daemon
\* does not have.
Cause ==
    \/ ~Alive
    \/ \E g, k \in held.cg : g # k
    \/ \E c, d \in held.cred : c.label # d.label
    \/ \E g \in held.cg : ~SystemdLayout(g)
    \/ \E c \in held.cred : \/ c.label # NoLabel /\ c.label \notin host.enters
                            \/ Denies[c.label] # {}
                            \/ ~(c.permitted \subseteq host.caps)
                            \/ ~(c.inheritable \subseteq host.caps)

\* The switch is refused only for a cause.  In particular the order of the
\* steps never takes away what a later step needs, and the mount point guessed
\* for the v2 hierarchy is right in each of the layouts of systemd.  (A daemon
\* out of descriptors or memory is an outcome of its own.)
RefusedForCause == outcome = "error" => Cause

\* What the documentation of UserCaps says without a condition on the label:
\* "switch over our effective and file system uid and gid".  setfsuid and
\* setfsgid do not report that they changed nothing.
SwitchesFsIds ==
    \A m \in made : \E c \in held.cred : SameIds(m, c)

=============================================================================
